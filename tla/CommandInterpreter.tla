------------------------- MODULE CommandInterpreter -------------------------
(***************************************************************************)
(* pipes/command_interpreter/cmd.c keeps the current directory twice: as   *)
(* the string "path" with the place of its last slash, cut and extended by *)
(* cd, and as the directory of the process, set by chdir, whose result is  *)
(* not looked at.  The prompt, "> file", and what commands are given as    *)
(* their argument follow the string.                                       *)
(*                                                                         *)
(* The string is the sequence of what stands behind each of its slashes,   *)
(* without the slash that strcat puts at its end: "/a/b/" is <<"a", "b">>, *)
(* "//" is <<"">> and "/" is <<>>.                                         *)
(***************************************************************************)
EXTENDS Integers, Sequences, SequencesExt

CONSTANTS
  DirNames,    \* of directories
  ClosedName,  \* a directory of this name may be read, but not entered
  TreeDepth,   \* bound of the model: of the tree of directories
  MaxPath      \* bound of the model: parts of the string

ASSUME CommandInterpreterAssumption ==
  /\ DirNames \cap {"", ".", ".."} = {}
  /\ TreeDepth \in Nat /\ MaxPath \in Nat \ {0}

Places    == UNION {[1 .. n -> DirNames] : n \in 0 .. TreeDepth}
Root      == <<>>
Nowhere   == <<"">>     \* no directory: a lookup failed, or it was removed
Parts     == DirNames \cup {"", ".", ".."}
Arguments == {<<p>> : p \in Parts \ {".."}} \cup (Parts \X Parts)

Tree(t) == /\ t \subseteq Places
           /\ Root \in t /\ \A d \in t \ {Root} : Front(d) \in t

VARIABLES
  path,          \* path
  poz_of_slesh,  \* the parts of path in front of its last slash
  cwd,           \* the directory of the process, or Nowhere when it was removed
  dirs,          \* the directories there are
  files,         \* the directories in which "> file" has made the file
  running

cmdVars == <<path, poz_of_slesh, cwd, dirs, files, running>>

Enterable(d) == d # Root => Last(d) # ClosedName

(* One part of a path further, from the directory d of the tree t. *)
Follow(t, d, part) ==
  IF d = Nowhere \/ part = "" THEN d
  ELSE IF ~Enterable(d) THEN Nowhere
  ELSE IF part = "." THEN d
  ELSE IF part = ".." THEN (IF d = Root THEN Root ELSE Front(d))
  ELSE IF Append(d, part) \in t THEN Append(d, part) ELSE Nowhere

(* The directory to which the parts p lead, one after the other. *)
Resolve(t, p) ==
  LET place[n \in 0 .. Len(p)] ==
        IF n = 0 THEN Root ELSE Follow(t, place[n - 1], p[n])
  IN  place[Len(p)]

Lookup(p) == Resolve(dirs, p)

(* The string does not begin with a slash only when it is empty. *)
chdir(p) ==
  cwd' = IF p # <<>> /\ Lookup(p) # Nowhere /\ Enterable(Lookup(p))
         THEN Lookup(p) ELSE cwd

find_last_slesh(p) == IF p = <<>> THEN 0 ELSE Len(p) - 1

(* The process is in a directory of the tree, or in one that was removed. *)
CmdTypeOK ==
  /\ path \in Seq(Parts)
  /\ poz_of_slesh = find_last_slesh(path)
  /\ Tree(dirs)
  /\ cwd \in dirs \cup {Nowhere}
  /\ files \subseteq dirs
  /\ running \in BOOLEAN

(* getcwd gives "/" for the root, which becomes "//". *)
CmdInit ==
  /\ dirs \in {t \in SUBSET Places : Tree(t)}
  /\ cwd \in {d \in dirs : \A n \in 0 .. Len(d) : Enterable(SubSeq(d, 1, n))}
  /\ path = IF cwd = Root THEN <<"">> ELSE cwd
  /\ poz_of_slesh = find_last_slesh(path)
  /\ files = {}
  /\ running = TRUE

-----------------------------------------------------------------------------
(* A defective cd .. that changes to the directory before it cuts the path. *)
CdUpTooEarly ==
  /\ running
  /\ path' = SubSeq(path, 1, poz_of_slesh)
  /\ chdir(path)
  /\ poz_of_slesh' = find_last_slesh(path')
  /\ UNCHANGED <<dirs, files, running>>

(* cd ..: the string is cut at its last slash and becomes the directory. *)
CdUp ==
  /\ running
  /\ path' = SubSeq(path, 1, poz_of_slesh)
  /\ chdir(path')
  /\ poz_of_slesh' = find_last_slesh(path')
  /\ UNCHANGED <<dirs, files, running>>

(* A defective cd that forgets the new last slash. *)
CdOnly(x) ==
  /\ running
  /\ Len(path) + Len(x) <= MaxPath
  /\ Lookup(path \o x) # Nowhere
  /\ chdir(path \o x)
  /\ path' = path \o x
  /\ UNCHANGED <<poz_of_slesh, dirs, files, running>>

(* cd with any other argument: opendir decides whether it is a directory. *)
Cd(x) ==
  /\ running
  /\ Len(path) + Len(x) <= MaxPath
  /\ Lookup(path \o x) # Nowhere
  /\ chdir(path \o x)
  /\ path' = path \o x
  /\ poz_of_slesh' = find_last_slesh(path')
  /\ UNCHANGED <<dirs, files, running>>

(* "> file" *)
Create ==
  /\ running
  /\ Lookup(path) # Nowhere /\ Enterable(Lookup(path))
  /\ files' = files \cup {Lookup(path)}
  /\ UNCHANGED <<path, poz_of_slesh, cwd, dirs, running>>

MakeDir(d) ==
  /\ d \in Places \ dirs /\ d # Root /\ Front(d) \in dirs
  /\ dirs' = dirs \cup {d}
  /\ UNCHANGED <<cwd, files>>

(* An empty directory can be removed, also when a process is in it. *)
RemoveDir(d) ==
  /\ d \in dirs \ (files \cup {Root})
  /\ \A e \in dirs \ {d} : ~IsPrefix(d, e)
  /\ dirs' = dirs \ {d}
  /\ cwd' = IF cwd = d THEN Nowhere ELSE cwd
  /\ UNCHANGED files

(* mkdir and rmdir, from /usr/bin, with a name behind the string as their
   argument. *)
Command(name) ==
  /\ running
  /\ Lookup(path) # Nowhere /\ Enterable(Lookup(path))
  /\ LET d == Append(Lookup(path), name) IN MakeDir(d) \/ RemoveDir(d)
  /\ UNCHANGED <<path, poz_of_slesh, running>>

(* Another program makes or removes a directory. *)
Elsewhere(d) ==
  /\ MakeDir(d) \/ RemoveDir(d)
  /\ UNCHANGED <<path, poz_of_slesh, running>>

CmdQuit ==
  /\ running
  /\ running' = FALSE
  /\ UNCHANGED <<path, poz_of_slesh, cwd, dirs, files>>

CmdNext ==
  \/ CdUp \/ Create \/ CmdQuit
  \/ \E x \in Arguments : Cd(x)
  \/ \E n \in DirNames : Command(n)
  \/ \E d \in Places : Elsewhere(d)

CmdSpec == CmdInit /\ [][CmdNext]_cmdVars

-----------------------------------------------------------------------------
(* Properties. *)

(* Does the prompt name the directory the process is in? *)
Agree == cwd # Nowhere /\ Lookup(path) = cwd

(* The prompt and the process part only when cd .. cuts the string down to
   nothing (chdir("") fails: from /a the prompt says / and the process
   stays in /a), when a directory may be read but not entered, or when
   directories are made or removed; whatever "..", "." and slashes are in the
   string. *)
PartInThreeWays ==
  [][Agree /\ ~Agree' =>
       \/ path' = <<>>
       \/ path' # path /\ ~Enterable(Lookup(path'))
       \/ dirs' # dirs]_cmdVars

(* cd .. goes up one directory when the last part of the string is a name
   that is not the only one: it takes back the last name, and neither the
   place of the slash nor an earlier ".." misleads it. *)
UpGoesUp ==
  [][/\ Agree
     /\ Len(path) > 1 /\ Len(path') < Len(path)
     /\ Last(path) \in DirNames
     => cwd' = Front(cwd)]_cmdVars
=============================================================================
