----------------------------- MODULE FileManager -----------------------------
(***************************************************************************)
(* file_manager/file_manage.c: two panes, each a directory, a window that  *)
(* shows a page of its entries and the number local of the current entry;  *)
(* one cursor row for both.  ENTER descends into a directory or runs the   *)
(* file in a child process, after which everything is drawn again.         *)
(*                                                                         *)
(* A child that can execute neither the file nor the editor returns into   *)
(* the loop: a second file manager, whose pane has the name of the file    *)
(* for its path, runs while its parent waits.                              *)
(*                                                                         *)
(* A path is what it leads to.  The file system does not change, and the   *)
(* names and paths fit into their arrays.                                  *)
(***************************************************************************)
EXTENDS Integers, Sequences

CONSTANTS
  Listing,   \* the entries of each directory, from ".." on (index 1)
  Home,      \* the directory the program is started in
  PageRows,  \* rows of a window (30)
  NotADir,   \* the path of a file, or of something beneath one
  MaxDepth   \* bound of the model: nested file managers

Dirs  == DOMAIN Listing
Sides == {0, 1}

ASSUME FileManagerAssumption ==
  /\ PageRows \in Nat \ {0}
  /\ Home \in Dirs /\ NotADir \notin Dirs
  /\ \A d \in Dirs : Len(Listing[d]) \in Nat \ {0} /\ Listing[d][1] \in Dirs
  /\ MaxDepth \in Nat

VARIABLES
  status,      \* "draw", "keys", "run" or "ended"
  paths,       \* list[side].path
  str,         \* list[side].str, from index 1
  poz,         \* list[side].poz: one more than the number of entries
  local,       \* list[side].local: the current entry
  row, side,   \* the cursor
  glob,        \* the path without the name of the file that is run
  shown,       \* the entries in each window, a range of indices
  tabbed,      \* history: side was left on a page other than its first
  parents      \* the file managers that wait for this one

pane == <<paths, str, poz, local, shown, tabbed>>
vars == <<status, pane, row, side, glob, parents>>

Paths == Dirs \cup {NotADir}

TypeOK ==
  /\ status \in {"draw", "keys", "run", "ended"}
  /\ paths \in [Sides -> Paths]
  /\ \A s \in Sides : \E d \in Dirs : str[s] = Listing[d]
  /\ poz \in [Sides -> Int]
  /\ status = "keys" => \A s \in Sides : poz[s] \in {-1, Len(str[s]) + 1}
  /\ local \in [Sides -> Nat \ {0}]
  /\ row \in 1 .. PageRows
  /\ side \in Sides
  /\ glob \in Paths
  /\ tabbed \in [Sides -> BOOLEAN]
  /\ \A i \in 1 .. Len(parents) :
       parents[i].paths \in [Sides -> Paths] /\ parents[i].side \in Sides

Init ==
  /\ status = "draw"
  /\ paths = [s \in Sides |-> Home]
  /\ str = [s \in Sides |-> Listing[Home]]   \* overwritten before it is read
  /\ poz = [s \in Sides |-> -1]
  /\ local = [s \in Sides |-> 1]
  /\ row = 1
  /\ side = 0
  /\ glob = Home
  /\ shown = [s \in Sides |-> {}]
  /\ tabbed = [s \in Sides |-> FALSE]
  /\ parents = <<>>

Least(a, b) == IF a <= b THEN a ELSE b

(* The loops that print entries: from first, as many as there are rows. *)
Page(first, n) == first .. Least(n - 1, first + PageRows - 1)

-----------------------------------------------------------------------------
(* The outer loop: both windows are made and filled.  scandir of a path that
   is no directory returns -1, and the entries of before stay in str. *)
Draw ==
  LET Entries(p) == IF paths[p] \in Dirs THEN Listing[paths[p]] ELSE str[p]
      n(p) == IF paths[p] \in Dirs THEN Len(Entries(p)) + 1 ELSE -1
  IN
  /\ status = "draw"
  /\ str' = [p \in Sides |-> Entries(p)]
  /\ poz' = [p \in Sides |-> n(p)]
  /\ local' = [p \in Sides |-> 1]
  /\ shown' = [p \in Sides |-> Page(1, n(p))]
  /\ tabbed' = [p \in Sides |-> FALSE]
  /\ row' = 1
  /\ status' = "keys"
  /\ UNCHANGED <<paths, side, glob, parents>>

Key == status = "keys"

(* KEY_BTAB: the other window is not drawn again. *)
Tab ==
  /\ Key
  /\ side' = 1 - side
  /\ row' = 1
  /\ local' = [local EXCEPT ![side'] = 1]
  /\ tabbed' = [tabbed EXCEPT ![side'] =
                    poz[side'] > 1 /\ 1 \notin shown[side']]
  /\ UNCHANGED <<status, paths, str, poz, glob, shown, parents>>

Redraw(first) ==
  /\ shown' = [shown EXCEPT ![side] = Page(first, poz[side])]
  /\ tabbed' = [tabbed EXCEPT ![side] = FALSE]

Step(by) ==
  /\ row' = row + by
  /\ local' = [local EXCEPT ![side] = @ + by]
  /\ UNCHANGED <<shown, tabbed>>

(* The page before the current entry. *)
PageUp ==
  /\ row = 1 /\ local[side] > 1
  /\ row' = PageRows
  /\ local' = [local EXCEPT ![side] = @ - 1]
  /\ Redraw(local[side] - PageRows)

(* KEY_UP; at the first entry the screen only flashes. *)
Up ==
  /\ Key
  /\ (row > 1 /\ Step(-1)) \/ PageUp
  /\ UNCHANGED <<status, paths, str, poz, side, glob, parents>>

(* A defective test that lets the cursor reach one row further. *)
OneRowMore == row < PageRows /\ local[side] < poz[side]

(* Whether there is another entry below on this page. *)
RowBelow ==
  IF poz[side] - 1 < PageRows
  THEN row < poz[side] - 1
  ELSE row < PageRows /\ local[side] < poz[side] - 1

(* A defective next page that forgets the cursor. *)
PageDownKeepsRow ==
  /\ poz[side] - 1 >= PageRows /\ local[side] < poz[side] - 1
  /\ row' = row
  /\ local' = [local EXCEPT ![side] = @ + 1]
  /\ Redraw(local'[side])

(* The page that begins with the next entry. *)
PageDown ==
  /\ poz[side] - 1 >= PageRows /\ local[side] < poz[side] - 1
  /\ row' = 1
  /\ local' = [local EXCEPT ![side] = @ + 1]
  /\ Redraw(local'[side])

(* KEY_DOWN. *)
Down ==
  /\ Key
  /\ IF RowBelow THEN Step(1) ELSE PageDown
  /\ UNCHANGED <<status, paths, str, poz, side, glob, parents>>

(* What list[side].path is with the current name appended. *)
Target == IF paths[side] \in Dirs THEN str[side][local[side]] ELSE NotADir

(* ENTER on a directory: its entries replace those of the pane. *)
Descend ==
  /\ Key
  /\ Target \in Dirs
  /\ paths' = [paths EXCEPT ![side] = Target]
  /\ str' = [str EXCEPT ![side] = Listing[Target]]
  /\ poz' = [poz EXCEPT ![side] = Len(Listing[Target]) + 1]
  /\ local' = [local EXCEPT ![side] = 1]
  /\ row' = 1
  /\ shown' = [shown EXCEPT ![side] = Page(1, Len(Listing[Target]) + 1)]
  /\ tabbed' = [tabbed EXCEPT ![side] = FALSE]
  /\ UNCHANGED <<status, side, glob, parents>>

(* ENTER on a file: out of the inner loop, with its name still in the path. *)
Execute ==
  /\ Key
  /\ Target \notin Dirs
  /\ paths' = [paths EXCEPT ![side] = NotADir]
  /\ glob' = paths[side]
  /\ status' = "run"
  /\ UNCHANGED <<str, poz, local, row, side, shown, tabbed, parents>>

(* A defective parent that leaves the file's name in its path. *)
ResumeUncut(p, s, prefix) ==
  /\ paths' = p
  /\ side' = s
  /\ status' = "draw"

(* The parent after wait: it cuts the name off and draws again. *)
Resume(p, s, prefix) ==
  /\ paths' = [p EXCEPT ![s] = prefix]
  /\ side' = s
  /\ status' = "draw"

(* The child executes the file or the editor, which returns. *)
Ran ==
  /\ status = "run"
  /\ Resume(paths, side, glob)
  /\ UNCHANGED <<str, poz, local, row, glob, shown, tabbed, parents>>

(* Neither can be executed: the child goes on with the outer loop. *)
Nest ==
  /\ status = "run"
  /\ Len(parents) < MaxDepth
  /\ parents' = Append(parents, [paths |-> paths, side |-> side, glob |-> glob,
                                 str |-> str])
  /\ status' = "draw"
  /\ UNCHANGED <<pane, row, side, glob>>

(* The key '~', or an uninitialised c that happens to be one: this file
   manager ends, and the one that waits for it goes on. *)
Quit ==
  /\ Key
  /\ IF parents = <<>>
     THEN status' = "ended" /\ UNCHANGED <<paths, str, side, glob, parents>>
     ELSE LET waiting == parents[Len(parents)] IN
          /\ Resume(waiting.paths, waiting.side, waiting.glob)
          /\ str' = waiting.str
          /\ glob' = waiting.glob
          /\ parents' = SubSeq(parents, 1, Len(parents) - 1)
  /\ UNCHANGED <<poz, local, row, shown, tabbed>>

Next == Draw \/ Tab \/ Up \/ Down \/ Descend \/ Execute \/ Ran \/ Nest \/ Quit

Spec == Init /\ [][Next]_vars

-----------------------------------------------------------------------------
(* Properties. *)

(* The cursor's row and the number of the current entry, which are counted
   separately, stay whole pages apart, and the entry exists; so the page that
   KEY_UP draws never begins before the first entry. *)
CursorTracksEntry ==
  Key /\ poz[side] > 1 =>
    /\ local[side] < poz[side]
    /\ local[side] >= row
    /\ (local[side] - row) % PageRows = 0

(* ENTER opens the entry the cursor stands on, except in a pane that was left
   by KEY_BTAB on a page other than its first and has not been drawn since:
   there it always opens another one. *)
OpensWhatItShows ==
  LET top == local[side] - row + 1   \* the entry that should be in row 1
  IN Key /\ poz[side] > 1 =>
       (tabbed[side] <=> ~ /\ {top, local[side]} \subseteq shown[side]
                           /\ \A i \in shown[side] : top <= i)

(* Only a file manager nested in another ever has a path that is not a
   directory, and the one that waited for it has both its paths back. *)
TopPathsAreDirectories ==
  status \in {"draw", "keys"} /\ parents = <<>> =>
    \A s \in Sides : paths[s] \in Dirs
=============================================================================
