---------------------------- MODULE ContactBook ----------------------------
(***************************************************************************)
(* The two contact books, heap/task.c (heap) and structures/task.c: a      *)
(* sorted array of contacts loaded from book.txt at the start and written  *)
(* back at the exit.  In between the file does not exist.                  *)
(*                                                                         *)
(* A contact's number ends with the newline of its line, or without one if *)
(* it was the last of a file that did not end with a newline (nl).  Saved  *)
(* anywhere but last, such a contact shares its line with the next one,    *)
(* and the line has too many words to be loaded.                           *)
(***************************************************************************)
EXTENDS Integers, Sequences, FiniteSets

CONSTANTS
  Names,       \* the names, as the numbers strcmp orders them by
  Surenames,
  Missing,     \* there is no book.txt
  FirstFiles,  \* what book.txt may be before the first start
  MaxSize,     \* CONTACT_SIZE, or what memory allows
  MaxAdds,     \* bound of the model: contacts added
  MaxStarts    \* bound of the model: how often the program is started

Contact == [name : Names, surename : Surenames, number : Int, nl : BOOLEAN]

(* The lines of a file, each the contacts that share it. *)
Files == Seq(Seq(Contact))

ASSUME ContactBookAssumption ==
  /\ Names \subseteq Nat
  /\ Missing \notin Files
  /\ FirstFiles \subseteq Files \cup {Missing}
  /\ MaxSize \in Nat /\ MaxAdds \in Nat /\ MaxStarts \in Nat

VARIABLES
  heap,    \* the program: heap/task.c or, if FALSE, structures/task.c
  file,    \* book.txt: its lines, or Missing
  phase,   \* "down", "loaded", "menu" or "saving"
  book,    \* book->arr up to book->size
  adds,    \* contacts added; also numbers them
  starts,  \* how often the program was started
  saved,   \* history: the book at the last exit, and whether there was one
  cut      \* history: a program ended with the file removed or half written

bookVars == <<heap, file, phase, book, adds, starts, saved, cut>>

BookTypeOK ==
  /\ heap \in BOOLEAN
  /\ file \in Files \cup {Missing}
  /\ phase \in {"down", "loaded", "menu", "saving"}
  /\ book \in Seq(Contact) /\ Len(book) <= MaxSize
  /\ adds \in 0 .. MaxAdds
  /\ starts \in 0 .. MaxStarts
  /\ saved \in [done : BOOLEAN, book : Seq(Contact)]
  /\ cut \in BOOLEAN

BookInit ==
  /\ heap \in BOOLEAN
  /\ file \in FirstFiles
  /\ phase = "down"
  /\ book = <<>>
  /\ adds = 0
  /\ starts = 0
  /\ saved = [done |-> FALSE, book |-> <<>>]
  /\ cut = FALSE

-----------------------------------------------------------------------------
(* The algorithms. *)

(* A defective comparison: <= 0 for < 0. *)
SwapIfNotMore(s, j) ==
  IF s[j].name <= s[j - 1].name
  THEN [s EXCEPT ![j] = s[j - 1], ![j - 1] = s[j]]
  ELSE s

(* Swap the neighbours j - 1 and j if they are out of order. *)
SwapIfLess(s, j) ==
  IF s[j].name < s[j - 1].name
  THEN [s EXCEPT ![j] = s[j - 1], ![j - 1] = s[j]]
  ELSE s

(* The inner loop, after the exchange of i and i + 1. *)
Carried(s, i) ==
  LET turn[j \in i .. Len(s)] ==
        IF j = i THEN SwapIfLess(s, i + 1) ELSE SwapIfLess(turn[j - 1], j)
  IN  turn[Len(s)]

(* One turn of the outer loop: place s[i] among the sorted s[i + 1], ... *)
Place(s, i) == IF s[i + 1].name < s[i].name THEN Carried(s, i) ELSE s

(* The outer loop, from the last but one contact down to the first. *)
Sort(s) ==
  LET turn[i \in 1 .. Len(s)] ==
        IF i = Len(s) THEN s ELSE Place(turn[i + 1], i)
  IN  turn[1]

Added(s, c) == Sort(Append(s, c))

Matches(c, key) == c.name = key[1] /\ c.surename = key[2]

(* A defective shift: the contact after the deleted one is dropped too. *)
DeleteAtBoth(s, i) == SubSeq(s, 1, i - 1) \o SubSeq(s, i + 2, Len(s))

(* Those behind i move down. *)
DeleteAt(s, i) ==
  [j \in 1 .. Len(s) - 1 |-> IF j < i THEN s[j] ELSE s[j + 1]]

(* One turn of del_sub's loop; a deleted contact is followed unseen by the
   next turn's i. *)
DeleteTurn(s, i, key) ==
  IF i <= Len(s) /\ Matches(s[i], key) THEN DeleteAt(s, i) ELSE s

DeletedAll(s, key) ==
  LET turn[i \in 0 .. Len(s)] ==
        IF i = 0 THEN s ELSE DeleteTurn(turn[i - 1], i, key)
  IN  turn[Len(s)]

(* heap/task.c leaves the loop after the first match. *)
DeletedFirst(s, key) ==
  LET hits == {i \in 1 .. Len(s) : Matches(s[i], key)}
  IN  IF hits = {} THEN s
      ELSE DeleteAt(s, CHOOSE i \in hits : \A j \in hits : i <= j)

Deleted(s, key) == IF heap THEN DeletedFirst(s, key) ELSE DeletedAll(s, key)

(* What the lines of the file become: only a line of three words counts, and
   heap/task.c sorts with every contact it adds. *)
LoadLine(s, line) ==
  IF Len(line) # 1 THEN s
  ELSE IF heap THEN Added(s, line[1]) ELSE Append(s, line[1])

Loaded(lines) ==
  LET turn[i \in 0 .. Len(lines)] ==
        IF i = 0 THEN <<>> ELSE LoadLine(turn[i - 1], lines[i])
  IN  turn[Len(lines)]

(* The line is still without its newline. *)
Open(line) == ~line[Len(line)].nl

(* fprintf of every contact: one that has no newline is followed on the same
   line by the next. *)
SaveContact(lines, c) ==
  IF lines # <<>> /\ Open(lines[Len(lines)])
  THEN [lines EXCEPT ![Len(lines)] = Append(@, c)]
  ELSE Append(lines, <<c>>)

(* A defective save that starts at index 1. *)
LinesFromOne(s) ==
  LET turn[i \in 0 .. Len(s)] ==
        IF i <= 1 THEN <<>> ELSE SaveContact(turn[i - 1], s[i])
  IN  turn[Len(s)]

Lines(s) ==
  LET turn[i \in 0 .. Len(s)] ==
        IF i = 0 THEN <<>> ELSE SaveContact(turn[i - 1], s[i])
  IN  turn[Len(s)]

-----------------------------------------------------------------------------
(* main. *)

Garbled(lines) == \E i \in 1 .. Len(lines) : Len(lines[i]) > 1

(* A defective load that removes the file while it reads it. *)
LoadRemoves ==
  /\ phase = "down"
  /\ starts < MaxStarts
  /\ file # Missing
  /\ Len(file) <= MaxSize
  /\ starts' = starts + 1
  /\ book' = Loaded(file)
  /\ file' = Missing
  /\ phase' = "loaded"
  /\ UNCHANGED <<heap, adds, saved, cut>>

Load ==
  /\ phase = "down"
  /\ starts < MaxStarts
  /\ file # Missing
  /\ Len(file) <= MaxSize
  /\ starts' = starts + 1
  /\ book' = Loaded(file)
  /\ phase' = "loaded"
  /\ UNCHANGED <<heap, file, adds, saved, cut>>

(* The process ends without writing the book. *)
Ends == /\ phase' = "down"
        /\ book' = <<>>
        /\ cut' = (cut \/ phase \in {"menu", "saving"})

(* fopen returned NULL and fgets is called with it; or a line of more words
   than heap/task.c's words[3] has overwritten the stack. *)
LoadFaults ==
  /\ phase = "down"
  /\ starts < MaxStarts
  /\ file # Missing => heap /\ Garbled(file)
  /\ starts' = starts + 1
  /\ Ends
  /\ UNCHANGED <<heap, file, adds, saved>>

RemoveFile ==
  /\ phase = "loaded"
  /\ file' = Missing
  /\ phase' = "menu"
  /\ UNCHANGED <<heap, book, adds, starts, saved, cut>>

(* The newline is added to the number by the program. *)
Entered(key, n) ==
  [name |-> key[1], surename |-> key[2], number |-> n, nl |-> TRUE]

Add(key) ==
  /\ phase = "menu"
  /\ adds < MaxAdds
  /\ Len(book) < MaxSize
  /\ adds' = adds + 1
  /\ book' = Added(book, Entered(key, adds'))
  /\ UNCHANGED <<heap, file, phase, starts, saved, cut>>

Delete(key) ==
  /\ phase = "menu"
  /\ book' = Deleted(book, key)
  /\ UNCHANGED <<heap, file, phase, adds, starts, saved, cut>>

(* Command 5: fopen(..., "w") creates the file or empties it. *)
Exit ==
  /\ phase = "menu"
  /\ file' = <<>>
  /\ phase' = "saving"
  /\ UNCHANGED <<heap, book, adds, starts, saved, cut>>

(* The loop of fprintf reaches the file with fclose. *)
Save ==
  /\ phase = "saving"
  /\ file' = Lines(book)
  /\ saved' = [done |-> TRUE, book |-> book]
  /\ book' = <<>>
  /\ phase' = "down"
  /\ cut' = FALSE
  /\ UNCHANGED <<heap, adds, starts>>

(* The user kills the program, or heap/task.c cannot allocate and returns. *)
Kill ==
  /\ phase # "down"
  /\ Ends
  /\ UNCHANGED <<heap, file, adds, starts, saved>>

BookNext ==
  \/ Load \/ LoadFaults \/ RemoveFile \/ Exit \/ Save \/ Kill
  \/ \E key \in Names \X Surenames : Add(key) \/ Delete(key)

BookSpec == BookInit /\ [][BookNext]_bookVars

-----------------------------------------------------------------------------
(* Properties. *)

InOrder(s) == \A i \in 1 .. Len(s) - 1 : s[i].name <= s[i + 1].name

(* How many contacts of s come no later than s[i] if names are put in order
   and equal names stay as they are. *)
Rank(s, i) ==
  Cardinality({j \in 1 .. Len(s) :
                 s[j].name < s[i].name \/ (s[j].name = s[i].name /\ j <= i)})

(* The reference for sort. *)
StablySorted(t, s) ==
  Len(t) = Len(s) /\ \A i \in 1 .. Len(s) : t[Rank(s, i)] = s[i]

(* However the book was built, an addition leaves it stably sorted, with the
   new contact after those of the same name: sort never loses, doubles or
   needlessly moves a contact, even in an array loaded unsorted. *)
AdditionSorts ==
  [][adds' = adds + 1 =>
       \E key \in Names \X Surenames :
         StablySorted(book', Append(book, Entered(key, adds')))]_bookVars

(* t is s without the contacts at the places gone. *)
Without(t, s, gone) ==
  /\ Len(t) = Len(s) - Cardinality(gone)
  /\ \A i \in 1 .. Len(s) \ gone :
       t[i - Cardinality({g \in gone : g < i})] = s[i]

(* A deletion keeps every other contact, in order, and removes at least one
   of those it is asked for, exactly one in heap/task.c (the scan of
   structures/task.c goes on, and misses the neighbour of each it deletes). *)
DeletionIsExact ==
  \A key \in Names \X Surenames :
    LET asked == {i \in 1 .. Len(book) : Matches(book[i], key)}
    IN  \E gone \in SUBSET asked :
          /\ Without(Deleted(book, key), book, gone)
          /\ asked # {} => gone # {}
          /\ heap => Cardinality(gone) <= 1

(* What one run saves the next run loads, contact for contact, if every
   contact but the last has its newline; so the loss is only ever next to a
   line that came without one. *)
ReloadsWhatWasSaved ==
  [][phase = "down" /\ phase' = "loaded" /\ saved.done /\ ~cut
     /\ (\A i \in 1 .. Len(saved.book) - 1 : saved.book[i].nl) =>
       book' = saved.book]_bookVars

(* A program that has once written its book can be started again: a start
   crashes only when a run before it ended between removing the file and
   writing it back, or, in heap/task.c, on the line two contacts share because
   one of those an ordinary exit saved before the last had no newline. *)
StartsAgain ==
  [][phase = "down" /\ starts' = starts + 1 /\ phase' = "down" =>
       \/ ~saved.done
       \/ cut
       \/ heap /\ \E i \in 1 .. Len(saved.book) - 1 :
                    ~saved.book[i].nl]_bookVars
=============================================================================
