------------------------- MODULE FileManagerProofs -------------------------
(***************************************************************************)
(* Theorems about the three programs that work on files and directories:   *)
(* file_manager, for every tree of directories, every size of the windows  *)
(* and any number of nested file managers; the contact books of heap and   *)
(* structures, for every first file, size and number of contacts; and the  *)
(* command interpreter, for every tree and every length of its path.       *)
(***************************************************************************)
EXTENDS FileManager, ContactBook, CommandInterpreter, FiniteSetTheorems,
        FunctionTheorems, SequenceTheorems, TLAPS

Lists == {Listing[d] : d \in Dirs}

FileManagers == [paths : [Sides -> Paths], side : Sides, glob : Paths,
                 str : [Sides -> Lists]]

Kinds == /\ paths \in [Sides -> Paths]
         /\ str \in [Sides -> Lists]
         /\ side \in Sides
         /\ glob \in Paths
         /\ parents \in Seq(FileManagers)

(* The paths p become directories when the one of side s is cut to prefix. *)
Restorable(p, s, prefix) ==
  prefix \in Dirs /\ \A t \in Sides \ {s} : p[t] \in Dirs

(* The inductive invariant.  The first file manager has directories for its
   paths, or the name of a file to cut off one of them, while it runs the file
   or waits as the lowest of parents; the nested ones may have anything. *)
PathInv ==
  /\ Kinds
  /\ parents = <<>> =>
       IF status = "run"
       THEN Restorable(paths, side, glob)
       ELSE status # "ended" => \A s \in Sides : paths[s] \in Dirs
  /\ parents # <<>> =>
       Restorable(parents[1].paths, parents[1].side, parents[1].glob)

LEMMA PathInit == Init => PathInv
  BY FileManagerAssumption
     DEF Init, PathInv, Kinds, FileManagerAssumption, Lists, Sides, Paths

(* A sequence without its last element, as parents after a quit. *)
LEMMA WithoutLast ==
  ASSUME NEW S, NEW q \in Seq(S), q # <<>>
  PROVE  LET r == SubSeq(q, 1, Len(q) - 1)
         IN  /\ q[Len(q)] \in S
             /\ r \in Seq(S)
             /\ IF Len(q) = 1 THEN r = <<>> ELSE r # <<>> /\ r[1] = q[1]
  <1> DEFINE n == Len(q) - 1
             r == SubSeq(q, 1, n)
  <1>1. Len(q) \in Nat \ {0} /\ q[Len(q)] \in S
    OBVIOUS
  <1>2. 1 \in Int /\ n \in Nat /\ \A i \in 1 .. n : q[i] \in S
    BY <1>1
  <1> HIDE DEF n
  <1>3. /\ r \in Seq(S)
        /\ Len(r) = IF 1 <= n THEN n - 1 + 1 ELSE 0
        /\ \A i \in 1 .. n - 1 + 1 : r[i] = q[1 + i - 1]
    BY <1>2, SubSeqProperties
  <1> HIDE DEF r
  <1>4. Len(r) = n
    BY <1>2, <1>3
  <1>5. n # 0 => r[1] = q[1]
    BY <1>2, <1>3
  <1>6. n = 0 => r = <<>>
    BY <1>3, <1>4
  <1>7. n # 0 => r # <<>>
    BY <1>3, <1>4
  <1>8. n = 0 <=> Len(q) = 1
    BY <1>1 DEF n
  <1>9. /\ q[Len(q)] \in S /\ r \in Seq(S)
        /\ IF Len(q) = 1 THEN r = <<>> ELSE r # <<>> /\ r[1] = q[1]
    BY <1>1, <1>3, <1>5, <1>6, <1>7, <1>8
  <1> QED
    BY <1>9 DEF r, n

LEMMA PathNext == PathInv /\ [Next]_vars => PathInv'
  <1> SUFFICES ASSUME PathInv, [Next]_vars PROVE PathInv'
    OBVIOUS
  <1> USE FileManagerAssumption DEF FileManagerAssumption, PathInv, Kinds
  <1>1. CASE Draw
    <2>1. str' \in [Sides -> Lists]
      BY <1>1 DEF Draw, Lists
    <2> QED
      BY <1>1, <2>1 DEF Draw
  <1>2. CASE Tab \/ Up \/ Down
    <2>1. UNCHANGED <<status, paths, str, glob, parents>> /\ status # "run"
      BY <1>2 DEF Tab, Up, Down, Key
    <2>2. side' \in Sides
      BY <1>2 DEF Tab, Up, Down, Sides
    <2> QED
      BY <2>1, <2>2
  <1>3. CASE Descend
    <2>1. Target \in Dirs
      BY <1>3 DEF Descend
    <2> HIDE DEF Target
    <2> QED
      BY <1>3, <2>1 DEF Descend, Key, Lists, Paths
  <1>4. CASE Execute
    BY <1>4 DEF Execute, Key, Restorable, Paths
  <1>5. CASE Ran
    BY <1>5 DEF Ran, Resume, Restorable, Paths
  <1>6. CASE Nest
    <2> DEFINE this == [paths |-> paths, side |-> side, glob |-> glob,
                        str |-> str]
    <2>1. this \in FileManagers
      BY DEF FileManagers
    <2>2. parents' = Append(parents, this) /\ parents' # <<>>
      BY <1>6, <2>1 DEF Nest
    <2>3. CASE parents = <<>>
      <3>1. parents'[1] = this
        BY <2>1, <2>2, <2>3
      <3> QED
        BY <1>6, <2>1, <2>2, <2>3, <3>1 DEF Nest, pane
    <2>4. CASE parents # <<>>
      <3>1. parents'[1] = parents[1]
        BY <2>1, <2>2, <2>4
      <3> QED
        BY <1>6, <2>1, <2>2, <2>4, <3>1 DEF Nest, pane
    <2> QED
      BY <2>3, <2>4
  <1>7. CASE Quit
    <2>1. CASE parents = <<>>
      BY <1>7, <2>1 DEF Quit, Key
    <2>2. CASE parents # <<>>
      <3> DEFINE waiting == parents[Len(parents)]
      <3>1. /\ waiting \in FileManagers
            /\ SubSeq(parents, 1, Len(parents) - 1) \in Seq(FileManagers)
            /\ IF Len(parents) = 1
               THEN SubSeq(parents, 1, Len(parents) - 1) = <<>>
               ELSE /\ SubSeq(parents, 1, Len(parents) - 1) # <<>>
                    /\ SubSeq(parents, 1, Len(parents) - 1)[1] = parents[1]
        BY <2>2, WithoutLast
      <3>2. /\ paths' = [waiting.paths EXCEPT ![waiting.side] = waiting.glob]
            /\ side' = waiting.side /\ glob' = waiting.glob
            /\ str' = waiting.str /\ status' = "draw"
            /\ parents' = SubSeq(parents, 1, Len(parents) - 1)
        BY <1>7, <2>2 DEF Quit, Resume
      <3>3. Kinds'
        BY <3>1, <3>2, Zenon DEF FileManagers
      <3>4. CASE Len(parents) = 1
        <4>1. waiting = parents[1] /\ parents' = <<>>
          BY <3>1, <3>2, <3>4
        <4>2. \A s \in Sides : paths'[s] \in Dirs
          BY <2>2, <3>1, <3>2, <4>1 DEF FileManagers, Restorable
        <4> QED
          BY <3>2, <3>3, <4>1, <4>2
      <3>5. CASE Len(parents) # 1
        <4>1. parents'[1] = parents[1] /\ parents' # <<>>
          BY <3>1, <3>2, <3>5, Zenon
        <4> QED
          BY <2>2, <3>3, <4>1
      <3> QED
        BY <3>4, <3>5
    <2> QED
      BY <2>1, <2>2
  <1>8. CASE UNCHANGED vars
    BY <1>8 DEF vars, pane
  <1> QED
    BY <1>1, <1>2, <1>3, <1>4, <1>5, <1>6, <1>7, <1>8 DEF Next

(* However deep file managers are nested by executions that fail, and
   whatever files are run in between, the first one has both its paths back
   when it goes on: they are directories. *)
THEOREM PathsAreRestored == Spec => []TopPathsAreDirectories
  <1>1. PathInv => TopPathsAreDirectories
    BY DEF PathInv, TopPathsAreDirectories
  <1> QED
    BY <1>1, PathInit, PathNext, PTL DEF Spec

-----------------------------------------------------------------------------
(* The cursor. *)

Panes == /\ poz \in [Sides -> Int]
         /\ local \in [Sides -> Int]
         /\ row \in Int
         /\ shown \in [Sides -> SUBSET Int]
         /\ tabbed \in [Sides -> BOOLEAN]

Top(s) == local[s] - row + 1

(* A pane whose path is a directory has its ".." and shows a page of it. *)
Drawn(s) ==
  poz[s] # -1 =>
    /\ poz[s] >= 2
    /\ \E first \in Nat \ {0} : shown[s] = Page(first, poz[s])

(* In such a pane the cursor is on an entry, whole pages from its row; and the
   page it would be drawn on is the one in the window, unless KEY_BTAB has set
   it to the first entry while the window shows a later page. *)
CursorAt(s) ==
  poz[s] # -1 =>
    /\ row \in 1 .. PageRows
    /\ local[s] < poz[s]
    /\ \E pages \in Nat : local[s] = row + pages * PageRows
    /\ IF tabbed[s] THEN local[s] = row /\ 1 \notin shown[s]
       ELSE shown[s] = Page(Top(s), poz[s])

(* The inductive invariant.  CursorTracksEntry is not inductive: of the pane
   that KEY_BTAB leaves nothing is known but what its window shows. *)
CursorInv ==
  /\ Panes
  /\ Key => (\A s \in Sides : Drawn(s)) /\ CursorAt(side)

LEMMA CursorInit == Init => CursorInv
  BY DEF Init, CursorInv, Panes, Key

(* A row whole pages below the top is at a multiple of the page. *)
LEMMA WholePages ==
  ASSUME NEW pages \in Nat, NEW size \in Nat \ {0}
  PROVE  /\ (pages * size) % size = 0
         /\ pages * size \in Nat
         /\ (pages + 1) * size = pages * size + size
         /\ pages # 0 => /\ pages - 1 \in Nat
                         /\ pages * size = (pages - 1) * size + size
                         /\ pages * size >= size
  <1>1. (pages * size) % size = 0 /\ pages * size \in Nat
    OBVIOUS
  <1>2. (pages + 1) * size = pages * size + size
    OBVIOUS
  <1>3. ASSUME pages # 0
        PROVE  /\ pages - 1 \in Nat
               /\ pages * size = (pages - 1) * size + size
               /\ pages * size >= size
    <2>1. pages - 1 \in Nat /\ pages * size = (pages - 1) * size + size
      BY <1>3
    <2>2. (pages - 1) * size >= 0
      BY <2>1
    <2> QED BY <2>1, <2>2
  <1> QED BY <1>1, <1>2, <1>3

(* The first page of a directory, with the cursor on its first entry. *)
LEMMA FirstPage ==
  ASSUME PageRows \in Nat \ {0}, NEW n \in Nat, n >= 2
  PROVE  /\ \E first \in Nat \ {0} : Page(1, n) = Page(first, n)
         /\ \E pages \in Nat : 1 = 1 + pages * PageRows
         /\ 1 \in Page(1, n) /\ 1 \in 1 .. PageRows
  <1>1. 1 \in Page(1, n) /\ 1 \in 1 .. PageRows
    BY DEF Page, Least
  <1>2. \E pages \in Nat : 1 = 1 + pages * PageRows
    <2>1. 1 = 1 + 0 * PageRows
      OBVIOUS
    <2> QED BY <2>1
  <1> QED BY <1>1, <1>2

LEMMA PageType ==
  ASSUME NEW first \in Int, NEW n \in Int PROVE Page(first, n) \subseteq Int
  BY DEF Page

LEMMA CursorNext == PathInv /\ CursorInv /\ [Next]_vars => CursorInv'
  <1> SUFFICES ASSUME PathInv, CursorInv, [Next]_vars PROVE CursorInv'
    OBVIOUS
  <1> USE FileManagerAssumption DEF FileManagerAssumption, Panes
  <1>a. Panes /\ side \in Sides /\ str \in [Sides -> Lists]
    BY DEF CursorInv, PathInv, Kinds
  <1>b. Key => (\A s \in Sides : Drawn(s)) /\ CursorAt(side)
    BY DEF CursorInv
  <1>1. CASE Draw
    <2> DEFINE n(s) == poz'[s]
    <2>1. ASSUME NEW s \in Sides
          PROVE  n(s) = -1 \/ (n(s) \in Nat /\ n(s) >= 2)
      BY <1>1 DEF Draw
    <2>2. /\ poz' \in [Sides -> Int]
          /\ local' = [s \in Sides |-> 1] /\ row' = 1
          /\ shown' = [s \in Sides |-> Page(1, poz'[s])]
          /\ tabbed' = [s \in Sides |-> FALSE] /\ side' = side
      BY <1>1, <2>1 DEF Draw
    <2>3. Panes'
      BY <2>2, PageType
    <2>4. ASSUME NEW s \in Sides PROVE Drawn(s)'
      BY <2>1, <2>2, FirstPage DEF Drawn
    <2>5. CursorAt(side)'
      <3>1. shown'[side] = Page(1, poz'[side]) /\ ~tabbed'[side]
            /\ local'[side] = 1 /\ row' = 1 /\ local'[side] - row' + 1 = 1
        BY <1>a, <2>2
      <3>2. poz'[side] # -1 => poz'[side] \in Nat /\ poz'[side] >= 2
        BY <1>a, <2>1
      <3>3. ASSUME poz'[side] # -1
            PROVE  /\ row' \in 1 .. PageRows /\ local'[side] < poz'[side]
                   /\ \E pages \in Nat : local'[side] = row' + pages * PageRows
        BY <3>1, <3>2, <3>3, FirstPage
      <3>4. side' = side
        BY <2>2
      <3> QED BY <3>1, <3>3, <3>4 DEF CursorAt, Top
    <2> QED BY <2>3, <2>4, <2>5 DEF CursorInv
  <1>2. CASE Tab
    <2>1. /\ Key /\ side' \in Sides /\ row' = 1
          /\ local' = [local EXCEPT ![side'] = 1]
          /\ tabbed' = [tabbed EXCEPT ![side'] =
                           poz[side'] > 1 /\ 1 \notin shown[side']]
          /\ UNCHANGED <<poz, shown>>
      BY <1>2, <1>a DEF Tab, Sides
    <2>2. Panes'
      BY <1>a, <2>1
    <2>3. \A s \in Sides : Drawn(s)'
      BY <1>b, <2>1 DEF Drawn
    <2>4. CursorAt(side)'
      <3> SUFFICES ASSUME poz'[side'] # -1 PROVE CursorAt(side)'
        BY DEF CursorAt
      <3>1. /\ poz[side'] \in Nat /\ poz[side'] >= 2
            /\ local'[side'] = 1 /\ row' = 1
            /\ tabbed'[side'] = (1 \notin shown'[side'])
        BY <1>a, <1>b, <2>1 DEF Drawn
      <3>2. PICK first \in Nat \ {0} : shown'[side'] = Page(first, poz'[side'])
        BY <2>1, <2>3 DEF Drawn
      <3>3. 1 \in shown'[side'] => first = 1
        BY <3>2 DEF Page
      <3>4. /\ row' \in 1 .. PageRows /\ local'[side'] < poz'[side']
            /\ \E pages \in Nat : local'[side'] = row' + pages * PageRows
        BY <2>1, <3>1, FirstPage
      <3>5. /\ tabbed'[side'] => local'[side'] = row' /\ 1 \notin shown'[side']
            /\ ~tabbed'[side'] => shown'[side'] = Page(1, poz'[side'])
        BY <3>1, <3>2, <3>3
      <3>6. Top(side)' = 1
        BY <3>1 DEF Top
      <3> QED BY <3>4, <3>5, <3>6 DEF CursorAt
    <2> QED BY <2>2, <2>3, <2>4 DEF CursorInv
  <1>3. ASSUME NEW by \in {-1, 1}, Key, Step(by),
               UNCHANGED <<status, poz, side>>,
               by = -1 => row > 1, by = 1 => RowBelow
        PROVE  CursorInv'
    <2>1. /\ row' = row + by
          /\ local' = [local EXCEPT ![side] = @ + by]
          /\ UNCHANGED <<shown, tabbed>>
          /\ local'[side] = local[side] + by
      BY <1>3, <1>a DEF Step
    <2>2. Panes'
      BY <1>a, <2>1, <1>3
    <2>3. \A s \in Sides : Drawn(s)'
      BY <1>3, <1>b, <2>1 DEF Drawn
    <2>4. CursorAt(side)'
      <3> SUFFICES ASSUME poz[side] # -1 PROVE CursorAt(side)'
        BY <1>3 DEF CursorAt
      <3>1. CursorAt(side) /\ Drawn(side)
        BY <1>3, <1>a, <1>b
      <3>2. PICK pages \in Nat : local[side] = row + pages * PageRows
        BY <3>1 DEF CursorAt
      <3>3. /\ pages * PageRows \in Nat
            /\ pages # 0 => pages * PageRows >= PageRows
            /\ pages = 0 => pages * PageRows = 0
        BY WholePages
      <3>4. /\ row \in 1 .. PageRows /\ local[side] < poz[side]
            /\ poz[side] \in Int /\ local[side] \in Int
        BY <1>a, <3>1 DEF CursorAt
      <3>5. row' \in 1 .. PageRows /\ local'[side] < poz[side]
        <4> DEFINE l == local[side]
                   q == poz[side]
        <4>1. row' = row + by /\ local'[side] = l + by
          BY <2>1
        <4>2. by = 1 => \/ q - 1 < PageRows /\ row < q - 1
                        \/ row < PageRows /\ l < q - 1
          BY <1>3 DEF RowBelow
        <4>3. /\ l = row + pages * PageRows /\ l < q
              /\ q \in Int /\ l \in Int /\ row \in 1 .. PageRows
          BY <3>2, <3>4
        <4> DEFINE m == pages * PageRows
        <4>4. /\ l = row + m /\ m \in Nat /\ PageRows \in Nat
              /\ m = 0 \/ m >= PageRows
          BY <1>a, <3>3, <4>3
        <4> HIDE DEF l, q, m
        <4>5. row + by \in 1 .. PageRows /\ l + by < q
          <5>1. CASE by = 1
            BY <4>2, <4>3, <4>4, <5>1
          <5>2. CASE by = -1
            <6>1. row > 1
              BY <1>3, <5>2
            <6> QED
              BY <4>3, <4>4, <5>2, <6>1
          <5> QED
            BY <5>1, <5>2
        <4> QED
          BY <4>1, <4>5 DEF q
      <3>6. local'[side] = row' + pages * PageRows
            /\ Top(side)' = Top(side)
            /\ (local[side] = row => local'[side] = row')
        BY <1>3, <2>1, <3>2, <3>3, <3>4 DEF Top
      <3>7. /\ tabbed'[side] => local'[side] = row' /\ 1 \notin shown'[side]
            /\ ~tabbed'[side] => shown'[side] = Page(Top(side)', poz[side])
        BY <2>1, <3>1, <3>6 DEF CursorAt
      <3> QED BY <1>3, <3>5, <3>6, <3>7 DEF CursorAt
    <2> QED BY <1>3, <2>2, <2>3, <2>4 DEF CursorInv
  <1>4. ASSUME Key, NEW first \in Int, NEW to \in {1, PageRows},
               NEW by \in {-1, 1}, Redraw(first), row' = to,
               local' = [local EXCEPT ![side] = @ + by],
               UNCHANGED <<status, poz, side>>,
               poz[side] # -1 =>
                 /\ first \in Nat \ {0} /\ local[side] + by < poz[side]
                 /\ first = local[side] + by - to + 1
                 /\ \E pages \in Nat :
                      local[side] + by = to + pages * PageRows
        PROVE  CursorInv'
    <2>1. /\ shown' = [shown EXCEPT ![side] = Page(first, poz[side])]
          /\ tabbed' = [tabbed EXCEPT ![side] = FALSE]
          /\ local'[side] = local[side] + by /\ ~tabbed'[side]
          /\ shown'[side] = Page(first, poz[side])
      BY <1>4, <1>a DEF Redraw
    <2>2. Panes'
      BY <1>a, <1>4, <2>1, PageType
    <2>3. \A s \in Sides : Drawn(s)'
      BY <1>4, <1>a, <1>b, <2>1 DEF Drawn
    <2>4. CursorAt(side)'
      <3> SUFFICES ASSUME poz[side] # -1 PROVE CursorAt(side)'
        BY <1>4 DEF CursorAt
      <3>a. PICK pages \in Nat : local[side] + by = to + pages * PageRows
        BY <1>4
      <3>b. /\ local[side] \in Int /\ by \in Int /\ to \in 1 .. PageRows
            /\ row' = to /\ side' = side
        BY <1>a, <1>4
      <3>1. /\ row' \in 1 .. PageRows /\ local'[side] < poz[side]
            /\ local'[side] = row' + pages * PageRows
        BY <1>4, <2>1, <3>a, <3>b
      <3>2. Top(side)' = first
        <4>1. Top(side)' = local[side] + by - to + 1
          BY <2>1, <3>b DEF Top
        <4> QED BY <1>4, <4>1
      <3> QED BY <1>4, <2>1, <3>1, <3>2 DEF CursorAt
    <2> QED BY <1>4, <2>2, <2>3, <2>4 DEF CursorInv
  <1>5. CASE Up
    <2>1. CASE row > 1 /\ Step(-1)
      BY <1>3, <1>5, <2>1 DEF Up
    <2>2. CASE PageUp
      <3>1. ASSUME poz[side] # -1
            PROVE  /\ local[side] - PageRows \in Nat \ {0}
                   /\ local[side] - 1 < poz[side]
                   /\ \E pages \in Nat :
                        local[side] - 1 = PageRows + pages * PageRows
        <4>1. CursorAt(side) /\ row = 1 /\ local[side] > 1
          BY <1>5, <1>b, <2>2 DEF Up, PageUp
        <4>2. PICK pages \in Nat : local[side] = row + pages * PageRows
          BY <3>1, <4>1 DEF CursorAt
        <4>3. pages # 0
          BY <4>1, <4>2
        <4>4. /\ pages - 1 \in Nat /\ pages * PageRows \in Nat
              /\ pages * PageRows = (pages - 1) * PageRows + PageRows
              /\ pages * PageRows >= PageRows
          BY <4>3, WholePages
        <4>5. (pages - 1) * PageRows \in Nat
          BY <4>4, WholePages
        <4>6. local[side] - 1 = PageRows + (pages - 1) * PageRows
          BY <4>1, <4>2, <4>4, <4>5
        <4>7. local[side] - PageRows \in Nat \ {0}
          BY <4>1, <4>2, <4>4
        <4>8. local[side] - 1 < poz[side]
          BY <1>a, <3>1, <4>1 DEF CursorAt
        <4> QED BY <4>4, <4>6, <4>7, <4>8
      <3>2. local[side] \in Int /\ local[side] - PageRows \in Int
            /\ local[side] - PageRows = local[side] + -1 - PageRows + 1
            /\ local[side] - 1 = local[side] + -1
        BY <1>a
      <3> QED BY <1>4, <1>5, <2>2, <3>1, <3>2 DEF Up, PageUp
    <2> QED BY <1>5, <2>1, <2>2 DEF Up
  <1>6. CASE Down
    <2>1. CASE RowBelow
      BY <1>3, <1>6, <2>1 DEF Down
    <2>2. CASE ~RowBelow /\ PageDown
      <3>1. ASSUME poz[side] # -1
            PROVE  /\ local[side] + 1 \in Nat \ {0}
                   /\ local[side] + 1 < poz[side]
                   /\ \E pages \in Nat :
                        local[side] + 1 = 1 + pages * PageRows
        <4>1. /\ CursorAt(side) /\ local[side] < poz[side] - 1
              /\ poz[side] - 1 >= PageRows
          BY <1>6, <1>b, <2>2 DEF Down, PageDown
        <4>2. PICK pages \in Nat : local[side] = row + pages * PageRows
          BY <3>1, <4>1 DEF CursorAt
        <4>3. row = PageRows
          BY <1>a, <2>2, <3>1, <4>1 DEF RowBelow, CursorAt
        <4>4. /\ pages + 1 \in Nat /\ pages * PageRows \in Nat
              /\ (pages + 1) * PageRows = pages * PageRows + PageRows
          BY WholePages
        <4>5. (pages + 1) * PageRows \in Nat
          BY <4>4
        <4>6. local[side] + 1 = 1 + (pages + 1) * PageRows
          BY <4>2, <4>3, <4>4, <4>5
        <4>7. local[side] + 1 \in Nat \ {0}
          BY <4>5, <4>6
        <4>8. local[side] + 1 < poz[side]
          BY <1>a, <4>1
        <4> QED BY <4>4, <4>6, <4>7, <4>8
      <3>2. /\ local[side] \in Int /\ local[side] + 1 \in Int
            /\ local[side] + 1 = local[side] + 1 - 1 + 1
            /\ Redraw(local[side] + 1) /\ row' = 1
            /\ local' = [local EXCEPT ![side] = @ + 1]
            /\ Key /\ UNCHANGED <<status, poz, side>>
        BY <1>a, <1>6, <2>2 DEF Down, PageDown
      <3> QED BY <1>4, <3>1, <3>2
    <2> QED BY <1>6, <2>1, <2>2 DEF Down
  <1>7. CASE Descend
    <2> DEFINE n == Len(Listing[Target]) + 1
    <2>1. n \in Nat /\ n >= 2
      BY <1>7 DEF Descend
    <2>2. /\ Key /\ side' = side /\ row' = 1
          /\ poz' = [poz EXCEPT ![side] = n]
          /\ local' = [local EXCEPT ![side] = 1]
          /\ shown' = [shown EXCEPT ![side] = Page(1, n)]
          /\ tabbed' = [tabbed EXCEPT ![side] = FALSE]
      BY <1>7 DEF Descend
    <2> HIDE DEF n
    <2>3. Panes'
      BY <1>a, <2>1, <2>2, PageType
    <2>4. \A s \in Sides : Drawn(s)'
      BY <1>a, <1>b, <2>1, <2>2, FirstPage DEF Drawn
    <2>5. /\ poz'[side] = n /\ local'[side] = 1 /\ shown'[side] = Page(1, n)
          /\ ~tabbed'[side] /\ local'[side] - row' + 1 = 1
      BY <1>a, <2>2
    <2>6. CursorAt(side)'
      BY <2>1, <2>2, <2>5, FirstPage DEF CursorAt, Top
    <2> QED BY <2>3, <2>4, <2>6 DEF CursorInv
  <1>8. CASE Execute \/ Ran \/ Nest \/ Quit
    <2>1. UNCHANGED <<poz, local, row, shown, tabbed>> /\ status' # "keys"
      BY <1>8 DEF Execute, Ran, Nest, Quit, Resume, pane
    <2> QED BY <1>a, <2>1 DEF CursorInv, Key
  <1>9. CASE UNCHANGED vars
    <2>1. UNCHANGED <<status, side, poz, local, row, shown, tabbed>>
      BY <1>9 DEF vars, pane
    <2> QED BY <1>a, <1>b, <2>1 DEF CursorInv, Key, Drawn, CursorAt, Top
  <1> QED
    BY <1>1, <1>2, <1>5, <1>6, <1>7, <1>8, <1>9 DEF Next

LEMMA CursorAlways == Spec => [](PathInv /\ CursorInv)
  <1> QED BY PathInit, PathNext, CursorInit, CursorNext, PTL DEF Spec

(* In directories of every size, fewer, as many or more entries than rows, the
   cursor stays on an entry and whole pages from its row. *)
THEOREM CursorIsRight == Spec => []CursorTracksEntry
  <1>1. PathInv /\ CursorInv => CursorTracksEntry
    <2> SUFFICES ASSUME PathInv, CursorInv, Key, poz[side] > 1
                 PROVE  /\ local[side] < poz[side]
                        /\ local[side] >= row
                        /\ (local[side] - row) % PageRows = 0
      BY DEF CursorTracksEntry
    <2>1. CursorAt(side) /\ poz[side] # -1 /\ PageRows \in Nat \ {0}
      BY FileManagerAssumption DEF CursorInv, FileManagerAssumption
    <2>2. PICK pages \in Nat : local[side] = row + pages * PageRows
      BY <2>1 DEF CursorAt
    <2>3. pages * PageRows \in Nat /\ (pages * PageRows) % PageRows = 0
      BY <2>1, WholePages
    <2>4. row \in Int /\ local[side] < poz[side]
      BY <2>1 DEF CursorAt
    <2>5. local[side] - row = pages * PageRows /\ local[side] >= row
      BY <2>2, <2>3, <2>4
    <2> QED BY <2>3, <2>4, <2>5
  <1> QED BY <1>1, CursorAlways, PTL

(* Whatever pages the panes were left on, ENTER opens the entry under the
   cursor, and another one exactly in a pane left by KEY_BTAB on a page other
   than its first. *)
THEOREM OpensRight == Spec => []OpensWhatItShows
  <1>1. PathInv /\ CursorInv => OpensWhatItShows
    <2> SUFFICES ASSUME PathInv, CursorInv, Key, poz[side] > 1
                 PROVE  tabbed[side] <=>
                          ~ /\ {Top(side), local[side]} \subseteq shown[side]
                            /\ \A i \in shown[side] : Top(side) <= i
      BY DEF OpensWhatItShows, Top
    <2>1. CursorAt(side) /\ poz[side] # -1 /\ PageRows \in Nat \ {0}
      BY FileManagerAssumption DEF CursorInv, FileManagerAssumption
    <2>2. /\ row \in 1 .. PageRows /\ local[side] \in Int
          /\ local[side] < poz[side] /\ poz[side] \in Int
          /\ tabbed[side] \in BOOLEAN
      BY <2>1 DEF CursorAt, CursorInv, Panes, PathInv, Kinds
    <2>3. CASE tabbed[side]
      BY <2>1, <2>2, <2>3 DEF CursorAt, Top
    <2>4. CASE ~tabbed[side]
      <3>1. shown[side] = Page(Top(side), poz[side])
        BY <2>1, <2>4 DEF CursorAt
      <3>3. /\ Top(side) \in Int /\ Top(side) <= local[side]
            /\ local[side] <= Top(side) + PageRows - 1
        BY <2>1, <2>2 DEF Top
      <3>4. {Top(side), local[side]} \subseteq Page(Top(side), poz[side])
        BY <2>1, <2>2, <3>3 DEF Page, Least
      <3>5. \A i \in Page(Top(side), poz[side]) : Top(side) <= i
        BY <3>3 DEF Page
      <3> QED BY <2>4, <3>1, <3>4, <3>5
    <2> QED BY <2>3, <2>4
  <1> QED BY <1>1, CursorAlways, PTL

-----------------------------------------------------------------------------
(* The contact books.  Their loops are recursive functions over the turns;  *)
(* CountUp, and LoopUp and LoopDown from it, say that such a function has   *)
(* its defining equation and keeps its invariant for a loop of any length.  *)

Contacts == Seq(Contact)

(* Counting up reaches every number: were n not in A, adding one would map the
   members of A below n into themselves without the first. *)
LEMMA CountUp ==
  ASSUME NEW lo \in Int, NEW hi \in Int, NEW A, lo \in A,
         \A n \in lo .. hi - 1 : n \in A => n + 1 \in A,
         NEW m \in lo .. hi
  PROVE  m \in A
  <1> SUFFICES ASSUME m \notin A PROVE FALSE
    OBVIOUS
  <1> DEFINE B == {n \in lo .. m : n \in A}
             f == [n \in B |-> n + 1]
  <1>1. IsFiniteSet(B) /\ IsFiniteSet(B \ {lo})
    <2>1. IsFiniteSet(lo .. m)
      BY FS_Interval
    <2> QED
      BY <2>1, FS_Subset
  <1>2. f \in Injection(B, B \ {lo})
    <2>1. \A n \in B : n + 1 \in B \ {lo}
      OBVIOUS
    <2>2. f \in [B -> B \ {lo}]
      BY <2>1
    <2>3. \A x, y \in B : f[x] = f[y] => x = y
      OBVIOUS
    <2> QED
      BY <2>2, <2>3 DEF Injection, IsInjective
  <1>3. Cardinality(B) <= Cardinality(B \ {lo})
    BY <1>1, <1>2, FS_Injection
  <1>4. Cardinality(B \ {lo}) = Cardinality(B) - 1
    <2>1. lo \in B
      OBVIOUS
    <2> HIDE DEF B
    <2> QED
      BY <1>1, <2>1, FS_RemoveElement
  <1>5. Cardinality(B) \in Nat
    BY <1>1, FS_CardinalityType
  <1> QED
    BY <1>3, <1>4, <1>5

(* The same for counting down: mirror A. *)
LEMMA CountDown ==
  ASSUME NEW lo \in Int, NEW hi \in Int, NEW A, hi \in A,
         \A n \in lo + 1 .. hi : n \in A => n - 1 \in A,
         NEW m \in lo .. hi
  PROVE  m \in A
  <1> DEFINE B == {n \in lo .. hi : lo + hi - n \in A}
  <1>1. lo \in B
    OBVIOUS
  <1>2. \A n \in lo .. hi - 1 : n \in B => n + 1 \in B
    <2> SUFFICES ASSUME NEW n \in lo .. hi - 1, lo + hi - n \in A
                 PROVE  lo + hi - (n + 1) \in A
      OBVIOUS
    <2>1. /\ (lo + hi - n) \in lo + 1 .. hi
          /\ (lo + hi - n) - 1 = lo + hi - (n + 1)
      OBVIOUS
    <2> QED
      BY <2>1
  <1>3. lo + hi - m \in lo .. hi
    OBVIOUS
  <1> HIDE DEF B
  <1>4. lo + hi - m \in B
    BY <1>1, <1>2, <1>3, CountUp
  <1> QED
    BY <1>4 DEF B

(* A loop from lo up to hi, or from hi down to lo, that starts with b and in
   whose turn n an x becomes step[n][x]: g has what each turn leaves. *)
RunsUp(g, lo, hi, b, step) ==
  g[lo] = b /\ \A n \in lo + 1 .. hi : g[n] = step[n][g[n - 1]]

RunsDown(g, lo, hi, b, step) ==
  g[hi] = b /\ \A n \in lo .. hi - 1 : g[n] = step[n][g[n + 1]]

(* Such a function exists, so the model's loops are what their equations say. *)
LEMMA LoopUp ==
  ASSUME NEW S, NEW lo \in Int, NEW hi \in Int, lo <= hi, NEW b \in S,
         NEW step \in [lo .. hi -> [S -> S]]
  PROVE  \E g \in [lo .. hi -> S] : RunsUp(g, lo, hi, b, step)
  <1> DEFINE A == {m \in lo .. hi :
                     \E g \in [lo .. hi -> S] : RunsUp(g, lo, m, b, step)}
  <1>1. lo \in A
    <2> DEFINE g == [n \in lo .. hi |-> b]
    <2>1. g \in [lo .. hi -> S]
      OBVIOUS
    <2>2. RunsUp(g, lo, lo, b, step)
      BY DEF RunsUp
    <2> HIDE DEF g
    <2> QED
      BY <2>1, <2>2
  <1>2. ASSUME NEW m \in lo .. hi - 1, m \in A PROVE m + 1 \in A
    <2>1. PICK g \in [lo .. hi -> S] : RunsUp(g, lo, m, b, step)
      BY <1>2
    <2> DEFINE h == [g EXCEPT ![m + 1] = step[m + 1][g[m]]]
    <2>2. h \in [lo .. hi -> S]
      OBVIOUS
    <2>3. h[m + 1] = step[m + 1][g[m]] /\ \A n \in lo .. m : h[n] = g[n]
      OBVIOUS
    <2> HIDE DEF h
    <2>4. h[lo] = b
      BY <2>1, <2>3 DEF RunsUp
    <2>5. ASSUME NEW n \in lo + 1 .. m + 1 PROVE h[n] = step[n][h[n - 1]]
      <3>1. CASE n = m + 1
        BY <2>3, <3>1
      <3>2. CASE n # m + 1
        <4>1. n \in lo + 1 .. m /\ n \in lo .. m /\ n - 1 \in lo .. m
          BY <3>2
        <4> QED
          BY <2>1, <2>3, <4>1 DEF RunsUp
      <3> QED
        BY <3>1, <3>2
    <2>6. RunsUp(h, lo, m + 1, b, step)
      BY <2>4, <2>5 DEF RunsUp
    <2>7. m + 1 \in lo .. hi
      OBVIOUS
    <2> QED
      BY <2>2, <2>6, <2>7
  <1>3. hi \in lo .. hi
    OBVIOUS
  <1> HIDE DEF A
  <1>4. hi \in A
    BY <1>1, <1>2, <1>3, CountUp
  <1> QED
    BY <1>4 DEF A

LEMMA LoopDown ==
  ASSUME NEW S, NEW lo \in Int, NEW hi \in Int, lo <= hi, NEW b \in S,
         NEW step \in [lo .. hi -> [S -> S]]
  PROVE  \E g \in [lo .. hi -> S] : RunsDown(g, lo, hi, b, step)
  <1> DEFINE back == [n \in lo .. hi |-> step[lo + hi - n]]
  <1>1. back \in [lo .. hi -> [S -> S]]
    OBVIOUS
  <1> HIDE DEF back
  <1>2. PICK g \in [lo .. hi -> S] : RunsUp(g, lo, hi, b, back)
    BY <1>1, LoopUp
  <1> DEFINE h == [n \in lo .. hi |-> g[lo + hi - n]]
  <1>3. h \in [lo .. hi -> S] /\ h[hi] = b
    BY <1>2 DEF RunsUp
  <1>4. ASSUME NEW n \in lo .. hi - 1 PROVE h[n] = step[n][h[n + 1]]
    <2> DEFINE k == lo + hi - n
    <2>1. k \in lo + 1 .. hi /\ k - 1 = lo + hi - (n + 1) /\ lo + hi - k = n
      OBVIOUS
    <2>2. h[n] = g[k] /\ h[n + 1] = g[k - 1] /\ back[k] = step[n]
      BY <2>1 DEF back
    <2> HIDE DEF k, h
    <2> QED
      BY <1>2, <2>1, <2>2 DEF RunsUp
  <1> HIDE DEF h
  <1> QED
    BY <1>3, <1>4 DEF RunsDown

-----------------------------------------------------------------------------
(* The inner loop. *)

(* The sequences of contacts as long as s. *)
AsLong(s) == {t \in Contacts : Len(t) = Len(s)}

(* An exchange of neighbours keeps the array one of as many contacts. *)
LEMMA SwapType ==
  ASSUME NEW s \in Contacts, NEW j \in 2 .. Len(s)
  PROVE  SwapIfLess(s, j) \in AsLong(s)
  BY DEF SwapIfLess, AsLong, Contacts

(* The arrays after each turn of the inner loop. *)
LEMMA CarriedIs ==
  ASSUME NEW s \in Contacts, NEW i \in 1 .. Len(s) - 1
  PROVE  \E turn \in [i .. Len(s) -> AsLong(s)] :
           /\ turn[i] = SwapIfLess(s, i + 1)
           /\ \A j \in i + 1 .. Len(s) : turn[j] = SwapIfLess(turn[j - 1], j)
           /\ Carried(s, i) = turn[Len(s)]
  <1> DEFINE n == Len(s)
             S == AsLong(s)
             b == SwapIfLess(s, i + 1)
             Turn(g, j) == IF j = i THEN b ELSE SwapIfLess(g[j - 1], j)
             step == [j \in i .. n |->
                        [t \in S |-> IF j = i THEN t ELSE SwapIfLess(t, j)]]
  <1>0. n \in Int /\ i \in Int /\ i <= n /\ i \in 1 .. n - 1
    BY DEF Contacts
  <1>1. b \in S
    BY SwapType
  <1>2. ASSUME NEW j \in i + 1 .. n, NEW t \in S PROVE SwapIfLess(t, j) \in S
    <2>1. t \in Contacts /\ Len(t) = Len(s) /\ j \in 2 .. Len(t)
      BY DEF AsLong
    <2> QED
      BY <2>1, SwapType DEF AsLong
  <1>3. Carried(s, i) =
          (CHOOSE g : g = [j \in i .. n |-> Turn(g, j)])[n]
    BY DEF Carried
  <1> HIDE DEF n, S, b
  <1>4. \E g : g = [j \in i .. n |-> Turn(g, j)]
    <2>1. step \in [i .. n -> [S -> S]]
      BY <1>0, <1>2
    <2> HIDE DEF step
    <2>2. PICK g \in [i .. n -> S] : RunsUp(g, i, n, b, step)
      BY <1>0, <1>1, <2>1, LoopUp
    <2>3. ASSUME NEW j \in i .. n PROVE g[j] = Turn(g, j)
      <3>1. CASE j = i
        BY <2>2, <3>1 DEF RunsUp
      <3>2. CASE j # i
        <4>1. j \in i + 1 .. n /\ j - 1 \in i .. n
          BY <1>0, <3>2
        <4>2. g[j - 1] \in S /\ g[j] = step[j][g[j - 1]]
          BY <2>2, <4>1 DEF RunsUp
        <4> QED
          BY <3>2, <4>2 DEF step
      <3> QED
        BY <3>1, <3>2
    <2> HIDE DEF Turn
    <2> QED
      BY <2>2, <2>3
  <1>5. PICK g : g = [j \in i .. n |-> Turn(g, j)] /\ Carried(s, i) = g[n]
    BY <1>3, <1>4
  <1>6. /\ g[i] = b
        /\ \A j \in i + 1 .. n : g[j] = SwapIfLess(g[j - 1], j)
    BY <1>0, <1>5
  <1>7. \A j \in i .. n : g[j] \in S
    <2> DEFINE A == {j \in i .. n : g[j] \in S}
    <2>1. i \in A
      BY <1>0, <1>1, <1>6
    <2>2. \A j \in i .. n - 1 : j \in A => j + 1 \in A
      <3> SUFFICES ASSUME NEW j \in i .. n - 1, g[j] \in S
                   PROVE  g[j + 1] \in S
        BY <1>0
      <3>1. j + 1 \in i + 1 .. n /\ (j + 1) - 1 = j
        BY <1>0
      <3> QED
        BY <1>2, <1>6, <3>1
    <2> HIDE DEF A
    <2>3. \A j \in i .. n : j \in A
      BY <1>0, <2>1, <2>2, CountUp
    <2> QED
      BY <2>3 DEF A
  <1> HIDE DEF Turn
  <1>8. g \in [i .. n -> S]
    BY <1>5, <1>7
  <1> QED
    BY <1>5, <1>6, <1>8 DEF n, S, b

LEMMA PlaceType ==
  ASSUME NEW s \in Contacts, NEW i \in 1 .. Len(s) - 1
  PROVE  Place(s, i) \in AsLong(s)
  <1>1. Len(s) \in i .. Len(s)
    BY DEF Contacts
  <1>2. Carried(s, i) \in AsLong(s)
    BY <1>1, CarriedIs
  <1> QED
    BY <1>2 DEF Place, AsLong

(* The arrays after each turn of the outer loop. *)
LEMMA SortIs ==
  ASSUME NEW s \in Contacts, Len(s) > 0
  PROVE  \E turn \in [1 .. Len(s) -> AsLong(s)] :
           /\ turn[Len(s)] = s
           /\ \A i \in 1 .. Len(s) - 1 : turn[i] = Place(turn[i + 1], i)
           /\ Sort(s) = turn[1]
  <1> DEFINE n == Len(s)
             S == AsLong(s)
             Turn(g, i) == IF i = n THEN s ELSE Place(g[i + 1], i)
             step == [i \in 1 .. n |->
                        [t \in S |-> IF i = n THEN t ELSE Place(t, i)]]
  <1>0. n \in Int /\ 1 \in Int /\ 1 <= n
    BY DEF Contacts
  <1>1. s \in S
    BY DEF AsLong
  <1>2. ASSUME NEW i \in 1 .. n - 1, NEW t \in S PROVE Place(t, i) \in S
    <2>1. t \in Contacts /\ Len(t) = Len(s) /\ i \in 1 .. Len(t) - 1
      BY DEF AsLong
    <2> QED
      BY <2>1, PlaceType DEF AsLong
  <1>3. Sort(s) = (CHOOSE g : g = [i \in 1 .. n |-> Turn(g, i)])[1]
    BY DEF Sort
  <1> HIDE DEF n, S
  <1>4. \E g : g = [i \in 1 .. n |-> Turn(g, i)]
    <2>1. step \in [1 .. n -> [S -> S]]
      <3>1. ASSUME NEW i \in 1 .. n, i # n PROVE i \in 1 .. n - 1
        BY <1>0, <3>1
      <3> QED
        BY <1>2, <3>1
    <2> HIDE DEF step
    <2>2. PICK g \in [1 .. n -> S] : RunsDown(g, 1, n, s, step)
      BY <1>0, <1>1, <2>1, LoopDown
    <2>3. ASSUME NEW i \in 1 .. n PROVE g[i] = Turn(g, i)
      <3>1. CASE i = n
        BY <2>2, <3>1 DEF RunsDown
      <3>2. CASE i # n
        <4>1. i \in 1 .. n - 1 /\ i + 1 \in 1 .. n
          BY <1>0, <3>2
        <4>2. g[i + 1] \in S /\ g[i] = step[i][g[i + 1]]
          BY <2>2, <4>1 DEF RunsDown
        <4> QED
          BY <3>2, <4>2 DEF step
      <3> QED
        BY <3>1, <3>2
    <2> HIDE DEF Turn
    <2> QED
      BY <2>2, <2>3
  <1>5. PICK g : g = [i \in 1 .. n |-> Turn(g, i)] /\ Sort(s) = g[1]
    BY <1>3, <1>4
  <1>6. g[n] = s /\ \A i \in 1 .. n - 1 : g[i] = Place(g[i + 1], i)
    BY <1>0, <1>5
  <1>7. \A i \in 1 .. n : g[i] \in S
    <2> DEFINE A == {i \in 1 .. n : g[i] \in S}
    <2>1. n \in A
      BY <1>0, <1>1, <1>6
    <2>2. \A i \in 1 + 1 .. n : i \in A => i - 1 \in A
      <3> SUFFICES ASSUME NEW i \in 2 .. n, g[i] \in S
                   PROVE  g[i - 1] \in S
        BY <1>0
      <3>1. i - 1 \in 1 .. n - 1 /\ (i - 1) + 1 = i
        BY <1>0
      <3> QED
        BY <1>2, <1>6, <3>1
    <2> HIDE DEF A
    <2>3. \A i \in 1 .. n : i \in A
      BY <1>0, <2>1, <2>2, CountDown
    <2> QED
      BY <2>3 DEF A
  <1> HIDE DEF Turn
  <1>8. g \in [1 .. n -> S]
    BY <1>5, <1>7
  <1> QED
    BY <1>5, <1>6, <1>8 DEF n, S

-----------------------------------------------------------------------------
(* The sort puts names in order. *)

Ordered(s, i) == s[i].name <= s[i + 1].name

LEMMA NatIsInt == \A n : n \in Nat => n \in Int
  OBVIOUS

LEMMA Named == ASSUME NEW s \in Contacts, NEW i \in 1 .. Len(s)
               PROVE  s[i] \in Contact /\ s[i].name \in Int
  <1>1. s[i] \in Contact
    BY DEF Contacts
  <1>2. s[i].name \in Names
    BY <1>1 DEF Contact
  <1>3. Names \subseteq Nat
    BY ContactBookAssumption DEF ContactBookAssumption
  <1>4. s[i].name \in Nat
    BY <1>2, <1>3, Zenon
  <1> QED
    BY <1>1, <1>4, Zenon, NatIsInt

(* From first on all is in order, but that the contact at m may have to go
   further back; without it all would be. *)
InOrderBut(s, first, m) ==
  /\ \A k \in first .. Len(s) - 1 : k # m => Ordered(s, k)
  /\ m < Len(s) => s[m - 1].name <= s[m + 1].name

(* What an exchange leaves. *)
LEMMA Exchanged ==
  ASSUME NEW s \in Contacts, NEW j \in 2 .. Len(s)
  PROVE  LET t == SwapIfLess(s, j)
         IN  /\ s[j].name < s[j - 1].name =>
                  /\ t[j] = s[j - 1] /\ t[j - 1] = s[j]
                  /\ \A k \in 1 .. Len(s) : k \notin {j - 1, j} => t[k] = s[k]
             /\ ~(s[j].name < s[j - 1].name) => t = s
  BY DEF SwapIfLess, Contacts

(* The loop invariant: the next exchange moves the contact one place on. *)
LEMMA CarriesOn ==
  ASSUME NEW s \in Contacts, NEW first \in 1 .. Len(s),
         NEW m \in first + 1 .. Len(s) - 1, InOrderBut(s, first, m)
  PROVE  InOrderBut(SwapIfLess(s, m + 1), first, m + 1)
  <1> DEFINE t == SwapIfLess(s, m + 1)
             n == Len(s)
  <1>0. /\ n \in Nat /\ m + 1 \in 2 .. n
        /\ m - 1 >= first /\ m - 1 \in first .. n - 1
    BY DEF Contacts
  <1>1. \A k \in 1 .. n : s[k].name \in Int
    BY Named
  <1>2. Len(t) = n
    BY <1>0, SwapType DEF AsLong
  <1>3. /\ s[m - 1].name <= s[m].name
        /\ s[m - 1].name <= s[m + 1].name
        /\ \A k \in m + 1 .. n - 1 : s[k].name <= s[k + 1].name
    BY <1>0 DEF InOrderBut, Ordered
  <1>4. CASE s[m + 1].name < s[m].name
    <2>1. /\ t[m + 1] = s[m] /\ t[m] = s[m + 1]
          /\ \A k \in 1 .. n : k \notin {m, m + 1} => t[k] = s[k]
      BY <1>0, <1>4, Exchanged
    <2> HIDE DEF t
    <2>2. ASSUME NEW k \in first .. n - 1, k # m + 1
          PROVE  t[k].name <= t[k + 1].name
      <3>1. CASE k = m
        BY <1>0, <1>1, <1>4, <2>1, <3>1
      <3>2. CASE k = m - 1
        BY <1>0, <1>3, <2>1, <3>2
      <3>3. CASE k \notin {m - 1, m, m + 1}
        <4>1. s[k].name <= s[k + 1].name
          BY <1>0, <3>3 DEF InOrderBut, Ordered
        <4>2. t[k] = s[k] /\ t[k + 1] = s[k + 1]
          BY <1>0, <2>1, <3>3
        <4> QED
          BY <4>1, <4>2
      <3> QED
        BY <2>2, <3>1, <3>2, <3>3
    <2>3. m + 1 < n => t[m].name <= t[m + 2].name
      BY <1>0, <1>3, <2>1
    <2> QED
      BY <1>0, <1>2, <2>2, <2>3 DEF InOrderBut, Ordered, t
  <1>5. CASE ~(s[m + 1].name < s[m].name)
    <2>1. t = s
      BY <1>0, <1>5, Exchanged
    <2> HIDE DEF t
    <2>2. s[m].name <= s[m + 1].name
      <3>1. m \in 1 .. n /\ m + 1 \in 1 .. n
        BY <1>0
      <3>2. s[m].name \in Int /\ s[m + 1].name \in Int
        BY <1>1, <3>1
      <3> QED
        BY <1>5, <3>2
    <2>3. ASSUME NEW k \in first .. n - 1 PROVE s[k].name <= s[k + 1].name
      BY <2>2 DEF InOrderBut, Ordered
    <2>4. ASSUME m + 1 < n PROVE s[m].name <= s[m + 2].name
      <3>1. /\ m \in 1 .. n /\ m + 1 \in 1 .. n /\ m + 2 \in 1 .. n
            /\ m + 1 \in m + 1 .. n - 1 /\ (m + 1) + 1 = m + 2
        BY <1>0, <2>4
      <3>2. s[m + 1].name <= s[m + 2].name
        BY <1>3, <3>1
      <3> QED
        BY <1>1, <2>2, <3>1, <3>2
    <2> QED
      BY <1>0, <2>1, <2>3, <2>4 DEF InOrderBut, Ordered, t
  <1> QED
    BY <1>4, <1>5

(* One turn of the outer loop makes the ordered part longer by one. *)
LEMMA PlaceOrders ==
  ASSUME NEW s \in Contacts, NEW i \in 1 .. Len(s) - 1,
         \A k \in i + 1 .. Len(s) - 1 : Ordered(s, k)
  PROVE  \A k \in i .. Len(s) - 1 : Ordered(Place(s, i), k)
  <1> DEFINE n == Len(s)
  <1>0. n \in Nat /\ i + 1 \in 2 .. n /\ i \in 1 .. n
    BY DEF Contacts
  <1>1. \A k \in 1 .. n : s[k].name \in Int
    BY Named
  <1>2. CASE ~(s[i + 1].name < s[i].name)
    <2>1. Ordered(s, i)
      BY <1>0, <1>1, <1>2 DEF Ordered
    <2>2. Place(s, i) = s
      BY <1>2 DEF Place
    <2>3. ASSUME NEW k \in i .. n - 1 PROVE Ordered(s, k)
      BY <1>0, <2>1
    <2> QED
      BY <2>2, <2>3
  <1>3. CASE s[i + 1].name < s[i].name
    <2>1. PICK turn \in [i .. n -> AsLong(s)] :
            /\ turn[i] = SwapIfLess(s, i + 1)
            /\ \A j \in i + 1 .. n : turn[j] = SwapIfLess(turn[j - 1], j)
            /\ Carried(s, i) = turn[n]
      BY CarriedIs
    <2> DEFINE t == turn[i]
    <2>2. /\ t[i] = s[i + 1] /\ t[i + 1] = s[i]
          /\ \A k \in 1 .. n : k \notin {i, i + 1} => t[k] = s[k]
      <3> DEFINE j == i + 1
      <3>1. j \in 2 .. n /\ j - 1 = i /\ s[j].name < s[j - 1].name
        BY <1>0, <1>3
      <3>2. t = SwapIfLess(s, j)
        BY <2>1
      <3> HIDE DEF j, t
      <3>3. /\ t[j] = s[i] /\ t[i] = s[j]
            /\ \A k \in 1 .. n : k \notin {i, j} => t[k] = s[k]
        BY <3>1, <3>2, Exchanged
      <3> QED
        BY <3>3 DEF j
    <2>3. \A j \in i .. n : turn[j] \in Contacts /\ Len(turn[j]) = n
      BY <2>1 DEF AsLong
    <2>4. t \in Contacts /\ Len(t) = n
      BY <1>0, <2>3
    <2> HIDE DEF t
    <2>5. InOrderBut(t, i, i + 1)
      <3>1. ASSUME NEW k \in i .. n - 1, k # i + 1
            PROVE  t[k].name <= t[k + 1].name
        <4>1. CASE k = i
          BY <1>0, <1>1, <1>3, <2>2, <4>1
        <4>2. CASE k # i
          <5>1. t[k] = s[k] /\ t[k + 1] = s[k + 1] /\ Ordered(s, k)
            BY <1>0, <2>2, <3>1, <4>2
          <5> QED
            BY <5>1 DEF Ordered
        <4> QED
          BY <4>1, <4>2
      <3>2. ASSUME i + 1 < n PROVE t[i].name <= t[i + 2].name
        <4>1. Ordered(s, i + 1) /\ t[i + 2] = s[i + 2] /\ (i + 1) + 1 = i + 2
          BY <1>0, <2>2, <3>2
        <4> QED
          BY <2>2, <4>1 DEF Ordered
      <3> QED
        BY <1>0, <2>4, <3>1, <3>2 DEF InOrderBut, Ordered
    <2>6. turn[i + 1] = t
      <3>1. t[i].name <= t[i + 1].name
        BY <1>0, <1>1, <1>3, <2>2
      <3>2. \A k \in 1 .. n : t[k].name \in Int
        BY <2>4, Named
      <3>3. ~(t[i + 1].name < t[i].name)
        BY <1>0, <3>1, <3>2
      <3>4. turn[i + 1] = SwapIfLess(t, i + 1)
        BY <1>0, <2>1 DEF t
      <3> QED
        BY <1>0, <2>4, <3>3, <3>4, Exchanged
    <2> DEFINE A == {j \in i + 1 .. n : InOrderBut(turn[j], i, j)}
    <2>7. i + 1 \in A
      BY <1>0, <2>5, <2>6
    <2>8. ASSUME NEW j \in i + 1 .. n - 1, j \in A PROVE j + 1 \in A
      <3>1. /\ turn[j] \in Contacts /\ Len(turn[j]) = n
            /\ j + 1 \in i + 1 .. n /\ (j + 1) - 1 = j
        BY <1>0, <2>3
      <3>2. /\ InOrderBut(turn[j], i, j)
            /\ turn[j + 1] = SwapIfLess(turn[j], j + 1)
        BY <2>1, <2>8, <3>1
      <3>3. InOrderBut(turn[j + 1], i, j + 1)
        BY <1>0, <3>1, <3>2, CarriesOn
      <3> QED
        BY <3>1, <3>3
    <2> HIDE DEF A
    <2>9. n \in A
      <3>1. /\ i + 1 \in Int /\ n \in Int /\ n \in i + 1 .. n
        BY <1>0
      <3> QED
        BY <2>7, <2>8, <3>1, CountUp
    <2>10. InOrderBut(turn[n], i, n) /\ Len(turn[n]) = n
      BY <1>0, <2>3, <2>9 DEF A
    <2>11. Place(s, i) = turn[n]
      BY <1>3, <2>1 DEF Place
    <2>12. \A k \in i .. n - 1 : k # n
      BY <1>0
    <2> QED
      BY <1>0, <2>10, <2>11, <2>12 DEF InOrderBut
  <1> QED
    BY <1>2, <1>3

(* So the whole array is in order after the last. *)
LEMMA SortOrders ==
  ASSUME NEW s \in Contacts, Len(s) > 0
  PROVE  Sort(s) \in AsLong(s) /\ InOrder(Sort(s))
  <1> DEFINE n == Len(s)
  <1>0. n \in Nat /\ n > 0 /\ n \in 1 .. n /\ 1 \in 1 .. n
    BY DEF Contacts
  <1>1. PICK turn \in [1 .. n -> AsLong(s)] :
          /\ turn[n] = s
          /\ \A i \in 1 .. n - 1 : turn[i] = Place(turn[i + 1], i)
          /\ Sort(s) = turn[1]
    BY SortIs
  <1>2. \A i \in 1 .. n : turn[i] \in Contacts /\ Len(turn[i]) = n
    BY <1>1 DEF AsLong
  <1> DEFINE A == {i \in 1 .. n : \A k \in i .. n - 1 : Ordered(turn[i], k)}
  <1>3. n \in A
    BY <1>0
  <1>4. ASSUME NEW i \in 1 + 1 .. n, i \in A PROVE i - 1 \in A
    <2> DEFINE j == i - 1
    <2>1. j \in 1 .. n /\ j \in 1 .. n - 1 /\ j + 1 = i /\ i \in 1 .. n
      BY <1>0
    <2> HIDE DEF j
    <2>2. \A k \in j + 1 .. n - 1 : Ordered(turn[i], k)
      BY <1>4, <2>1
    <2>3. \A k \in j .. n - 1 : Ordered(Place(turn[i], j), k)
      BY <1>2, <2>1, <2>2, PlaceOrders
    <2>4. turn[j] = Place(turn[i], j)
      BY <1>1, <2>1
    <2> QED
      BY <2>1, <2>3, <2>4 DEF j
  <1> HIDE DEF A
  <1>5. 1 \in A
    <2>1. 1 \in Int /\ n \in Int
      BY <1>0
    <2> QED
      BY <1>0, <1>3, <1>4, <2>1, CountDown
  <1>6. \A k \in 1 .. n - 1 : Ordered(turn[1], k)
    BY <1>5 DEF A
  <1> QED
    BY <1>0, <1>1, <1>2, <1>6 DEF InOrder, Ordered

(* A book that is in order stays as it is. *)
LEMMA SortOfSorted ==
  ASSUME NEW s \in Contacts, Len(s) > 0, InOrder(s)
  PROVE  Sort(s) = s
  <1> DEFINE n == Len(s)
  <1>0. n \in Int /\ n > 0 /\ n \in 1 .. n /\ 1 \in 1 .. n /\ 1 \in Int
    BY DEF Contacts
  <1>1. PICK turn \in [1 .. n -> AsLong(s)] :
          /\ turn[n] = s
          /\ \A i \in 1 .. n - 1 : turn[i] = Place(turn[i + 1], i)
          /\ Sort(s) = turn[1]
    BY SortIs
  <1>2. ASSUME NEW i \in 1 .. n - 1 PROVE Place(s, i) = s
    <2>1. s[i].name <= s[i + 1].name
      BY DEF InOrder
    <2>2. s[i].name \in Int /\ s[i + 1].name \in Int
      BY <1>0, Named
    <2> QED
      BY <2>1, <2>2 DEF Place
  <1> DEFINE A == {i \in 1 .. n : turn[i] = s}
  <1>3. n \in A
    BY <1>0, <1>1
  <1>4. ASSUME NEW i \in 1 + 1 .. n, i \in A PROVE i - 1 \in A
    <2>1. i - 1 \in 1 .. n /\ i - 1 \in 1 .. n - 1 /\ (i - 1) + 1 = i
      BY <1>0
    <2> QED
      BY <1>1, <1>2, <1>4, <2>1
  <1> HIDE DEF A
  <1>5. 1 \in A
    BY <1>0, <1>3, <1>4, CountDown
  <1> QED
    BY <1>1, <1>5 DEF A

-----------------------------------------------------------------------------
(* The sort only moves contacts past those of a later name. *)

(* t has at each place i the contact that stands at p[i] in s. *)
Rearranges(t, s, p) ==
  LET places == 1 .. Len(s)
  IN  /\ \A i, j \in places : p[i] = p[j] => i = j
      /\ \A j \in places : \E i \in places : p[i] = j
      /\ \A i \in places : t[i] = s[p[i]]
      /\ \A i, j \in places : i < j /\ t[i].name = t[j].name => p[i] < p[j]

(* t is s rearranged, equal names kept as they were. *)
Stable(t, s) ==
  /\ t \in AsLong(s)
  /\ \E p \in [1 .. Len(s) -> 1 .. Len(s)] : Rearranges(t, s, p)

LEMMA StableSame == ASSUME NEW s \in Contacts PROVE Stable(s, s)
  <1> DEFINE p == [i \in 1 .. Len(s) |-> i]
  <1>1. p \in [1 .. Len(s) -> 1 .. Len(s)] /\ \A i \in 1 .. Len(s) : p[i] = i
    OBVIOUS
  <1> HIDE DEF p
  <1>2. Rearranges(s, s, p)
    BY <1>1 DEF Rearranges
  <1> QED
    BY <1>1, <1>2 DEF Stable, AsLong

(* An exchange of neighbours out of order composes p with their swap. *)
LEMMA StableSwap ==
  ASSUME NEW s \in Contacts, NEW t, Stable(t, s), NEW j \in 2 .. Len(s)
  PROVE  Stable(SwapIfLess(t, j), s)
  <1> DEFINE n == Len(s)
             u == SwapIfLess(t, j)
  <1>0. n \in Nat /\ t \in Contacts /\ Len(t) = n /\ j \in 2 .. Len(t)
    BY DEF Contacts, Stable, AsLong
  <1>1. u \in AsLong(s)
    BY <1>0, SwapType DEF AsLong
  <1>2. PICK p \in [1 .. n -> 1 .. n] : Rearranges(t, s, p)
    BY DEF Stable
  <1>3. \A i \in 1 .. n : t[i].name \in Int
    BY <1>0, Named
  <1>4. CASE ~(t[j].name < t[j - 1].name)
    BY <1>0, <1>4, Exchanged
  <1>5. CASE t[j].name < t[j - 1].name
    <2> DEFINE i == j - 1
               q == [p EXCEPT ![i] = p[j], ![j] = p[i]]
    <2>1. i \in 1 .. n /\ j \in 1 .. n /\ i < j /\ i # j /\ j = i + 1
      BY <1>0
    <2>2. /\ u[j] = t[i] /\ u[i] = t[j]
          /\ \A k \in 1 .. n : k \notin {i, j} => u[k] = t[k]
      BY <1>0, <1>5, Exchanged
    <2>3. t[j].name < t[i].name
      BY <1>5
    <2> HIDE DEF i, u
    <2>4. /\ q \in [1 .. n -> 1 .. n]
          /\ q[i] = p[j] /\ q[j] = p[i]
          /\ \A k \in 1 .. n : k \notin {i, j} => q[k] = p[k]
      BY <1>2, <2>1
    <2> HIDE DEF q
    <2>5. ASSUME NEW k \in 1 .. n, NEW l \in 1 .. n, q[k] = q[l] PROVE k = l
      <3>1. \A x, y \in 1 .. n : p[x] = p[y] => x = y
        BY <1>2 DEF Rearranges
      <3>2. CASE k = i
        BY <2>1, <2>4, <2>5, <3>1, <3>2
      <3>3. CASE k = j
        BY <2>1, <2>4, <2>5, <3>1, <3>3
      <3>4. CASE k \notin {i, j}
        BY <2>1, <2>4, <2>5, <3>1, <3>4
      <3> QED
        BY <3>2, <3>3, <3>4
    <2>6. \A l \in 1 .. n : \E k \in 1 .. n : q[k] = l
      <3> TAKE l \in 1 .. n
      <3>1. PICK k \in 1 .. n : p[k] = l
        BY <1>2 DEF Rearranges
      <3>2. CASE k = i
        BY <2>1, <2>4, <3>1, <3>2
      <3>3. CASE k = j
        BY <2>1, <2>4, <3>1, <3>3
      <3>4. CASE k \notin {i, j}
        BY <2>4, <3>1, <3>4
      <3> QED
        BY <3>2, <3>3, <3>4
    <2>7. ASSUME NEW k \in 1 .. n PROVE u[k] = s[q[k]]
      <3>1. \A x \in 1 .. n : t[x] = s[p[x]]
        BY <1>2 DEF Rearranges
      <3> QED
        BY <2>1, <2>2, <2>4, <3>1
    <2>8. ASSUME NEW k \in 1 .. n, NEW l \in 1 .. n, k < l,
                 u[k].name = u[l].name
          PROVE  q[k] < q[l]
      <3>1. \A x, y \in 1 .. n : x < y /\ t[x].name = t[y].name => p[x] < p[y]
        BY <1>2 DEF Rearranges
      <3>2. CASE k \notin {i, j} /\ l \notin {i, j}
        BY <2>2, <2>4, <2>8, <3>1, <3>2
      <3>3. CASE k = i /\ l = j
        BY <1>3, <2>1, <2>2, <2>3, <2>8, <3>3
      <3>4. CASE k = i /\ l \notin {i, j}
        <4>1. u[k] = t[j] /\ q[k] = p[j] /\ u[l] = t[l] /\ q[l] = p[l] /\ j < l
          BY <2>1, <2>2, <2>4, <2>8, <3>4
        <4> QED
          BY <2>1, <2>8, <3>1, <4>1
      <3>5. CASE k = j /\ l \notin {i, j}
        <4>1. u[k] = t[i] /\ q[k] = p[i] /\ u[l] = t[l] /\ q[l] = p[l] /\ i < l
          BY <2>1, <2>2, <2>4, <2>8, <3>5
        <4> QED
          BY <2>1, <2>8, <3>1, <4>1
      <3>6. CASE k \notin {i, j} /\ l = i
        <4>1. u[k] = t[k] /\ q[k] = p[k] /\ u[l] = t[j] /\ q[l] = p[j] /\ k < j
          BY <2>1, <2>2, <2>4, <2>8, <3>6
        <4> QED
          BY <2>1, <2>8, <3>1, <4>1
      <3>7. CASE k \notin {i, j} /\ l = j
        <4>1. u[k] = t[k] /\ q[k] = p[k] /\ u[l] = t[i] /\ q[l] = p[i] /\ k < i
          BY <2>1, <2>2, <2>4, <2>8, <3>7
        <4> QED
          BY <2>1, <2>8, <3>1, <4>1
      <3>8. ~(k = j /\ l = i) /\ k # l
        BY <2>1, <2>8
      <3> QED
        BY <3>2, <3>3, <3>4, <3>5, <3>6, <3>7, <3>8
    <2>9. Rearranges(u, s, q)
      BY <2>5, <2>6, <2>7, <2>8 DEF Rearranges
    <2> QED
      BY <1>1, <2>4, <2>9 DEF Stable, u
  <1> QED
    BY <1>4, <1>5

(* So do the turns of the inner loop, and those of the outer loop. *)
LEMMA StablePlace ==
  ASSUME NEW s \in Contacts, NEW t, Stable(t, s), NEW i \in 1 .. Len(s) - 1
  PROVE  Stable(Place(t, i), s)
  <1> DEFINE n == Len(s)
  <1>0. n \in Nat /\ t \in Contacts /\ Len(t) = n /\ i \in 1 .. Len(t) - 1
    BY DEF Contacts, Stable, AsLong
  <1>1. PICK turn \in [i .. Len(t) -> AsLong(t)] :
          /\ turn[i] = SwapIfLess(t, i + 1)
          /\ \A j \in i + 1 .. Len(t) : turn[j] = SwapIfLess(turn[j - 1], j)
          /\ Carried(t, i) = turn[Len(t)]
    BY <1>0, CarriedIs
  <1> DEFINE A == {j \in i .. n : Stable(turn[j], s)}
  <1>2. i \in A
    <2>1. i + 1 \in 2 .. n /\ i \in i .. n
      BY <1>0
    <2> QED
      BY <1>1, <2>1, StableSwap
  <1>3. ASSUME NEW j \in i .. n - 1, j \in A PROVE j + 1 \in A
    <2>1. /\ j + 1 \in i .. n /\ j + 1 \in i + 1 .. n /\ j + 1 \in 2 .. n
          /\ (j + 1) - 1 = j
      BY <1>0
    <2>2. turn[j + 1] = SwapIfLess(turn[j], j + 1) /\ Stable(turn[j], s)
      BY <1>0, <1>1, <1>3, <2>1
    <2> QED
      BY <2>1, <2>2, StableSwap
  <1> HIDE DEF A
  <1>4. n \in A
    <2>1. i \in Int /\ n \in Int /\ n \in i .. n
      BY <1>0
    <2> QED
      BY <1>2, <1>3, <2>1, CountUp
  <1> QED
    BY <1>0, <1>1, <1>4 DEF A, Place

LEMMA StableSort ==
  ASSUME NEW s \in Contacts, Len(s) > 0
  PROVE  Stable(Sort(s), s)
  <1> DEFINE n == Len(s)
  <1>0. n \in Int /\ n > 0 /\ n \in 1 .. n /\ 1 \in 1 .. n /\ 1 \in Int
    BY DEF Contacts
  <1>1. PICK turn \in [1 .. n -> AsLong(s)] :
          /\ turn[n] = s
          /\ \A i \in 1 .. n - 1 : turn[i] = Place(turn[i + 1], i)
          /\ Sort(s) = turn[1]
    BY SortIs
  <1> DEFINE A == {i \in 1 .. n : Stable(turn[i], s)}
  <1>2. n \in A
    BY <1>0, <1>1, StableSame
  <1>3. ASSUME NEW i \in 1 + 1 .. n, i \in A PROVE i - 1 \in A
    <2>1. i - 1 \in 1 .. n /\ i - 1 \in 1 .. n - 1 /\ (i - 1) + 1 = i
      BY <1>0
    <2>2. turn[i - 1] = Place(turn[i], i - 1) /\ Stable(turn[i], s)
      BY <1>1, <1>3, <2>1
    <2> QED
      BY <2>1, <2>2, StablePlace
  <1> HIDE DEF A
  <1>4. 1 \in A
    BY <1>0, <1>2, <1>3, CountDown
  <1> QED
    BY <1>1, <1>4 DEF A

(* Neighbours in order are an array in order. *)
LEMMA OrderedFar ==
  ASSUME NEW s \in Contacts, InOrder(s),
         NEW i \in 1 .. Len(s), NEW j \in i .. Len(s)
  PROVE  s[i].name <= s[j].name
  <1> DEFINE n == Len(s)
             A == {k \in i .. n : s[i].name <= s[k].name}
  <1>0. n \in Int /\ i \in Int /\ i \in i .. n /\ i \in 1 .. n
    BY DEF Contacts
  <1>1. \A k \in 1 .. n : s[k].name \in Int
    BY Named
  <1>2. i \in A
    BY <1>0, <1>1
  <1>3. ASSUME NEW k \in i .. n - 1, k \in A PROVE k + 1 \in A
    <2>1. /\ k \in 1 .. n /\ k \in 1 .. n - 1
          /\ k + 1 \in 1 .. n /\ k + 1 \in i .. n
      BY <1>0
    <2>2. s[k].name <= s[k + 1].name
      BY <2>1 DEF InOrder
    <2>3. s[i].name <= s[k].name
      BY <1>3
    <2> QED
      BY <1>0, <1>1, <2>1, <2>2, <2>3
  <1> HIDE DEF A
  <1>4. j \in A
    BY <1>0, <1>2, <1>3, CountUp
  <1> QED
    BY <1>4 DEF A

(* A bijection with the first k numbers counts a set. *)
LEMMA CountBy ==
  ASSUME NEW k \in Nat, NEW T, NEW f \in [1 .. k -> T],
         \A i, j \in 1 .. k : f[i] = f[j] => i = j,
         \A x \in T : \E i \in 1 .. k : f[i] = x
  PROVE  IsFiniteSet(T) /\ Cardinality(T) = k
  <1>1. f \in Bijection(1 .. k, T)
    <2>1. f \in Injection(1 .. k, T)
      BY DEF Injection, IsInjective
    <2>2. f \in Surjection(1 .. k, T)
      BY DEF Surjection
    <2> QED
      BY <2>1, <2>2 DEF Bijection
  <1>2. ExistsBijection(1 .. k, T)
    BY <1>1 DEF ExistsBijection
  <1>3. IsFiniteSet(1 .. k) /\ Cardinality(1 .. k) = k
    <2>1. 1 \in Int /\ k \in Int
      OBVIOUS
    <2>2. /\ IsFiniteSet(1 .. k)
          /\ Cardinality(1 .. k) = IF 1 > k THEN 0 ELSE k - 1 + 1
      BY <2>1, FS_Interval
    <2> QED
      BY <2>2
  <1> QED
    BY <1>2, <1>3, FS_Bijection

(* A stable rearrangement that is in order is the one the reference gives. *)
LEMMA StablyInOrder ==
  ASSUME NEW s \in Contacts, NEW t, Stable(t, s), InOrder(t)
  PROVE  StablySorted(t, s)
  <1> DEFINE n == Len(s)
  <1>0. n \in Nat /\ t \in Contacts /\ Len(t) = n
    BY DEF Contacts, Stable, AsLong
  <1>1. PICK p \in [1 .. n -> 1 .. n] : Rearranges(t, s, p)
    BY DEF Stable
  <1>2. \A i \in 1 .. n : t[i].name \in Int
    BY <1>0, Named
  <1>3. \A i \in 1 .. n : \A j \in i .. n : t[i].name <= t[j].name
    BY <1>0, OrderedFar
  <1>4. /\ \A i, j \in 1 .. n : p[i] = p[j] => i = j
        /\ \A j \in 1 .. n : \E i \in 1 .. n : p[i] = j
        /\ \A i \in 1 .. n : t[i] = s[p[i]]
        /\ \A i, j \in 1 .. n : i < j /\ t[i].name = t[j].name => p[i] < p[j]
    BY <1>1 DEF Rearranges
  <1>5. ASSUME NEW k \in 1 .. n PROVE Rank(s, p[k]) = k
    <2> DEFINE B == {j \in 1 .. n : \/ s[j].name < s[p[k]].name
                                    \/ s[j].name = s[p[k]].name /\ j <= p[k]}
               f == [i \in 1 .. k |-> p[i]]
    <2>1. ASSUME NEW i \in 1 .. n PROVE p[i] \in B <=> i \in 1 .. k
      <3>1. /\ p[i] \in 1 .. n /\ p[k] \in 1 .. n
            /\ s[p[i]] = t[i] /\ s[p[k]] = t[k]
        BY <1>4
      <3>2. p[i] \in B <=> \/ t[i].name < t[k].name
                           \/ t[i].name = t[k].name /\ p[i] <= p[k]
        <4>1. p[i] \in B <=>
                \/ s[p[i]].name < s[p[k]].name
                \/ s[p[i]].name = s[p[k]].name /\ p[i] <= p[k]
          BY <3>1
        <4> HIDE DEF B
        <4> QED
          BY <3>1, <4>1
      <3>3. CASE i < k
        <4>1. k \in i .. n
          BY <1>0, <3>3
        <4>2. t[i].name <= t[k].name
          BY <1>3, <4>1
        <4>3. t[i].name = t[k].name => p[i] < p[k]
          BY <1>4, <3>3
        <4> QED
          BY <1>2, <3>1, <3>2, <3>3, <4>2, <4>3
      <3>4. CASE i = k
        BY <1>0, <3>1, <3>2, <3>4
      <3>5. CASE i > k
        <4>1. i \in k .. n
          BY <1>0, <3>5
        <4>2. t[k].name <= t[i].name /\ (t[k].name = t[i].name => p[k] < p[i])
          BY <1>3, <1>4, <3>5, <4>1
        <4> QED
          BY <1>2, <3>1, <3>2, <3>5, <4>2
      <3> QED
        BY <1>0, <3>3, <3>4, <3>5
    <2>2. \A i \in 1 .. k : i \in 1 .. n
      BY <1>0
    <2>3. Rank(s, p[k]) = Cardinality(B)
      BY DEF Rank
    <2>4. \A x \in B : x \in 1 .. n
      OBVIOUS
    <2> HIDE DEF B
    <2>5. f \in [1 .. k -> B] /\ \A i \in 1 .. k : f[i] = p[i]
      BY <2>1, <2>2
    <2> HIDE DEF f
    <2>6. \A i, j \in 1 .. k : f[i] = f[j] => i = j
      BY <1>4, <2>2, <2>5
    <2>7. \A x \in B : \E i \in 1 .. k : f[i] = x
      BY <1>4, <2>1, <2>4, <2>5
    <2>8. k \in Nat
      BY <1>0
    <2>9. Cardinality(B) = k
      BY <2>5, <2>6, <2>7, <2>8, CountBy
    <2> QED
      BY <2>3, <2>9
  <1>6. ASSUME NEW i \in 1 .. n PROVE t[Rank(s, i)] = s[i]
    <2>1. PICK k \in 1 .. n : p[k] = i
      BY <1>4
    <2> QED
      BY <1>4, <1>5, <2>1
  <1> QED
    BY <1>0, <1>6 DEF StablySorted

(* What sort does, whatever it is given. *)
LEMMA SortIsStable ==
  ASSUME NEW s \in Contacts, Len(s) > 0
  PROVE  /\ Sort(s) \in Contacts /\ Len(Sort(s)) = Len(s)
         /\ InOrder(Sort(s)) /\ StablySorted(Sort(s), s)
  BY SortOrders, StableSort, StablyInOrder DEF AsLong

-----------------------------------------------------------------------------
(* The deletion. *)

(* What moving the rest of the array down leaves. *)
LEMMA DeleteAtIs ==
  ASSUME NEW s \in Contacts, NEW i \in 1 .. Len(s)
  PROVE  /\ DeleteAt(s, i) \in Contacts
         /\ Len(DeleteAt(s, i)) = Len(s) - 1
         /\ \A j \in 1 .. Len(s) - 1 :
              DeleteAt(s, i)[j] = IF j < i THEN s[j] ELSE s[j + 1]
  <1>1. Len(s) - 1 \in Nat /\ \A j \in 1 .. Len(s) : s[j] \in Contact
    BY DEF Contacts
  <1>2. \A j \in 1 .. Len(s) - 1 :
          (IF j < i THEN s[j] ELSE s[j + 1]) \in Contact
    BY <1>1
  <1> QED
    BY <1>1, <1>2 DEF DeleteAt, Contacts

(* The size of a set of numbers between m and n. *)
LEMMA Counted ==
  ASSUME NEW m \in Int, NEW n \in Int, m <= n + 1, NEW gone \in SUBSET (m .. n)
  PROVE  IsFiniteSet(gone) /\ Cardinality(gone) \in 0 .. n - m + 1
  <1>1. IsFiniteSet(m .. n) /\ Cardinality(m .. n) = n - m + 1
    BY FS_Interval
  <1>2. IsFiniteSet(gone) /\ Cardinality(gone) <= Cardinality(m .. n)
    BY <1>1, FS_Subset
  <1> QED
    BY <1>1, <1>2, FS_CardinalityType

Below(gone, k) == {g \in gone : g < k}

(* A set of numbers splits at one it does not have. *)
LEMMA SplitAt ==
  ASSUME NEW n \in Nat, NEW gone \in SUBSET (1 .. n), NEW k \in 1 .. n,
         k \notin gone
  PROVE  /\ Cardinality(Below(gone, k)) \in 0 .. k - 1
         /\ Cardinality(gone) \in Nat
         /\ Cardinality(gone) - Cardinality(Below(gone, k)) \in 0 .. n - k
         /\ \A o \in 1 .. n : (\A g \in gone : g < o) /\ k < o =>
              Cardinality(gone) - Cardinality(Below(gone, k)) <= o - 1 - k
  <1> DEFINE low == Below(gone, k)
             high == gone \ low
  <1>0. \A g \in gone : g \in 1 .. n /\ g # k
    OBVIOUS
  <1>1. low \in SUBSET (1 .. k - 1)
    <2>1. ASSUME NEW g \in gone, g < k PROVE g \in 1 .. k - 1
      BY <1>0, <2>1
    <2> QED
      BY <2>1 DEF Below
  <1>2. ASSUME NEW o \in k + 1 .. n + 1, \A g \in gone : g < o
        PROVE  high \in SUBSET (k + 1 .. o - 1)
    <2>1. ASSUME NEW g \in gone, ~(g < k) PROVE g \in k + 1 .. o - 1
      <3>1. g \in 1 .. n /\ g # k /\ g < o
        BY <1>0, <1>2
      <3> QED
        BY <2>1, <3>1
    <2>2. \A g \in high : g \in gone /\ ~(g < k)
      BY DEF Below
    <2> HIDE DEF high
    <2> QED
      BY <2>1, <2>2
  <1>3. IsFiniteSet(gone) /\ Cardinality(gone) \in 0 .. n
    <2>1. 1 \in Int /\ n \in Int /\ 1 <= n + 1 /\ n - 1 + 1 = n
      OBVIOUS
    <2> QED
      BY <2>1, Counted
  <1>4. IsFiniteSet(low) /\ Cardinality(low) \in 0 .. k - 1
    <2>1. 1 \in Int /\ k - 1 \in Int /\ 1 <= (k - 1) + 1
      OBVIOUS
    <2>2. Cardinality(low) \in 0 .. (k - 1) - 1 + 1
      BY <1>1, <2>1, Counted
    <2>3. IsFiniteSet(low)
      BY <1>1, <2>1, Counted
    <2> QED
      BY <2>2, <2>3
  <1>5. ASSUME NEW o \in k + 1 .. n + 1, \A g \in gone : g < o
        PROVE  Cardinality(high) \in 0 .. o - 1 - k
    <2>1. k + 1 \in Int /\ o - 1 \in Int /\ k + 1 <= (o - 1) + 1
      OBVIOUS
    <2>2. high \in SUBSET (k + 1 .. o - 1)
      BY <1>2, <1>5
    <2> HIDE DEF high
    <2>3. Cardinality(high) \in 0 .. (o - 1) - (k + 1) + 1
      BY <2>1, <2>2, Counted
    <2> QED
      BY <2>3
  <1>6. Cardinality(high) = Cardinality(gone) - Cardinality(low)
    <2>1. gone \cap low = low
      BY DEF Below
    <2>2. Cardinality(gone \ low)
            = Cardinality(gone) - Cardinality(gone \cap low)
      BY <1>3, FS_Difference
    <2> QED
      BY <2>1, <2>2
  <1>7. \A g \in gone : g < n + 1
    OBVIOUS
  <1>8. Cardinality(high) \in 0 .. (n + 1) - 1 - k
    <2>1. n + 1 \in k + 1 .. n + 1
      OBVIOUS
    <2> HIDE DEF high
    <2> QED
      BY <1>5, <1>7, <2>1
  <1>9. ASSUME NEW o \in 1 .. n, \A g \in gone : g < o, k < o
        PROVE  Cardinality(gone) - Cardinality(low) <= o - 1 - k
    <2>1. o \in k + 1 .. n + 1
      BY <1>9
    <2>2. Cardinality(high) \in 0 .. o - 1 - k
      BY <1>5, <1>9, <2>1
    <2> HIDE DEF high, low
    <2> QED
      BY <1>6, <2>2
  <1> HIDE DEF high
  <1> QED
    BY <1>3, <1>4, <1>6, <1>8, <1>9

(* What a scan has left of s when only contacts before o are gone. *)
LEMMA DeleteNext ==
  ASSUME NEW s \in Contacts, NEW gone \in SUBSET (1 .. Len(s)),
         NEW t \in Contacts, Without(t, s, gone), NEW i \in 1 .. Len(t),
         NEW o \in Int, o = i + Cardinality(gone), \A g \in gone : g < o
  PROVE  /\ o \in 1 .. Len(s) /\ t[i] = s[o]
         /\ Cardinality(gone \cup {o}) = Cardinality(gone) + 1
         /\ Without(DeleteAt(t, i), s, gone \cup {o})
  <1> DEFINE n == Len(s)
             c == Cardinality(gone)
             more == gone \cup {o}
  <1>0. n \in Nat /\ Len(t) \in Nat
    BY DEF Contacts
  <1>1. IsFiniteSet(gone) /\ c \in 0 .. n
    <2>1. 1 \in Int /\ n \in Int /\ 1 <= n + 1 /\ n - 1 + 1 = n
      BY <1>0
    <2> QED
      BY <2>1, Counted
  <1>2. /\ Len(t) = n - c
        /\ \A k \in 1 .. n \ gone : t[k - Cardinality(Below(gone, k))] = s[k]
    BY DEF Without, Below
  <1>3. o \in 1 .. n /\ o \notin gone /\ i = o - c
    BY <1>0, <1>1, <1>2
  <1>4. Cardinality(more) = c + 1
    BY <1>1, <1>3, FS_AddElement
  <1>5. t[i] = s[o]
    <2>1. Below(gone, o) = gone
      BY DEF Below
    <2>2. t[o - Cardinality(Below(gone, o))] = s[o]
      BY <1>2, <1>3
    <2> QED
      BY <1>3, <2>1, <2>2
  <1> HIDE DEF c
  <1>6. /\ Len(DeleteAt(t, i)) = Len(t) - 1
        /\ \A j \in 1 .. Len(t) - 1 :
             DeleteAt(t, i)[j] = IF j < i THEN t[j] ELSE t[j + 1]
    BY DeleteAtIs
  <1>7. ASSUME NEW k \in 1 .. n \ more
        PROVE  DeleteAt(t, i)[k - Cardinality(Below(more, k))] = s[k]
    <2> DEFINE b == Cardinality(Below(gone, k))
    <2>1. k \in 1 .. n /\ k \notin gone /\ k # o
      OBVIOUS
    <2>2. b \in 0 .. k - 1 /\ c - b \in 0 .. n - k
      BY <1>0, <2>1, SplitAt DEF c
    <2>3. t[k - b] = s[k]
      BY <1>2, <2>1
    <2>4. CASE k < o
      <3>1. Below(more, k) = Below(gone, k)
        BY <1>3, <2>1, <2>4 DEF Below
      <3>2. c - b <= o - 1 - k
        BY <1>0, <1>3, <2>1, <2>4, SplitAt DEF c
      <3> HIDE DEF b
      <3>3. k - b \in 1 .. Len(t) - 1 /\ k - b < i
        <4>1. c \in Int /\ b \in 0 .. k - 1 /\ c - b <= o - 1 - k
          BY <1>1, <2>2, <3>2 DEF c
        <4>2. k \in Int /\ i = o - c /\ i \in 1 .. Len(t)
          BY <1>3, <2>1
        <4> QED
          BY <1>0, <4>1, <4>2
      <3>4. DeleteAt(t, i)[k - b] = t[k - b]
        BY <1>6, <3>3
      <3> QED
        BY <2>3, <3>1, <3>4 DEF b
    <2>5. CASE k > o
      <3>0. \A g \in gone : g < k
        <4> SUFFICES ASSUME NEW g \in gone PROVE g < k
          OBVIOUS
        <4>1. g \in 1 .. n /\ g < o
          OBVIOUS
        <4> QED
          BY <1>3, <2>1, <2>5, <4>1
      <3>1. Below(gone, k) = gone
        BY <3>0 DEF Below
      <3>2. Below(more, k) = more
        BY <2>5, <3>0 DEF Below
      <3>3. b = c
        BY <3>1 DEF c
      <3> HIDE DEF b
      <3> DEFINE j == k - (c + 1)
      <3>4. c \in Int /\ Len(t) = n - c
        BY <1>1, <1>2 DEF c
      <3>5. j \in 1 .. Len(t) - 1 /\ ~(j < i) /\ j + 1 = k - b
        BY <1>0, <1>3, <2>1, <2>5, <3>3, <3>4 DEF c
      <3> HIDE DEF j
      <3>6. DeleteAt(t, i)[j] = t[k - b]
        BY <1>6, <3>5
      <3> QED
        BY <1>4, <2>3, <3>2, <3>6 DEF j
    <2> QED
      BY <1>3, <2>1, <2>4, <2>5
  <1>8. Without(DeleteAt(t, i), s, more)
    <2>1. Len(DeleteAt(t, i)) = n - Cardinality(more)
      BY <1>0, <1>1, <1>2, <1>4, <1>6 DEF c
    <2> HIDE DEF more
    <2> QED
      BY <1>7, <2>1 DEF Without, Below
  <1> QED
    BY <1>3, <1>4, <1>5, <1>8 DEF c

(* Nothing gone is nothing changed. *)
LEMMA WithoutNone ==
  ASSUME NEW s \in Contacts, NEW t \in Contacts
  PROVE  /\ Without(s, s, {})
         /\ Without(t, s, {}) => /\ Len(t) = Len(s)
                                 /\ \A i \in 1 .. Len(s) : t[i] = s[i]
  <1>1. Cardinality({}) = 0 /\ \A i : {g \in {} : g < i} = {}
    BY FS_EmptySet
  <1>2. Len(s) \in Nat /\ \A i \in 1 .. Len(s) : i - 0 = i
    BY DEF Contacts
  <1> QED
    BY <1>1, <1>2 DEF Without

LEMMA DeleteTurnType ==
  ASSUME NEW s \in Contacts, NEW i \in Int, 0 < i, NEW key
  PROVE  DeleteTurn(s, i, key) \in Contacts
  <1>1. CASE i <= Len(s)
    <2>1. i \in 1 .. Len(s)
      BY <1>1 DEF Contacts
    <2> QED
      BY <2>1, DeleteAtIs DEF DeleteTurn
  <1>2. CASE ~(i <= Len(s))
    BY <1>2 DEF DeleteTurn
  <1> QED
    BY <1>1, <1>2

(* The arrays after each turn of the scan of structures/task.c. *)
LEMMA DeletedAllIs ==
  ASSUME NEW s \in Contacts, NEW key
  PROVE  \E turn \in [0 .. Len(s) -> Contacts] :
           /\ turn[0] = s
           /\ \A i \in 1 .. Len(s) : turn[i] = DeleteTurn(turn[i - 1], i, key)
           /\ DeletedAll(s, key) = turn[Len(s)]
  <1> DEFINE n == Len(s)
             Turn(g, i) == IF i = 0 THEN s ELSE DeleteTurn(g[i - 1], i, key)
             step == [i \in 0 .. n |->
                        [t \in Contacts |-> IF i = 0 THEN t
                                            ELSE DeleteTurn(t, i, key)]]
  <1>0. n \in Int /\ 0 \in Int /\ 0 <= n
    BY DEF Contacts
  <1>1. ASSUME NEW i \in 1 .. n, NEW t \in Contacts
        PROVE  DeleteTurn(t, i, key) \in Contacts
    <2>1. i \in Int /\ 0 < i
      OBVIOUS
    <2> QED
      BY <2>1, DeleteTurnType
  <1>2. DeletedAll(s, key) = (CHOOSE g : g = [i \in 0 .. n |-> Turn(g, i)])[n]
    BY DEF DeletedAll
  <1> HIDE DEF n
  <1>3. \E g : g = [i \in 0 .. n |-> Turn(g, i)]
    <2>1. step \in [0 .. n -> [Contacts -> Contacts]]
      <3>1. ASSUME NEW i \in 0 .. n, i # 0 PROVE i \in 1 .. n
        BY <1>0, <3>1
      <3> QED
        BY <1>1, <3>1
    <2> HIDE DEF step
    <2>2. PICK g \in [0 .. n -> Contacts] : RunsUp(g, 0, n, s, step)
      BY <1>0, <2>1, LoopUp
    <2>3. ASSUME NEW i \in 0 .. n PROVE g[i] = Turn(g, i)
      <3>1. CASE i = 0
        BY <2>2, <3>1 DEF RunsUp
      <3>2. CASE i # 0
        <4>1. i \in 0 + 1 .. n /\ i - 1 \in 0 .. n
          BY <1>0, <3>2
        <4>2. g[i - 1] \in Contacts /\ g[i] = step[i][g[i - 1]]
          BY <2>2, <4>1 DEF RunsUp
        <4> QED
          BY <3>2, <4>2 DEF step
      <3> QED
        BY <3>1, <3>2
    <2> HIDE DEF Turn
    <2> QED
      BY <2>2, <2>3
  <1>4. PICK g : g = [i \in 0 .. n |-> Turn(g, i)] /\ DeletedAll(s, key) = g[n]
    BY <1>2, <1>3
  <1>5. g[0] = s /\ \A i \in 1 .. n : g[i] = DeleteTurn(g[i - 1], i, key)
    BY <1>0, <1>4
  <1>6. \A i \in 0 .. n : g[i] \in Contacts
    <2> DEFINE A == {i \in 0 .. n : g[i] \in Contacts}
    <2>1. 0 \in A
      BY <1>0, <1>5
    <2>2. ASSUME NEW i \in 0 .. n - 1, i \in A PROVE i + 1 \in A
      <3>1. i + 1 \in 1 .. n /\ i + 1 \in 0 .. n /\ (i + 1) - 1 = i
        BY <1>0
      <3>2. g[i + 1] = DeleteTurn(g[i], i + 1, key) /\ g[i] \in Contacts
        BY <1>5, <2>2, <3>1
      <3> QED
        BY <1>1, <3>1, <3>2
    <2> HIDE DEF A
    <2>3. \A i \in 0 .. n : i \in A
      BY <1>0, <2>1, <2>2, CountUp
    <2> QED
      BY <2>3 DEF A
  <1> HIDE DEF Turn
  <1>7. g \in [0 .. n -> Contacts]
    BY <1>4, <1>6
  <1> QED
    BY <1>4, <1>5, <1>7 DEF n

(* The places of the contacts a deletion is asked for. *)
Asked(s, key) == {i \in 1 .. Len(s) : Matches(s[i], key)}

(* The contacts that a scan of the first i places has deleted. *)
Scanned(t, s, key, i) ==
  \E gone \in SUBSET Asked(s, key) :
    /\ Without(t, s, gone)
    /\ \A g \in gone : g <= i + Cardinality(gone)
    /\ gone = {} => \A k \in 1 .. i : k \notin Asked(s, key)

(* By the loop invariant Scanned that scan only deletes what is asked for, and
   deletes something if it can. *)
LEMMA DeletedAllExact ==
  ASSUME NEW s \in Contacts, NEW key
  PROVE  /\ DeletedAll(s, key) \in Contacts
         /\ \E gone \in SUBSET Asked(s, key) :
              /\ Without(DeletedAll(s, key), s, gone)
              /\ Asked(s, key) # {} => gone # {}
  <1> DEFINE n == Len(s)
  <1>0. n \in Nat /\ n \in Int /\ 0 \in Int /\ 0 \in 0 .. n /\ n \in 0 .. n
    BY DEF Contacts
  <1>1. PICK turn \in [0 .. n -> Contacts] :
          /\ turn[0] = s
          /\ \A i \in 1 .. n : turn[i] = DeleteTurn(turn[i - 1], i, key)
          /\ DeletedAll(s, key) = turn[n]
    BY DeletedAllIs
  <1> DEFINE A == {i \in 0 .. n : Scanned(turn[i], s, key, i)}
  <1>2. 0 \in A
    <2>1. Without(turn[0], s, {})
      BY <1>1, WithoutNone
    <2> QED
      BY <1>0, <2>1 DEF Scanned
  <1>3. ASSUME NEW j \in 0 .. n - 1, j \in A PROVE j + 1 \in A
    <2> DEFINE i == j + 1
               t == turn[j]
    <2>1. i \in 1 .. n /\ i \in 0 .. n /\ i - 1 = j /\ j \in 0 .. n
      BY <1>0
    <2>2. turn[i] = DeleteTurn(t, i, key) /\ t \in Contacts
      BY <1>1, <2>1
    <2>3. PICK gone \in SUBSET Asked(s, key) :
            /\ Without(t, s, gone)
            /\ \A g \in gone : g <= j + Cardinality(gone)
            /\ gone = {} => \A k \in 1 .. j : k \notin Asked(s, key)
      BY <1>3 DEF Scanned
    <2>4. gone \in SUBSET (1 .. Len(s))
      BY DEF Asked
    <2>5. Cardinality(gone) \in Nat
      <3>1. 1 \in Int /\ n \in Int /\ 1 <= n + 1 /\ n - 1 + 1 = n
        BY <1>0
      <3> QED
        BY <2>4, <3>1, Counted
    <2> HIDE DEF i, t
    <2>6. CASE i <= Len(t) /\ Matches(t[i], key)
      <3> DEFINE o == i + Cardinality(gone)
                 more == gone \cup {o}
      <3>1. i \in 1 .. Len(t) /\ o \in Int
        BY <2>1, <2>2, <2>5, <2>6 DEF Contacts
      <3>2. \A g \in gone : g < o
        <4>1. \A g \in gone : g \in Int
          BY <2>4
        <4> QED
          BY <2>1, <2>3, <2>5, <4>1
      <3> HIDE DEF o
      <3>3. o = i + Cardinality(gone)
        BY DEF o
      <3>4. /\ o \in 1 .. Len(s) /\ t[i] = s[o]
            /\ Cardinality(more) = Cardinality(gone) + 1
            /\ Without(DeleteAt(t, i), s, more)
        <4>1. t \in Contacts /\ Without(t, s, gone)
          BY <2>2, <2>3, Zenon
        <4> HIDE DEF more
        <4>2. /\ o \in 1 .. Len(s) /\ t[i] = s[o]
              /\ Cardinality(gone \cup {o}) = Cardinality(gone) + 1
              /\ Without(DeleteAt(t, i), s, gone \cup {o})
          <5>1. \A x \in 1 .. Len(t), y \in Int :
                  y = x + Cardinality(gone) /\ (\A g \in gone : g < y) =>
                    /\ y \in 1 .. Len(s) /\ t[x] = s[y]
                    /\ Cardinality(gone \cup {y}) = Cardinality(gone) + 1
                    /\ Without(DeleteAt(t, x), s, gone \cup {y})
            BY ONLY s \in Contacts, <2>4, <4>1, DeleteNext, Zenon
          <5> QED
            BY ONLY <3>1, <3>2, <3>3, <5>1, Zenon
        <4> QED
          BY <4>2, Zenon DEF more
      <3>5. more \in SUBSET Asked(s, key)
        BY <2>6, <3>4 DEF Asked
      <3>6. \A g \in more : g <= i + Cardinality(more)
        <4>1. \A g \in gone : g \in Int
          BY <2>4
        <4> QED
          BY <2>1, <2>5, <3>1, <3>2, <3>3, <3>4, <4>1
      <3>7. turn[i] = DeleteAt(t, i)
        BY <2>2, <2>6 DEF DeleteTurn
      <3>8. Scanned(turn[i], s, key, i)
        BY <3>4, <3>5, <3>6, <3>7 DEF Scanned
      <3> QED
        BY <2>1, <3>8 DEF i
    <2>7. CASE ~(i <= Len(t) /\ Matches(t[i], key))
      <3>1. turn[i] = t
        BY <2>2, <2>7 DEF DeleteTurn
      <3>2. \A g \in gone : g <= i + Cardinality(gone)
        <4>1. \A g \in gone : g \in Int
          BY <2>4
        <4> QED
          BY <2>1, <2>3, <2>5, <4>1
      <3>3. ASSUME gone = {}, NEW k \in 1 .. i PROVE k \notin Asked(s, key)
        <4>1. CASE k = i
          <5>1. Len(t) = n /\ t[i] = s[i]
            BY <2>1, <2>2, <2>3, <3>3, WithoutNone
          <5> QED
            BY <2>1, <2>7, <4>1, <5>1 DEF Asked
        <4>2. CASE k # i
          BY <2>1, <2>3, <3>3, <4>2
        <4> QED
          BY <4>1, <4>2
      <3>4. Scanned(turn[i], s, key, i)
        BY <2>3, <3>1, <3>2, <3>3 DEF Scanned
      <3> QED
        BY <2>1, <3>4 DEF i
    <2> QED
      BY <2>6, <2>7
  <1> HIDE DEF A
  <1>4. n \in A
    BY <1>0, <1>2, <1>3, CountUp
  <1>5. PICK gone \in SUBSET Asked(s, key) :
          /\ Without(turn[n], s, gone)
          /\ gone = {} => \A k \in 1 .. n : k \notin Asked(s, key)
    BY <1>4 DEF A, Scanned
  <1>6. Asked(s, key) # {} => gone # {}
    BY <1>5 DEF Asked
  <1> QED
    BY <1>0, <1>1, <1>5, <1>6

(* Counting up from 1 comes to a first match. *)
LEMMA HasFirst ==
  ASSUME NEW n \in Nat, NEW hits \in SUBSET (1 .. n), hits # {}
  PROVE  \E i \in hits : \A j \in hits : i <= j
  <1> SUFFICES ASSUME \A i \in hits : \E j \in hits : ~(i <= j) PROVE FALSE
    OBVIOUS
  <1> DEFINE A == {i \in 0 .. n : \A j \in hits : j > i}
  <1>1. 0 \in A
    OBVIOUS
  <1>2. ASSUME NEW i \in 0 .. n - 1, i \in A PROVE i + 1 \in A
    <2>1. \A j \in hits : j \in Int /\ j >= i + 1
      BY <1>2
    <2>2. i + 1 \notin hits
      BY <2>1
    <2>3. \A j \in hits : j > i + 1
      BY <2>1, <2>2
    <2> QED
      BY <2>3
  <1>3. 0 \in Int /\ n \in Int /\ n \in 0 .. n
    OBVIOUS
  <1> HIDE DEF A
  <1>4. n \in A
    BY <1>1, <1>2, <1>3, CountUp
  <1>5. PICK j : j \in hits
    OBVIOUS
  <1>6. j > n /\ j \in 1 .. n
    BY <1>4, <1>5 DEF A
  <1> QED
    BY <1>6

(* heap/task.c deletes one match, and keeps the order. *)
LEMMA DeletedFirstExact ==
  ASSUME NEW s \in Contacts, NEW key
  PROVE  /\ DeletedFirst(s, key) \in Contacts
         /\ InOrder(s) => InOrder(DeletedFirst(s, key))
         /\ \E gone \in SUBSET Asked(s, key) :
              /\ Without(DeletedFirst(s, key), s, gone)
              /\ Asked(s, key) # {} => gone # {}
              /\ Cardinality(gone) <= 1
  <1> DEFINE n == Len(s)
  <1>0. n \in Nat
    BY DEF Contacts
  <1>1. CASE Asked(s, key) = {}
    <2>1. DeletedFirst(s, key) = s
      BY <1>1 DEF DeletedFirst, Asked
    <2>2. Without(s, s, {}) /\ Cardinality({}) <= 1
      BY WithoutNone, FS_EmptySet
    <2> QED
      BY <1>1, <2>1, <2>2
  <1>2. CASE Asked(s, key) # {}
    <2> DEFINE i == CHOOSE i \in Asked(s, key) : \A j \in Asked(s, key) : i <= j
    <2>1. Asked(s, key) \in SUBSET (1 .. n)
      BY DEF Asked
    <2>2. i \in Asked(s, key)
      BY <1>0, <1>2, <2>1, HasFirst
    <2>3. DeletedFirst(s, key) = DeleteAt(s, i)
      BY <1>2 DEF DeletedFirst, Asked
    <2> HIDE DEF i
    <2>4. i \in 1 .. n /\ i \in Int
      BY <2>1, <2>2
    <2>5. Cardinality({}) = 0 /\ {} \in SUBSET (1 .. n) /\ {} \cup {i} = {i}
      BY FS_EmptySet
    <2>6. i = i + Cardinality({}) /\ \A g \in {} : g < i
      BY <2>4, <2>5
    <2>7. Without(s, s, {})
      BY WithoutNone
    <2>8. /\ Cardinality({} \cup {i}) = Cardinality({}) + 1
          /\ Without(DeleteAt(s, i), s, {} \cup {i})
      BY <2>4, <2>5, <2>6, <2>7, DeleteNext
    <2>9. Cardinality({i}) <= 1 /\ Without(DeleteAt(s, i), s, {i})
      BY <2>5, <2>8
    <2>10. ASSUME InOrder(s) PROVE InOrder(DeleteAt(s, i))
      <3> DEFINE t == DeleteAt(s, i)
      <3>1. /\ Len(t) = n - 1
            /\ \A j \in 1 .. n - 1 : t[j] = IF j < i THEN s[j] ELSE s[j + 1]
        BY <2>4, DeleteAtIs
      <3> HIDE DEF t
      <3>2. ASSUME NEW j \in 1 .. Len(t) - 1 PROVE t[j].name <= t[j + 1].name
        <4>1. PICK x \in 1 .. n :
                \E y \in x .. n : t[j] = s[x] /\ t[j + 1] = s[y]
          <5>1. j \in 1 .. n - 1 /\ j + 1 \in 1 .. n - 1
            BY <1>0, <3>1
          <5>2. CASE j + 1 < i
            BY <1>0, <2>4, <3>1, <5>1, <5>2
          <5>3. CASE j < i /\ ~(j + 1 < i)
            BY <1>0, <2>4, <3>1, <5>1, <5>3
          <5>4. CASE ~(j < i)
            <6>1. /\ j + 1 \in 1 .. n /\ (j + 1) + 1 \in j + 1 .. n
                  /\ ~(j + 1 < i)
              BY <1>0, <2>4, <5>1, <5>4
            <6>2. t[j] = s[j + 1] /\ t[j + 1] = s[(j + 1) + 1]
              BY <3>1, <5>1, <5>4, <6>1
            <6> QED
              BY <6>1, <6>2
          <5> QED
            BY <1>0, <2>4, <5>1, <5>2, <5>3, <5>4
        <4> QED
          BY <2>10, <4>1, OrderedFar
      <3> QED
        BY <3>2 DEF InOrder, t
    <2>11. DeleteAt(s, i) \in Contacts
      BY <2>4, DeleteAtIs
    <2>12. {i} \in SUBSET Asked(s, key) /\ {i} # {}
      BY <2>2
    <2> QED
      BY <2>3, <2>9, <2>10, <2>11, <2>12
  <1> QED
    BY <1>1, <1>2

-----------------------------------------------------------------------------
(* The file. *)

(* What an addition does; put after the others it only grows the book. *)
LEMMA AddedIs ==
  ASSUME NEW s \in Contacts, NEW c \in Contact
  PROVE  /\ Added(s, c) \in Contacts /\ Len(Added(s, c)) = Len(s) + 1
         /\ InOrder(Added(s, c))
         /\ StablySorted(Added(s, c), Append(s, c))
         /\ InOrder(Append(s, c)) => Added(s, c) = Append(s, c)
  <1>1. /\ Append(s, c) \in Contacts /\ Len(Append(s, c)) = Len(s) + 1
        /\ Len(Append(s, c)) > 0
    BY DEF Contacts
  <1> QED
    BY <1>1, SortIsStable, SortOfSorted DEF Added

LEMMA LoadLineType ==
  ASSUME NEW s \in Contacts, NEW line \in Contacts
  PROVE  /\ LoadLine(s, line) \in Contacts
         /\ Len(LoadLine(s, line)) <= Len(s) + 1
         /\ heap /\ InOrder(s) => InOrder(LoadLine(s, line))
  <1>1. Len(s) \in Nat
    BY DEF Contacts
  <1>2. CASE Len(line) # 1
    BY <1>1, <1>2 DEF LoadLine
  <1>3. CASE Len(line) = 1
    <2>1. line[1] \in Contact
      BY <1>3 DEF Contacts
    <2>2. /\ Append(s, line[1]) \in Contacts
          /\ Len(Append(s, line[1])) = Len(s) + 1
      BY <2>1 DEF Contacts
    <2>3. CASE heap
      BY <1>1, <1>3, <2>1, <2>3, AddedIs DEF LoadLine
    <2>4. CASE ~heap
      BY <1>1, <1>3, <2>2, <2>4 DEF LoadLine
    <2> QED
      BY <2>3, <2>4
  <1> QED
    BY <1>2, <1>3

(* The books after each line. *)
LEMMA LoadedIs ==
  ASSUME NEW lines \in Files
  PROVE  \E turn \in [0 .. Len(lines) -> Contacts] :
           /\ turn[0] = <<>>
           /\ \A i \in 1 .. Len(lines) :
                turn[i] = LoadLine(turn[i - 1], lines[i])
           /\ Loaded(lines) = turn[Len(lines)]
  <1> DEFINE n == Len(lines)
             Turn(g, i) == IF i = 0 THEN <<>> ELSE LoadLine(g[i - 1], lines[i])
             step == [i \in 0 .. n |->
                        [t \in Contacts |-> IF i = 0 THEN t
                                         ELSE LoadLine(t, lines[i])]]
  <1>0. n \in Int /\ 0 \in Int /\ 0 <= n /\ <<>> \in Contacts
    BY DEF Contacts, Files
  <1>1. ASSUME NEW i \in 1 .. n, NEW t \in Contacts
        PROVE  LoadLine(t, lines[i]) \in Contacts
    <2>1. lines[i] \in Contacts
      BY DEF Contacts, Files
    <2> QED
      BY <2>1, LoadLineType
  <1>2. Loaded(lines) = (CHOOSE g : g = [i \in 0 .. n |-> Turn(g, i)])[n]
    BY DEF Loaded
  <1> HIDE DEF n
  <1>3. \E g : g = [i \in 0 .. n |-> Turn(g, i)]
    <2>1. step \in [0 .. n -> [Contacts -> Contacts]]
      <3>1. ASSUME NEW i \in 0 .. n, i # 0 PROVE i \in 1 .. n
        BY <1>0, <3>1
      <3> QED
        BY <1>1, <3>1
    <2> HIDE DEF step
    <2>2. PICK g \in [0 .. n -> Contacts] : RunsUp(g, 0, n, <<>>, step)
      BY <1>0, <2>1, LoopUp
    <2>3. ASSUME NEW i \in 0 .. n PROVE g[i] = Turn(g, i)
      <3>1. CASE i = 0
        BY <2>2, <3>1 DEF RunsUp
      <3>2. CASE i # 0
        <4>1. i \in 0 + 1 .. n /\ i - 1 \in 0 .. n
          BY <1>0, <3>2
        <4>2. g[i - 1] \in Contacts /\ g[i] = step[i][g[i - 1]]
          BY <2>2, <4>1 DEF RunsUp
        <4> QED
          BY <3>2, <4>2 DEF step
      <3> QED
        BY <3>1, <3>2
    <2> HIDE DEF Turn
    <2> QED
      BY <2>2, <2>3
  <1>4. PICK g : g = [i \in 0 .. n |-> Turn(g, i)] /\ Loaded(lines) = g[n]
    BY <1>2, <1>3
  <1>5. g[0] = <<>> /\ \A i \in 1 .. n : g[i] = LoadLine(g[i - 1], lines[i])
    BY <1>0, <1>4
  <1>6. \A i \in 0 .. n : g[i] \in Contacts
    <2> DEFINE A == {i \in 0 .. n : g[i] \in Contacts}
    <2>1. 0 \in A
      BY <1>0, <1>5
    <2>2. ASSUME NEW i \in 0 .. n - 1, i \in A PROVE i + 1 \in A
      <3>1. i + 1 \in 1 .. n /\ i + 1 \in 0 .. n /\ (i + 1) - 1 = i
        BY <1>0
      <3>2. g[i + 1] = LoadLine(g[i], lines[i + 1]) /\ g[i] \in Contacts
        BY <1>5, <2>2, <3>1
      <3> QED
        BY <1>1, <3>1, <3>2
    <2> HIDE DEF A
    <2>3. \A i \in 0 .. n : i \in A
      BY <1>0, <2>1, <2>2, CountUp
    <2> QED
      BY <2>3 DEF A
  <1> HIDE DEF Turn
  <1>7. g \in [0 .. n -> Contacts]
    BY <1>4, <1>6
  <1> QED
    BY <1>4, <1>5, <1>7 DEF n

(* A file of n lines is a book of at most n contacts; heap/task.c sorts it. *)
LEMMA LoadedType ==
  ASSUME NEW lines \in Files
  PROVE  /\ Loaded(lines) \in Contacts /\ Len(Loaded(lines)) <= Len(lines)
         /\ heap => InOrder(Loaded(lines))
  <1> DEFINE n == Len(lines)
  <1>0. n \in Int /\ 0 \in Int /\ 0 \in 0 .. n /\ n \in 0 .. n
    BY DEF Files
  <1>1. PICK turn \in [0 .. n -> Contacts] :
          /\ turn[0] = <<>>
          /\ \A i \in 1 .. n : turn[i] = LoadLine(turn[i - 1], lines[i])
          /\ Loaded(lines) = turn[n]
    BY LoadedIs
  <1> DEFINE A == {i \in 0 .. n : /\ Len(turn[i]) <= i
                                  /\ heap => InOrder(turn[i])}
  <1>2. 0 \in A
    BY <1>0, <1>1 DEF InOrder
  <1>3. ASSUME NEW i \in 0 .. n - 1, i \in A PROVE i + 1 \in A
    <2>1. /\ i + 1 \in 1 .. n /\ i + 1 \in 0 .. n
          /\ (i + 1) - 1 = i /\ i \in 0 .. n
      BY <1>0
    <2>2. turn[i] \in Contacts /\ turn[i + 1] \in Contacts
      BY <1>1, <2>1
    <2>3. turn[i + 1] = LoadLine(turn[i], lines[i + 1])
      BY <1>1, <2>1
    <2>4. lines[i + 1] \in Contacts
      BY <2>1 DEF Files, Contacts
    <2>5. /\ Len(turn[i + 1]) <= Len(turn[i]) + 1
          /\ heap /\ InOrder(turn[i]) => InOrder(turn[i + 1])
      BY <2>2, <2>3, <2>4, LoadLineType
    <2>6. Len(turn[i]) \in Nat /\ Len(turn[i + 1]) \in Nat
      BY <2>2 DEF Contacts
    <2>7. Len(turn[i + 1]) <= i + 1
      BY <1>3, <2>5, <2>6
    <2> QED
      BY <1>3, <2>1, <2>5, <2>7
  <1> HIDE DEF A
  <1>4. n \in A
    BY <1>0, <1>2, <1>3, CountUp
  <1> QED
    BY <1>0, <1>1, <1>4 DEF A

LEMMA SaveContactType ==
  ASSUME NEW lines \in Files, NEW c \in Contact
  PROVE  SaveContact(lines, c) \in Files
  <1>1. Append(lines, <<c>>) \in Files
    BY DEF Files
  <1>2. ASSUME lines # <<>>
        PROVE  [lines EXCEPT ![Len(lines)] = Append(@, c)] \in Files
    <2>1. Len(lines) \in 1 .. Len(lines)
      BY <1>2 DEF Files
    <2>2. Append(lines[Len(lines)], c) \in Seq(Contact)
      BY <2>1 DEF Files
    <2> QED
      BY <2>1, <2>2 DEF Files
  <1> QED
    BY <1>1, <1>2 DEF SaveContact

(* The files after each contact. *)
LEMMA LinesIs ==
  ASSUME NEW s \in Contacts
  PROVE  \E turn \in [0 .. Len(s) -> Files] :
           /\ turn[0] = <<>>
           /\ \A i \in 1 .. Len(s) : turn[i] = SaveContact(turn[i - 1], s[i])
           /\ Lines(s) = turn[Len(s)]
  <1> DEFINE n == Len(s)
             Turn(g, i) == IF i = 0 THEN <<>> ELSE SaveContact(g[i - 1], s[i])
             step == [i \in 0 .. n |->
                        [t \in Files |-> IF i = 0 THEN t
                                         ELSE SaveContact(t, s[i])]]
  <1>0. n \in Int /\ 0 \in Int /\ 0 <= n /\ <<>> \in Files
    BY DEF Contacts, Files
  <1>1. ASSUME NEW i \in 1 .. n, NEW t \in Files
        PROVE  SaveContact(t, s[i]) \in Files
    <2>1. s[i] \in Contact
      BY DEF Contacts, Files
    <2> QED
      BY <2>1, SaveContactType
  <1>2. Lines(s) = (CHOOSE g : g = [i \in 0 .. n |-> Turn(g, i)])[n]
    BY DEF Lines
  <1> HIDE DEF n
  <1>3. \E g : g = [i \in 0 .. n |-> Turn(g, i)]
    <2>1. step \in [0 .. n -> [Files -> Files]]
      <3>1. ASSUME NEW i \in 0 .. n, i # 0 PROVE i \in 1 .. n
        BY <1>0, <3>1
      <3> QED
        BY <1>1, <3>1
    <2> HIDE DEF step
    <2>2. PICK g \in [0 .. n -> Files] : RunsUp(g, 0, n, <<>>, step)
      BY <1>0, <2>1, LoopUp
    <2>3. ASSUME NEW i \in 0 .. n PROVE g[i] = Turn(g, i)
      <3>1. CASE i = 0
        BY <2>2, <3>1 DEF RunsUp
      <3>2. CASE i # 0
        <4>1. i \in 0 + 1 .. n /\ i - 1 \in 0 .. n
          BY <1>0, <3>2
        <4>2. g[i - 1] \in Files /\ g[i] = step[i][g[i - 1]]
          BY <2>2, <4>1 DEF RunsUp
        <4> QED
          BY <3>2, <4>2 DEF step
      <3> QED
        BY <3>1, <3>2
    <2> HIDE DEF Turn
    <2> QED
      BY <2>2, <2>3
  <1>4. PICK g : g = [i \in 0 .. n |-> Turn(g, i)] /\ Lines(s) = g[n]
    BY <1>2, <1>3
  <1>5. g[0] = <<>> /\ \A i \in 1 .. n : g[i] = SaveContact(g[i - 1], s[i])
    BY <1>0, <1>4
  <1>6. \A i \in 0 .. n : g[i] \in Files
    <2> DEFINE A == {i \in 0 .. n : g[i] \in Files}
    <2>1. 0 \in A
      BY <1>0, <1>5
    <2>2. ASSUME NEW i \in 0 .. n - 1, i \in A PROVE i + 1 \in A
      <3>1. i + 1 \in 1 .. n /\ i + 1 \in 0 .. n /\ (i + 1) - 1 = i
        BY <1>0
      <3>2. g[i + 1] = SaveContact(g[i], s[i + 1]) /\ g[i] \in Files
        BY <1>5, <2>2, <3>1
      <3> QED
        BY <1>1, <3>1, <3>2
    <2> HIDE DEF A
    <2>3. \A i \in 0 .. n : i \in A
      BY <1>0, <2>1, <2>2, CountUp
    <2> QED
      BY <2>3 DEF A
  <1> HIDE DEF Turn
  <1>7. g \in [0 .. n -> Files]
    BY <1>4, <1>6
  <1> QED
    BY <1>4, <1>5, <1>7 DEF n

LEMMA LinesType ==
  ASSUME NEW s \in Contacts
  PROVE  Lines(s) \in Files
  <1>1. Len(s) \in 0 .. Len(s)
    BY DEF Contacts
  <1> QED
    BY <1>1, LinesIs

(* If every contact but the last has its newline, each has a line. *)
OwnLines(s) == \A i \in 1 .. Len(s) - 1 : s[i].nl

LEMMA LinesOfOwn ==
  ASSUME NEW s \in Contacts, OwnLines(s)
  PROVE  /\ Len(Lines(s)) = Len(s)
         /\ \A i \in 1 .. Len(s) : Lines(s)[i] = <<s[i]>>
  <1> DEFINE n == Len(s)
  <1>0. n \in Int /\ 0 \in Int /\ 0 \in 0 .. n /\ n \in 0 .. n
    BY DEF Contacts
  <1>1. PICK turn \in [0 .. n -> Files] :
          /\ turn[0] = <<>>
          /\ \A i \in 1 .. n : turn[i] = SaveContact(turn[i - 1], s[i])
          /\ Lines(s) = turn[n]
    BY LinesIs
  <1> DEFINE A == {i \in 0 .. n : /\ Len(turn[i]) = i
                                  /\ \A j \in 1 .. i : turn[i][j] = <<s[j]>>}
  <1>2. 0 \in A
    BY <1>0, <1>1
  <1>3. ASSUME NEW i \in 0 .. n - 1, i \in A PROVE i + 1 \in A
    <2>1. /\ i + 1 \in 1 .. n /\ i + 1 \in 0 .. n
          /\ (i + 1) - 1 = i /\ i \in 0 .. n
      BY <1>0
    <2> DEFINE t == turn[i]
    <2>2. t \in Files /\ turn[i + 1] = SaveContact(t, s[i + 1])
      BY <1>1, <2>1
    <2>3. Len(t) = i /\ \A j \in 1 .. i : t[j] = <<s[j]>>
      BY <1>3
    <2>4. s[i + 1] \in Contact
      BY <2>1 DEF Contacts
    <2> HIDE DEF t
    <2>5. t # <<>> => ~Open(t[Len(t)])
      <3> SUFFICES ASSUME t # <<>> PROVE ~Open(t[Len(t)])
        OBVIOUS
      <3>1. i # 0
        BY <2>2, <2>3 DEF Files
      <3>2. i \in 1 .. i /\ i \in 1 .. n - 1
        BY <1>0, <3>1
      <3>3. t[Len(t)] = <<s[i]>> /\ s[i].nl
        BY <2>3, <3>2 DEF OwnLines
      <3>4. Len(<<s[i]>>) = 1 /\ <<s[i]>>[1] = s[i]
        OBVIOUS
      <3> QED
        BY <3>3, <3>4 DEF Open
    <2>6. turn[i + 1] = Append(t, <<s[i + 1]>>)
      BY <2>2, <2>5 DEF SaveContact
    <2>7. <<s[i + 1]>> \in Seq(Contact)
      BY <2>4
    <2> DEFINE x == <<s[i + 1]>>
    <2> HIDE DEF x
    <2>8. /\ Len(Append(t, x)) = Len(t) + 1
          /\ Append(t, x)[Len(t) + 1] = x
          /\ \A j \in 1 .. Len(t) : Append(t, x)[j] = t[j]
      BY <2>2, <2>7 DEF Files, x
    <2>9. ASSUME NEW j \in 1 .. i + 1 PROVE turn[i + 1][j] = <<s[j]>>
      <3>1. CASE j = i + 1
        BY <2>3, <2>6, <2>8, <3>1 DEF x
      <3>2. CASE j # i + 1
        <4>1. j \in 1 .. i
          BY <2>1, <3>2
        <4>2. turn[i + 1] = Append(t, x)
          BY <2>6 DEF x
        <4> QED
          BY <2>3, <2>8, <4>1, <4>2
      <3> QED
        BY <3>1, <3>2
    <2>10. Len(turn[i + 1]) = i + 1
      BY <2>3, <2>6, <2>8 DEF x
    <2> QED
      BY <2>1, <2>9, <2>10
  <1> HIDE DEF A
  <1>4. n \in A
    BY <1>0, <1>2, <1>3, CountUp
  <1> QED
    BY <1>1, <1>4 DEF A

(* What is loaded from lines of one contact each. *)
LEMMA LoadedLines ==
  ASSUME NEW s \in Contacts, NEW lines \in Files, Len(lines) = Len(s),
         \A i \in 1 .. Len(s) : lines[i] = <<s[i]>>,
         heap => InOrder(s)
  PROVE  Loaded(lines) = s
  <1> DEFINE n == Len(s)
  <1>0. /\ n \in Int /\ n \in Nat /\ 0 \in Int /\ 0 \in 0 .. n /\ n \in 0 .. n
        /\ Len(lines) = n
    BY DEF Contacts
  <1>1. PICK turn \in [0 .. n -> Contacts] :
          /\ turn[0] = <<>>
          /\ \A i \in 1 .. n : turn[i] = LoadLine(turn[i - 1], lines[i])
          /\ Loaded(lines) = turn[n]
    BY <1>0, LoadedIs
  <1> DEFINE A == {i \in 0 .. n : /\ Len(turn[i]) = i
                                  /\ \A j \in 1 .. i : turn[i][j] = s[j]}
  <1>2. 0 \in A
    BY <1>0, <1>1
  <1>3. ASSUME NEW i \in 0 .. n - 1, i \in A PROVE i + 1 \in A
    <2>1. /\ i + 1 \in 1 .. n /\ i + 1 \in 0 .. n
          /\ (i + 1) - 1 = i /\ i \in 0 .. n
      BY <1>0
    <2> DEFINE t == turn[i]
               c == s[i + 1]
    <2>2. t \in Contacts /\ turn[i + 1] = LoadLine(t, lines[i + 1])
      BY <1>1, <2>1
    <2>3. Len(t) = i /\ \A j \in 1 .. i : t[j] = s[j]
      BY <1>3
    <2>4. c \in Contact /\ lines[i + 1] = <<c>>
      BY <2>1 DEF Contacts
    <2> HIDE DEF t, c
    <2>5. Len(<<c>>) = 1 /\ <<c>>[1] = c
      OBVIOUS
    <2>6. /\ Append(t, c) \in Contacts
          /\ Len(Append(t, c)) = i + 1
          /\ Append(t, c)[i + 1] = c
          /\ \A j \in 1 .. i : Append(t, c)[j] = t[j]
      BY <2>2, <2>3, <2>4 DEF Contacts
    <2>7. \A j \in 1 .. i + 1 : Append(t, c)[j] = s[j]
      <3> SUFFICES ASSUME NEW j \in 1 .. i + 1 PROVE Append(t, c)[j] = s[j]
        OBVIOUS
      <3>1. CASE j = i + 1
        BY <2>6, <3>1 DEF c
      <3>2. CASE j # i + 1
        <4>1. j \in 1 .. i
          BY <2>1, <3>2
        <4> QED
          BY <2>3, <2>6, <4>1
      <3> QED
        BY <3>1, <3>2
    <2>8. heap => InOrder(Append(t, c))
      <3> SUFFICES ASSUME heap, NEW j \in 1 .. i
                   PROVE  Append(t, c)[j].name <= Append(t, c)[j + 1].name
        BY <2>1, <2>6 DEF InOrder
      <3>1. j \in 1 .. i + 1 /\ j + 1 \in 1 .. i + 1 /\ j \in 1 .. n - 1
        BY <2>1
      <3>2. s[j].name <= s[j + 1].name
        BY <3>1 DEF InOrder
      <3> QED
        BY <2>7, <3>1, <3>2
    <2>9. turn[i + 1] = Append(t, c)
      BY <2>2, <2>4, <2>5, <2>8, AddedIs DEF LoadLine
    <2> QED
      BY <2>1, <2>6, <2>7, <2>9
  <1> HIDE DEF A
  <1>4. Loaded(lines) \in Contacts /\ Len(Loaded(lines)) = n
        /\ \A j \in 1 .. n : Loaded(lines)[j] = s[j]
    <2>1. n \in A
      BY <1>0, <1>2, <1>3, CountUp
    <2> QED
      BY <1>0, <1>1, <2>1 DEF A
  <1> QED
    BY <1>4 DEF Contacts

-----------------------------------------------------------------------------
(* The programs. *)

(* A deletion in either program. *)
LEMMA DeletedIs ==
  ASSUME NEW s \in Contacts, NEW key
  PROVE  /\ Deleted(s, key) \in Contacts
         /\ Len(Deleted(s, key)) <= Len(s)
         /\ heap /\ InOrder(s) => InOrder(Deleted(s, key))
         /\ \E gone \in SUBSET Asked(s, key) :
              /\ Without(Deleted(s, key), s, gone)
              /\ Asked(s, key) # {} => gone # {}
              /\ heap => Cardinality(gone) <= 1
  <1>1. /\ Deleted(s, key) \in Contacts
        /\ heap /\ InOrder(s) => InOrder(Deleted(s, key))
        /\ \E gone \in SUBSET Asked(s, key) :
             /\ Without(Deleted(s, key), s, gone)
             /\ Asked(s, key) # {} => gone # {}
             /\ heap => Cardinality(gone) <= 1
    <2>1. CASE heap
      BY <2>1, DeletedFirstExact DEF Deleted
    <2>2. CASE ~heap
      BY <2>2, DeletedAllExact DEF Deleted
    <2> QED
      BY <2>1, <2>2
  <1>2. Len(Deleted(s, key)) <= Len(s)
    <2>1. PICK gone \in SUBSET Asked(s, key) : Without(Deleted(s, key), s, gone)
      BY <1>1
    <2>2. Len(s) \in Nat
      BY DEF Contacts
    <2>3. Cardinality(gone) \in 0 .. Len(s)
      <3>1. /\ 1 \in Int /\ Len(s) \in Int /\ 1 <= Len(s) + 1
            /\ Len(s) - 1 + 1 = Len(s)
        BY <2>2
      <3>2. gone \in SUBSET (1 .. Len(s))
        BY DEF Asked
      <3> QED
        BY <3>1, <3>2, Counted
    <2>4. Len(Deleted(s, key)) = Len(s) - Cardinality(gone)
      BY <2>1 DEF Without
    <2> QED
      BY <2>2, <2>3, <2>4
  <1> QED
    BY <1>1, <1>2

(* From an ordinary exit on, the file has what was saved, until a run has read
   and removed it. *)
Kept ==
  phase \in {"down", "loaded"} /\ saved.done /\ ~cut => file = Lines(saved.book)

(* The inductive invariant.  heap/task.c's books are in order at all times,
   so the sort at every line it loads changes nothing. *)
BookInv == /\ BookTypeOK
           /\ Kept
           /\ heap => InOrder(book) /\ InOrder(saved.book)

LEMMA SavedType ==
  \A d \in BOOLEAN, b \in Seq(Contact) :
    [done |-> d, book |-> b] \in [done : BOOLEAN, book : Seq(Contact)]
  OBVIOUS

LEMMA BookInvInit == BookInit => BookInv
  <1> SUFFICES ASSUME BookInit PROVE BookInv
    OBVIOUS
  <1> USE DEF BookInit
  <1>1. BookTypeOK
    <2>1. /\ file \in Files \cup {Missing}
          /\ MaxSize \in Nat /\ MaxAdds \in Nat /\ MaxStarts \in Nat
      BY ContactBookAssumption DEF ContactBookAssumption
    <2>2. <<>> \in Seq(Contact) /\ Len(<<>>) = 0
      OBVIOUS
    <2>3. saved \in [done : BOOLEAN, book : Seq(Contact)]
      BY <2>2, SavedType, Zenon
    <2>4. book \in Seq(Contact) /\ Len(book) <= MaxSize
      BY <2>1, <2>2
    <2>5. adds \in 0 .. MaxAdds /\ starts \in 0 .. MaxStarts
      BY <2>1
    <2>6. /\ heap \in BOOLEAN /\ cut \in BOOLEAN
          /\ phase \in {"down", "loaded", "menu", "saving"}
      BY Zenon
    <2> QED
      BY <2>1, <2>3, <2>4, <2>5, <2>6, Zenon DEF BookTypeOK
  <1>2. Kept
    BY DEF Kept
  <1>3. InOrder(book) /\ InOrder(saved.book)
    BY DEF InOrder
  <1> QED
    BY <1>1, <1>2, <1>3 DEF BookInv

LEMMA BookInvNext == BookInv /\ [BookNext]_bookVars => BookInv'
  <1> SUFFICES ASSUME BookInv, [BookNext]_bookVars PROVE BookInv'
    OBVIOUS
  <1> USE DEF BookInv
  <1>0. /\ book \in Contacts /\ saved.book \in Contacts
        /\ file # Missing => file \in Files
        /\ Len(book) \in Nat /\ Len(book) <= MaxSize
        /\ MaxSize \in Nat /\ MaxAdds \in Nat /\ MaxStarts \in Nat
        /\ <<>> \in Seq(Contact) /\ Len(<<>>) = 0 /\ <<>> \in Files
        /\ Missing \notin Files
    BY ContactBookAssumption
       DEF ContactBookAssumption, BookTypeOK, Contacts, Files
  <1>1. CASE Load
    <2>1. file \in Files /\ file # Missing
      BY <1>0, <1>1 DEF Load
    <2>2. /\ Loaded(file) \in Contacts /\ Len(Loaded(file)) <= Len(file)
          /\ heap => InOrder(Loaded(file))
      BY <2>1, LoadedType
    <2>3. Len(Loaded(file)) \in Nat /\ Len(file) \in Nat /\ Len(file) <= MaxSize
      BY <1>1, <2>1, <2>2 DEF Contacts, Files, Load
    <2>4. Len(book') <= MaxSize /\ book' \in Contacts
      BY <1>0, <1>1, <2>2, <2>3 DEF Load
    <2>5. BookTypeOK'
      BY <1>0, <1>1, <2>4 DEF Load, BookTypeOK, Contacts
    <2> QED
      BY <1>1, <2>1, <2>2, <2>5 DEF Load, Kept
  <1>2. CASE LoadFaults
    <2>1. phase = "down" /\ cut' = cut /\ UNCHANGED <<file, saved>>
      BY <1>2 DEF LoadFaults, Ends, BookTypeOK
    <2>2. BookTypeOK'
      BY <1>0, <1>2, <2>1 DEF LoadFaults, Ends, BookTypeOK
    <2> QED
      BY <1>2, <2>1, <2>2 DEF LoadFaults, Ends, Kept, InOrder
  <1>3. CASE RemoveFile
    <2>1. BookTypeOK'
      BY <1>3 DEF RemoveFile, BookTypeOK
    <2> QED
      BY <1>3, <2>1 DEF RemoveFile, Kept
  <1>4. CASE Exit
    <2>1. <<>> \in Files /\ Missing # <<>>
      BY <1>0
    <2>2. BookTypeOK'
      BY <1>4, <2>1 DEF Exit, BookTypeOK
    <2> QED
      BY <1>4, <2>1, <2>2 DEF Exit, Kept
  <1>5. CASE Save
    <2>1. Lines(book) \in Files /\ Lines(book) # Missing
      BY <1>0, LinesType, ContactBookAssumption DEF ContactBookAssumption
    <2>2. file' = Lines(book) /\ saved' = [done |-> TRUE, book |-> book]
      BY <1>5 DEF Save
    <2>3. BookTypeOK'
      <3>1. saved' \in [done : BOOLEAN, book : Seq(Contact)]
        BY <1>0, <2>2, SavedType, Zenon DEF Contacts
      <3>2. book' \in Seq(Contact) /\ Len(book') <= MaxSize
        BY <1>0, <1>5 DEF Save
      <3> QED
        BY <1>5, <2>1, <3>1, <3>2 DEF Save, BookTypeOK
    <2>4. Kept'
      BY <2>1, <2>2 DEF Kept
    <2>5. (heap => InOrder(book) /\ InOrder(saved.book))'
      BY <1>5, <2>2 DEF Save, InOrder
    <2> QED
      BY <2>3, <2>4, <2>5
  <1>6. CASE Kill
    <2>1. /\ phase \in {"loaded", "menu", "saving"}
          /\ cut' = (cut \/ phase \in {"menu", "saving"})
          /\ UNCHANGED <<file, saved>>
      BY <1>6 DEF Kill, Ends, BookTypeOK
    <2>2. BookTypeOK'
      <3>1. cut' \in BOOLEAN
        BY <2>1
      <3> QED
        BY <1>0, <1>6, <3>1 DEF Kill, Ends, BookTypeOK
    <2>3. Kept'
      BY <2>1 DEF Kept
    <2> QED
      BY <1>6, <2>2, <2>3 DEF Kill, Ends, InOrder
  <1>7. ASSUME NEW key \in Names \X Surenames, Add(key) PROVE BookInv'
    <2> DEFINE c == Entered(key, adds')
    <2>1. adds' = adds + 1 /\ adds' \in 0 .. MaxAdds
      BY <1>7, ContactBookAssumption DEF Add, BookTypeOK, ContactBookAssumption
    <2>2. c \in Contact
      BY <2>1 DEF Entered, Contact
    <2>3. book' = Added(book, c) /\ Len(book) < MaxSize
      BY <1>7 DEF Add
    <2> HIDE DEF c
    <2>4. /\ book' \in Contacts /\ Len(book') = Len(book) + 1
          /\ InOrder(book')
      BY <1>0, <2>2, <2>3, AddedIs
    <2>5. Len(book') <= MaxSize
      BY <1>0, <2>3, <2>4
    <2>6. BookTypeOK'
      BY <1>7, <2>1, <2>4, <2>5 DEF Add, BookTypeOK, Contacts
    <2> QED
      BY <1>7, <2>4, <2>6 DEF Add, Kept
  <1>8. ASSUME NEW key \in Names \X Surenames, Delete(key) PROVE BookInv'
    <2>1. book' = Deleted(book, key)
      BY <1>8 DEF Delete
    <2>2. /\ book' \in Contacts /\ Len(book') <= Len(book)
          /\ heap => InOrder(book')
      BY <1>0, <2>1, DeletedIs
    <2>3. Len(book') <= MaxSize
      BY <1>0, <2>2 DEF Contacts
    <2>4. BookTypeOK'
      BY <1>8, <2>2, <2>3 DEF Delete, BookTypeOK, Contacts
    <2> QED
      BY <1>8, <2>2, <2>4 DEF Delete, Kept
  <1>9. CASE UNCHANGED bookVars
    BY <1>9 DEF bookVars, BookTypeOK, Kept, InOrder
  <1> QED
    BY <1>1, <1>2, <1>3, <1>4, <1>5, <1>6, <1>7, <1>8, <1>9 DEF BookNext

(* What is in the array and in the file are contacts, also when some of them
   share a line, in every run of either program. *)
THEOREM BookTypeCorrect == BookSpec => []BookTypeOK
  <1>1. BookInv => BookTypeOK
    BY DEF BookInv
  <1> QED
    BY <1>1, BookInvInit, BookInvNext, PTL DEF BookSpec

(* For books of every size, with as many contacts of the name as there may
   be, a deletion removes only what it was asked for and keeps the order of
   the rest; a contact it should remove it may miss, but never all of them. *)
THEOREM DeletesExactly == BookSpec => []DeletionIsExact
  <1>1. BookInv => DeletionIsExact
    <2> SUFFICES ASSUME BookInv, NEW key \in Names \X Surenames
                 PROVE  \E gone \in SUBSET Asked(book, key) :
                          /\ Without(Deleted(book, key), book, gone)
                          /\ Asked(book, key) # {} => gone # {}
                          /\ heap => Cardinality(gone) <= 1
      BY DEF DeletionIsExact, Asked
    <2>1. book \in Contacts
      BY DEF BookInv, BookTypeOK, Contacts
    <2> QED
      BY <2>1, DeletedIs
  <1> QED
    BY <1>1, BookInvInit, BookInvNext, PTL DEF BookSpec

(* Whatever array of whatever size sort is given, in order or not, it is a
   stable sort: the new contact goes behind those of its name and no other
   contact is lost, doubled or changes places with one of its name. *)
THEOREM SortsStably == BookSpec => AdditionSorts
  <1> DEFINE Sorted == \E key \in Names \X Surenames :
                 StablySorted(book', Append(book, Entered(key, adds')))
  <1>1. BookInv /\ [BookNext]_bookVars => [adds' = adds + 1 => Sorted]_bookVars
    <2> SUFFICES ASSUME BookInv, BookNext, adds' = adds + 1 PROVE Sorted
      OBVIOUS
    <2>1. adds \in Nat /\ adds' # adds
      BY DEF BookInv, BookTypeOK
    <2>2. PICK key \in Names \X Surenames : Add(key)
      BY <2>1 DEF BookNext, Load, LoadFaults, RemoveFile, Exit, Save, Kill,
                  Delete, Ends
    <2> DEFINE c == Entered(key, adds')
    <2>3. c \in Contact
      BY <2>1 DEF Entered, Contact
    <2>4. book \in Contacts /\ book' = Added(book, c)
      BY <2>2 DEF BookInv, BookTypeOK, Contacts, Add
    <2> HIDE DEF c
    <2>5. StablySorted(book', Append(book, c))
      BY <2>3, <2>4, AddedIs
    <2> QED
      BY <2>5 DEF c
  <1> QED
    BY <1>1, BookInvInit, BookInvNext, PTL DEF BookSpec, AdditionSorts

(* A book of any size in which every contact but the last has its newline is
   loaded as it was saved. *)
THEOREM ReloadsExactly == BookSpec => ReloadsWhatWasSaved
  <1> DEFINE Reload == /\ phase = "down" /\ phase' = "loaded"
                       /\ saved.done /\ ~cut
                       /\ \A i \in 1 .. Len(saved.book) - 1 : saved.book[i].nl
  <1>1. BookInv /\ [BookNext]_bookVars =>
          [Reload => book' = saved.book]_bookVars
    <2> SUFFICES ASSUME BookInv, BookNext, Reload PROVE book' = saved.book
      OBVIOUS
    <2>1. Load
      BY DEF BookNext, Load, LoadFaults, RemoveFile, Exit, Save, Kill, Add,
             Delete, Ends
    <2> DEFINE s == saved.book
    <2>2. s \in Contacts /\ OwnLines(s) /\ (heap => InOrder(s))
      BY DEF BookInv, BookTypeOK, Contacts, OwnLines
    <2>3. file = Lines(s) /\ book' = Loaded(file)
      BY <2>1 DEF BookInv, Kept, Load
    <2> HIDE DEF s
    <2>4. /\ Lines(s) \in Files /\ Len(Lines(s)) = Len(s)
          /\ \A i \in 1 .. Len(s) : Lines(s)[i] = <<s[i]>>
      BY <2>2, LinesType, LinesOfOwn
    <2> QED
      BY <2>2, <2>3, <2>4, LoadedLines DEF s
  <1> QED
    BY <1>1, BookInvInit, BookInvNext, PTL DEF BookSpec, ReloadsWhatWasSaved

(* After an ordinary exit, the next start finds the file, and in heap/task.c
   crashes on it only if a contact that was saved before the last one had no
   newline; a run that ends before it has removed the file changes nothing. *)
THEOREM FileSurvivesExit == BookSpec => StartsAgain
  <1> DEFINE Crash == phase = "down" /\ starts' = starts + 1 /\ phase' = "down"
             Excused == \/ ~saved.done
                        \/ cut
                        \/ heap /\ \E i \in 1 .. Len(saved.book) - 1 :
                                     ~saved.book[i].nl
  <1>1. ASSUME BookInv, BookNext, Crash, saved.done, ~cut
        PROVE  Excused
    <2>1. LoadFaults
      <3>1. starts' # starts
        BY <1>1 DEF BookInv, BookTypeOK
      <3> QED
        BY <1>1, <3>1 DEF BookNext, Load, RemoveFile, Exit, Save, Kill, Add,
                          Delete
    <2> DEFINE s == saved.book
    <2>2. s \in Contacts /\ file = Lines(s)
      BY <1>1 DEF BookInv, BookTypeOK, Contacts, Kept
    <2> HIDE DEF s
    <2>3. file # Missing
      BY <2>2, LinesType, ContactBookAssumption DEF ContactBookAssumption
    <2>4. heap /\ Garbled(file)
      BY <2>1, <2>3 DEF LoadFaults
    <2>5. ~OwnLines(s)
      <3>1. SUFFICES ASSUME OwnLines(s) PROVE FALSE
        OBVIOUS
      <3>2. /\ Len(file) = Len(s)
            /\ \A i \in 1 .. Len(s) : file[i] = <<s[i]>>
        BY <2>2, <3>1, LinesOfOwn
      <3>3. PICK i \in 1 .. Len(s) : Len(file[i]) > 1
        BY <2>4, <3>2 DEF Garbled
      <3>4. file[i] = <<s[i]>> /\ Len(<<s[i]>>) = 1
        BY <3>2
      <3> QED
        BY <3>3, <3>4
    <2> QED
      BY <2>4, <2>5 DEF OwnLines, s
  <1> HIDE DEF Crash, Excused
  <1>2. BookInv /\ [BookNext]_bookVars => [Crash => Excused]_bookVars
    BY <1>1 DEF Excused
  <1> QED
    BY <1>2, BookInvInit, BookInvNext, PTL
       DEF BookSpec, StartsAgain, Crash, Excused

-----------------------------------------------------------------------------
(* The command interpreter. *)

(* Directories as sequences of names. *)
LEMMA PlaceIs ==
  /\ Root \in Places /\ Root \in Seq(DirNames) /\ Root = <<>>
  /\ \A d \in Places : d \in Seq(DirNames)
  <1>0. TreeDepth \in Nat
    BY CommandInterpreterAssumption, Zenon DEF CommandInterpreterAssumption
  <1>1. Root = <<>> /\ <<>> \in [1 .. 0 -> DirNames] /\ 0 \in 0 .. TreeDepth
    BY <1>0 DEF Root
  <1>2. Root \in Places
    BY <1>1 DEF Places
  <1>3. ASSUME NEW d \in Places PROVE d \in Seq(DirNames)
    <2>1. PICK n \in 0 .. TreeDepth : d \in [1 .. n -> DirNames]
      BY DEF Places
    <2>2. n \in Nat
      BY <1>0
    <2> QED
      BY <2>1, <2>2
  <1> QED
    BY <1>1, <1>2, <1>3

(* A part leads to a directory there is, or nowhere. *)
LEMMA FollowType ==
  ASSUME NEW t, Tree(t), NEW d \in t \cup {Nowhere}, NEW part
  PROVE  Follow(t, d, part) \in t \cup {Nowhere}
  BY DEF Follow, Tree

(* Where the first parts of a path lead, for each number of them. *)
LEMMA ResolveIs ==
  ASSUME NEW t, Tree(t), NEW p \in Seq(Parts)
  PROVE  \E place \in [0 .. Len(p) -> t \cup {Nowhere}] :
           /\ place[0] = Root
           /\ \A i \in 1 .. Len(p) :
                place[i] = Follow(t, place[i - 1], p[i])
           /\ Resolve(t, p) = place[Len(p)]
  <1> DEFINE n == Len(p)
             S == t \cup {Nowhere}
             Turn(g, i) == IF i = 0 THEN Root ELSE Follow(t, g[i - 1], p[i])
             step == [i \in 0 .. n |->
                        [d \in S |-> IF i = 0 THEN d ELSE Follow(t, d, p[i])]]
  <1>0. n \in Int /\ 0 \in Int /\ 0 <= n /\ Root \in S
    BY DEF Tree
  <1>1. ASSUME NEW i \in 0 .. n, NEW d \in S
        PROVE  Follow(t, d, p[i]) \in S
    BY FollowType
  <1>2. Resolve(t, p) = (CHOOSE g : g = [i \in 0 .. n |-> Turn(g, i)])[n]
    BY DEF Resolve
  <1> HIDE DEF n, S
  <1>3. \E g : g = [i \in 0 .. n |-> Turn(g, i)]
    <2>1. step \in [0 .. n -> [S -> S]]
      BY <1>1
    <2> HIDE DEF step
    <2>2. PICK g \in [0 .. n -> S] : RunsUp(g, 0, n, Root, step)
      BY <1>0, <2>1, LoopUp
    <2>3. ASSUME NEW i \in 0 .. n PROVE g[i] = Turn(g, i)
      <3>1. CASE i = 0
        BY <2>2, <3>1 DEF RunsUp
      <3>2. CASE i # 0
        <4>1. i \in 0 + 1 .. n /\ i - 1 \in 0 .. n
          BY <1>0, <3>2
        <4>2. g[i - 1] \in S /\ g[i] = step[i][g[i - 1]]
          BY <2>2, <4>1 DEF RunsUp
        <4> QED
          BY <3>2, <4>2 DEF step
      <3> QED
        BY <3>1, <3>2
    <2> HIDE DEF Turn
    <2> QED
      BY <2>2, <2>3
  <1>4. PICK g : g = [i \in 0 .. n |-> Turn(g, i)] /\ Resolve(t, p) = g[n]
    BY <1>2, <1>3
  <1>5. g[0] = Root /\ \A i \in 1 .. n : g[i] = Follow(t, g[i - 1], p[i])
    BY <1>0, <1>4
  <1>6. \A i \in 0 .. n : g[i] \in S
    <2> DEFINE A == {i \in 0 .. n : g[i] \in S}
    <2>1. 0 \in A
      BY <1>0, <1>5
    <2>2. ASSUME NEW i \in 0 .. n - 1, i \in A PROVE i + 1 \in A
      <3>1. /\ i + 1 \in 1 .. n /\ i + 1 \in 0 .. n
            /\ (i + 1) - 1 = i
        BY <1>0
      <3>2. g[i + 1] = Follow(t, g[i], p[i + 1]) /\ g[i] \in S
        BY <1>5, <2>2, <3>1
      <3> QED
        BY <1>1, <3>1, <3>2
    <2> HIDE DEF A
    <2>3. \A i \in 0 .. n : i \in A
      BY <1>0, <2>1, <2>2, CountUp
    <2> QED
      BY <2>3 DEF A
  <1> HIDE DEF Turn
  <1>7. g \in [0 .. n -> S]
    BY <1>4, <1>6
  <1> QED
    BY <1>4, <1>5, <1>7 DEF n, S

(* All but the last. *)
LEMMA FrontIs ==
  ASSUME NEW S, NEW p \in Seq(S), p # <<>>
  PROVE  /\ Front(p) \in Seq(S) /\ Len(Front(p)) = Len(p) - 1
         /\ \A i \in 1 .. Len(p) - 1 : Front(p)[i] = p[i]
  <1> DEFINE m == Len(p) - 1
             q == Front(p)
  <1>1. m \in Nat /\ 1 \in Int /\ \A i \in 1 .. m : p[i] \in S
    OBVIOUS
  <1> HIDE DEF m
  <1>2. /\ q \in Seq(S)
        /\ Len(q) = IF 1 <= m THEN m - 1 + 1 ELSE 0
        /\ \A i \in 1 .. m - 1 + 1 : q[i] = p[1 + i - 1]
    BY <1>1, SubSeqProperties DEF Front, m
  <1> HIDE DEF q
  <1>3. m - 1 + 1 = m /\ \A i \in 1 .. m : 1 + i - 1 = i
    BY <1>1
  <1>4. Len(q) = m
    BY <1>1, <1>2, <1>3
  <1> QED
    BY <1>2, <1>3, <1>4 DEF m, q

(* A sequence of one or two is one. *)
LEMMA ShortIs ==
  ASSUME NEW S, NEW a \in S, NEW b \in S
  PROVE  /\ <<a>> \in Seq(S) /\ Len(<<a>>) = 1
         /\ <<a, b>> \in Seq(S) /\ Len(<<a, b>>) = 2
  OBVIOUS

(* A sequence of some is one of more. *)
LEMMA WiderSeq ==
  ASSUME NEW S, NEW T, S \subseteq T, NEW p \in Seq(S)
  PROVE  p \in Seq(T)
  OBVIOUS

(* An argument makes the path longer. *)
LEMMA ArgumentIs ==
  ASSUME NEW x \in Arguments, NEW p \in Seq(Parts)
  PROVE  /\ p \o x \in Seq(Parts)
         /\ Len(p \o x) > Len(p)
  <1>1. x \in Seq(Parts) /\ Len(x) \in {1, 2}
    <2> HIDE DEF Parts
    <2>1. CASE x \in Parts \X Parts
      <3>1. PICK a \in Parts, b \in Parts : x = <<a, b>>
        BY <2>1
      <3> QED
        BY <3>1, ShortIs
    <2>2. CASE x \in {<<w>> : w \in Parts \ {".."}}
      <3>1. PICK w \in Parts : x = <<w>>
        BY <2>2
      <3> QED
        BY <3>1, ShortIs
    <2> QED
      BY <2>1, <2>2 DEF Arguments
  <1>2. p \o x \in Seq(Parts) /\ Len(p \o x) = Len(p) + Len(x)
    BY <1>1, ConcatProperties
  <1>3. Len(p) \in Nat
    OBVIOUS
  <1> DEFINE r == p \o x
  <1>4. r \in Seq(Parts) /\ Len(r) = Len(p) + Len(x)
    BY <1>2
  <1> HIDE DEF r
  <1>5. Len(r) > Len(p)
    <2> DEFINE k == Len(x)
               m == Len(p)
    <2>1. k \in {1, 2} /\ m \in Nat /\ Len(r) = m + k
      BY <1>1, <1>3, <1>4
    <2> HIDE DEF k, m
    <2>2. m + k > m
      BY <2>1
    <2> QED
      BY <2>1, <2>2 DEF m
  <1> QED
    BY <1>4, <1>5 DEF r

(* Without its last element a sequence is what that was appended to. *)
LEMMA AppendFront ==
  ASSUME NEW S, NEW p \in Seq(S), NEW a
  PROVE  Front(Append(p, a)) = p
  <1>1. /\ Append(p, a) \in Seq(S \cup {a}) /\ Append(p, a) # <<>>
        /\ Len(Append(p, a)) = Len(p) + 1 /\ Len(p) \in Nat
        /\ \A i \in 1 .. Len(p) : Append(p, a)[i] = p[i]
    <2>1. p \in Seq(S \cup {a})
      BY WiderSeq
    <2> QED
      BY <2>1
  <1> DEFINE r == Append(p, a)
             q == Front(r)
  <1> HIDE DEF r
  <1>2. q \in Seq(S \cup {a}) /\ Len(q) = Len(r) - 1
        /\ \A i \in 1 .. Len(r) - 1 : q[i] = r[i]
    BY <1>1, FrontIs DEF r
  <1> HIDE DEF q
  <1>3. Len(r) - 1 = Len(p) /\ \A i \in 1 .. Len(p) : r[i] = p[i]
    BY <1>1 DEF r
  <1>4. Len(q) = Len(p) /\ \A i \in 1 .. Len(p) : q[i] = p[i]
    BY <1>2, <1>3
  <1>5. q = p
    BY <1>2, <1>4
  <1> QED
    BY <1>5 DEF q, r

(* The last part is followed from where those before it lead. *)
LEMMA ResolveLast ==
  ASSUME NEW t, Tree(t), NEW p \in Seq(Parts), p # <<>>
  PROVE  /\ Front(p) \in Seq(Parts) /\ Len(Front(p)) = Len(p) - 1
         /\ Resolve(t, Front(p)) \in t \cup {Nowhere}
         /\ Resolve(t, p) = Follow(t, Resolve(t, Front(p)), Last(p))
  <1> DEFINE m == Len(p) - 1
             q == Front(p)
  <1>1. /\ m \in Int /\ 0 \in Int /\ 0 <= m /\ Len(p) = m + 1
        /\ \A i \in 1 .. m : i \in 1 .. Len(p)
    OBVIOUS
  <1>2. /\ q \in Seq(Parts) /\ Len(q) = m
        /\ \A i \in 1 .. m : q[i] = p[i]
    BY FrontIs
  <1>3. PICK g \in [0 .. Len(p) -> t \cup {Nowhere}] :
          /\ g[0] = Root
          /\ \A i \in 1 .. Len(p) : g[i] = Follow(t, g[i - 1], p[i])
          /\ Resolve(t, p) = g[Len(p)]
    BY ResolveIs
  <1> HIDE DEF m, q
  <1>4. PICK h \in [0 .. m -> t \cup {Nowhere}] :
          /\ h[0] = Root
          /\ \A i \in 1 .. m : h[i] = Follow(t, h[i - 1], q[i])
          /\ Resolve(t, q) = h[m]
    BY <1>2, ResolveIs
  <1>5. g[m] = h[m]
    <2> DEFINE A == {i \in 0 .. m : g[i] = h[i]}
    <2>1. 0 \in A
      BY <1>1, <1>3, <1>4
    <2>2. ASSUME NEW i \in 0 .. m - 1, i \in A PROVE i + 1 \in A
      <3>1. i + 1 \in 1 .. m /\ i + 1 \in 0 .. m /\ (i + 1) - 1 = i
        BY <1>1
      <3>2. g[i + 1] = Follow(t, g[i], p[i + 1])
        BY <1>1, <1>3, <3>1
      <3>3. h[i + 1] = Follow(t, h[i], p[i + 1])
        BY <1>2, <1>4, <3>1
      <3> QED
        BY <2>2, <3>1, <3>2, <3>3
    <2> HIDE DEF A
    <2>3. m \in 0 .. m
      BY <1>1
    <2>4. m \in A
      BY <1>1, <2>1, <2>2, <2>3, CountUp
    <2> QED
      BY <2>4 DEF A
  <1>6. m + 1 \in 1 .. Len(p) /\ (m + 1) - 1 = m
    BY <1>1
  <1>7. Resolve(t, p) = Follow(t, g[m], p[Len(p)])
    BY <1>1, <1>3, <1>6
  <1>8. h[m] \in t \cup {Nowhere}
    BY <1>1, <1>4
  <1> QED
    BY <1>2, <1>4, <1>5, <1>7, <1>8 DEF Last, m, q

LEMMA ResolveType ==
  ASSUME NEW t, Tree(t), NEW p \in Seq(Parts)
  PROVE  Resolve(t, p) \in t \cup {Nowhere}
  <1>1. Len(p) \in 0 .. Len(p)
    OBVIOUS
  <1> QED
    BY <1>1, ResolveIs

(* cd .. cuts the last part: poz_of_slesh is where it should be. *)
LEMMA CutsLast ==
  ASSUME CmdTypeOK, CdUp
  PROVE  /\ path = <<>> => path' = <<>>
         /\ path # <<>> => path' = Front(path) /\ path' # path
         /\ path' \in Seq(Parts)
  <1>0. path \in Seq(Parts) /\ poz_of_slesh = find_last_slesh(path)
        /\ path' = SubSeq(path, 1, poz_of_slesh) /\ Tree(dirs)
    BY DEF CmdTypeOK, CdUp
  <1>1. CASE path = <<>>
    <2>1. path' = SubSeq(<<>>, 1, 0)
      BY <1>0, <1>1 DEF find_last_slesh
    <2>2. path' = <<>>
      BY <2>1
    <2> QED
      BY <1>0, <1>1, <2>2
  <1>2. CASE path # <<>>
    <2>1. path' = Front(path)
      BY <1>0, <1>2 DEF find_last_slesh, Front
    <2>2. Front(path) \in Seq(Parts) /\ Len(Front(path)) = Len(path) - 1
      BY <1>0, <1>2, ResolveLast
    <2>3. Len(path) \in Nat
      BY <1>0
    <2>4. Front(path) # path
      BY <2>2, <2>3
    <2> QED
      BY <1>2, <2>1, <2>2, <2>4
  <1> QED
    BY <1>1, <1>2

(* A directory made in one of the tree, and an empty one removed. *)
LEMMA TreeGrows ==
  ASSUME NEW t, Tree(t), NEW d \in Places, Front(d) \in t
  PROVE  Tree(t \cup {d})
  BY DEF Tree

LEMMA TreeShrinks ==
  ASSUME NEW t, Tree(t), NEW d \in t \ {Root},
         \A e \in t \ {d} : ~IsPrefix(d, e)
  PROVE  Tree(t \ {d})
  <1> SUFFICES ASSUME NEW e \in t \ {d}, e # Root PROVE Front(e) # d
    BY DEF Tree
  <1>1. e \in Seq(DirNames) /\ e # <<>>
    BY PlaceIs DEF Tree
  <1>2. /\ Len(Front(e)) = Len(e) - 1
        /\ \A i \in 1 .. Len(e) - 1 : Front(e)[i] = e[i]
        /\ Front(e) \in Seq(DirNames)
    BY <1>1, FrontIs
  <1>3. IsPrefix(Front(e), e)
    <2>1. SubSeq(Front(e), 1, Len(Front(e))) = Front(e)
      BY <1>2
    <2>2. SubSeq(e, 1, Len(Front(e))) = Front(e)
      BY <1>2 DEF Front
    <2>3. Len(Front(e)) <= Len(e)
      BY <1>1, <1>2
    <2> QED
      BY <2>1, <2>2, <2>3 DEF IsPrefix
  <1> QED
    BY <1>3

LEMMA CmdTypeInit == CmdInit => CmdTypeOK
  <1> SUFFICES ASSUME CmdInit PROVE CmdTypeOK
    OBVIOUS
  <1>1. /\ Tree(dirs) /\ cwd \in dirs /\ files = {} /\ running = TRUE
        /\ path = IF cwd = Root THEN <<"">> ELSE cwd
        /\ poz_of_slesh = find_last_slesh(path)
    BY DEF CmdInit
  <1>2. cwd \in Seq(DirNames)
    BY <1>1, PlaceIs DEF Tree
  <1>3. "" \in Parts /\ \A x \in DirNames : x \in Parts
    BY DEF Parts
  <1>4. <<"">> \in Seq(Parts)
    BY <1>3, ShortIs
  <1>5. cwd \in Seq(Parts)
    <2>1. DirNames \subseteq Parts
      BY <1>3
    <2> QED
      BY <1>2, <2>1, WiderSeq
  <1>6. path \in Seq(Parts)
    BY <1>1, <1>4, <1>5
  <1> QED
    BY <1>1, <1>6 DEF CmdTypeOK

LEMMA CmdTypeNext == CmdTypeOK /\ [CmdNext]_cmdVars => CmdTypeOK'
  <1> SUFFICES ASSUME CmdTypeOK, [CmdNext]_cmdVars PROVE CmdTypeOK'
    OBVIOUS
  <1>0. Tree(dirs) /\ path \in Seq(Parts)
    BY DEF CmdTypeOK
  <1>1. ASSUME NEW p \in Seq(Parts), chdir(p)
        PROVE  cwd' \in dirs \cup {Nowhere}
    <2>1. Lookup(p) \in dirs \cup {Nowhere}
      BY <1>0, ResolveType DEF Lookup
    <2> QED
      BY <1>1, <2>1 DEF chdir, CmdTypeOK
  <1>2. CASE CdUp
    <2>1. path' \in Seq(Parts)
      BY <1>2, CutsLast
    <2>2. chdir(path')
      BY <1>2 DEF CdUp
    <2>3. cwd' \in dirs \cup {Nowhere}
      BY <1>1, <2>1, <2>2
    <2> QED
      BY <1>2, <2>1, <2>3 DEF CdUp, CmdTypeOK
  <1>3. ASSUME NEW x \in Arguments, Cd(x) PROVE CmdTypeOK'
    <2>1. path' = path \o x /\ chdir(path \o x)
      BY <1>3 DEF Cd
    <2>2. path \o x \in Seq(Parts)
      BY <1>0, ArgumentIs
    <2>3. cwd' \in dirs \cup {Nowhere}
      BY <1>1, <2>1, <2>2
    <2> QED
      BY <1>3, <2>1, <2>2, <2>3 DEF Cd, CmdTypeOK
  <1>4. CASE Create
    <2>1. Lookup(path) \in dirs
      BY <1>0, <1>4, ResolveType DEF Lookup, Create
    <2> QED
      BY <1>4, <2>1 DEF Create, CmdTypeOK
  <1>5. ASSUME NEW d, MakeDir(d) \/ RemoveDir(d),
               UNCHANGED <<path, poz_of_slesh>>, running' = running
        PROVE  CmdTypeOK'
    <2>1. CASE MakeDir(d)
      <3>1. Tree(dirs')
        BY <1>0, <2>1, TreeGrows DEF MakeDir
      <3> QED
        BY <1>5, <2>1, <3>1 DEF MakeDir, CmdTypeOK
    <2>2. CASE RemoveDir(d)
      <3>1. Tree(dirs')
        BY <1>0, <2>2, TreeShrinks DEF RemoveDir
      <3> QED
        BY <1>5, <2>2, <3>1 DEF RemoveDir, CmdTypeOK
    <2> QED
      BY <1>5, <2>1, <2>2
  <1>6. ASSUME NEW name \in DirNames, Command(name) PROVE CmdTypeOK'
    BY <1>5, <1>6 DEF Command
  <1>7. ASSUME NEW d \in Places, Elsewhere(d) PROVE CmdTypeOK'
    BY <1>5, <1>7 DEF Elsewhere
  <1>8. CASE CmdQuit
    BY <1>8 DEF CmdQuit, CmdTypeOK
  <1>9. CASE UNCHANGED cmdVars
    BY <1>9 DEF cmdVars, CmdTypeOK
  <1> QED
    BY <1>2, <1>3, <1>4, <1>6, <1>7, <1>8, <1>9 DEF CmdNext

(* The directories stay a tree and the process is in one of them or in one
   that was removed; the last slash is where poz_of_slesh says. *)
THEOREM CmdTypeCorrect == CmdSpec => []CmdTypeOK
  BY CmdTypeInit, CmdTypeNext, PTL DEF CmdSpec

(* In agreement the string leads somewhere, so what is left of it after a cut
   does too, and chdir follows unless that may not be entered. *)
LEMMA PartingStep ==
  ASSUME CmdTypeOK, [CmdNext]_cmdVars, Agree, ~Agree'
  PROVE  \/ path' = <<>>
         \/ path' # path /\ ~Enterable(Lookup(path'))
         \/ dirs' # dirs
  <1>0. Tree(dirs) /\ path \in Seq(Parts)
    BY DEF CmdTypeOK
  <1>1. ASSUME NEW p, path' = p, chdir(p), p # <<>>, p # path,
               Lookup(p) # Nowhere, dirs' = dirs
        PROVE  path' # path /\ ~Enterable(Lookup(path'))
    <2>1. SUFFICES ASSUME Enterable(Lookup(p)) PROVE Agree'
      BY <1>1
    <2>2. cwd' = Lookup(p)
      BY <1>1, <2>1 DEF chdir
    <2>3. Lookup(path)' = Lookup(p)
      BY <1>1 DEF Lookup
    <2> QED
      BY <1>1, <2>2, <2>3 DEF Agree
  <1>2. CASE CdUp
    <2>1. SUFFICES ASSUME path' # <<>>
                   PROVE  path' # path /\ ~Enterable(Lookup(path'))
      OBVIOUS
    <2>2. path # <<>> /\ path' = Front(path) /\ path' # path
      BY <1>2, <2>1, CutsLast
    <2>3. Resolve(dirs, path)
            = Follow(dirs, Resolve(dirs, Front(path)), Last(path))
      BY <1>0, <2>2, ResolveLast
    <2>4. Resolve(dirs, path) # Nowhere
      BY DEF Agree, Lookup
    <2>5. Resolve(dirs, Front(path)) # Nowhere
      BY <2>3, <2>4 DEF Follow
    <2>6. Lookup(path') # Nowhere /\ chdir(path') /\ dirs' = dirs
      BY <1>2, <2>2, <2>5 DEF Lookup, CdUp
    <2> QED
      BY <1>1, <2>1, <2>2, <2>6
  <1>3. ASSUME NEW x \in Arguments, Cd(x)
        PROVE  path' # path /\ ~Enterable(Lookup(path'))
    <2>1. /\ path' = path \o x /\ chdir(path \o x) /\ dirs' = dirs
          /\ Lookup(path \o x) # Nowhere
      BY <1>3 DEF Cd
    <2>2. Len(path \o x) > Len(path) /\ Len(path) \in Nat
      BY <1>0, ArgumentIs
    <2> DEFINE r == path \o x
    <2>3. /\ path' = r /\ chdir(r) /\ dirs' = dirs /\ Lookup(r) # Nowhere
          /\ Len(r) > Len(path) /\ Len(path) \in Nat
      BY <2>1, <2>2
    <2> HIDE DEF r
    <2>4. r # path /\ r # <<>>
      BY <2>3
    <2> QED
      BY <1>1, <2>3, <2>4
  <1>4. ASSUME UNCHANGED <<path, cwd, dirs>> PROVE FALSE
    BY <1>4 DEF Agree, Lookup
  <1>5. ASSUME NEW d, MakeDir(d) \/ RemoveDir(d) PROVE dirs' # dirs
    BY <1>5 DEF MakeDir, RemoveDir
  <1>6. ASSUME NEW name \in DirNames, Command(name) PROVE dirs' # dirs
    BY <1>5, <1>6 DEF Command
  <1>7. ASSUME NEW d \in Places, Elsewhere(d) PROVE dirs' # dirs
    BY <1>5, <1>7 DEF Elsewhere
  <1> QED
    BY <1>2, <1>3, <1>4, <1>6, <1>7
       DEF CmdNext, Create, CmdQuit, cmdVars

(* For paths of every length and with whatever "..", "." and slashes in them,
   the prompt and the process part in three ways only. *)
THEOREM PartsInThreeWays == CmdSpec => PartInThreeWays
  <1>1. CmdTypeOK /\ [CmdNext]_cmdVars =>
          [Agree /\ ~Agree' =>
             \/ path' = <<>>
             \/ path' # path /\ ~Enterable(Lookup(path'))
             \/ dirs' # dirs]_cmdVars
    BY PartingStep
  <1> QED
    BY <1>1, CmdTypeInit, CmdTypeNext, PTL DEF CmdSpec, PartInThreeWays

(* The name that is cut was appended to the directory above. *)
LEMMA UpStep ==
  ASSUME CmdTypeOK, [CmdNext]_cmdVars, Agree,
         Len(path) > 1, Len(path') < Len(path), Last(path) \in DirNames
  PROVE  cwd' = Front(cwd)
  <1>0. Tree(dirs) /\ path \in Seq(Parts) /\ Len(path) \in Nat
    BY DEF CmdTypeOK
  <1>1. CASE CdUp
    <2>1. path # <<>> /\ path' = Front(path)
      BY <1>0, <1>1, CutsLast
    <2> DEFINE d == Resolve(dirs, Front(path))
               name == Last(path)
    <2>2. /\ Resolve(dirs, path) = Follow(dirs, d, name)
          /\ d \in dirs \cup {Nowhere}
          /\ Len(Front(path)) = Len(path) - 1
      BY <1>0, <2>1, ResolveLast
    <2>3. Front(path) # <<>>
      BY <1>0, <2>2
    <2>4. name \notin {"", ".", ".."}
      BY CommandInterpreterAssumption, Zenon DEF CommandInterpreterAssumption
    <2> HIDE DEF d, name
    <2>5. Follow(dirs, d, name) = cwd /\ cwd # Nowhere
      BY <2>2 DEF Agree, Lookup
    <2>6. d # Nowhere /\ Enterable(d) /\ cwd = Append(d, name)
      BY <2>4, <2>5 DEF Follow
    <2>7. d \in Seq(DirNames)
      BY <1>0, <2>2, <2>6, PlaceIs DEF Tree
    <2>8. Front(cwd) = d
      BY <2>6, <2>7, AppendFront
    <2>9. Lookup(path') = d /\ path' # <<>> /\ chdir(path')
      BY <1>1, <2>1, <2>3 DEF Lookup, d, CdUp
    <2>10. cwd' = d
      BY <2>6, <2>9 DEF chdir
    <2> QED
      BY <2>8, <2>10
  <1>2. ASSUME NEW x \in Arguments, Cd(x) PROVE FALSE
    <2>1. Len(path') = Len(path \o x)
      BY <1>2 DEF Cd
    <2>2. Len(path \o x) > Len(path)
      BY <1>0, <1>2, ArgumentIs
    <2> DEFINE r == Len(path \o x)
    <2>3. Len(path') = r /\ r > Len(path)
      BY <2>1, <2>2
    <2> HIDE DEF r
    <2>4. r \in Int
      <3>1. path \o x \in Seq(Parts)
        BY <1>0, ArgumentIs
      <3> QED
        BY <3>1 DEF r
    <2> QED
      BY <1>0, <2>3, <2>4
  <1>3. ASSUME path' = path PROVE FALSE
    BY <1>0, <1>3
  <1> QED
    BY <1>1, <1>2, <1>3
       DEF CmdNext, Create, CmdQuit, cmdVars, Command, Elsewhere

(* For paths of every length, cd .. goes to the directory above when the last
   part is a name that is not the only one. *)
THEOREM GoesUp == CmdSpec => UpGoesUp
  <1>1. CmdTypeOK /\ [CmdNext]_cmdVars =>
          [/\ Agree
           /\ Len(path) > 1 /\ Len(path') < Len(path)
           /\ Last(path) \in DirNames
           => cwd' = Front(cwd)]_cmdVars
    BY UpStep
  <1> QED
    BY <1>1, CmdTypeInit, CmdTypeNext, PTL DEF CmdSpec, UpGoesUp
=============================================================================
