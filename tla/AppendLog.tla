----------------------------- MODULE AppendLog -----------------------------
(***************************************************************************)
(* What shared_memory/chat promises its readers: a log that only grows     *)
(* until the server is started again, and per reader a cursor that starts  *)
(* at the end of the log and moves over it one row at a time.  Readers of  *)
(* an earlier log are promised nothing.                                    *)
(***************************************************************************)
EXTENDS Integers, Sequences

CONSTANTS Readers, Row

VARIABLES log, cursor, joined

vars == <<log, cursor, joined>>

Init == /\ log = <<>>
        /\ cursor = [r \in Readers |-> 0]
        /\ joined = {}

Publish == /\ \E row \in Row : log' = Append(log, row)
           /\ UNCHANGED <<cursor, joined>>

Join(r) == /\ r \notin joined
           /\ joined' = joined \cup {r}
           /\ cursor' = [cursor EXCEPT ![r] = Len(log)]
           /\ UNCHANGED log

Advance(r) == /\ r \in joined
              /\ cursor[r] < Len(log)
              /\ cursor' = [cursor EXCEPT ![r] = @ + 1]
              /\ UNCHANGED <<log, joined>>

(* The server starts again: everyone who read the old log is left behind. *)
Reset == /\ log' = <<>>
         /\ cursor' = [r \in Readers |-> 0]
         /\ joined' = {}

Next == \/ Publish \/ Reset
        \/ \E r \in Readers : Join(r) \/ Advance(r)

Spec == Init /\ [][Next]_vars
=============================================================================
