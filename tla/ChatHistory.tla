---------------------------- MODULE ChatHistory ----------------------------
(***************************************************************************)
(* What queue/chat promises its clients until the server's array overruns: *)
(* one history, in which the messages of each client stand in the order    *)
(* they were sent, and screens that show a beginning of it and only get    *)
(* longer, however the clients share the snapshots.  A server that starts  *)
(* again, or whose array has overrun, promises nothing of what was before. *)
(***************************************************************************)
EXTENDS Integers, Sequences

CONSTANTS Clients, Msgs   \* a message is its sender and its number

VARIABLES history, screen

vars == <<history, screen>>

Blank == /\ history = <<>>
         /\ screen = [c \in Clients |-> <<>>]

Publish(m) == /\ \A i \in 1 .. Len(history) :
                   history[i][1] = m[1] => history[i][2] < m[2]
              /\ history' = Append(history, m)
              /\ UNCHANGED screen

Show(c, n) == /\ Len(screen[c]) < n
              /\ screen' = [screen EXCEPT ![c] = SubSeq(history, 1, n)]
              /\ UNCHANGED history

Restart == Blank'

Next == \/ Restart
        \/ \E m \in Msgs : Publish(m)
        \/ \E c \in Clients, n \in 1 .. Len(history) : Show(c, n)

Spec == Blank /\ [][Next]_vars
=============================================================================
