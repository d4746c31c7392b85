----------------------------- MODULE Reception -----------------------------
(***************************************************************************)
(* What the server of sokets2/3scheme promises its clients: one line for   *)
(* all workers, kept in the order of arrival from connect to the worker,   *)
(* in which nobody stands twice.  A worker takes the first of the line,    *)
(* greets it once and only then lets it go.  When the server stops,        *)
(* everybody is sent away and all begins anew.                             *)
(***************************************************************************)
EXTENDS Integers, Sequences

CONSTANTS Clients, Workers, Nobody

VARIABLES line,     \* those who wait, in order
          serving,  \* per worker: whom it serves
          greets    \* greetings each client was sent

vars == <<line, serving, greets>>

Empty == /\ line = <<>>
         /\ serving = [w \in Workers |-> Nobody]
         /\ greets = [c \in Clients |-> 0]

Arrive(c) == /\ greets[c] = 0
             /\ \A i \in 1 .. Len(line) : line[i] # c
             /\ \A w \in Workers : serving[w] # c
             /\ line' = Append(line, c)
             /\ UNCHANGED <<serving, greets>>

Take(w) == /\ serving[w] = Nobody
           /\ line # <<>>
           /\ serving' = [serving EXCEPT ![w] = Head(line)]
           /\ line' = Tail(line)
           /\ UNCHANGED greets

Greet(w) == /\ serving[w] # Nobody
            /\ greets[serving[w]] = 0
            /\ greets' = [greets EXCEPT ![serving[w]] = 1]
            /\ UNCHANGED <<line, serving>>

Release(w) == /\ serving[w] # Nobody
              /\ greets[serving[w]] = 1
              /\ serving' = [serving EXCEPT ![w] = Nobody]
              /\ UNCHANGED <<line, greets>>

Close == Empty'

Next == \/ Close
        \/ \E c \in Clients : Arrive(c)
        \/ \E w \in Workers : Take(w) \/ Greet(w) \/ Release(w)

Spec == Empty /\ [][Next]_vars
=============================================================================
