---------------------------- MODULE ThreadServer ----------------------------
(***************************************************************************)
(* sokets2/1-2scheme/server.c: main accepts COUNT_OF_THREADS connections   *)
(* and starts a thread for each.  Every thread is given the address of     *)
(* the one local variable client_fd, reads it when it first runs, and by   *)
(* then main may have accepted the next connection into it.                *)
(*                                                                         *)
(* No descriptor is closed, so the k-th connection accepted is descriptor  *)
(* k.  Start-up (signal, socket, bind, listen) is done in Init.            *)
(***************************************************************************)
EXTENDS GreetClient

CONSTANT NumThreads   \* COUNT_OF_THREADS

ASSUME ThreadServerAssumption ==
  /\ IsFiniteSet(Clients)
  /\ NumThreads \in Nat \ {0}
  /\ Backlog \in Nat \ {0}

Threads == 1 .. NumThreads

VARIABLES
  main,       \* "accept", "create", "join", "returned", "died", "signalled"
  client_fd,  \* main's client_fd, which every thread is pointed at
  fds,        \* the clients behind the descriptors, in order of accept
  thread,     \* per thread: the statement it is at
  temp_fd,    \* per thread: the descriptor it read
  heard,      \* history: clients whose line a thread received
  killed      \* history: clients interrupted before they were answered

serverVars == <<main, client_fd, fds, thread, temp_fd, heard, killed>>
vars == <<clientVars, serverVars>>

TypeOK ==
  /\ ClientTypeOK
  /\ main \in {"accept", "create", "join", "returned", "died", "signalled"}
  /\ client_fd \in 0 .. NumThreads
  /\ fds \in Seq(Clients) /\ Len(fds) <= NumThreads
  /\ thread \in [Threads -> {"absent", "start", "send", "recv", "end"}]
  /\ temp_fd \in [Threads -> 0 .. NumThreads]
  /\ heard \subseteq Clients
  /\ killed \subseteq Clients

Init ==
  /\ ClientInit
  /\ main = "accept"
  /\ client_fd = 0
  /\ fds = <<>>
  /\ thread = [t \in Threads |-> "absent"]
  /\ temp_fd = [t \in Threads |-> 0]
  /\ heard = {}
  /\ killed = {}

Up == main \in {"accept", "create", "join"}

(* The process ends, and every thread with it. *)
ProcessEnds(how) ==
  /\ HangUp
  /\ main' = how
  /\ UNCHANGED <<client_fd, fds, thread, temp_fd, heard, killed>>

-----------------------------------------------------------------------------
(* main. *)

Accept ==
  /\ main = "accept"
  /\ TakeConnection
  /\ fds' = Append(fds, Accepted)
  /\ client_fd' = Len(fds')
  /\ main' = "create"
  /\ UNCHANGED <<thread, temp_fd, heard, killed>>

(* pthread_create, and the end of the loop after the last connection. *)
Create ==
  /\ main = "create"
  /\ thread' = [thread EXCEPT ![Len(fds)] = "start"]
  /\ main' = IF Len(fds) = NumThreads THEN "join" ELSE "accept"
  /\ UNCHANGED <<clientVars, client_fd, fds, temp_fd, heard, killed>>

(* A defective main that joins the first thread only. *)
JoinFirst ==
  /\ main = "join"
  /\ thread[1] = "end"
  /\ ProcessEnds("returned")

(* The joins all return once every thread has ended; then main does. *)
Join ==
  /\ main = "join"
  /\ \A t \in Threads : thread[t] = "end"
  /\ ProcessEnds("returned")

(* handle_sigint and handle_sigtstp. *)
Signal == Up /\ ProcessEnds("signalled")

Main == Accept \/ Create \/ Join

-----------------------------------------------------------------------------
(* The threads. *)

At(t, label) == Up /\ thread[t] = label
Go(t, label) == thread' = [thread EXCEPT ![t] = label]
Peer(t) == fds[temp_fd[t]]

(* temp_fd = *temp *)
ReadFd(t) ==
  /\ At(t, "start")
  /\ temp_fd' = [temp_fd EXCEPT ![t] = client_fd]
  /\ Go(t, "send")
  /\ UNCHANGED <<clientVars, main, client_fd, fds, heard, killed>>

Send(t) ==
  /\ At(t, "send")
  /\ ~Closed(Peer(t))
  /\ Greet(Peer(t))
  /\ Go(t, "recv")
  /\ UNCHANGED <<main, client_fd, fds, temp_fd, heard, killed>>

SendFails(t) == At(t, "send") /\ Closed(Peer(t)) /\ ProcessEnds("died")

(* A defective thread that loops, as the pooled server's workers do. *)
RecvLoops(t) ==
  /\ At(t, "recv")
  /\ RecvReturns(Peer(t))
  /\ heard' = heard \cup (mail \cap {Peer(t)})
  /\ Go(t, "send")
  /\ UNCHANGED <<main, client_fd, fds, temp_fd, killed>>

(* A defective receive that waits for a line and never sees end of file. *)
RecvIgnoresEof(t) ==
  /\ At(t, "recv")
  /\ Peer(t) \in mail
  /\ RecvReturns(Peer(t))
  /\ heard' = heard \cup {Peer(t)}
  /\ Go(t, "end")
  /\ UNCHANGED <<main, client_fd, fds, temp_fd, killed>>

Recv(t) ==
  /\ At(t, "recv")
  /\ RecvReturns(Peer(t))
  /\ heard' = heard \cup (mail \cap {Peer(t)})
  /\ Go(t, "end")
  /\ UNCHANGED <<main, client_fd, fds, temp_fd, killed>>

RecvErrs(t) == At(t, "recv") /\ RecvFails(Peer(t)) /\ ProcessEnds("died")

process(t) == ReadFd(t) \/ Send(t) \/ SendFails(t) \/ Recv(t) \/ RecvErrs(t)

-----------------------------------------------------------------------------
ClientMoves(c) == ClientStep(c) /\ UNCHANGED serverVars

ClientConnects(c) == Up /\ Connect(c) /\ UNCHANGED serverVars

ClientKilled(c) ==
  /\ Interrupt(c)
  /\ killed' = killed \cup {c}
  /\ UNCHANGED <<main, client_fd, fds, thread, temp_fd, heard>>

Next ==
  \/ Main \/ Signal
  \/ \E t \in Threads : process(t)
  \/ \E c \in Clients : ClientConnects(c) \/ ClientMoves(c) \/ ClientKilled(c)

(* Every thread of the server is scheduled, and a client that is connected
   goes on; nobody has to connect, interrupt a client or signal the server. *)
Fairness ==
  /\ WF_vars(Main)
  /\ \A t \in Threads : WF_vars(process(t))
  /\ \A c \in Clients : WF_vars(ClientMoves(c))

Spec == Init /\ [][Next]_vars
FairSpec == Spec /\ Fairness

-----------------------------------------------------------------------------
(* Properties. *)

HasFd(t) == thread[t] \in {"send", "recv", "end"}

Shared == \E t, u \in Threads :
            t # u /\ HasFd(t) /\ HasFd(u) /\ temp_fd[t] = temp_fd[u]

(* The process is killed by a thread (exit(1) or SIGPIPE) only if two threads
   read the same descriptor or a client was interrupted: one thread per
   connection would be safe. *)
DiesOnlyWhenShared == main = "died" => Shared \/ killed # {}

(* When main returns, a connection that was accepted and never heard is one
   whose own thread read the descriptor too late; the last connection, which
   nothing overwrites, is always heard. *)
SkippedOnlyWhenOvertaken ==
  main = "returned" =>
    \A t \in Threads :
      fds[t] \in heard \cup killed \/ (temp_fd[t] > t /\ t < NumThreads)

(* However the descriptors are shared, no thread waits for ever once all the
   connections have been accepted: the process ends. *)
ServerEnds == main = "join" ~> ~Up
=============================================================================
