---------------------------- MODULE QueueServer ----------------------------
(***************************************************************************)
(* sokets2/3scheme/server.c: main accepts connections and puts their       *)
(* descriptors on a System V message queue; a pool of workers takes them   *)
(* off, greets the client and receives its line.  No descriptor is ever    *)
(* closed.  The queue and the socket's path outlive the process: only a    *)
(* signal handler removes the path, and nothing removes the queue, so a    *)
(* later start of the server finds what an earlier one left.               *)
(*                                                                         *)
(* Mutex i is tried by worker i alone, so its trylock always succeeds and  *)
(* is part of the step it precedes (Receive) or follows (Recv).            *)
(***************************************************************************)
EXTENDS GreetClient

CONSTANTS
  Workers,   \* COUNT_OF_THREADS
  MaxFds,    \* descriptors left to the process for connections
  QueueMax,  \* messages the kernel's queue holds
  MaxStarts  \* bound of the model: how often the server is started

ASSUME QueueServerAssumption ==
  /\ IsFiniteSet(Clients) /\ IsFiniteSet(Workers) /\ Workers # {}
  /\ MaxFds \in Nat \ {0}
  /\ Backlog \in Nat \ {0}
  /\ QueueMax \in Nat \ {0}
  /\ MaxStarts \in Nat

Fds  == 1 .. MaxFds
Free == 0                  \* no client: the descriptor is not open
NoFd == 0

ASSUME FreeAssumption == Free \notin Clients

VARIABLES
  main,     \* where main is: "down", "accept" or "msgsnd"
  path,     \* does PATH exist in the file system
  fdtab,    \* the process's descriptor table
  buf,      \* main's buf.mtext: the descriptor to be queued
  queue,    \* the message queue
  work,     \* per worker: the statement it is at
  temp_fd,  \* per worker: the descriptor it took from the queue
  starts,   \* how often the server was started
  fresh,    \* history: the queue was empty at the last start
  killed,   \* history: clients interrupted since the last start
  greets,   \* history: greetings sent to each client since then
  heard     \* history: clients whose line a worker received

serverVars == <<main, path, fdtab, buf, queue, work, temp_fd, starts,
                fresh, killed, greets, heard>>
vars == <<clientVars, serverVars>>

Up == main # "down"

TypeOK ==
  /\ ClientTypeOK
  /\ main \in {"down", "accept", "msgsnd"}
  /\ path \in BOOLEAN
  /\ fdtab \in [Fds -> Clients \cup {Free}]
  /\ buf \in Fds \cup {NoFd}
  /\ queue \in Seq(Fds) /\ Len(queue) <= QueueMax
  /\ work \in [Workers -> {"msgrcv", "send", "recv"}]
  /\ temp_fd \in [Workers -> Fds \cup {NoFd}]
  /\ starts \in 0 .. MaxStarts
  /\ fresh \in BOOLEAN
  /\ killed \subseteq Clients
  /\ greets \in [Clients -> Nat]
  /\ heard \subseteq Clients

Init ==
  /\ ClientInit
  /\ main = "down"
  /\ path = FALSE
  /\ fdtab = [f \in Fds |-> Free]
  /\ buf = NoFd
  /\ queue = <<>>
  /\ work = [w \in Workers |-> "msgrcv"]
  /\ temp_fd = [w \in Workers |-> NoFd]
  /\ starts = 0
  /\ fresh = TRUE
  /\ killed = {}
  /\ greets = [c \in Clients |-> 0]
  /\ heard = {}

-----------------------------------------------------------------------------
(* Starting and stopping. *)

(* msgget finds or creates the queue; bind creates the path, and main returns
   at once when the path is already there. *)
Start ==
  /\ ~Up
  /\ starts < MaxStarts
  /\ starts' = starts + 1
  /\ ~path /\ path' = TRUE
  /\ main' = "accept"
  /\ fresh' = (queue = <<>>)
  /\ killed' = {}
  /\ greets' = [c \in Clients |-> 0]
  /\ UNCHANGED <<clientVars, fdtab, buf, queue, work, temp_fd, heard>>

(* The process is gone: the kernel closes every descriptor. *)
ProcessEnds ==
  /\ HangUp
  /\ main' = "down"
  /\ fdtab' = [f \in Fds |-> Free]
  /\ buf' = NoFd
  /\ work' = [w \in Workers |-> "msgrcv"]
  /\ temp_fd' = [w \in Workers |-> NoFd]
  /\ UNCHANGED <<queue, starts, fresh, killed, greets, heard>>

(* handle_sigint and handle_sigtstp. *)
Signal ==
  /\ Up
  /\ path' = FALSE
  /\ ProcessEnds

(* exit(1), return 1 from main, SIGPIPE: the path stays behind. *)
Die == ProcessEnds /\ UNCHANGED path

-----------------------------------------------------------------------------
(* main. *)

FreeFds == {f \in Fds : fdtab[f] = Free}

(* accept returns the lowest free descriptor. *)
Accept ==
  /\ main = "accept"
  /\ TakeConnection
  /\ \E f \in FreeFds :
       /\ \A g \in FreeFds : f <= g
       /\ fdtab' = [fdtab EXCEPT ![f] = Accepted]
       /\ buf' = f
  /\ main' = "msgsnd"
  /\ UNCHANGED <<path, queue, work, temp_fd, starts, fresh, killed,
                 greets, heard>>

(* accept returns -1 (EMFILE) and main returns. *)
AcceptFails ==
  /\ main = "accept"
  /\ backlog # <<>>
  /\ FreeFds = {}
  /\ Die

(* A defective msgsnd, retried after it has succeeded. *)
MsgSndTwice ==
  /\ main = "msgsnd"
  /\ Len(queue) < QueueMax
  /\ queue' = queue \o <<buf, buf>>
  /\ main' = "accept"
  /\ UNCHANGED <<clientVars, path, fdtab, buf, work, temp_fd, starts, fresh,
                 killed, greets, heard>>

(* msgsnd blocks while the queue is full. *)
MsgSnd ==
  /\ main = "msgsnd"
  /\ Len(queue) < QueueMax
  /\ queue' = Append(queue, buf)
  /\ main' = "accept"
  /\ UNCHANGED <<clientVars, path, fdtab, buf, work, temp_fd, starts,
                 fresh, killed, greets, heard>>

-----------------------------------------------------------------------------
(* The workers. *)

(* A defective msgrcv that leaves the message on the queue. *)
ReceivePeeks(w) ==
  /\ Up
  /\ work[w] = "msgrcv"
  /\ queue # <<>>
  /\ temp_fd' = [temp_fd EXCEPT ![w] = Head(queue)]
  /\ work' = [work EXCEPT ![w] = "send"]
  /\ UNCHANGED <<clientVars, main, path, fdtab, buf, queue, starts,
                 fresh, killed, greets, heard>>

Receive(w) ==
  /\ Up
  /\ work[w] = "msgrcv"
  /\ queue # <<>>
  /\ temp_fd' = [temp_fd EXCEPT ![w] = Head(queue)]
  /\ queue' = Tail(queue)
  /\ work' = [work EXCEPT ![w] = "send"]
  /\ UNCHANGED <<clientVars, main, path, fdtab, buf, starts, fresh,
                 killed, greets, heard>>

Peer(w) == fdtab[temp_fd[w]]
Reachable(w) == Peer(w) # Free /\ ~Closed(Peer(w))

Send(w) ==
  /\ work[w] = "send"
  /\ Reachable(w)
  /\ Greet(Peer(w))
  /\ greets' = [greets EXCEPT ![Peer(w)] = @ + 1]
  /\ work' = [work EXCEPT ![w] = "recv"]
  /\ UNCHANGED <<main, path, fdtab, buf, queue, temp_fd,
                 starts, fresh, killed, heard>>

(* send returns -1 on a descriptor that is not open (EBADF); a client that
   is gone raises SIGPIPE. *)
SendFails(w) ==
  /\ work[w] = "send"
  /\ ~Reachable(w)
  /\ Die

(* A defective worker that closes the connection it has served. *)
RecvCloses(w) ==
  /\ work[w] = "recv"
  /\ Peer(w) \in Clients /\ RecvReturns(Peer(w))
  /\ heard' = heard \cup (mail \cap {Peer(w)})
  /\ work' = [work EXCEPT ![w] = "msgrcv"]
  /\ fdtab' = [fdtab EXCEPT ![temp_fd[w]] = Free]
  /\ UNCHANGED <<main, path, buf, queue, temp_fd,
                 starts, fresh, killed, greets>>

(* A defective worker that keeps its mutex and never takes another message. *)
RecvKeepsMutex(w) ==
  /\ work[w] = "recv"
  /\ RecvReturns(Peer(w))
  /\ heard' = heard \cup (mail \cap {Peer(w)})
  /\ UNCHANGED <<main, path, fdtab, buf, queue, work,
                 temp_fd, starts, fresh, killed, greets>>

(* recv blocks until there is a line, or the client has left. *)
Recv(w) ==
  /\ work[w] = "recv"
  /\ RecvReturns(Peer(w))
  /\ heard' = heard \cup (mail \cap {Peer(w)})
  /\ work' = [work EXCEPT ![w] = "msgrcv"]
  /\ UNCHANGED <<main, path, fdtab, buf, queue,
                 temp_fd, starts, fresh, killed, greets>>

RecvErrs(w) ==
  /\ work[w] = "recv"
  /\ Peer(w) # Free => RecvFails(Peer(w))
  /\ Die

process(w) == Receive(w) \/ Send(w) \/ SendFails(w) \/ Recv(w) \/ RecvErrs(w)

-----------------------------------------------------------------------------
ClientMoves(c) == ClientStep(c) /\ UNCHANGED serverVars

ClientConnects(c) == Up /\ Connect(c) /\ UNCHANGED serverVars

ClientKilled(c) ==
  /\ Interrupt(c)
  /\ killed' = killed \cup {c}
  /\ UNCHANGED <<main, path, fdtab, buf, queue, work, temp_fd, starts,
                 fresh, greets, heard>>

Main == Accept \/ AcceptFails \/ MsgSnd

Next ==
  \/ Start \/ Signal \/ Main
  \/ \E w \in Workers : process(w)
  \/ \E c \in Clients : ClientConnects(c) \/ ClientMoves(c) \/ ClientKilled(c)

(* The threads are scheduled, and a client neither waits for its user nor
   sleeps; nobody has to start, signal or interrupt anything. *)
Fairness ==
  /\ WF_vars(Main)
  /\ \A w \in Workers : WF_vars(process(w))
  /\ \A c \in Clients : WF_vars(ClientMoves(c))

Spec == Init /\ [][Next]_vars
FairSpec == Spec /\ Fairness

-----------------------------------------------------------------------------
(* Properties. *)

(* Started on an empty queue, the server hands each connection to one worker:
   no client is greeted twice. *)
GreetedOnce ==
  fresh => \A c \in Clients : greets[c] <= 1

(* The descriptors between accept and a worker, in order. *)
Handed == IF main = "msgsnd" THEN Append(queue, buf) ELSE queue

(* A run that an earlier process's descriptors cannot disturb. *)
Intact == Up /\ fresh

Admitted == [i \in 1 .. Len(Handed) |-> fdtab[Handed[i]]]

Line == IF Intact THEN Admitted \o backlog ELSE <<>>

Serving == [w \in Workers |->
              IF Intact /\ work[w] # "msgrcv" THEN Peer(w) ELSE Free]

Greeted == [c \in Clients |-> IF Intact THEN greets[c] ELSE 0]

Desk == INSTANCE Reception WITH
          Nobody <- Free, line <- Line, serving <- Serving, greets <- Greeted

(* Started on an empty queue, the backlog, main's buffer and the message
   queue are one line in the order of connect: each client is taken by one
   worker, greeted once, and left only then. *)
ImplementsReception == Desk!Spec

(* The next send or recv of worker w returns -1. *)
Failing(w) ==
  \/ work[w] = "send" /\ ~Reachable(w)
  \/ work[w] = "recv" /\ (Peer(w) # Free => RecvFails(Peer(w)))

(* Started on an empty queue and with no client interrupted, no worker ever
   takes the process down, with however many clients in service and however
   few descriptors left: it stops on a signal, which removes the path, or when
   main has a connection to accept and no descriptor for it. *)
OnlyLeftoversKill ==
  [][Up /\ main' = "down" =>
       \/ ~path'
       \/ ~fresh
       \/ killed # {}
       \/ /\ main = "accept" /\ backlog # <<>> /\ FreeFds = {}
          /\ \A w \in Workers : ~Failing(w)]_vars

(* A connected client's line is received unless the process goes down or the
   client is interrupted: main may be blocked in msgsnd on a full queue while
   every worker is in recv. *)
EveryoneHeard ==
  \A c \in Clients :
    client[c] = "waiting" ~> c \in heard \/ ~Up \/ c \in killed

(* Since nothing closes a served connection, one client more than there are
   descriptors ends the server, even when every earlier client has left. *)
FullServerDies == Up /\ FreeFds = {} /\ backlog # <<>> ~> ~Up
=============================================================================
