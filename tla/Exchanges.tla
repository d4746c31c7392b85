----------------------------- MODULE Exchanges -----------------------------
(***************************************************************************)
(* One message there and one back between a parent and the child it forks: *)
(*   "mq", "msg"           queue/Posix and queue/SystemV                   *)
(*   "shm", "segment"      shared_memory/Posix and shared_memory/SystemV   *)
(*   "pipe_down"           pipes/1tsk/1tsk.c: the parent writes            *)
(*   "pipe_up"             pipes/1tsk/2tsk.c: the child writes             *)
(*   "fifo"                pipes/2tsk                                      *)
(* A queue or a segment has a name: it outlives a run that is interrupted, *)
(* and two runs at once share it.  A child whose exec fails goes on behind *)
(* the if statement, in the code of its parent.                            *)
(***************************************************************************)
EXTENDS Integers, Sequences, FiniteSets, SequencesExt

CONSTANTS
  MaxRuns,    \* bound of the model: how often the server is started
  AtOnce,     \* bound of the model: runs that are on at one time
  QueueMax,   \* mq_maxmsg and the kernel's limit for System V queues
  TextLen     \* length of the text that goes through a pipe

ASSUME ExchangesAssumption ==
  /\ MaxRuns \in Nat \ {0} /\ AtOnce \in Nat \ {0}
  /\ QueueMax \in Nat \ {0}
  /\ TextLen \in Nat \ {0}

Named == {"mq", "msg", "shm", "segment"}
Pipes == {"pipe_down", "pipe_up"}
Runs  == 1 .. MaxRuns
Procs == Runs \X {"parent", "child"}
Parent(r) == <<r, "parent">>
Child(r)  == <<r, "child">>
Ids   == 1 .. 2 * MaxRuns
NoId  == 0

Hello(r) == [from |-> "parent", run |-> r]
Reply(r) == [from |-> "child", run |-> r]
Nothing  == [from |-> "nobody", run |-> 0]

VARIABLES
  program, serial,   \* fixed: the program; is one run started at a time
  at,        \* per process: the statement it is at
  name,      \* the object NAME or the key leads to, or NoId
  made,      \* objects made so far
  content,   \* per object: a queue's messages, a segment's one string
  id,        \* per process: the object it has opened
  got,       \* per process: what it printed
  bytes,     \* in the pipe
  printed,   \* bytes the pipe's reader has printed
  readers, writers,  \* processes that hold an end of the pipe or FIFO
  fifos,     \* which of channel1 and channel2 exist
  cut,       \* history: a run was interrupted
  fell       \* history: an exec or a fork failed

objVars  == <<name, made, content, id>>
pipeVars == <<bytes, printed, readers, writers, fifos>>
history  == <<cut, fell>>
vars == <<program, serial, at, got, objVars, pipeVars, history>>

(* The statement of a process that is over: "done" by its own end, "fallen"
   by the end of its parent's code, or "killed". *)
Over == {"off", "done", "fallen", "killed"}

Init ==
  /\ program \in Named \cup Pipes \cup {"fifo"}
  /\ serial \in BOOLEAN
  /\ at = [p \in Procs |-> "off"]
  /\ name = NoId
  /\ made = 0
  /\ content = [i \in Ids |-> <<>>]
  /\ id = [p \in Procs |-> NoId]
  /\ got = [p \in Procs |-> Nothing]
  /\ bytes = 0
  /\ printed = 0
  /\ readers = [f \in 1 .. 2 |-> {}]
  /\ writers = [f \in 1 .. 2 |-> {}]
  /\ fifos = {}
  /\ cut = FALSE
  /\ fell = FALSE

Go(p, statement) == at' = [at EXCEPT ![p] = statement]

-----------------------------------------------------------------------------
(* Starting, forking, waiting, interrupting. *)

Active == {r \in Runs : at[Parent(r)] \notin Over \/ at[Child(r)] \notin Over}

(* The program is started; a pipe or FIFO program once. *)
Start(r) ==
  /\ at[Parent(r)] = "off"
  /\ r > 1 => /\ program \in Named
              /\ at[Parent(r - 1)] # "off"
              /\ Cardinality(Active) < IF serial THEN 1 ELSE AtOnce
  /\ Go(Parent(r), IF program \in Named THEN "open" ELSE "fork")
  /\ fifos' = IF program = "fifo" THEN {1, 2} ELSE {}
  /\ UNCHANGED <<program, serial, got, objVars, bytes, printed, readers,
                 writers, history>>

(* What the parent does behind the fork, and the child. *)
AfterFork == CASE program \in Named      -> "wait"
               [] program = "pipe_down"  -> "close_read"
               [] program = "pipe_up"    -> "close_write"
               [] program = "fifo"       -> "open1"
InChild   == CASE program = "pipe_down"  -> "close_write"
               [] program = "pipe_up"    -> "close_read"
               [] OTHER                  -> "exec"

(* The child inherits the descriptors. *)
Fork(r) ==
  /\ at[Parent(r)] = "fork"
  /\ at' = [at EXCEPT ![Parent(r)] = AfterFork, ![Child(r)] = InChild]
  /\ id' = [id EXCEPT ![Child(r)] = id[Parent(r)]]
  /\ IF program \in Pipes
     THEN /\ readers' = [readers EXCEPT ![1] = {Parent(r), Child(r)}]
          /\ writers' = [writers EXCEPT ![1] = {Parent(r), Child(r)}]
     ELSE UNCHANGED <<readers, writers>>
  /\ UNCHANGED <<program, serial, got, name, made, content, bytes, printed,
                 fifos, history>>

(* Bound of the model: runs that overlap meet one misfortune between them. *)
MayGoWrong == serial \/ ~(cut \/ fell)

(* fork returns -1: pipes/2tsk returns, the others take the parent's branch
   of the if statement. *)
ForkFails(r) ==
  /\ at[Parent(r)] = "fork"
  /\ MayGoWrong
  /\ Go(Parent(r), IF program = "fifo" THEN "done" ELSE AfterFork)
  /\ IF program \in Pipes
     THEN /\ readers' = [readers EXCEPT ![1] = {Parent(r)}]
          /\ writers' = [writers EXCEPT ![1] = {Parent(r)}]
     ELSE UNCHANGED <<readers, writers>>
  /\ fell' = TRUE
  /\ UNCHANGED <<program, serial, got, objVars, bytes, printed, fifos, cut>>

Exec(r) ==
  /\ at[Child(r)] = "exec"
  /\ Go(Child(r), IF program = "fifo" THEN "open1" ELSE "client_open")
  /\ UNCHANGED <<program, serial, got, objVars, pipeVars, history>>

(* execl returns: the child goes on where its parent does after the wait. *)
ExecFails(r) ==
  /\ at[Child(r)] = "exec"
  /\ MayGoWrong
  /\ Go(Child(r), IF program = "fifo" THEN "unlink" ELSE "receive")
  /\ fell' = TRUE
  /\ UNCHANGED <<program, serial, got, objVars, pipeVars, cut>>

Wait(r) ==
  /\ at[Parent(r)] = "wait"
  /\ at[Child(r)] \in Over
  /\ Go(Parent(r), CASE program \in Named     -> "receive"
                     [] program = "pipe_down" -> "done"
                     [] program = "pipe_up"   -> "read"
                     [] program = "fifo"      -> "unlink")
  /\ UNCHANGED <<program, serial, got, objVars, pipeVars, history>>

(* SIGINT from the terminal ends both processes; the kernel closes what they
   had open, and leaves what has a name. *)
Interrupt(r) ==
  /\ r \in Active
  /\ MayGoWrong
  /\ at' = [p \in Procs |->
              IF p[1] = r /\ at[p] \notin Over THEN "killed" ELSE at[p]]
  /\ readers' = [f \in 1 .. 2 |-> {}]
  /\ writers' = [f \in 1 .. 2 |-> {}]
  /\ cut' = TRUE
  /\ UNCHANGED <<program, serial, got, objVars, bytes, printed, fifos, fell>>

-----------------------------------------------------------------------------
(* The queue and the segment. *)

(* mq_open, msgget, shm_open and shmget: find the object or make it. *)
FindOrMake(p) ==
  /\ made' = IF name = NoId THEN made + 1 ELSE made
  /\ name' = IF name = NoId THEN made' ELSE name
  /\ id' = [id EXCEPT ![p] = name']
  /\ UNCHANGED content

Open(r) ==
  /\ at[Parent(r)] = "open"
  /\ FindOrMake(Parent(r))
  /\ Go(Parent(r), "send")
  /\ UNCHANGED <<program, serial, got, pipeVars, history>>

(* msgctl removes a queue at once; what else is removed lives on for those
   who have it open. *)
Usable(p) == id[p] # NoId /\ (program = "msg" => id[p] = name)

(* p puts m into its object: nothing happens to one that is gone. *)
Put(p, m) ==
  IF ~Usable(p)
  THEN UNCHANGED content
  ELSE IF program \in {"mq", "msg"}
       THEN /\ Len(content[id[p]]) < QueueMax
            /\ content' = [content EXCEPT ![id[p]] = Append(@, m)]
       ELSE content' = [content EXCEPT ![id[p]] = <<m>>]

Send(r) ==
  /\ at[Parent(r)] = "send"
  /\ Put(Parent(r), Hello(r))
  /\ Go(Parent(r), "fork")
  /\ UNCHANGED <<program, serial, got, name, made, id, pipeVars, history>>

(* The positions p may take a message from: the client any, the server of a
   System V queue a reply only. *)
Wanted(p, client) ==
  IF ~Usable(p) THEN {}
  ELSE {i \in DOMAIN content[id[p]] :
          program = "msg" /\ ~client => content[id[p]][i].from = "child"}

(* p takes the first such message, and leaves what it reads in a segment;
   mq_receive waits for one, msgrcv is called with IPC_NOWAIT. *)
Take(p, client) ==
  LET wanted == Wanted(p, client)
  IN  \/ /\ wanted # {}
         /\ \E i \in wanted :
              /\ \A j \in wanted : i <= j
              /\ got' = [got EXCEPT ![p] = content[id[p]][i]]
              /\ content' = IF program \in {"mq", "msg"}
                            THEN [content EXCEPT ![id[p]] = RemoveAt(@, i)]
                            ELSE content
      \/ /\ wanted = {}
         /\ program = "mq" => id[p] = NoId
         /\ UNCHANGED <<got, content>>

(* The client of queue/Posix opens the queue without O_CREAT. *)
ClientOpen(r) ==
  /\ at[Child(r)] = "client_open"
  /\ IF program = "mq"
     THEN /\ id' = [id EXCEPT ![Child(r)] = name]
          /\ UNCHANGED <<name, made, content>>
     ELSE FindOrMake(Child(r))
  /\ Go(Child(r), "client_receive")
  /\ UNCHANGED <<program, serial, got, pipeVars, history>>

ClientReceive(r) ==
  /\ at[Child(r)] = "client_receive"
  /\ Take(Child(r), TRUE)
  /\ Go(Child(r), "client_send")
  /\ UNCHANGED <<program, serial, name, made, id, pipeVars, history>>

ClientSend(r) ==
  /\ at[Child(r)] = "client_send"
  /\ Put(Child(r), Reply(r))
  /\ Go(Child(r), "done")
  /\ UNCHANGED <<program, serial, got, name, made, id, pipeVars, history>>

(* The server's second half, or its child's after a failed exec. *)
Receive(p) ==
  /\ at[p] = "receive"
  /\ Take(p, FALSE)
  /\ Go(p, "unlink")
  /\ UNCHANGED <<program, serial, name, made, id, pipeVars, history>>

End(p) == Go(p, IF p[2] = "parent" THEN "done" ELSE "fallen")

(* A defective end that leaves the object behind. *)
CloseOnly(p) ==
  /\ at[p] = "unlink"
  /\ End(p)
  /\ UNCHANGED <<program, serial, got, objVars, pipeVars, history>>

(* mq_unlink and shm_unlink remove the name, msgctl and shmctl the object;
   pipes/2tsk removes its channels one by one. *)
Unlink(p) ==
  /\ at[p] = "unlink"
  /\ IF program = "fifo"
     THEN /\ Go(p, "unlink2")
          /\ fifos' = fifos \ {1}
          /\ UNCHANGED name
     ELSE /\ End(p)
          /\ name' = IF program \in {"mq", "shm"} \/ id[p] = name
                     THEN NoId ELSE name
          /\ UNCHANGED fifos
  /\ UNCHANGED <<program, serial, got, made, content, id, bytes, printed,
                 readers, writers, history>>

Unlink2(p) ==
  /\ at[p] = "unlink2"
  /\ End(p)
  /\ fifos' = fifos \ {2}
  /\ UNCHANGED <<program, serial, got, objVars, bytes, printed, readers,
                 writers, history>>

-----------------------------------------------------------------------------
(* The pipe. *)

Writer == IF program = "pipe_down" THEN "parent" ELSE "child"

(* A defective close(pipefd[1]) of the reader: it keeps its writing end. *)
CloseWriteForgotten(p) ==
  /\ at[p] = "close_write"
  /\ Go(p, IF p[2] = "parent" THEN "wait" ELSE "read")
  /\ UNCHANGED <<program, serial, got, objVars, pipeVars, history>>

(* The reader closes its writing end. *)
CloseWrite(p) ==
  /\ at[p] = "close_write"
  /\ writers' = [writers EXCEPT ![1] = @ \ {p}]
  /\ Go(p, IF p[2] = "parent" THEN "wait" ELSE "read")
  /\ UNCHANGED <<program, serial, got, objVars, bytes, printed, readers,
                 fifos, history>>

(* The writer closes its reading end. *)
CloseRead(p) ==
  /\ at[p] = "close_read"
  /\ readers' = [readers EXCEPT ![1] = @ \ {p}]
  /\ Go(p, "write")
  /\ UNCHANGED <<program, serial, got, objVars, bytes, printed, writers,
                 fifos, history>>

(* The one text, much shorter than a pipe, fits: write never waits for the
   reader.  Then close. *)
Write(p) ==
  /\ at[p] = "write"
  /\ readers[1] # {}
  /\ bytes' = bytes + TextLen
  /\ writers' = [writers EXCEPT ![1] = @ \ {p}]
  /\ Go(p, IF p[2] = "parent" THEN "wait" ELSE "done")
  /\ UNCHANGED <<program, serial, got, objVars, printed, readers, fifos,
                 history>>

(* SIGPIPE: nobody can read. *)
WriteFails(p) ==
  /\ at[p] = "write"
  /\ readers[1] = {}
  /\ writers' = [writers EXCEPT ![1] = @ \ {p}]
  /\ Go(p, "killed")
  /\ UNCHANGED <<program, serial, got, objVars, bytes, printed, readers,
                 fifos, history>>

(* One byte; at the end of file the reader's own text follows. *)
Read(p) ==
  /\ at[p] = "read"
  /\ \/ /\ bytes > 0
        /\ bytes' = bytes - 1
        /\ printed' = printed + 1
        /\ UNCHANGED <<at, readers>>
     \/ /\ bytes = 0 /\ writers[1] = {}
        /\ readers' = [readers EXCEPT ![1] = @ \ {p}]
        /\ Go(p, "done")
        /\ UNCHANGED <<bytes, printed>>
  /\ UNCHANGED <<program, serial, got, objVars, writers, fifos, history>>

-----------------------------------------------------------------------------
(* The two FIFOs.  open counts the caller in and waits for the other side. *)

Opening == <<"opening1", "opening2">>
CountIn(p, ends, f) == [ends EXCEPT ![f] = @ \cup {p}]

(* channel1: the parent reads, the child writes. *)
Open1(p) ==
  /\ at[p] = "open1" /\ 1 \in fifos
  /\ IF p[2] = "parent"
     THEN readers' = CountIn(p, readers, 1) /\ UNCHANGED writers
     ELSE writers' = CountIn(p, writers, 1) /\ UNCHANGED readers
  /\ Go(p, "opening1")
  /\ UNCHANGED <<program, serial, got, objVars, bytes, printed, fifos,
                 history>>

(* open returns; behind the second one the messages would go both ways. *)
Opened(p, f) ==
  /\ at[p] = Opening[f]
  /\ readers[f] # {} /\ writers[f] # {}
  /\ Go(p, IF f = 1 THEN "open2" ELSE "talk")
  /\ UNCHANGED <<program, serial, got, objVars, pipeVars, history>>

(* A parent that opens channel2 for writing, as its write asks. *)
Open2ToWrite(p) ==
  /\ at[p] = "open2" /\ 2 \in fifos
  /\ IF p[2] = "parent"
     THEN writers' = CountIn(p, writers, 2) /\ UNCHANGED readers
     ELSE readers' = CountIn(p, readers, 2) /\ UNCHANGED writers
  /\ Go(p, "opening2")
  /\ UNCHANGED <<program, serial, got, objVars, bytes, printed, fifos,
                 history>>

(* channel2: both open it to read. *)
Open2(p) ==
  /\ at[p] = "open2" /\ 2 \in fifos
  /\ readers' = CountIn(p, readers, 2)
  /\ Go(p, "opening2")
  /\ UNCHANGED <<program, serial, got, objVars, bytes, printed, writers,
                 fifos, history>>

(* A channel is gone: open returns -1, and the program goes on.  Behind the
   second open its write and its read fail. *)
OpenFails(p, f) ==
  /\ at[p] = <<"open1", "open2">>[f]
  /\ f \notin fifos
  /\ Go(p, IF f = 1 THEN "open2" ELSE "wait")
  /\ UNCHANGED <<program, serial, got, objVars, pipeVars, history>>

-----------------------------------------------------------------------------
Steps(p) ==
  \/ Receive(p) \/ Unlink(p) \/ Unlink2(p)
  \/ CloseWrite(p) \/ CloseRead(p) \/ Write(p) \/ WriteFails(p) \/ Read(p)
  \/ Open1(p) \/ Open2(p)
  \/ \E f \in 1 .. 2 : Opened(p, f) \/ OpenFails(p, f)

ServerSteps(r) ==
  Open(r) \/ Send(r) \/ Fork(r) \/ ForkFails(r) \/ Wait(r) \/ Steps(Parent(r))

ClientSteps(r) ==
  \/ Exec(r) \/ ExecFails(r)
  \/ ClientOpen(r) \/ ClientReceive(r) \/ ClientSend(r)
  \/ Steps(Child(r))

Next == \E r \in Runs : Start(r) \/ ServerSteps(r) \/ ClientSteps(r)
                       \/ Interrupt(r)

(* The processes are scheduled; nobody has to start or interrupt a run. *)
Fairness == \A r \in Runs : WF_vars(ServerSteps(r)) /\ WF_vars(ClientSteps(r))

Spec == Init /\ [][Next]_vars
FairSpec == Spec /\ Fairness

-----------------------------------------------------------------------------
(* Properties. *)

(* The exchange is whole: each side has the other's message of this run, or
   the pipe's reader all of the text. *)
Whole(r) ==
  IF program \in Named
  THEN got[Parent(r)] = Reply(r) /\ got[Child(r)] = Hello(r)
  ELSE program \in Pipes => printed = TextLen

(* A run by itself that follows a run which came to its end is in step: what
   an interrupted run leaves in a queue is gone with the next end, since
   every end removes the name.  (The run between may be out of step.) *)
WholeAfterCleanRun ==
  serial => \A r \in Runs :
    /\ at[Parent(r)] = "done" /\ at[Child(r)] = "done"
    /\ r > 1 => at[Parent(r - 1)] = "done"
    => Whole(r)

(* A client looks the name up again, and may find another queue under it than
   the one its parent has opened, when a run between has removed that. *)
Strayed ==
  \E r \in Runs : id[Child(r)] # NoId /\ id[Child(r)] # id[Parent(r)]

(* Runs that share a queue or a segment may take each other's messages, but
   each of them ends: unless one of them is interrupted and takes a message
   with it or leaves one behind, a child whose exec failed takes the message
   its parent waits for, or a client has strayed to a later run's queue. *)
EveryoneEnds ==
  \A r \in Runs :
    at[Parent(r)] # "off" /\ program # "fifo" ~>
      \/ r \notin Active
      \/ program = "mq" /\ (cut \/ fell \/ Strayed)
      \/ program = "msg" /\ cut

(* The two FIFOs never connect: the program ends only when its client could
   not be run, although each FIFO has one process at either end. *)
FifosHang ==
  program = "fifo" =>
    \A p \in Procs : at[p] \in {"talk", "done"} => fell
=============================================================================
