------------------------------ MODULE MuxServer ------------------------------
(***************************************************************************)
(* sokets2/4scheme: main waits with epoll on a stream and a datagram       *)
(* socket.  It accepts a stream client and queues its descriptor for one   *)
(* set of workers; of a datagram client it reads one byte, queues the      *)
(* address of its local udp_cln, which now holds the client's address, for *)
(* another set, and sleeps for a second.                                   *)
(*                                                                         *)
(* udp_cln is one variable for all datagram clients, and main and all the  *)
(* datagram workers read the same socket.  A second is longer than an      *)
(* exchange mostly, but nothing makes it so: main may wake at any time.    *)
(*                                                                         *)
(* Two overruns have an effect the build decides: arr2, indexed from its   *)
(* end on, may cover arr, so that some stream workers read the mutex       *)
(* number of a datagram worker (moved); and a second event of epoll_wait   *)
(* overwrites what lies behind the one struct it is given, which is either *)
(* unused or a descriptor main fails with (kills).                         *)
(*                                                                         *)
(* The stream clients are those of GreetClient.  Three things QueueServer  *)
(* models are left out here: the process has descriptors enough, the       *)
(* descriptors' queue is empty at the start, and no stream client is       *)
(* interrupted.  So send and recv do not return -1, on which a stream      *)
(* worker calls exit(1) and ends the server.                               *)
(*                                                                         *)
(* Its main, process and their variables have other names here than those  *)
(* of ThreadServer: ThreadServerProofs extends both.  muxMain is where     *)
(* main is, and MuxNext the next-state relation.                           *)
(***************************************************************************)
EXTENDS GreetClient

CONSTANTS
  Dgrams,      \* the datagram clients
  Nobody,      \* no client
  NumWorkers,  \* COUNT_OF_THREADS of each kind
  QueueMax     \* messages a queue holds

ASSUME MuxServerAssumption ==
  /\ NumWorkers \in Nat \ {0} /\ QueueMax \in Nat \ {0}
  /\ Backlog \in Nat \ {0}
  /\ Nobody \notin Clients \cup Dgrams

SWorkers == 1 .. NumWorkers
DWorkers == NumWorkers + 1 .. 2 * NumWorkers
Workers  == SWorkers \cup DWorkers

Datagram == [from : Dgrams, line : BOOLEAN]   \* the time, or the first byte

VARIABLES
  muxMain,  \* "epoll", "accept", "sendA", "recvfrom", "sendB", "sleep",
            \* "ended"
  accepted, \* queue1.mtext: the stream client behind the descriptor
  queueA,   \* the queue of descriptors
  queueB,   \* the queue of addresses: TRUE for one of an earlier process
  udp_cln,  \* the client whose address main's udp_cln holds
  socket,   \* the receive buffer of the datagram socket
  holder,   \* per mutex: the worker that holds it, or 0
  work,     \* per worker: the statement it is at
  worker_fd, \* per stream worker: the client behind its temp_fd
  strange,  \* per datagram worker: did its pointer come from elsewhere
  dclient,  \* how far each datagram client is
  dinbox,   \* greetings in its receive buffer
  moved, kills,  \* the build
  leftover, \* did an earlier process leave an address in the queue
  muxHeard, \* history: clients whose line a worker received
  greets,   \* history: greetings sent to each datagram client
  late,     \* history: main woke before the exchange had ended
  crowded   \* history: a datagram client came during another's exchange

mainVars   == <<muxMain, accepted>>
streamVars == <<queueA, worker_fd>>
dgramVars  == <<queueB, udp_cln, socket, strange, dclient, dinbox, greets,
                crowded>>
rigid      == <<moved, kills, leftover>>
muxVars    == <<clientVars, mainVars, streamVars, dgramVars, rigid, holder,
                work, muxHeard, late>>

MuxTypeOK ==
  /\ ClientTypeOK
  /\ muxMain \in {"epoll", "accept", "sendA", "recvfrom", "sendB", "sleep",
                  "ended"}
  /\ accepted \in Clients \cup {Nobody}
  /\ queueA \in Seq(Clients) /\ Len(queueA) <= QueueMax
  /\ queueB \in Seq(BOOLEAN) /\ Len(queueB) <= QueueMax
  /\ udp_cln \in Dgrams \cup {Nobody}
  /\ socket \in Seq(Datagram)
  /\ holder \in [Workers -> Workers \cup {0}]
  /\ work \in [Workers -> {"lock", "msgrcv", "send", "recv"}]
  /\ worker_fd \in [SWorkers -> Clients \cup {Nobody}]
  /\ strange \in [DWorkers -> BOOLEAN]
  /\ dclient \in [Dgrams -> {"new", "waiting", "greeted", "sent"}]
  /\ dinbox \in [Dgrams -> Nat]
  /\ moved \subseteq SWorkers /\ kills \in BOOLEAN /\ leftover \in BOOLEAN
  /\ muxHeard \subseteq Clients \cup Dgrams
  /\ greets \in [Dgrams -> Nat]
  /\ late \in BOOLEAN /\ crowded \in BOOLEAN

MuxInit ==
  /\ ClientInit
  /\ muxMain = "epoll"
  /\ accepted = Nobody
  /\ queueA = <<>>
  /\ leftover \in BOOLEAN
  /\ queueB = IF leftover THEN <<TRUE>> ELSE <<>>
  /\ udp_cln = Nobody
  /\ socket = <<>>
  /\ holder = [m \in Workers |-> 0]
  /\ work = [w \in Workers |-> "lock"]
  /\ worker_fd = [w \in SWorkers |-> Nobody]
  /\ strange = [w \in DWorkers |-> FALSE]
  /\ dclient = [d \in Dgrams |-> "new"]
  /\ dinbox = [d \in Dgrams |-> 0]
  /\ moved \in SUBSET SWorkers
  /\ kills \in BOOLEAN
  /\ muxHeard = {}
  /\ greets = [d \in Dgrams |-> 0]
  /\ late = FALSE
  /\ crowded = FALSE

MuxUp == muxMain # "ended"

(* exit(1), return 1 from main, or a signal. *)
Ends ==
  /\ HangUp
  /\ muxMain' = "ended"
  /\ UNCHANGED <<accepted, streamVars, dgramVars, rigid, holder, work, muxHeard,
                 late>>

MuxSignal == MuxUp /\ Ends

-----------------------------------------------------------------------------
(* main. *)

(* epoll_wait: of two events that are ready the first is looked at. *)
Poll ==
  /\ muxMain = "epoll"
  /\ \/ backlog # <<>> /\ muxMain' = "accept"
     \/ socket # <<>> /\ muxMain' = "recvfrom"
  /\ kills => backlog = <<>> \/ socket = <<>>
  /\ UNCHANGED <<clientVars, accepted, streamVars, dgramVars, rigid, holder,
                 work, muxHeard, late>>

(* Both are ready, and the second event is written over a descriptor. *)
PollOverruns ==
  /\ muxMain = "epoll"
  /\ backlog # <<>> /\ socket # <<>>
  /\ kills
  /\ Ends

MuxAccept ==
  /\ muxMain = "accept"
  /\ TakeConnection
  /\ accepted' = Accepted
  /\ muxMain' = "sendA"
  /\ UNCHANGED <<streamVars, dgramVars, rigid, holder, work, muxHeard, late>>

MsgSndA ==
  /\ muxMain = "sendA"
  /\ Len(queueA) < QueueMax
  /\ queueA' = Append(queueA, accepted)
  /\ muxMain' = "epoll"
  /\ UNCHANGED <<clientVars, accepted, worker_fd, dgramVars, rigid, holder,
                 work, muxHeard, late>>

(* recvfrom of one byte; what is left of the datagram is discarded. *)
RecvByte ==
  /\ muxMain = "recvfrom"
  /\ socket # <<>>
  /\ socket' = Tail(socket)
  /\ udp_cln' = Head(socket).from
  /\ muxMain' = "sendB"
  /\ UNCHANGED <<clientVars, accepted, streamVars, queueB, strange, dclient,
                 dinbox, greets, crowded, rigid, holder, work, muxHeard, late>>

(* A defective main that does not sleep. *)
MsgSndBAwake ==
  /\ muxMain = "sendB"
  /\ Len(queueB) < QueueMax
  /\ queueB' = Append(queueB, FALSE)
  /\ muxMain' = "epoll"
  /\ UNCHANGED <<clientVars, accepted, streamVars, udp_cln, socket, strange,
                 dclient, dinbox, greets, crowded, rigid, holder, work,
                 muxHeard, late>>

MsgSndB ==
  /\ muxMain = "sendB"
  /\ Len(queueB) < QueueMax
  /\ queueB' = Append(queueB, FALSE)
  /\ muxMain' = "sleep"
  /\ UNCHANGED <<clientVars, accepted, streamVars, udp_cln, socket, strange,
                 dclient, dinbox, greets, crowded, rigid, holder, work,
                 muxHeard, late>>

Exchanging ==
  queueB # <<>> \/ \E w \in DWorkers : work[w] \in {"send", "recv"}

(* The second is over. *)
Wake ==
  /\ muxMain = "sleep"
  /\ muxMain' = "epoll"
  /\ late' = (late \/ Exchanging)
  /\ UNCHANGED <<clientVars, accepted, streamVars, dgramVars, rigid, holder,
                 work, muxHeard>>

MuxLoop ==
  \/ Poll \/ PollOverruns
  \/ MuxAccept \/ MsgSndA
  \/ RecvByte \/ MsgSndB \/ Wake

-----------------------------------------------------------------------------
(* The workers. *)

Mutex(w) == IF w \in moved THEN w + NumWorkers ELSE w

WorkerAt(w, label) == MuxUp /\ work[w] = label

(* pthread_mutex_trylock; while it fails, the worker tries again. *)
TryLock(w) ==
  /\ WorkerAt(w, "lock")
  /\ holder[Mutex(w)] = 0
  /\ holder' = [holder EXCEPT ![Mutex(w)] = w]
  /\ work' = [work EXCEPT ![w] = "msgrcv"]
  /\ UNCHANGED <<clientVars, mainVars, streamVars, dgramVars, rigid, muxHeard,
                 late>>

(* A defective worker that does not unlock. *)
UnlockForgotten(w) ==
  /\ holder' = holder
  /\ work' = [work EXCEPT ![w] = "lock"]

Unlock(w) ==
  /\ holder' = [holder EXCEPT ![Mutex(w)] = 0]
  /\ work' = [work EXCEPT ![w] = "lock"]

(* process. *)
TakeA(w) ==
  /\ WorkerAt(w, "msgrcv")
  /\ queueA # <<>>
  /\ worker_fd' = [worker_fd EXCEPT ![w] = Head(queueA)]
  /\ queueA' = Tail(queueA)
  /\ work' = [work EXCEPT ![w] = "send"]
  /\ UNCHANGED <<clientVars, mainVars, dgramVars, rigid, holder, muxHeard,
                 late>>

MuxSend(w) ==
  /\ WorkerAt(w, "send")
  /\ Greet(worker_fd[w])
  /\ work' = [work EXCEPT ![w] = "recv"]
  /\ UNCHANGED <<mainVars, streamVars, dgramVars, rigid, holder, muxHeard,
                 late>>

MuxRecv(w) ==
  /\ WorkerAt(w, "recv")
  /\ RecvReturns(worker_fd[w])
  /\ muxHeard' = muxHeard \cup (mail \cap {worker_fd[w]})
  /\ Unlock(w)
  /\ UNCHANGED <<mainVars, streamVars, dgramVars, rigid, late>>

stream_process(w) == TryLock(w) \/ TakeA(w) \/ MuxSend(w) \/ MuxRecv(w)

(* process2. *)
TakeB(w) ==
  /\ WorkerAt(w, "msgrcv")
  /\ queueB # <<>>
  /\ strange' = [strange EXCEPT ![w] = Head(queueB)]
  /\ queueB' = Tail(queueB)
  /\ work' = [work EXCEPT ![w] = "send"]
  /\ UNCHANGED <<clientVars, mainVars, streamVars, udp_cln, socket, dclient,
                 dinbox, greets, crowded, rigid, holder, muxHeard, late>>

(* sendto the client whose address udp_cln holds by now. *)
SendTo(w) ==
  /\ WorkerAt(w, "send")
  /\ udp_cln # Nobody
  /\ greets' = [greets EXCEPT ![udp_cln] = @ + 1]
  /\ dinbox' = IF dclient[udp_cln] = "sent" THEN dinbox
               ELSE [dinbox EXCEPT ![udp_cln] = @ + 1]
  /\ work' = [work EXCEPT ![w] = "recv"]
  /\ UNCHANGED <<clientVars, mainVars, streamVars, queueB, udp_cln, socket,
                 strange, dclient, crowded, rigid, holder, muxHeard, late>>

(* sendto through another process's pointer: EFAULT, unless udp_cln happens
   to be where it was then; and an udp_cln that was never set is no address. *)
SendToFails(w) ==
  /\ WorkerAt(w, "send")
  /\ strange[w] \/ udp_cln = Nobody
  /\ Ends

(* recvfrom of whatever comes first, with its sender written to udp_cln. *)
RecvFrom(w) ==
  /\ WorkerAt(w, "recv")
  /\ socket # <<>>
  /\ socket' = Tail(socket)
  /\ udp_cln' = Head(socket).from
  /\ muxHeard' = IF Head(socket).line THEN muxHeard \cup {Head(socket).from}
                                      ELSE muxHeard
  /\ Unlock(w)
  /\ UNCHANGED <<clientVars, mainVars, streamVars, queueB, strange, dclient,
                 dinbox, greets, crowded, rigid, late>>

process2(w) ==
  TryLock(w) \/ TakeB(w) \/ SendTo(w) \/ SendToFails(w) \/ RecvFrom(w)

-----------------------------------------------------------------------------
(* The clients. *)

muxServerVars == <<mainVars, streamVars, queueB, udp_cln, strange, rigid,
                   holder, work, muxHeard, greets, late>>

dgramClients == <<dclient, dinbox, crowded>>

StreamConnects(c) ==
  MuxUp /\ Connect(c) /\ UNCHANGED <<muxServerVars, socket, dgramClients>>
StreamMoves(c) ==
  ClientStep(c) /\ UNCHANGED <<muxServerVars, socket, dgramClients>>

Becoming(d, phase) == dclient' = [dclient EXCEPT ![d] = phase]

Underway(d) == dclient[d] \in {"waiting", "greeted"}

(* client2: the first byte, the greeting, the time. *)
SendByte(d) ==
  /\ MuxUp
  /\ dclient[d] = "new"
  /\ Becoming(d, "waiting")
  /\ socket' = Append(socket, [from |-> d, line |-> FALSE])
  /\ crowded' = (crowded \/ \E e \in Dgrams : Underway(e))
  /\ UNCHANGED <<clientVars, muxServerVars, dinbox>>

GetGreeting(d) ==
  /\ dclient[d] = "waiting"
  /\ dinbox[d] > 0
  /\ Becoming(d, "greeted")
  /\ dinbox' = [dinbox EXCEPT ![d] = @ - 1]
  /\ UNCHANGED <<clientVars, muxServerVars, socket, crowded>>

SendLine(d) ==
  /\ MuxUp
  /\ dclient[d] = "greeted"
  /\ Becoming(d, "sent")
  /\ socket' = Append(socket, [from |-> d, line |-> TRUE])
  /\ dinbox' = [dinbox EXCEPT ![d] = 0]
  /\ UNCHANGED <<clientVars, muxServerVars, crowded>>

client2(d) == GetGreeting(d) \/ SendLine(d)

-----------------------------------------------------------------------------
MuxNext ==
  \/ MuxLoop \/ MuxSignal
  \/ \E w \in SWorkers : stream_process(w)
  \/ \E w \in DWorkers : process2(w)
  \/ \E c \in Clients : StreamConnects(c) \/ StreamMoves(c)
  \/ \E d \in Dgrams : SendByte(d) \/ client2(d)

(* Threads and clients are scheduled; nobody has to start or to signal. *)
MuxFairness ==
  /\ WF_muxVars(MuxLoop)
  /\ \A w \in SWorkers : WF_muxVars(stream_process(w))
  /\ \A w \in DWorkers : WF_muxVars(process2(w))
  /\ \A c \in Clients : WF_muxVars(StreamMoves(c))
  /\ \A d \in Dgrams : WF_muxVars(client2(d))

MuxSpec == MuxInit /\ [][MuxNext]_muxVars
MuxFairSpec == MuxSpec /\ MuxFairness

-----------------------------------------------------------------------------
(* Properties. *)

(* No datagram exchange has met another, main's early waking, or a pointer
   that an earlier process left behind. *)
Undisturbed == ~late /\ ~crowded /\ ~leftover

(* The shared udp_cln and the shared socket are only safe while main sleeps
   through the exchange of a client that is alone: then it is greeted once,
   and a worker, not main, receives its line. *)
AloneIsGreetedOnce ==
  Undisturbed =>
    \A d \in Dgrams :
      /\ greets[d] <= 1
      /\ dclient[d] = "sent" =>
           d \in muxHeard \/ \E i \in 1 .. Len(socket) :
                                socket[i] = [from |-> d, line |-> TRUE]

(* main may be kept waiting in recvfrom, or two workers share a mutex. *)
Troubled == late \/ leftover \/ moved # {}

(* A connected stream client's line is received: while main wakes in time it
   never waits for a datagram that a worker took, so nothing the datagram
   side does holds up the stream side.  A datagram client's line is received
   if, besides, its exchange meets no other's. *)
EveryoneIsHeard ==
  /\ \A c \in Clients :
       client[c] = "waiting" ~> c \in muxHeard \/ ~MuxUp \/ Troubled
  /\ \A d \in Dgrams :
       dclient[d] = "waiting" ~>
         d \in muxHeard \/ ~MuxUp \/ Troubled \/ crowded
=============================================================================
