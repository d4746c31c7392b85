-------------------------- MODULE ExchangesProofs --------------------------
(***************************************************************************)
(* Theorems about the exchanges, for any number of runs, queues, texts and *)
(* pipes of any length, and any scheduling; and, in the second half, about *)
(* the datagram exchange, for any number of clients and of packets.        *)
(***************************************************************************)
EXTENDS Exchanges, DatagramExchange, FiniteSetTheorems, SequenceTheorems,
        TLAPS

Statements ==
  {"off", "open", "send", "fork", "wait", "exec", "receive", "unlink",
   "unlink2", "client_open", "client_receive", "client_send",
   "close_read", "close_write", "read", "write",
   "open1", "opening1", "open2", "opening2", "talk",
   "done", "fallen", "killed"}

Kinds == /\ program \in Named \cup Pipes \cup {"fifo"}
         /\ at \in [Procs -> Statements]
         /\ readers \in [1 .. 2 -> SUBSET Procs]
         /\ writers \in [1 .. 2 -> SUBSET Procs]
         /\ fifos \subseteq {1, 2} /\ fell \in BOOLEAN

(* The inductive invariant: as long as every fork and exec has succeeded, the
   channels stay and nobody opens channel2 for writing, so that no process
   gets behind the second open. *)
NobodyWrites ==
  /\ writers[2] = {}
  /\ \A p \in Procs :
       /\ at[p] \in {"off", "fork", "exec", "open1", "opening1", "open2",
                     "opening2", "killed"}
       /\ at[p] # "off" => fifos = {1, 2}

FifoInv == Kinds /\ (program = "fifo" /\ ~fell => NobodyWrites)

LEMMA FifoInit == Init => FifoInv
  <1> SUFFICES ASSUME Init PROVE FifoInv
    OBVIOUS
  <1>1. at \in [Procs -> Statements]
    BY DEF Init, Statements
  <1>2. /\ readers \in [1 .. 2 -> SUBSET Procs]
        /\ writers \in [1 .. 2 -> SUBSET Procs]
    BY DEF Init
  <1>3. /\ fifos \subseteq {1, 2} /\ fell \in BOOLEAN
        /\ program \in Named \cup Pipes \cup {"fifo"}
    BY Zenon DEF Init
  <1>4. NobodyWrites
    BY DEF Init, NobodyWrites
  <1> QED
    BY <1>1, <1>2, <1>3, <1>4 DEF FifoInv, Kinds

LEMMA ProcsOfRuns ==
  ASSUME NEW r \in Runs
  PROVE  Parent(r) \in Procs /\ Child(r) \in Procs /\ Parent(r) # Child(r)
  BY DEF Parent, Child, Procs

(* Where a fork and a wait lead the parent, and a fork its child. *)
LEMMA AroundTheFork ==
  ASSUME program \in Named \cup Pipes \cup {"fifo"}
  PROVE  /\ AfterFork \in Statements
         /\ InChild \in Statements
         /\ program = "fifo" => AfterFork = "open1" /\ InChild = "exec"
  <1>1. CASE program \in Named
    BY <1>1 DEF AfterFork, InChild, Statements, Named
  <1>2. CASE program \in Pipes
    BY <1>2 DEF AfterFork, InChild, Statements, Named, Pipes
  <1>3. CASE program = "fifo"
    BY <1>3 DEF AfterFork, InChild, Statements, Named
  <1> QED
    BY <1>1, <1>2, <1>3

LEMMA FifoNext == FifoInv /\ [Next]_vars => FifoInv'
  <1> SUFFICES ASSUME FifoInv, [Next]_vars PROVE FifoInv'
    OBVIOUS
  <1> USE DEF FifoInv, Kinds, pipeVars, history, objVars, Go
  <1>1. ASSUME NEW p \in Procs, Steps(p) PROVE FifoInv'
    <2>1. CASE Receive(p)
      BY <2>1 DEF Receive, Statements, NobodyWrites
    <2>2. CASE Unlink(p)
      BY <2>2 DEF Unlink, End, Statements, NobodyWrites
    <2>3. CASE CloseWrite(p)
      BY <2>3 DEF CloseWrite, Statements, NobodyWrites
    <2>4. CASE CloseRead(p)
      BY <2>4 DEF CloseRead, Statements, NobodyWrites
    <2>5. CASE Write(p)
      BY <2>5 DEF Write, Statements, NobodyWrites
    <2>6. CASE WriteFails(p)
      BY <2>6 DEF WriteFails, Statements, NobodyWrites
    <2>7. CASE Read(p)
      BY <2>7 DEF Read, Statements, NobodyWrites
    <2>8. CASE Open1(p)
      BY <2>8 DEF Open1, CountIn, Statements, NobodyWrites
    <2>9. ASSUME NEW f \in 1 .. 2, OpenFails(p, f) PROVE FifoInv'
      BY <2>9 DEF OpenFails, Statements, NobodyWrites
    <2>10. CASE Open2(p)
      BY <2>10 DEF Open2, CountIn, Statements, NobodyWrites
    <2>11. ASSUME NEW f \in 1 .. 2, Opened(p, f) PROVE FifoInv'
      BY <2>11 DEF Opened, Opening, Statements, NobodyWrites
    <2>12. CASE Unlink2(p)
      BY <2>12 DEF Unlink2, End, Statements, NobodyWrites
    <2> QED
      BY <1>1, <2>1, <2>2, <2>3, <2>4, <2>5, <2>6, <2>7, <2>8, <2>9, <2>10,
         <2>11, <2>12 DEF Steps
  <1>2. ASSUME NEW r \in Runs,
               \/ Start(r) \/ Fork(r) \/ ForkFails(r) \/ Exec(r)
               \/ ExecFails(r) \/ Wait(r) \/ Interrupt(r)
        PROVE FifoInv'
    <2> USE ProcsOfRuns DEF Statements
    <2>1. CASE Start(r)
      <3>1. fifos' \subseteq {1, 2}
        BY <2>1, Zenon DEF Start
      <3>2. at' \in [Procs -> Statements]
        BY <2>1 DEF Start
      <3>3. program = "fifo" /\ ~fell => NobodyWrites'
        BY <2>1 DEF Start, NobodyWrites, Named
      <3> QED
        BY <2>1, <3>1, <3>2, <3>3 DEF Start
    <2>2. CASE Fork(r)
      <3> DEFINE forked == [at EXCEPT ![Parent(r)] = AfterFork,
                                      ![Child(r)] = InChild]
      <3>1. forked \in [Procs -> Statements]
        BY AroundTheFork, Zenon
      <3>2. at' = forked
        BY <2>2 DEF Fork
      <3>3. /\ readers' \in [1 .. 2 -> SUBSET Procs]
            /\ writers' \in [1 .. 2 -> SUBSET Procs]
        BY <2>2 DEF Fork
      <3>4. ASSUME program = "fifo", ~fell PROVE NobodyWrites'
        <4>1. writers' = writers /\ fifos' = fifos
          BY <2>2, <3>4 DEF Fork, Pipes
        <4>2. at[Parent(r)] = "fork"
          BY <2>2 DEF Fork
        <4>3. AfterFork = "open1" /\ InChild = "exec"
          BY <3>4, AroundTheFork
        <4> HIDE DEF Statements
        <4>4. ASSUME NEW p \in Procs
              PROVE  at'[p] = at[p] \/ at'[p] \in {"open1", "exec"}
          BY <3>2, <4>3
        <4> QED
          BY <3>4, <4>1, <4>2, <4>4 DEF NobodyWrites
      <3>5. /\ program' = program /\ fell' = fell
            /\ fifos' = fifos
        BY <2>2, Zenon DEF Fork
      <3> QED
        BY <3>1, <3>2, <3>3, <3>4, <3>5
    <2>3. CASE ForkFails(r)
      <3>1. (IF program = "fifo" THEN "done" ELSE AfterFork) \in Statements
        BY AroundTheFork
      <3>2. at' \in [Procs -> Statements]
        BY <2>3, <3>1, Zenon DEF ForkFails
      <3>3. /\ readers' \in [1 .. 2 -> SUBSET Procs]
            /\ writers' \in [1 .. 2 -> SUBSET Procs]
        BY <2>3 DEF ForkFails
      <3>4. /\ program' = program /\ fell' = TRUE
            /\ fifos' = fifos
        BY <2>3, Zenon DEF ForkFails
      <3> QED
        BY <3>2, <3>3, <3>4
    <2>4. CASE Exec(r)
      BY <2>4 DEF Exec, NobodyWrites
    <2>5. CASE ExecFails(r)
      BY <2>5 DEF ExecFails
    <2>6. CASE Wait(r)
      <3> DEFINE next == CASE program \in Named     -> "receive"
                           [] program = "pipe_down" -> "done"
                           [] program = "pipe_up"   -> "read"
                           [] program = "fifo"      -> "unlink"
      <3>1. next \in Statements
        BY DEF Named, Pipes
      <3> HIDE DEF next
      <3>2. at' = [at EXCEPT ![Parent(r)] = next]
        BY <2>6, Zenon DEF Wait, next
      <3>3. at' \in [Procs -> Statements]
        BY <3>1, <3>2, Zenon
      <3>4. program = "fifo" /\ ~fell => FALSE
        BY <2>6 DEF Wait, NobodyWrites
      <3>5. UNCHANGED <<program, fell, fifos, readers, writers>>
        BY <2>6, Zenon DEF Wait
      <3> QED
        BY <3>3, <3>4, <3>5
    <2>7. CASE Interrupt(r)
      <3>1. at' = [p \in Procs |->
                     IF p[1] = r /\ at[p] \notin Over THEN "killed" ELSE at[p]]
        BY <2>7, Zenon DEF Interrupt
      <3>2. ASSUME NEW p \in Procs
            PROVE  at'[p] = at[p] \/ (at'[p] = "killed" /\ at[p] # "off")
        BY <3>1, Zenon DEF Over
      <3>3. at' \in [Procs -> Statements]
        BY <3>1, <3>2
      <3>4. /\ readers' \in [1 .. 2 -> SUBSET Procs]
            /\ writers' = [f \in 1 .. 2 |-> {}]
        BY <2>7 DEF Interrupt
      <3>5. UNCHANGED <<program, fell, fifos>>
        BY <2>7, Zenon DEF Interrupt
      <3>6. ASSUME program = "fifo", ~fell PROVE NobodyWrites'
        <4>1. NobodyWrites
          BY <3>6
        <4>2. writers'[2] = {}
          BY <3>4
        <4>3. ASSUME NEW p \in Procs
              PROVE  /\ at'[p] \in {"off", "fork", "exec", "open1", "opening1",
                                     "open2", "opening2", "killed"}
                     /\ at'[p] # "off" => fifos' = {1, 2}
          <5> HIDE DEF Statements
          <5> QED
            BY <4>1, <3>2, <3>5 DEF NobodyWrites
        <4> QED
          BY <4>2, <4>3, Zenon DEF NobodyWrites
      <3>7. /\ writers' \in [1 .. 2 -> SUBSET Procs]
            /\ fifos' \subseteq {1, 2} /\ fell' \in BOOLEAN
        BY <3>4, <3>5
      <3> QED
        BY <3>3, <3>4, <3>5, <3>6, <3>7, Zenon
    <2> QED
      BY <1>2, <2>1, <2>2, <2>3, <2>4, <2>5, <2>6, <2>7
  <1>3. ASSUME NEW r \in Runs,
               Open(r) \/ Send(r) \/ ClientOpen(r) \/ ClientReceive(r)
                 \/ ClientSend(r)
        PROVE FifoInv'
    <2> USE ProcsOfRuns DEF Statements, NobodyWrites
    <2>1. CASE Open(r)
      BY <2>1 DEF Open
    <2>2. CASE Send(r)
      BY <2>2 DEF Send
    <2>3. CASE ClientOpen(r)
      BY <2>3 DEF ClientOpen
    <2>4. CASE ClientReceive(r)
      BY <2>4 DEF ClientReceive
    <2>5. CASE ClientSend(r)
      BY <2>5 DEF ClientSend
    <2> QED
      BY <1>3, <2>1, <2>2, <2>3, <2>4, <2>5
  <1>4. CASE UNCHANGED vars
    BY <1>4 DEF vars, NobodyWrites
  <1> QED
    BY <1>1, <1>2, <1>3, <1>4, ProcsOfRuns
       DEF Next, ServerSteps, ClientSteps

(* pipes/2tsk never gets behind its second open: its parent and its child
   open channel2 for reading, and while both exist no scheduling brings
   either of them to its message or to its end. *)
THEOREM FifosNeverConnect == Spec => []FifosHang
  <1>1. FifoInv => FifosHang
    BY DEF FifoInv, FifosHang, NobodyWrites
  <1> QED
    BY <1>1, FifoInit, FifoNext, PTL DEF Spec

-----------------------------------------------------------------------------
(* The runs of a queue or a segment, one at a time. *)

Ended     == {"done", "killed"}
AfterOpen == {"send", "fork", "wait", "receive", "unlink"}
Clientele == {"exec", "client_open", "client_receive", "client_send", "done"}

(* Parent and child keep to their parts of the code; a child runs only while
   its parent waits, and a run starts only when those before it are over. *)
Control(r) ==
  /\ at[Parent(r)] \in {"off", "open"} \cup AfterOpen \cup Ended
  /\ at[Child(r)] \in Over \cup Clientele \cup {"receive", "unlink"}
  /\ at[Child(r)] # "off" =>
       at[Parent(r)] \notin {"off", "open", "send", "fork"}
  /\ at[Child(r)] \notin Over => at[Parent(r)] = "wait"
  /\ \A q \in Runs : q < r /\ at[Parent(r)] # "off" => at[Parent(q)] \in Ended

(* The name leads to the parent's object, and does so for certain while the
   client has not been replaced by a child that goes on in the server. *)
Reached(r) ==
  /\ at[Parent(r)] \in AfterOpen =>
       id[Parent(r)] \in 1 .. made /\ name \in {NoId, id[Parent(r)]}
  /\ \/ at[Parent(r)] \in {"send", "fork"}
     \/ at[Parent(r)] \in {"wait", "receive"} /\ at[Child(r)] \in Clientele
     => name = id[Parent(r)]

(* Every end removes the name, and so it is free before the first run. *)
Removed(r) ==
  /\ \A q \in Runs : q > r => at[Parent(q)] \in {"off", "open"}
  /\ at[Parent(r)] = "done" \/ (r = 1 /\ at[Parent(r)] \in {"off", "open"})
  => name = NoId

(* Each run makes one object at most; those to be made are empty. *)
Fresh(r) == at[Parent(r)] \in {"off", "open"} => made < r

InStep(r) == r > 1 => at[Parent(r - 1)] = "done"

(* What a run in step finds at each of its statements. *)
Exchanged(r) ==
  LET parent == at[Parent(r)]
      child  == at[Child(r)]
      object == content[id[Parent(r)]]
      alive  == parent \in {"wait", "receive"}
  IN
  /\ parent = "send" => object = <<>>
  /\ parent = "fork" \/ child \in {"exec", "client_open", "client_receive"} =>
       object = <<Hello(r)>>
  /\ child \in {"client_receive", "client_send"} => id[Child(r)] = id[Parent(r)]
  /\ child = "client_send" =>
       object = IF program \in {"mq", "msg"} THEN <<>> ELSE <<Hello(r)>>
  /\ child \in {"client_send", "done"} => got[Child(r)] = Hello(r)
  /\ alive /\ child = "done" => object = <<Reply(r)>>
  /\ child = "done" /\ parent \in {"unlink", "done"} =>
       got[Parent(r)] = Reply(r)

Messages == [from : {"parent", "child"}, run : Runs]

Objects ==
  /\ at \in [Procs -> Statements]
  /\ made \in 0 .. MaxRuns
  /\ name \in 0 .. made
  /\ id \in [Procs -> 0 .. made]
  /\ content \in [Ids -> Seq(Messages)]
  /\ got \in [Procs -> Messages \cup {Nothing}]
  /\ \A i \in Ids : i > made => content[i] = <<>>

(* The inductive invariant: WholeAfterCleanRun speaks of two ends, and needs
   what the statements between leave in the object and under the name. *)
SerialInv ==
  /\ Objects
  /\ \A r \in Runs : /\ Control(r) /\ Reached(r) /\ Removed(r) /\ Fresh(r)
                     /\ InStep(r) => Exchanged(r)

NamedInv == serial /\ program \in Named => SerialInv

(* The operations on objects. *)

LEMMA RemoveAtIs ==
  ASSUME NEW S, NEW s \in Seq(S), NEW i \in 1 .. Len(s)
  PROVE  RemoveAt(s, i) \in Seq(S) /\ (Len(s) = 1 => RemoveAt(s, i) = <<>>)
  <1> DEFINE front == SubSeq(s, 1, i - 1)
             rest  == SubSeq(s, i + 1, Len(s))
  <1>1. Len(s) \in Nat /\ \A j \in 1 .. Len(s) : s[j] \in S
    BY LenProperties, ElementOfSeq
  <1>2. front \in Seq(S)
    BY <1>1, SubSeqProperties
  <1>3. rest \in Seq(S)
    BY <1>1, SubSeqProperties
  <1>4. Len(s) = 1 => front = <<>> /\ rest = <<>>
    BY <1>1, SubSeqEmpty
  <1>5. front \o rest \in Seq(S)
    BY <1>2, <1>3, ConcatProperties
  <1>6. Len(s) = 1 => front \o rest = <<>>
    BY <1>2, <1>4, ConcatEmptySeq
  <1> QED BY <1>5, <1>6 DEF RemoveAt

LEMMA ObjectOf ==
  ASSUME Objects, NEW p \in Procs, Usable(p)
  PROVE  /\ id[p] \in Ids /\ id[p] \in 1 .. made
         /\ content[id[p]] \in Seq(Messages)
  <1>1. id[p] \in 1 .. made
    BY DEF Objects, Usable, NoId
  <1>2. id[p] \in Ids
    BY <1>1, ExchangesAssumption DEF ExchangesAssumption, Objects, Ids
  <1> QED BY <1>1, <1>2 DEF Objects

(* Only the object of p changes. *)
LEMMA PutTypes ==
  ASSUME Objects, NEW p \in Procs, NEW m \in Messages, Put(p, m)
  PROVE  /\ content' \in [Ids -> Seq(Messages)]
         /\ \A i \in Ids : i > made => content'[i] = <<>>
         /\ Usable(p) =>
              content'[id[p]] = IF program \in {"mq", "msg"}
                                THEN Append(content[id[p]], m) ELSE <<m>>
  <1>1. CASE ~Usable(p)
    BY <1>1 DEF Put, Objects
  <1>2. CASE Usable(p)
    <2>1. /\ id[p] \in Ids /\ id[p] \in 1 .. made
          /\ content[id[p]] \in Seq(Messages)
      BY <1>2, ObjectOf
    <2>2. Append(content[id[p]], m) \in Seq(Messages) /\ <<m>> \in Seq(Messages)
      BY <2>1, AppendProperties
    <2>3. PICK s \in Seq(Messages) :
            /\ content' = [content EXCEPT ![id[p]] = s]
            /\ s = IF program \in {"mq", "msg"}
                   THEN Append(content[id[p]], m) ELSE <<m>>
      BY <1>2, <2>2 DEF Put
    <2> QED BY <2>1, <2>3 DEF Objects
  <1> QED BY <1>1, <1>2

LEMMA TakeTypes ==
  ASSUME Objects, NEW p \in Procs, NEW inClient \in BOOLEAN, Take(p, inClient)
  PROVE  /\ content' \in [Ids -> Seq(Messages)]
         /\ \A i \in Ids : i > made => content'[i] = <<>>
         /\ got' \in [Procs -> Messages \cup {Nothing}]
         /\ \A q \in Procs : q # p => got'[q] = got[q]
  <1>1. CASE Wanted(p, inClient) = {}
    BY <1>1 DEF Take, Objects
  <1>2. CASE Wanted(p, inClient) # {}
    <2>1. PICK i \in Wanted(p, inClient) :
            /\ got' = [got EXCEPT ![p] = content[id[p]][i]]
            /\ content' = IF program \in {"mq", "msg"}
                          THEN [content EXCEPT ![id[p]] = RemoveAt(@, i)]
                          ELSE content
      BY <1>2 DEF Take
    <2>2. Usable(p) /\ i \in DOMAIN content[id[p]]
      BY <2>1 DEF Wanted
    <2>3. /\ id[p] \in Ids /\ id[p] \in 1 .. made
          /\ content[id[p]] \in Seq(Messages)
      BY <2>2, ObjectOf
    <2>4. /\ content[id[p]][i] \in Messages
          /\ RemoveAt(content[id[p]], i) \in Seq(Messages)
      BY <2>2, <2>3, RemoveAtIs, LenProperties, ElementOfSeq
    <2> QED BY <2>1, <2>3, <2>4 DEF Objects
  <1> QED BY <1>1, <1>2

(* The only message of an object is taken by whoever may take it. *)
LEMMA TakeOnly ==
  ASSUME Objects, NEW p \in Procs, NEW inClient \in BOOLEAN, Take(p, inClient),
         NEW m \in Messages, Usable(p), content[id[p]] = <<m>>,
         program = "msg" /\ ~inClient => m.from = "child"
  PROVE  /\ got'[p] = m
         /\ content'[id[p]] = IF program \in {"mq", "msg"} THEN <<>> ELSE <<m>>
  <1>1. <<m>> \in Seq(Messages) /\ Len(<<m>>) = 1 /\ DOMAIN <<m>> = {1}
        /\ <<m>>[1] = m
    OBVIOUS
  <1>2. Wanted(p, inClient) = {1}
    BY <1>1 DEF Wanted
  <1>3. PICK i \in Wanted(p, inClient) :
          /\ got' = [got EXCEPT ![p] = content[id[p]][i]]
          /\ content' = IF program \in {"mq", "msg"}
                        THEN [content EXCEPT ![id[p]] = RemoveAt(@, i)]
                        ELSE content
    BY <1>2 DEF Take
  <1>4. i = 1 /\ 1 \in 1 .. Len(<<m>>)
    BY <1>1, <1>2, <1>3
  <1>6. RemoveAt(<<m>>, 1) = <<>>
    BY <1>1, <1>4, RemoveAtIs
  <1>5. id[p] \in Ids
    BY ObjectOf
  <1> QED BY <1>1, <1>3, <1>4, <1>5, <1>6 DEF Objects

-----------------------------------------------------------------------------
(* One run at a time. *)

LEMMA SerialInit == Init => NamedInv
  <1> SUFFICES ASSUME Init PROVE SerialInv
    BY DEF NamedInv
  <1> USE ExchangesAssumption, ProcsOfRuns DEF ExchangesAssumption
  <1>1. at \in [Procs -> Statements] /\ \A p \in Procs : at[p] = "off"
    BY DEF Init, Statements
  <1>2. /\ made = 0 /\ name = 0 /\ id \in [Procs -> 0 .. made]
        /\ got \in [Procs -> Messages \cup {Nothing}]
    BY DEF Init, NoId
  <1>3. /\ content \in [Ids -> Seq(Messages)]
        /\ \A i \in Ids : content[i] = <<>>
    BY EmptySeq DEF Init
  <1>4. Objects
    BY <1>1, <1>2, <1>3 DEF Objects
  <1>5. ASSUME NEW r \in Runs
        PROVE  /\ Control(r) /\ Reached(r) /\ Removed(r) /\ Fresh(r)
               /\ Exchanged(r)
    <2>1. at[Parent(r)] = "off" /\ at[Child(r)] = "off"
      BY <1>1
    <2>2. Control(r)
      BY <1>1, <2>1 DEF Control, Over
    <2>3. Reached(r) /\ Removed(r)
      BY <1>2, <2>1 DEF Reached, Removed, AfterOpen, NoId
    <2>4. Fresh(r)
      BY <1>2 DEF Fresh, Runs
    <2>5. Exchanged(r)
      BY <2>1 DEF Exchanged
    <2> QED BY <2>2, <2>3, <2>4, <2>5
  <1> QED BY <1>4, <1>5 DEF SerialInv

On(r) == at[Parent(r)] \notin {"off"} \cup Ended

(* While one run is on, the others are over or have not been started. *)
LEMMA Alone ==
  ASSUME SerialInv, NEW q \in Runs, On(q), NEW r \in Runs, r # q
  PROVE  IF r < q THEN at[Parent(r)] \in Ended ELSE at[Parent(r)] = "off"
  <1>1. Control(q) /\ Control(r) /\ r \in Int /\ q \in Int
    BY DEF SerialInv, Runs
  <1> QED BY <1>1 DEF Control, On

(* Whether a run is in step is decided before it starts. *)
LEMMA InStepBefore ==
  ASSUME NEW q \in Runs, NEW r \in Runs, r <= q, InStep(r)',
         \A x \in Runs : x # q => at'[Parent(x)] = at[Parent(x)]
  PROVE  InStep(r)
  <1> SUFFICES ASSUME r > 1 PROVE at[Parent(r - 1)] = "done"
    BY DEF InStep
  <1>1. r - 1 \in Runs /\ r - 1 # q
    BY ExchangesAssumption DEF Runs, ExchangesAssumption
  <1>2. at'[Parent(r - 1)] = "done"
    BY DEF InStep, Parent
  <1> QED BY <1>1, <1>2

(* What a step of the run that is on must show for the invariant to hold. *)
LEMMA StepOfOne ==
  ASSUME SerialInv, NEW q \in Runs, On(q), Objects',
         program' = program,
         \A p \in Procs : p[1] # q => /\ at'[p] = at[p] /\ id'[p] = id[p]
                                      /\ got'[p] = got[p],
         made' = made \/ made' <= q,
         at'[Parent(q)] \in AfterOpen \cup Ended,
         at'[Child(q)] \in Over \cup Clientele \cup {"receive", "unlink"},
         at'[Child(q)] # "off" => at'[Parent(q)] \notin {"send", "fork"},
         at'[Child(q)] \notin Over => at'[Parent(q)] = "wait",
         at'[Parent(q)] = "done" => name' = NoId,
         Reached(q)',
         InStep(q) => Exchanged(q)'
  PROVE  SerialInv'
  <1> USE DEF Ended, AfterOpen
  <1>1. \A r \in Runs : /\ Control(r) /\ Reached(r) /\ Removed(r) /\ Fresh(r)
                        /\ InStep(r) => Exchanged(r)
    BY DEF SerialInv
  <1>2. ASSUME NEW r \in Runs, r # q
        PROVE  /\ Parent(r) \in Procs /\ Child(r) \in Procs
               /\ at'[Parent(r)] = at[Parent(r)] /\ at'[Child(r)] = at[Child(r)]
               /\ got'[Parent(r)] = got[Parent(r)]
               /\ got'[Child(r)] = got[Child(r)]
    BY <1>2, ProcsOfRuns DEF Parent, Child
  <1>3. ASSUME NEW r \in Runs PROVE Control(r)'
    <2>1. ASSUME NEW x \in Runs, x < r, at'[Parent(r)] # "off"
          PROVE  at'[Parent(x)] \in Ended
      <3>1. at[Parent(r)] # "off"
        BY <1>2, <2>1 DEF On
      <3>a. Control(r)
        BY <1>1
      <3>2. at[Parent(x)] \in Ended
        BY <2>1, <3>1, <3>a DEF Control
      <3>3. x # q
        BY <3>2 DEF On
      <3> QED BY <1>2, <3>2, <3>3
    <2>2. CASE r = q
      BY <2>1, <2>2 DEF Control
    <2>3. CASE r # q
      <3>1. Control(r)
        BY <1>1
      <3> QED BY <1>2, <2>1, <2>3, <3>1 DEF Control
    <2> QED BY <2>2, <2>3
  <1>4. ASSUME NEW r \in Runs PROVE Reached(r)'
    <2>1. CASE r # q
      BY <1>2, <2>1, Alone DEF Reached
    <2> QED BY <2>1
  <1>5. ASSUME NEW r \in Runs PROVE Removed(r)'
    <2>1. CASE r < q
      BY <2>1 DEF Removed
    <2>2. CASE r = q
      BY <2>2 DEF Removed
    <2>3. CASE r > q
      BY <1>2, <2>3, Alone DEF Removed, Runs
    <2> QED BY <2>1, <2>2, <2>3 DEF Runs
  <1>6. ASSUME NEW r \in Runs PROVE Fresh(r)'
    <2>1. CASE r < q
      BY <1>2, <2>1, Alone DEF Fresh, Runs
    <2>2. CASE r = q
      BY <2>2 DEF Fresh
    <2>3. CASE r > q
      BY <1>1, <1>2, <2>3, Alone DEF Fresh, Runs, Objects, SerialInv
    <2> QED BY <2>1, <2>2, <2>3 DEF Runs
  <1>7. ASSUME NEW r \in Runs, InStep(r)' PROVE Exchanged(r)'
    <2>a. \A x \in Runs : x # q => at'[Parent(x)] = at[Parent(x)]
      BY <1>2
    <2>b. r <= q => InStep(r)
      BY <1>7, <2>a, InStepBefore
    <2>1. CASE r = q
      <3>1. InStep(q)
        BY <2>1, <2>b DEF Runs
      <3> QED BY <2>1, <3>1
    <2>2. CASE r > q
      <3>a. at[Parent(r)] = "off" /\ Control(r)
        BY <1>1, <2>2, Alone DEF Runs
      <3>1. at[Parent(r)] = "off" /\ at[Child(r)] = "off"
        BY <3>a DEF Control
      <3>2. at'[Parent(r)] = "off" /\ at'[Child(r)] = "off"
        BY <1>2, <2>2, <3>1 DEF Runs
      <3> QED BY <3>2 DEF Exchanged
    <2>3. CASE r < q
      <3>1. at[Parent(r)] \in Ended /\ r # q
        BY <2>3, Alone DEF Runs
      <3>2. InStep(r)
        BY <2>3, <2>b DEF Runs
      <3>3. Exchanged(r) /\ Control(r)
        BY <1>1, <3>2
      <3>4. at[Child(r)] \in Over
        BY <3>1, <3>3 DEF Control
      <3>5. /\ at'[Parent(r)] \in Ended /\ at'[Child(r)] \in Over
            /\ at'[Child(r)] = "done" => got'[Child(r)] = Hello(r)
            /\ at'[Child(r)] = "done" /\ at'[Parent(r)] = "done" =>
                 got'[Parent(r)] = Reply(r)
        BY <1>2, <3>1, <3>3, <3>4 DEF Exchanged
      <3> QED BY <3>5 DEF Exchanged, Over, Hello, Reply
    <2> QED BY <2>1, <2>2, <2>3 DEF Runs
  <1> QED BY <1>3, <1>4, <1>5, <1>6, <1>7 DEF SerialInv

LEMMA OneGoes ==
  ASSUME Objects, NEW r \in Runs, NEW p \in {Parent(r), Child(r)},
         NEW statement \in Statements, Go(p, statement)
  PROVE  /\ p \in Procs /\ at' \in [Procs -> Statements]
         /\ at'[p] = statement
         /\ \A q \in Procs : q # p => at'[q] = at[q]
         /\ \A q \in Procs : q[1] # r => q # p
  <1>1. p \in Procs
    BY ProcsOfRuns
  <1>2. p[1] = r
    BY DEF Parent, Child
  <1>3. /\ at' \in [Procs -> Statements] /\ at'[p] = statement
        /\ \A q \in Procs : q # p => at'[q] = at[q]
    BY <1>1 DEF Objects, Go
  <1> QED BY <1>1, <1>2, <1>3

(* The invariant for one run, and the kinds of its processes. *)
LEMMA OfRun ==
  ASSUME SerialInv, NEW r \in Runs
  PROVE  /\ Objects /\ Control(r) /\ Reached(r) /\ Removed(r) /\ Fresh(r)
         /\ InStep(r) => Exchanged(r)
         /\ Parent(r) \in Procs /\ Child(r) \in Procs /\ Parent(r) # Child(r)
         /\ id[Parent(r)] \in 0 .. made /\ id[Child(r)] \in 0 .. made
         /\ made \in 0 .. MaxRuns /\ made \in Nat /\ MaxRuns \in Nat
         /\ Hello(r) \in Messages /\ Reply(r) \in Messages
  <1>1. Parent(r) \in Procs /\ Child(r) \in Procs /\ Parent(r) # Child(r)
    BY ProcsOfRuns
  <1>2. Hello(r) \in Messages /\ Reply(r) \in Messages
    BY DEF Hello, Reply, Messages
  <1>3. MaxRuns \in Nat
    BY ExchangesAssumption DEF ExchangesAssumption
  <1> QED BY <1>1, <1>2, <1>3 DEF SerialInv, Objects

LEMMA NamedFork ==
  ASSUME program \in Named
  PROVE  AfterFork = "wait" /\ InChild = "exec" /\ program # "fifo"
  BY DEF AfterFork, InChild, Named

(* The statements of the parent. *)
LEMMA OpenKeeps ==
  ASSUME SerialInv, program \in Named, NEW r \in Runs, Open(r)
  PROVE  SerialInv'
  <1> USE OfRun
  <1>1. /\ at[Parent(r)] = "open" /\ Go(Parent(r), "send")
        /\ made' = IF name = NoId THEN made + 1 ELSE made
        /\ name' = IF name = NoId THEN made' ELSE name
        /\ id' = [id EXCEPT ![Parent(r)] = name']
        /\ UNCHANGED <<content, got, program>>
    BY DEF Open, FindOrMake
  <1>2. On(r) /\ at[Child(r)] = "off"
    BY <1>1 DEF On, Ended, Control
  <1>3. /\ at' \in [Procs -> Statements] /\ at'[Parent(r)] = "send"
        /\ \A q \in Procs : q # Parent(r) => at'[q] = at[q]
        /\ \A q \in Procs : q[1] # r => q # Parent(r)
    BY <1>1, OneGoes DEF Statements
  <1>4. made < r /\ r \in Nat /\ r <= MaxRuns
    BY <1>1 DEF Fresh, Runs
  <1>5. /\ made' \in 0 .. MaxRuns /\ made <= made'
        /\ made' <= r \/ made' = made
        /\ name' \in 1 .. made'
    BY <1>1, <1>4 DEF Objects, NoId
  <1>6. id' \in [Procs -> 0 .. made']
    BY <1>1, <1>5 DEF Objects
  <1>a. ASSUME NEW i \in Ids, i > made' PROVE content'[i] = <<>>
    BY <1>a, <1>1, <1>5 DEF Objects, Ids
  <1>7. Objects'
    BY <1>1, <1>3, <1>5, <1>6, <1>a DEF Objects
  <1>8. Reached(r)'
    BY <1>1, <1>2, <1>3, <1>5, <1>6 DEF Reached, Objects
  <1>9. InStep(r) => Exchanged(r)'
    <2> SUFFICES ASSUME InStep(r) PROVE Exchanged(r)'
      OBVIOUS
    <2>1. name = NoId
      <3>1. \A q \in Runs : q > r => at[Parent(q)] = "off"
        BY <1>2, Alone DEF Runs
      <3>2. CASE r = 1
        BY <1>1, <3>1, <3>2 DEF Removed
      <3>3. CASE r > 1
        <4>1. r - 1 \in Runs /\ at[Parent(r - 1)] = "done"
          BY <3>3 DEF InStep, Runs
        <4>2. \A q \in Runs : q > r - 1 => at[Parent(q)] \in {"off", "open"}
          BY <1>1, <3>1 DEF Runs
        <4>3. Removed(r - 1)
          BY <4>1, OfRun
        <4> QED BY <4>1, <4>2, <4>3 DEF Removed
      <3> QED BY <3>2, <3>3 DEF Runs
    <2>2. made + 1 \in Ids /\ made + 1 > made
      BY <1>4 DEF Ids
    <2>3. content'[id'[Parent(r)]] = <<>>
      BY <1>1, <2>1, <2>2 DEF Objects
    <2>4. at'[Child(r)] = "off"
      BY <1>2, <1>3
    <2> QED BY <1>3, <2>3, <2>4 DEF Exchanged
  <1>10. \A p \in Procs : p[1] # r => /\ at'[p] = at[p] /\ id'[p] = id[p]
                                      /\ got'[p] = got[p]
    BY <1>1, <1>3 DEF Objects
  <1>11. at'[Child(r)] = "off"
    BY <1>2, <1>3
  <1> QED
    BY <1>1, <1>2, <1>3, <1>5, <1>7, <1>8, <1>9, <1>10, <1>11, StepOfOne
       DEF AfterOpen, Over

LEMMA SendKeeps ==
  ASSUME SerialInv, program \in Named, NEW r \in Runs, Send(r)
  PROVE  SerialInv'
  <1> USE OfRun
  <1>1. /\ at[Parent(r)] = "send" /\ Go(Parent(r), "fork")
        /\ Put(Parent(r), Hello(r))
        /\ UNCHANGED <<name, made, id, got, program>>
    BY DEF Send
  <1>2. /\ On(r) /\ at[Child(r)] = "off"
        /\ name = id[Parent(r)] /\ id[Parent(r)] \in 1 .. made
    BY <1>1 DEF On, Ended, Control, Reached, AfterOpen
  <1>3. /\ at' \in [Procs -> Statements] /\ at'[Parent(r)] = "fork"
        /\ \A q \in Procs : q # Parent(r) => at'[q] = at[q]
        /\ \A q \in Procs : q[1] # r => q # Parent(r)
    BY <1>1, OneGoes DEF Statements
  <1>4. Usable(Parent(r))
    BY <1>2 DEF Usable, NoId
  <1>5. /\ content' \in [Ids -> Seq(Messages)]
        /\ \A i \in Ids : i > made => content'[i] = <<>>
        /\ content'[id[Parent(r)]] =
             IF program \in {"mq", "msg"}
             THEN Append(content[id[Parent(r)]], Hello(r)) ELSE <<Hello(r)>>
    BY <1>1, <1>4, PutTypes
  <1>6. Objects'
    BY <1>1, <1>3, <1>5 DEF Objects
  <1>7. Reached(r)'
    BY <1>1, <1>2, <1>3 DEF Reached
  <1>8. at'[Child(r)] = "off"
    BY <1>2, <1>3
  <1>9. InStep(r) => Exchanged(r)'
    <2> SUFFICES ASSUME InStep(r) PROVE Exchanged(r)'
      OBVIOUS
    <2>1. content[id[Parent(r)]] = <<>>
      BY <1>1 DEF Exchanged
    <2>2. content'[id'[Parent(r)]] = <<Hello(r)>>
      BY <1>1, <1>5, <2>1
    <2> QED BY <1>3, <1>8, <2>2 DEF Exchanged, Hello
  <1> QED
    BY <1>1, <1>2, <1>3, <1>6, <1>7, <1>8, <1>9, StepOfOne DEF AfterOpen, Over

LEMMA ForkKeeps ==
  ASSUME SerialInv, program \in Named, NEW r \in Runs, Fork(r)
  PROVE  SerialInv'
  <1> USE OfRun
  <1>1. /\ at[Parent(r)] = "fork"
        /\ at' = [at EXCEPT ![Parent(r)] = "wait", ![Child(r)] = "exec"]
        /\ id' = [id EXCEPT ![Child(r)] = id[Parent(r)]]
        /\ UNCHANGED <<name, made, content, got, program>>
    BY NamedFork DEF Fork
  <1>2. /\ On(r) /\ name = id[Parent(r)] /\ id[Parent(r)] \in 1 .. made
    BY <1>1 DEF On, Ended, Reached, AfterOpen
  <1>3. /\ at' \in [Procs -> Statements]
        /\ at'[Parent(r)] = "wait" /\ at'[Child(r)] = "exec"
        /\ id'[Parent(r)] = id[Parent(r)] /\ id' \in [Procs -> 0 .. made]
    BY <1>1 DEF Objects, Statements
  <1>4. \A q \in Procs : q[1] # r => at'[q] = at[q] /\ id'[q] = id[q]
    BY <1>1 DEF Parent, Child, Objects
  <1>5. Objects'
    BY <1>1, <1>3 DEF Objects
  <1>6. Reached(r)'
    BY <1>1, <1>2, <1>3 DEF Reached
  <1>7. InStep(r) => Exchanged(r)'
    BY <1>1, <1>3 DEF Exchanged, Hello
  <1> QED
    BY <1>1, <1>2, <1>3, <1>4, <1>5, <1>6, <1>7, StepOfOne
       DEF AfterOpen, Over, Clientele

LEMMA ForkFailsKeeps ==
  ASSUME SerialInv, program \in Named, NEW r \in Runs, ForkFails(r)
  PROVE  SerialInv'
  <1> USE OfRun
  <1>1. /\ at[Parent(r)] = "fork" /\ Go(Parent(r), "wait")
        /\ UNCHANGED <<name, made, content, id, got, program>>
    BY NamedFork DEF ForkFails, objVars
  <1>2. /\ On(r) /\ at[Child(r)] = "off"
        /\ name = id[Parent(r)] /\ id[Parent(r)] \in 1 .. made
    BY <1>1 DEF On, Ended, Control, Reached, AfterOpen
  <1>3. /\ at' \in [Procs -> Statements] /\ at'[Parent(r)] = "wait"
        /\ \A q \in Procs : q # Parent(r) => at'[q] = at[q]
        /\ \A q \in Procs : q[1] # r => q # Parent(r)
    BY <1>1, OneGoes DEF Statements
  <1>4. at'[Child(r)] = "off"
    BY <1>2, <1>3
  <1>5. Objects' /\ Reached(r)'
    BY <1>1, <1>2, <1>3 DEF Objects, Reached
  <1>6. Exchanged(r)'
    BY <1>3, <1>4 DEF Exchanged
  <1> QED
    BY <1>1, <1>2, <1>3, <1>4, <1>5, <1>6, StepOfOne DEF AfterOpen, Over

LEMMA WaitKeeps ==
  ASSUME SerialInv, program \in Named, NEW r \in Runs, Wait(r)
  PROVE  SerialInv'
  <1> USE OfRun
  <1>1. /\ at[Parent(r)] = "wait" /\ at[Child(r)] \in Over
        /\ Go(Parent(r), "receive")
        /\ UNCHANGED <<name, made, content, id, got, program>>
    BY DEF Wait, objVars, Named
  <1>2. On(r)
    BY <1>1 DEF On, Ended
  <1>3. /\ at' \in [Procs -> Statements] /\ at'[Parent(r)] = "receive"
        /\ \A q \in Procs : q # Parent(r) => at'[q] = at[q]
        /\ \A q \in Procs : q[1] # r => q # Parent(r)
    BY <1>1, OneGoes DEF Statements
  <1>4. at'[Child(r)] = at[Child(r)]
    BY <1>3
  <1>5. Objects' /\ Reached(r)'
    BY <1>1, <1>3, <1>4 DEF Objects, Reached, AfterOpen
  <1>6. InStep(r) => Exchanged(r)'
    BY <1>1, <1>3, <1>4 DEF Exchanged, Over, Hello, Reply
  <1> QED
    BY <1>1, <1>2, <1>3, <1>4, <1>5, <1>6, StepOfOne DEF AfterOpen, Over

LEMMA ReceiveKeeps ==
  ASSUME SerialInv, program \in Named, NEW r \in Runs, Receive(Parent(r))
  PROVE  SerialInv'
  <1> USE OfRun
  <1>1. /\ at[Parent(r)] = "receive" /\ Go(Parent(r), "unlink")
        /\ Take(Parent(r), FALSE)
        /\ UNCHANGED <<name, made, id, program>>
    BY DEF Receive
  <1>2. /\ On(r) /\ at[Child(r)] \in Over
        /\ name \in {NoId, id[Parent(r)]} /\ id[Parent(r)] \in 1 .. made
    BY <1>1 DEF On, Ended, Control, Reached, AfterOpen
  <1>3. /\ at' \in [Procs -> Statements] /\ at'[Parent(r)] = "unlink"
        /\ \A q \in Procs : q # Parent(r) => at'[q] = at[q]
        /\ \A q \in Procs : q[1] # r => q # Parent(r)
    BY <1>1, OneGoes DEF Statements
  <1>4. /\ content' \in [Ids -> Seq(Messages)]
        /\ \A i \in Ids : i > made => content'[i] = <<>>
        /\ got' \in [Procs -> Messages \cup {Nothing}]
        /\ \A q \in Procs : q # Parent(r) => got'[q] = got[q]
    BY <1>1, TakeTypes
  <1>5. Objects' /\ at'[Child(r)] = at[Child(r)]
    BY <1>1, <1>3, <1>4 DEF Objects
  <1>6. Reached(r)'
    BY <1>1, <1>2, <1>3 DEF Reached
  <1>7. InStep(r) => Exchanged(r)'
    <2> SUFFICES ASSUME InStep(r) PROVE Exchanged(r)'
      OBVIOUS
    <2>1. ASSUME at[Child(r)] = "done"
          PROVE  got'[Child(r)] = Hello(r) /\ got'[Parent(r)] = Reply(r)
      <3>1. /\ got[Child(r)] = Hello(r)
            /\ content[id[Parent(r)]] = <<Reply(r)>>
        BY <1>1, <2>1 DEF Exchanged
      <3>2. name = id[Parent(r)]
        BY <1>1, <2>1 DEF Reached, Clientele
      <3>3. Usable(Parent(r)) /\ Reply(r).from = "child"
        BY <1>2, <3>2 DEF Usable, NoId, Reply
      <3>4. got'[Parent(r)] = Reply(r)
        BY <1>1, <3>1, <3>3, TakeOnly
      <3> QED BY <1>4, <3>1, <3>4
    <2> QED BY <1>2, <1>3, <1>5, <2>1 DEF Exchanged, Over, Hello, Reply
  <1> QED
    BY <1>1, <1>2, <1>3, <1>4, <1>5, <1>6, <1>7, StepOfOne DEF AfterOpen

LEMMA UnlinkKeeps ==
  ASSUME SerialInv, program \in Named, NEW r \in Runs, Unlink(Parent(r))
  PROVE  SerialInv'
  <1> USE OfRun
  <1>1. /\ at[Parent(r)] = "unlink" /\ Go(Parent(r), "done")
        /\ name' = IF program \in {"mq", "shm"} \/ id[Parent(r)] = name
                   THEN NoId ELSE name
        /\ UNCHANGED <<made, content, id, got, program>>
    <2>1. program # "fifo"
      BY DEF Named
    <2> QED BY <2>1 DEF Unlink, End, Parent
  <1>2. /\ On(r) /\ at[Child(r)] \in Over
        /\ name \in {NoId, id[Parent(r)]}
    BY <1>1 DEF On, Ended, Control, Reached, AfterOpen
  <1>3. /\ at' \in [Procs -> Statements] /\ at'[Parent(r)] = "done"
        /\ \A q \in Procs : q # Parent(r) => at'[q] = at[q]
        /\ \A q \in Procs : q[1] # r => q # Parent(r)
    BY <1>1, OneGoes DEF Statements
  <1>4. name' = NoId
    BY <1>1, <1>2
  <1>5. Objects' /\ at'[Child(r)] = at[Child(r)]
    BY <1>1, <1>3, <1>4 DEF Objects, NoId
  <1>6. Reached(r)'
    BY <1>3 DEF Reached, AfterOpen
  <1>7. InStep(r) => Exchanged(r)'
    BY <1>1, <1>2, <1>3, <1>5 DEF Exchanged, Over, Hello, Reply
  <1> QED
    BY <1>1, <1>2, <1>3, <1>4, <1>5, <1>6, <1>7, StepOfOne DEF Ended

(* The statements of the child. *)
LEMMA ExecKeeps ==
  ASSUME SerialInv, program \in Named, NEW r \in Runs,
         Exec(r) \/ ExecFails(r)
  PROVE  SerialInv'
  <1> USE OfRun
  <1>1. /\ at[Child(r)] = "exec"
        /\ UNCHANGED <<name, made, content, id, got, program>>
    BY DEF Exec, ExecFails, objVars
  <1>2. /\ On(r) /\ at[Parent(r)] = "wait"
        /\ name = id[Parent(r)] /\ id[Parent(r)] \in 1 .. made
    BY <1>1 DEF On, Over, Ended, Control, Reached, AfterOpen, Clientele
  <1>3. PICK statement \in {"client_open", "receive"} : Go(Child(r), statement)
    BY NamedFork DEF Exec, ExecFails
  <1>4. /\ at' \in [Procs -> Statements] /\ at'[Child(r)] = statement
        /\ \A q \in Procs : q # Child(r) => at'[q] = at[q]
        /\ \A q \in Procs : q[1] # r => q # Child(r)
    BY <1>3, OneGoes DEF Statements
  <1>5. at'[Parent(r)] = "wait"
    BY <1>2, <1>4
  <1>6. Objects' /\ Reached(r)'
    BY <1>1, <1>2, <1>4, <1>5 DEF Objects, Reached
  <1>7. InStep(r) => Exchanged(r)'
    BY <1>1, <1>4, <1>5 DEF Exchanged, Hello
  <1> QED
    BY <1>1, <1>2, <1>4, <1>5, <1>6, <1>7, StepOfOne
       DEF AfterOpen, Over, Clientele

LEMMA ClientOpenKeeps ==
  ASSUME SerialInv, program \in Named, NEW r \in Runs, ClientOpen(r)
  PROVE  SerialInv'
  <1> USE OfRun
  <1>1. /\ at[Child(r)] = "client_open" /\ Go(Child(r), "client_receive")
        /\ UNCHANGED <<content, got, program>>
    BY DEF ClientOpen, FindOrMake
  <1>2. /\ On(r) /\ at[Parent(r)] = "wait"
        /\ name = id[Parent(r)] /\ id[Parent(r)] \in 1 .. made
    BY <1>1 DEF On, Over, Ended, Control, Reached, AfterOpen, Clientele
  <1>3. UNCHANGED <<name, made>> /\ id' = [id EXCEPT ![Child(r)] = name]
    BY <1>2 DEF ClientOpen, FindOrMake, NoId
  <1>4. /\ at' \in [Procs -> Statements] /\ at'[Child(r)] = "client_receive"
        /\ \A q \in Procs : q # Child(r) => at'[q] = at[q]
        /\ \A q \in Procs : q[1] # r => q # Child(r)
    BY <1>1, OneGoes DEF Statements
  <1>5. /\ at'[Parent(r)] = "wait" /\ id' \in [Procs -> 0 .. made]
        /\ id'[Parent(r)] = id[Parent(r)] /\ id'[Child(r)] = id[Parent(r)]
        /\ \A q \in Procs : q # Child(r) => id'[q] = id[q]
    BY <1>2, <1>3, <1>4 DEF Objects
  <1>6. Objects' /\ Reached(r)'
    BY <1>1, <1>2, <1>3, <1>4, <1>5 DEF Objects, Reached
  <1>7. InStep(r) => Exchanged(r)'
    BY <1>1, <1>4, <1>5 DEF Exchanged, Hello
  <1> QED
    BY <1>1, <1>2, <1>3, <1>4, <1>5, <1>6, <1>7, StepOfOne
       DEF AfterOpen, Over, Clientele

LEMMA ClientReceiveKeeps ==
  ASSUME SerialInv, program \in Named, NEW r \in Runs, ClientReceive(r)
  PROVE  SerialInv'
  <1> USE OfRun
  <1>1. /\ at[Child(r)] = "client_receive" /\ Go(Child(r), "client_send")
        /\ Take(Child(r), TRUE)
        /\ UNCHANGED <<name, made, id, program>>
    BY DEF ClientReceive
  <1>2. /\ On(r) /\ at[Parent(r)] = "wait"
        /\ name = id[Parent(r)] /\ id[Parent(r)] \in 1 .. made
    BY <1>1 DEF On, Over, Ended, Control, Reached, AfterOpen, Clientele
  <1>3. /\ at' \in [Procs -> Statements] /\ at'[Child(r)] = "client_send"
        /\ \A q \in Procs : q # Child(r) => at'[q] = at[q]
        /\ \A q \in Procs : q[1] # r => q # Child(r)
    BY <1>1, OneGoes DEF Statements
  <1>4. /\ content' \in [Ids -> Seq(Messages)]
        /\ \A i \in Ids : i > made => content'[i] = <<>>
        /\ got' \in [Procs -> Messages \cup {Nothing}]
        /\ \A q \in Procs : q # Child(r) => got'[q] = got[q]
    BY <1>1, TakeTypes
  <1>5. at'[Parent(r)] = "wait"
    BY <1>2, <1>3
  <1>6. Objects' /\ Reached(r)'
    BY <1>1, <1>2, <1>3, <1>4, <1>5 DEF Objects, Reached
  <1>7. InStep(r) => Exchanged(r)'
    <2> SUFFICES ASSUME InStep(r) PROVE Exchanged(r)'
      OBVIOUS
    <2>1. /\ id[Child(r)] = id[Parent(r)]
          /\ content[id[Child(r)]] = <<Hello(r)>>
      BY <1>1 DEF Exchanged
    <2>2. Usable(Child(r))
      BY <1>2, <2>1 DEF Usable, NoId
    <2>3. /\ got'[Child(r)] = Hello(r)
          /\ content'[id[Child(r)]] =
               IF program \in {"mq", "msg"} THEN <<>> ELSE <<Hello(r)>>
      BY <1>1, <2>1, <2>2, TakeOnly
    <2> QED BY <1>1, <1>3, <1>5, <2>1, <2>3 DEF Exchanged, Hello
  <1> QED
    BY <1>1, <1>2, <1>3, <1>4, <1>5, <1>6, <1>7, StepOfOne
       DEF AfterOpen, Over, Clientele

LEMMA ClientSendKeeps ==
  ASSUME SerialInv, program \in Named, NEW r \in Runs, ClientSend(r)
  PROVE  SerialInv'
  <1> USE OfRun
  <1>1. /\ at[Child(r)] = "client_send" /\ Go(Child(r), "done")
        /\ Put(Child(r), Reply(r))
        /\ UNCHANGED <<name, made, id, got, program>>
    BY DEF ClientSend
  <1>2. /\ On(r) /\ at[Parent(r)] = "wait"
        /\ name = id[Parent(r)] /\ id[Parent(r)] \in 1 .. made
    BY <1>1 DEF On, Over, Ended, Control, Reached, AfterOpen, Clientele
  <1>3. /\ at' \in [Procs -> Statements] /\ at'[Child(r)] = "done"
        /\ \A q \in Procs : q # Child(r) => at'[q] = at[q]
        /\ \A q \in Procs : q[1] # r => q # Child(r)
    BY <1>1, OneGoes DEF Statements
  <1>4. /\ content' \in [Ids -> Seq(Messages)]
        /\ \A i \in Ids : i > made => content'[i] = <<>>
        /\ Usable(Child(r)) =>
             content'[id[Child(r)]] =
               IF program \in {"mq", "msg"}
               THEN Append(content[id[Child(r)]], Reply(r)) ELSE <<Reply(r)>>
    BY <1>1, PutTypes
  <1>5. at'[Parent(r)] = "wait"
    BY <1>2, <1>3
  <1>6. Objects' /\ Reached(r)'
    BY <1>1, <1>2, <1>3, <1>4, <1>5 DEF Objects, Reached
  <1>7. InStep(r) => Exchanged(r)'
    <2> SUFFICES ASSUME InStep(r) PROVE Exchanged(r)'
      OBVIOUS
    <2>1. /\ id[Child(r)] = id[Parent(r)] /\ got[Child(r)] = Hello(r)
          /\ content[id[Child(r)]] =
               IF program \in {"mq", "msg"} THEN <<>> ELSE <<Hello(r)>>
      BY <1>1 DEF Exchanged
    <2>2. Usable(Child(r))
      BY <1>2, <2>1 DEF Usable, NoId
    <2>3. content'[id[Child(r)]] = <<Reply(r)>>
      <3>1. CASE program \in {"mq", "msg"}
        BY <1>4, <2>1, <2>2, <3>1
      <3>2. CASE program \notin {"mq", "msg"}
        BY <1>4, <2>2, <3>2
      <3> QED BY <3>1, <3>2
    <2> QED BY <1>1, <1>3, <1>5, <2>1, <2>3 DEF Exchanged, Hello, Reply
  <1> QED
    BY <1>1, <1>2, <1>3, <1>4, <1>5, <1>6, <1>7, StepOfOne
       DEF AfterOpen, Over, Clientele

(* A child whose exec has failed, in the code of its parent. *)
LEMMA FallenKeeps ==
  ASSUME SerialInv, program \in Named, NEW r \in Runs,
         Receive(Child(r)) \/ Unlink(Child(r))
  PROVE  SerialInv'
  <1> USE OfRun
  <1>0. program # "fifo"
    BY DEF Named
  <1>1. /\ at[Child(r)] \in {"receive", "unlink"}
        /\ name' \in {name, NoId} /\ UNCHANGED <<made, id, program>>
    BY <1>0 DEF Receive, Unlink
  <1>2. /\ On(r) /\ at[Parent(r)] = "wait"
        /\ name \in {NoId, id[Parent(r)]} /\ id[Parent(r)] \in 1 .. made
    BY <1>1 DEF On, Over, Ended, Control, Reached, AfterOpen
  <1>3. PICK statement \in {"unlink", "fallen"} : Go(Child(r), statement)
    BY <1>0 DEF Receive, Unlink, End, Child
  <1>4. /\ at' \in [Procs -> Statements] /\ at'[Child(r)] = statement
        /\ \A q \in Procs : q # Child(r) => at'[q] = at[q]
        /\ \A q \in Procs : q[1] # r => q # Child(r)
    BY <1>3, OneGoes DEF Statements
  <1>5. /\ content' \in [Ids -> Seq(Messages)]
        /\ \A i \in Ids : i > made => content'[i] = <<>>
        /\ got' \in [Procs -> Messages \cup {Nothing}]
        /\ \A q \in Procs : q # Child(r) => got'[q] = got[q]
    <2>1. CASE Receive(Child(r))
      BY <2>1, TakeTypes DEF Receive
    <2>2. CASE Unlink(Child(r))
      BY <2>2 DEF Unlink, Objects
    <2> QED BY <2>1, <2>2
  <1>6. at'[Parent(r)] = "wait"
    BY <1>2, <1>4
  <1>7. Objects'
    BY <1>1, <1>4, <1>5 DEF Objects, NoId
  <1>8. Reached(r)' /\ Exchanged(r)'
    BY <1>1, <1>2, <1>4, <1>6 DEF Reached, Exchanged, Clientele
  <1> QED
    BY <1>1, <1>2, <1>4, <1>5, <1>6, <1>7, <1>8, StepOfOne
       DEF AfterOpen, Over, Clientele

(* The beginning and the untimely end of a run. *)
LEMMA InterruptKeeps ==
  ASSUME SerialInv, program \in Named, NEW r \in Runs, Interrupt(r)
  PROVE  SerialInv'
  <1> USE OfRun
  <1>1. /\ at' = [p \in Procs |-> IF p[1] = r /\ at[p] \notin Over
                                  THEN "killed" ELSE at[p]]
        /\ UNCHANGED <<name, made, content, id, got, program>>
    BY DEF Interrupt, objVars
  <1>2. On(r)
    BY DEF Interrupt, Active, On, Over, Ended, Control
  <1>3. at[Parent(r)] \notin Over
    BY <1>2 DEF On, Over, Ended, Control, AfterOpen
  <1>4. /\ at'[Parent(r)] = "killed"
        /\ at'[Child(r)] \in Over
        /\ at'[Child(r)] = "done" => at[Child(r)] = "done"
    BY <1>1, <1>3 DEF Parent, Child, Over
  <1>5. at' \in [Procs -> Statements]
    BY <1>1 DEF Objects, Statements
  <1>6. Objects' /\ Reached(r)'
    BY <1>1, <1>4, <1>5 DEF Objects, Reached, AfterOpen
  <1>7. InStep(r) => Exchanged(r)'
    BY <1>1, <1>4 DEF Exchanged, Over, Hello
  <1>8. \A p \in Procs : p[1] # r => at'[p] = at[p]
    BY <1>1
  <1> QED
    BY <1>1, <1>2, <1>4, <1>6, <1>7, <1>8, StepOfOne DEF Ended

LEMMA StartKeeps ==
  ASSUME SerialInv, serial, program \in Named, NEW r \in Runs, Start(r)
  PROVE  SerialInv'
  <1> USE OfRun
  <1>1. /\ at[Parent(r)] = "off" /\ Go(Parent(r), "open")
        /\ UNCHANGED <<name, made, content, id, got, program>>
    BY DEF Start, objVars
  <1>2. ASSUME NEW x \in Runs
        PROVE  /\ x < r => at[Parent(x)] \in Ended
               /\ x > r => at[Parent(x)] = "off"
    <2>1. x > r => at[Parent(x)] = "off"
      <3>1. Control(x)
        OBVIOUS
      <3> QED BY <1>1, <3>1 DEF Control, Ended
    <2>2. ASSUME x < r PROVE at[Parent(x)] \in Ended
      <3>1. r > 1 /\ r - 1 \in Runs /\ x <= r - 1
        BY <2>2 DEF Runs
      <3>2. /\ at[Parent(r - 1)] # "off"
            /\ Cardinality(Active) < 1
        BY <3>1 DEF Start
      <3>3. Active = {}
        <4>1. IsFiniteSet(Runs) /\ Active \subseteq Runs
          <5>1. 1 \in Int /\ MaxRuns \in Int
            OBVIOUS
          <5>2. IsFiniteSet(1 .. MaxRuns)
            BY <5>1, FS_Interval
          <5> QED BY <5>2 DEF Runs, Active
        <4>2. IsFiniteSet(Active)
          BY <4>1, FS_Subset
        <4>3. Cardinality(Active) \in Nat
          BY <4>2, FS_CardinalityType
        <4> QED BY <3>2, <4>2, <4>3, FS_EmptySet
      <3>4. Control(r - 1) /\ at[Parent(r - 1)] \in Over
        BY <3>1, <3>3 DEF Active
      <3>5. at[Parent(r - 1)] \in Ended
        BY <3>2, <3>4 DEF Control, Over, AfterOpen, Ended
      <3>6. CASE x = r - 1
        BY <3>5, <3>6
      <3>7. CASE x < r - 1
        BY <3>1, <3>4, <3>5, <3>7 DEF Control, Ended
      <3> QED BY <3>1, <3>6, <3>7 DEF Runs
    <2> QED BY <2>1, <2>2
  <1>3. /\ at' \in [Procs -> Statements] /\ at'[Parent(r)] = "open"
        /\ \A q \in Procs : q # Parent(r) => at'[q] = at[q]
        /\ \A q \in Procs : q[1] # r => q # Parent(r)
    BY <1>1, OneGoes DEF Statements
  <1>4. ASSUME NEW x \in Runs
        PROVE  /\ at'[Child(x)] = at[Child(x)]
               /\ x # r => at'[Parent(x)] = at[Parent(x)]
    BY <1>3 DEF Parent, Child
  <1>5. Objects'
    BY <1>1, <1>3 DEF Objects
  <1>6. at[Child(r)] = "off"
    BY <1>1 DEF Control
  <1>7. ASSUME NEW x \in Runs
        PROVE  /\ Control(x)' /\ Reached(x)' /\ Removed(x)' /\ Fresh(x)'
               /\ InStep(x)' => Exchanged(x)'
    <2>a. /\ Control(x) /\ Reached(x) /\ Removed(x) /\ Fresh(x)
          /\ InStep(x) => Exchanged(x)
      OBVIOUS
    <2>1. ASSUME NEW q \in Runs, q < x, at'[Parent(x)] # "off"
          PROVE  at'[Parent(q)] \in Ended
      <3>1. x <= r
        BY <1>2, <1>4, <2>1 DEF Runs
      <3>2. q < r /\ q # r
        BY <2>1, <3>1 DEF Runs
      <3>3. at[Parent(q)] \in Ended
        BY <1>2, <3>2
      <3> QED BY <1>4, <3>2, <3>3
    <2>2. Control(x)'
      <3>1. CASE x = r
        BY <1>3, <1>4, <1>6, <2>1, <3>1 DEF Control, Over
      <3>2. CASE x # r
        BY <1>4, <2>1, <2>a, <3>2 DEF Control
      <3> QED BY <3>1, <3>2
    <2>3. Reached(x)'
      <3>1. CASE x = r
        BY <1>3, <3>1 DEF Reached, AfterOpen
      <3>2. CASE x # r
        BY <1>1, <1>4, <2>a, <3>2 DEF Reached
      <3> QED BY <3>1, <3>2
    <2>4. Removed(x)'
      <3>1. ASSUME NEW q \in Runs, at'[Parent(q)] \in {"off", "open"}
            PROVE  at[Parent(q)] \in {"off", "open"}
        BY <1>1, <1>4, <3>1
      <3>2. at'[Parent(x)] = "done" => at[Parent(x)] = "done"
        BY <1>3, <1>4
      <3> QED BY <1>1, <2>a, <3>1, <3>2 DEF Removed
    <2>5. Fresh(x)'
      BY <1>1, <1>4, <2>a DEF Fresh
    <2>6. ASSUME InStep(x)' PROVE Exchanged(x)'
      <3>1. CASE x = r
        <4>1. at'[Parent(x)] = "open" /\ at'[Child(x)] = "off"
          BY <1>3, <1>4, <1>6, <3>1
        <4> QED BY <4>1 DEF Exchanged
      <3>2. CASE x # r
        <4>1. InStep(x)
          <5> SUFFICES ASSUME x > 1 PROVE at[Parent(x - 1)] = "done"
            BY DEF InStep
          <5>1. x - 1 \in Runs
            BY DEF Runs
          <5>2. at'[Parent(x - 1)] = "done"
            BY <2>6 DEF InStep, Parent
          <5> QED BY <1>3, <1>4, <5>1, <5>2
        <4> QED BY <1>1, <1>4, <2>a, <3>2, <4>1 DEF Exchanged, Hello, Reply
      <3> QED BY <3>1, <3>2
    <2> QED BY <2>2, <2>3, <2>4, <2>5, <2>6
  <1> QED BY <1>5, <1>7 DEF SerialInv

LEMMA Fixed == [Next]_vars => UNCHANGED <<program, serial>>
  <1> SUFFICES ASSUME [Next]_vars PROVE UNCHANGED <<program, serial>>
    OBVIOUS
  <1>1. ASSUME NEW r \in Runs,
               \/ Start(r) \/ Fork(r) \/ ForkFails(r) \/ Exec(r)
               \/ ExecFails(r) \/ Wait(r) \/ Interrupt(r)
        PROVE  UNCHANGED <<program, serial>>
    BY <1>1, Zenon DEF Start, Fork, ForkFails, Exec, ExecFails, Wait, Interrupt
  <1>2. ASSUME NEW r \in Runs,
               \/ Open(r) \/ Send(r) \/ ClientOpen(r) \/ ClientReceive(r)
               \/ ClientSend(r)
        PROVE  UNCHANGED <<program, serial>>
    BY <1>2, Zenon DEF Open, Send, ClientOpen, ClientReceive, ClientSend
  <1>3. ASSUME NEW q, Steps(q) PROVE UNCHANGED <<program, serial>>
    BY <1>3, Zenon DEF Steps, Receive, Unlink, Unlink2, CloseWrite, CloseRead,
                       Write, WriteFails, Read, Open1, Open2, OpenFails,
                       Opened
  <1>4. CASE UNCHANGED vars
    BY <1>4, Zenon DEF vars
  <1> QED
    BY <1>1, <1>2, <1>3, <1>4, Zenon DEF Next, ServerSteps, ClientSteps

LEMMA SerialNext == NamedInv /\ [Next]_vars => NamedInv'
  <1>0. ASSUME NamedInv, [Next]_vars, ~(serial /\ program \in Named)
        PROVE  NamedInv'
    BY <1>0, Fixed, Zenon DEF NamedInv
  <1> SUFFICES ASSUME SerialInv, serial, program \in Named, [Next]_vars
               PROVE  SerialInv'
    BY <1>0, Zenon DEF NamedInv
  <1>1. ASSUME NEW r \in Runs, NEW q \in {Parent(r), Child(r)}
        PROVE  at[q] \notin {"close_write", "close_read", "write", "read",
                             "open1", "opening1", "open2", "opening2",
                             "unlink2"}
    <2>1. Control(r)
      BY OfRun
    <2> QED BY <2>1 DEF Control, AfterOpen, Ended, Over, Clientele
  <1>2. ASSUME NEW r \in Runs, NEW q \in {Parent(r), Child(r)}, Steps(q)
        PROVE  Receive(q) \/ Unlink(q)
    <2>1. at[q] \notin {"close_write", "close_read", "write", "read",
                        "open1", "opening1", "open2", "opening2", "unlink2"}
      BY <1>1
    <2>2. ~CloseWrite(q) /\ ~CloseRead(q)
      BY <2>1 DEF CloseWrite, CloseRead
    <2>3. ~Write(q) /\ ~WriteFails(q) /\ ~Read(q)
      BY <2>1 DEF Write, WriteFails, Read
    <2>4. ~Open1(q) /\ ~Open2(q) /\ ~Unlink2(q)
      BY <2>1 DEF Open1, Open2, Unlink2
    <2>5. ASSUME NEW f \in 1 .. 2 PROVE ~Opened(q, f) /\ ~OpenFails(q, f)
      <3>1. Opening[f] \in {"opening1", "opening2"}
        BY DEF Opening
      <3>2. <<"open1", "open2">>[f] \in {"open1", "open2"}
        OBVIOUS
      <3> QED BY <2>1, <3>1, <3>2 DEF Opened, OpenFails
    <2> QED BY <1>2, <2>2, <2>3, <2>4, <2>5, Zenon DEF Steps
  <1>3. ASSUME NEW r \in Runs, ServerSteps(r) PROVE SerialInv'
    BY <1>2, <1>3, OpenKeeps, SendKeeps, ForkKeeps, ForkFailsKeeps, WaitKeeps,
       ReceiveKeeps, UnlinkKeeps DEF ServerSteps
  <1>4. ASSUME NEW r \in Runs, ClientSteps(r) PROVE SerialInv'
    BY <1>2, <1>4, ExecKeeps, ClientOpenKeeps, ClientReceiveKeeps,
       ClientSendKeeps, FallenKeeps DEF ClientSteps
  <1>5. CASE UNCHANGED vars
    <2>1. UNCHANGED <<at, name, made, content, id, got, program>>
      BY <1>5 DEF vars, objVars
    <2>2. Objects'
      BY <2>1 DEF SerialInv, Objects
    <2>3. ASSUME NEW r \in Runs
          PROVE  /\ Control(r)' /\ Reached(r)' /\ Removed(r)' /\ Fresh(r)'
                 /\ InStep(r)' => Exchanged(r)'
      <3>1. /\ Control(r) /\ Reached(r) /\ Removed(r) /\ Fresh(r)
            /\ InStep(r) => Exchanged(r)
        BY Zenon DEF SerialInv
      <3> HIDE DEF SerialInv
      <3>2. Control(r)' /\ Fresh(r)'
        BY <2>1, <3>1 DEF Control, Fresh
      <3>3. Reached(r)' /\ Removed(r)'
        BY <2>1, <3>1 DEF Reached, Removed
      <3>4. InStep(r)' => InStep(r)
        BY <2>1 DEF InStep
      <3>5. Exchanged(r) => Exchanged(r)'
        BY <2>1 DEF Exchanged
      <3> QED
        BY <3>1, <3>2, <3>3, <3>4, <3>5, Zenon
    <2> QED
      BY <2>2, <2>3, Zenon DEF SerialInv
  <1> QED
    BY <1>3, <1>4, <1>5, StartKeeps, InterruptKeeps DEF Next

-----------------------------------------------------------------------------
(* The pipe. *)

WriterOf(r) == IF program = "pipe_down" THEN Parent(r) ELSE Child(r)
ReaderOf(r) == IF program = "pipe_down" THEN Child(r) ELSE Parent(r)

PipeControl ==
  /\ \A r \in Runs : r > 1 => at[Parent(r)] = "off" /\ at[Child(r)] = "off"
  /\ at[Child(1)] # "off" => at[Parent(1)] \notin {"off", "fork"}
  /\ at[ReaderOf(1)] \in {"off", "fork", "close_write", "wait", "read", "done",
                          "killed"}
  /\ at[WriterOf(1)] \in {"off", "fork", "close_read", "write", "wait", "done",
                          "killed"}
  /\ at[Child(1)] \notin {"fork", "wait"}

(* The inductive invariant: the writer holds its end until it has written, and
   the reader that is done has seen the end of the file. *)
PipeInv ==
  program \in Pipes =>
    /\ PipeControl
    /\ bytes \in Nat /\ printed \in Nat
    /\ at[WriterOf(1)] \in {"off", "fork", "close_read", "write"} =>
         bytes = 0 /\ printed = 0
    /\ at[WriterOf(1)] \in {"close_read", "write"} => WriterOf(1) \in writers[1]
    /\ at[WriterOf(1)] \in {"wait", "done"} => bytes + printed = TextLen
    /\ at[ReaderOf(1)] = "done" =>
         /\ bytes = 0
         /\ at[WriterOf(1)] \in {"off", "wait", "done", "killed"}
         /\ at[Parent(1)] # "off"

LEMMA PipeEnds ==
  /\ 1 \in Runs /\ Parent(1) \in Procs /\ Child(1) \in Procs
  /\ Parent(1) # Child(1)
  /\ program = "pipe_down" =>
       WriterOf(1) = Parent(1) /\ ReaderOf(1) = Child(1)
  /\ program = "pipe_up" =>
       WriterOf(1) = Child(1) /\ ReaderOf(1) = Parent(1)
  <1>1. 1 \in Runs
    BY ExchangesAssumption DEF Runs, ExchangesAssumption
  <1> QED BY <1>1, ProcsOfRuns DEF WriterOf, ReaderOf

LEMMA PipeInit == Init => PipeInv
  <1> SUFFICES ASSUME Init, program \in Pipes PROVE PipeInv
    BY DEF PipeInv
  <1>1. \A q \in Procs : at[q] = "off"
    BY DEF Init
  <1>2. \A r \in Runs : at[Parent(r)] = "off" /\ at[Child(r)] = "off"
    BY <1>1, ProcsOfRuns
  <1>3. at[WriterOf(1)] = "off" /\ at[ReaderOf(1)] = "off"
    BY <1>2, PipeEnds DEF Pipes
  <1>4. PipeControl
    BY <1>2, <1>3, PipeEnds DEF PipeControl
  <1> QED BY <1>3, <1>4 DEF PipeInv, Init

(* In a pipe program only one run is on, and each process is at the statements
   of its own branch. *)
LEMMA AtThePipe ==
  ASSUME program \in Pipes, PipeControl, NEW q \in Procs, at[q] # "off"
  PROVE  q = WriterOf(1) \/ q = ReaderOf(1)
  <1>1. PICK r \in Runs : q = Parent(r) \/ q = Child(r)
    BY DEF Procs, Parent, Child
  <1>2. r = 1
    BY <1>1 DEF PipeControl, Runs
  <1> QED BY <1>1, <1>2, PipeEnds DEF Pipes

LEMMA PipeSteps ==
  ASSUME program \in Pipes, Kinds, PipeInv, NEW q \in Procs, Steps(q)
  PROVE  PipeInv'
  <1> DEFINE W == WriterOf(1)
             R == ReaderOf(1)
  <1>0. /\ W \in Procs /\ R \in Procs /\ W # R
        /\ {W, R} = {Parent(1), Child(1)}
    BY PipeEnds DEF Pipes
  <1>1. /\ PipeControl
        /\ bytes \in Nat /\ printed \in Nat
        /\ TextLen \in Nat \ {0}
    BY ExchangesAssumption DEF PipeInv, ExchangesAssumption
  <1>2. q = W \/ q = R
    <2>1. at[q] # "off"
      <3>1. ASSUME NEW f \in 1 .. 2
            PROVE  Opening[f] # "off" /\ <<"open1", "open2">>[f] # "off"
        BY DEF Opening
      <3> QED
        BY <3>1 DEF Steps, Receive, Unlink, Unlink2, CloseWrite, CloseRead,
                    Write, WriteFails, Read, Open1, Open2, OpenFails, Opened
    <2> QED BY <1>1, <2>1, AtThePipe
  <1>3. /\ at[R] \in {"off", "fork", "close_write", "wait", "read", "done",
                      "killed"}
        /\ at[W] \in {"off", "fork", "close_read", "write", "wait", "done",
                      "killed"}
    BY <1>1 DEF PipeControl
  <1>4. UNCHANGED <<W, R>> /\ program' = program
    BY Zenon DEF Steps, Receive, Unlink, Unlink2, CloseWrite, CloseRead,
                 Write, WriteFails, Read, Open1, Open2, OpenFails, Opened,
                 WriterOf, ReaderOf
  <1>5. at \in [Procs -> Statements] /\ writers \in [1 .. 2 -> SUBSET Procs]
    BY DEF Kinds
  <1>6. ASSUME NEW s, at' = [at EXCEPT ![q] = s],
               q = R => s \in {"wait", "read", "done"},
               q = W => s \in {"write", "wait", "done", "killed"},
               q = Child(1) => s # "wait",
               at[q] \notin {"off", "fork"}
        PROVE  PipeControl'
    <2>1. ASSUME NEW r \in Runs, r > 1
          PROVE  at'[Parent(r)] = "off" /\ at'[Child(r)] = "off"
      <3>1. Parent(r) # q /\ Child(r) # q
        BY <1>0, <1>2, <2>1, PipeEnds DEF Parent, Child
      <3>2. at[Parent(r)] = "off" /\ at[Child(r)] = "off"
        BY <1>1, <2>1 DEF PipeControl
      <3> QED BY <1>5, <1>6, <3>1, <3>2, ProcsOfRuns
    <2>2. at'[Child(1)] # "off" => at'[Parent(1)] \notin {"off", "fork"}
      <3>1. s \notin {"off", "fork"}
        BY <1>2, <1>6
      <3>2. q = Parent(1) \/ q = Child(1)
        BY <1>0, <1>2
      <3> QED
        BY <1>1, <1>5, <1>6, <3>1, <3>2, PipeEnds DEF PipeControl
    <2>3. /\ at'[R] \in {"off", "fork", "close_write", "wait", "read", "done",
                         "killed"}
          /\ at'[W] \in {"off", "fork", "close_read", "write", "wait", "done",
                         "killed"}
      BY <1>0, <1>2, <1>3, <1>5, <1>6
    <2>4. at'[Child(1)] \notin {"fork", "wait"}
      BY <1>0, <1>1, <1>2, <1>5, <1>6, PipeEnds DEF PipeControl
    <2> HIDE DEF W, R
    <2> QED BY <1>4, <2>1, <2>2, <2>3, <2>4 DEF PipeControl, W, R
  <1>7. CASE CloseWrite(q)
    <2>1. q = R /\ at[R] = "close_write"
      BY <1>2, <1>3, <1>7 DEF CloseWrite
    <2>2. PICK s \in {"wait", "read"} :
            /\ at' = [at EXCEPT ![q] = s]
            /\ q = Child(1) => s = "read"
      <3>1. CASE q[2] = "parent"
        <4>1. at' = [at EXCEPT ![q] = "wait"]
          BY <1>7, <3>1 DEF CloseWrite, Go
        <4>2. q # Child(1)
          BY <3>1 DEF Child
        <4> QED BY <4>1, <4>2
      <3>2. CASE q[2] # "parent"
        <4>1. at' = [at EXCEPT ![q] = "read"]
          BY <1>7, <3>2 DEF CloseWrite, Go
        <4> QED BY <4>1
      <3> QED BY <3>1, <3>2
    <2>3. PipeControl'
      BY <1>0, <1>6, <2>1, <2>2
    <2>4. /\ at'[W] = at[W] /\ at'[R] \in {"wait", "read"}
          /\ UNCHANGED <<bytes, printed>>
          /\ writers'[1] = writers[1] \ {R}
      BY <1>0, <1>5, <1>7, <2>1, <2>2 DEF CloseWrite
    <2> QED
      BY <1>0, <1>1, <1>4, <2>3, <2>4 DEF PipeInv
  <1>8. CASE CloseRead(q)
    <2>1. q = W /\ at[W] = "close_read"
      BY <1>2, <1>3, <1>8 DEF CloseRead
    <2>2. at' = [at EXCEPT ![q] = "write"]
      BY <1>8 DEF CloseRead, Go
    <2>3. PipeControl'
      BY <1>0, <1>6, <2>1, <2>2
    <2>4. /\ at'[R] = at[R] /\ at'[W] = "write"
          /\ UNCHANGED <<bytes, printed, writers>>
      BY <1>0, <1>5, <1>8, <2>1, <2>2 DEF CloseRead
    <2> QED
      BY <1>0, <1>1, <1>4, <2>1, <2>3, <2>4 DEF PipeInv
  <1>9. CASE Write(q)
    <2>1. q = W /\ at[W] = "write"
      BY <1>2, <1>3, <1>9 DEF Write
    <2>2. PICK s \in {"wait", "done"} :
            /\ at' = [at EXCEPT ![q] = s]
            /\ q = Child(1) => s = "done"
      <3>1. CASE q[2] = "parent"
        <4>1. at' = [at EXCEPT ![q] = "wait"]
          BY <1>9, <3>1 DEF Write, Go
        <4>2. q # Child(1)
          BY <3>1 DEF Child
        <4> QED BY <4>1, <4>2
      <3>2. CASE q[2] # "parent"
        <4>1. at' = [at EXCEPT ![q] = "done"]
          BY <1>9, <3>2 DEF Write, Go
        <4> QED BY <4>1
      <3> QED BY <3>1, <3>2
    <2>3. PipeControl'
      BY <1>0, <1>6, <2>1, <2>2
    <2>4. /\ at'[R] = at[R] /\ at'[W] \in {"wait", "done"}
          /\ printed' = printed
          /\ bytes' = bytes + TextLen
      BY <1>0, <1>5, <1>9, <2>1, <2>2 DEF Write
    <2>5. bytes = 0 /\ printed = 0 /\ at[R] # "done"
      BY <2>1 DEF PipeInv
    <2> QED
      BY <1>0, <1>1, <1>4, <2>1, <2>3, <2>4, <2>5 DEF PipeInv
  <1>10. CASE WriteFails(q)
    <2>1. q = W /\ at[W] = "write"
      BY <1>2, <1>3, <1>10 DEF WriteFails
    <2>2. at' = [at EXCEPT ![q] = "killed"]
      BY <1>10 DEF WriteFails, Go
    <2>3. PipeControl'
      BY <1>0, <1>6, <2>1, <2>2
    <2>4. /\ at'[R] = at[R] /\ at'[W] = "killed"
          /\ UNCHANGED <<bytes, printed>>
      BY <1>0, <1>5, <1>10, <2>1, <2>2 DEF WriteFails
    <2>5. at[R] # "done"
      BY <2>1 DEF PipeInv
    <2> QED
      BY <1>0, <1>1, <1>4, <2>1, <2>3, <2>4, <2>5 DEF PipeInv
  <1>11. CASE Read(q)
    <2>1. q = R /\ at[R] = "read"
      BY <1>2, <1>3, <1>11 DEF Read
    <2>2. at[Parent(1)] # "off" /\ (at[W] = "fork" => FALSE)
      BY <1>0, <1>1, <2>1, PipeEnds DEF PipeControl
    <2>3. CASE bytes > 0
      <3>1. /\ bytes' = bytes - 1 /\ printed' = printed + 1
            /\ UNCHANGED <<at, writers>>
        BY <1>11, <2>3 DEF Read
      <3>2. PipeControl'
        BY <1>1, <1>4, <3>1 DEF PipeControl
      <3>3. at[W] \notin {"off", "fork", "close_read", "write"}
        BY <2>3 DEF PipeInv
      <3>4. /\ bytes' \in Nat /\ printed' \in Nat
            /\ bytes' + printed' = bytes + printed
        BY <1>1, <2>3, <3>1
      <3>5. at[W] \in {"wait", "done"} => bytes + printed = TextLen
        BY DEF PipeInv
      <3>6. W' = W /\ R' = R /\ at' = at
        BY <1>4, <3>1
      <3> QED
        BY <1>1, <2>1, <3>2, <3>3, <3>4, <3>5, <3>6 DEF PipeInv
    <2>4. CASE ~(bytes > 0)
      <3>1. /\ bytes = 0 /\ writers[1] = {} /\ at' = [at EXCEPT ![q] = "done"]
            /\ UNCHANGED <<bytes, printed, writers>>
        BY <1>11, <2>4 DEF Read, Go
      <3>2. PipeControl'
        BY <1>0, <1>6, <2>1, <3>1
      <3>3. at'[W] = at[W] /\ at'[R] = "done"
        BY <1>0, <1>5, <2>1, <3>1
      <3>4. at[W] \in {"off", "wait", "done", "killed"}
        BY <1>3, <2>2, <3>1 DEF PipeInv
      <3>5. at'[Parent(1)] # "off"
        BY <1>0, <1>5, <2>2, <3>1
      <3>6. W' = W /\ R' = R
        BY <1>4
      <3>7. at[W] = "off" => printed = 0
        BY DEF PipeInv
      <3>8. at[W] \in {"wait", "done"} => bytes + printed = TextLen
        BY DEF PipeInv
      <3> QED
        BY <1>1, <3>1, <3>2, <3>3, <3>4, <3>5, <3>6, <3>7, <3>8 DEF PipeInv
    <2> QED BY <2>3, <2>4
  <1>12. ~Receive(q) /\ ~Unlink(q) /\ ~Unlink2(q) /\ ~Open1(q) /\ ~Open2(q)
    BY <1>2, <1>3 DEF Receive, Unlink, Unlink2, Open1, Open2
  <1>13. ASSUME NEW f \in 1 .. 2 PROVE ~Opened(q, f) /\ ~OpenFails(q, f)
    <2>1. /\ Opening[f] \in {"opening1", "opening2"}
          /\ <<"open1", "open2">>[f] \in {"open1", "open2"}
      BY DEF Opening
    <2> QED BY <1>2, <1>3, <2>1 DEF Opened, OpenFails
  <1> QED
    BY <1>7, <1>8, <1>9, <1>10, <1>11, <1>12, <1>13, Zenon DEF Steps
(* The steps of a whole run. *)
LEMMA PipeRuns ==
  ASSUME program \in Pipes, Kinds, PipeInv, NEW r \in Runs,
         \/ Start(r) \/ Fork(r) \/ ForkFails(r) \/ Wait(r) \/ Interrupt(r)
  PROVE  PipeInv'
  <1> DEFINE W == WriterOf(1)
             R == ReaderOf(1)
  <1>0. /\ W \in Procs /\ R \in Procs /\ W # R
        /\ {W, R} = {Parent(1), Child(1)}
        /\ Parent(1) # Child(1)
    BY PipeEnds DEF Pipes
  <1>1. /\ PipeControl
        /\ bytes \in Nat /\ printed \in Nat
    BY DEF PipeInv
  <1>2. program' = program /\ W' = W /\ R' = R
    BY Zenon DEF Start, Fork, ForkFails, Wait, Interrupt, WriterOf, ReaderOf
  <1>3. /\ at \in [Procs -> Statements]
        /\ writers \in [1 .. 2 -> SUBSET Procs]
        /\ Parent(r) \in Procs /\ Child(r) \in Procs
    BY ProcsOfRuns DEF Kinds
  <1>4. program \notin Named /\ program # "fifo"
    BY DEF Pipes, Named
  <1>5. UNCHANGED <<bytes, printed>>
    BY DEF Start, Fork, ForkFails, Wait, Interrupt, pipeVars
  <1>6. /\ at[R] \in {"off", "fork", "close_write", "wait", "read", "done",
                      "killed"}
        /\ at[W] \in {"off", "fork", "close_read", "write", "wait", "done",
                      "killed"}
        /\ at[Child(1)] \notin {"fork", "wait"}
        /\ at[Child(1)] # "off" => at[Parent(1)] \notin {"off", "fork"}
    BY <1>1 DEF PipeControl
  (* Only the first run changes. *)
  <1>7. ASSUME \A x \in Runs : x > 1 =>
                 /\ at'[Parent(x)] = at[Parent(x)]
                 /\ at'[Child(x)] = at[Child(x)],
               at'[Child(1)] # "off" => at'[Parent(1)] \notin {"off", "fork"},
               at'[R] \in {"off", "fork", "close_write", "wait", "read",
                           "done", "killed"},
               at'[W] \in {"off", "fork", "close_read", "write", "wait",
                           "done", "killed"},
               at'[Child(1)] \notin {"fork", "wait"}
        PROVE  PipeControl'
    <2>1. \A x \in Runs : x > 1 =>
            at'[Parent(x)] = "off" /\ at'[Child(x)] = "off"
      BY <1>1, <1>7 DEF PipeControl
    <2> HIDE DEF W, R
    <2> QED BY <1>2, <1>7, <2>1 DEF PipeControl, W, R
  <1>8. ASSUME NEW x \in Runs, x > 1
        PROVE  /\ Parent(x) \in Procs /\ Child(x) \in Procs
               /\ {Parent(x), Child(x)} \cap {Parent(1), Child(1)} = {}
               /\ at[Parent(x)] = "off" /\ at[Child(x)] = "off"
    BY <1>1, <1>8, ProcsOfRuns DEF PipeControl, Parent, Child
  <1>9. CASE Start(r)
    <2>1. r = 1
      BY <1>4, <1>9 DEF Start, Runs
    <2>2. at' = [at EXCEPT ![Parent(1)] = "fork"] /\ at[Parent(1)] = "off"
      BY <1>4, <1>9, <2>1, Zenon DEF Start, Go
    <2>3. at[Child(1)] = "off"
      BY <1>6, <2>2
    <2>4. at'[Parent(1)] = "fork" /\ at'[Child(1)] = "off"
      BY <1>0, <1>3, <2>2, <2>3
    <2>5. at'[W] \in {"off", "fork"} /\ at'[R] \in {"off", "fork"}
      BY <1>0, <2>4
    <2>6. bytes = 0 /\ printed = 0
      <3>1. at[W] = "off"
        BY <1>0, <2>2, <2>3
      <3> QED BY <3>1 DEF PipeInv
    <2>7. PipeControl'
      BY <1>3, <1>7, <1>8, <2>2, <2>4, <2>5
    <2> QED BY <1>1, <1>2, <1>5, <2>5, <2>6, <2>7 DEF PipeInv
  <1>10. CASE Fork(r)
    <2>1. r = 1 /\ at[Parent(1)] = "fork"
      <3>1. at[Parent(r)] = "fork"
        BY <1>10 DEF Fork
      <3> QED BY <1>8, <3>1 DEF Runs
    <2>2. /\ at' = [at EXCEPT ![Parent(1)] = AfterFork, ![Child(1)] = InChild]
          /\ writers' = [writers EXCEPT ![1] = {Parent(1), Child(1)}]
      BY <1>10, <2>1 DEF Fork
    <2>3. /\ at'[Parent(1)] = AfterFork /\ at'[Child(1)] = InChild
          /\ W \in writers'[1]
      BY <1>0, <1>3, <2>2
    <2>4. at'[W] = "close_read" /\ at'[R] = "close_write"
      <3>1. CASE program = "pipe_down"
        <4>1. AfterFork = "close_read" /\ InChild = "close_write"
          BY <3>1 DEF AfterFork, InChild, Named
        <4> QED BY <2>3, <3>1, <4>1, PipeEnds
      <3>2. CASE program = "pipe_up"
        <4>1. AfterFork = "close_write" /\ InChild = "close_read"
          BY <3>2 DEF AfterFork, InChild, Named
        <4> QED BY <2>3, <3>2, <4>1, PipeEnds
      <3> QED BY <3>1, <3>2 DEF Pipes
    <2>5. bytes = 0 /\ printed = 0
      <3>1. at[W] \in {"off", "fork"}
        BY <1>0, <1>6, <2>1
      <3> QED BY <3>1 DEF PipeInv
    <2>6. PipeControl'
      <3>1. /\ at'[Child(1)] \in {"close_read", "close_write"}
            /\ at'[Parent(1)] \in {"close_read", "close_write"}
        BY <1>0, <2>4
      <3> QED BY <1>3, <1>7, <1>8, <2>2, <2>4, <3>1
    <2> QED BY <1>1, <1>2, <1>5, <2>3, <2>4, <2>5, <2>6 DEF PipeInv
  <1>11. CASE ForkFails(r)
    <2>1. r = 1 /\ at[Parent(1)] = "fork"
      <3>1. at[Parent(r)] = "fork"
        BY <1>11 DEF ForkFails
      <3> QED BY <1>8, <3>1 DEF Runs
    <2>2. /\ at' = [at EXCEPT ![Parent(1)] = AfterFork]
          /\ writers' = [writers EXCEPT ![1] = {Parent(1)}]
      BY <1>4, <1>11, <2>1, Zenon DEF ForkFails, Go
    <2>3. at[Child(1)] = "off"
      BY <1>6, <2>1
    <2>4. /\ at'[Parent(1)] = AfterFork /\ at'[Child(1)] = "off"
          /\ Parent(1) \in writers'[1]
      BY <1>0, <1>3, <2>2, <2>3
    <2>5. \/ at'[W] = "close_read" /\ at'[R] = "off" /\ W \in writers'[1]
             /\ at'[Parent(1)] = "close_read"
          \/ at'[W] = "off" /\ at'[R] = "close_write"
             /\ at'[Parent(1)] = "close_write"
      <3>1. CASE program = "pipe_down"
        <4>1. AfterFork = "close_read"
          BY <3>1 DEF AfterFork, Named
        <4> QED BY <2>4, <3>1, <4>1, PipeEnds
      <3>2. CASE program = "pipe_up"
        <4>1. AfterFork = "close_write"
          BY <3>2 DEF AfterFork, Named
        <4> QED BY <2>4, <3>2, <4>1, PipeEnds
      <3> QED BY <3>1, <3>2 DEF Pipes
    <2>6. bytes = 0 /\ printed = 0
      <3>1. at[W] \in {"off", "fork"}
        BY <1>0, <2>1, <2>3
      <3> QED BY <3>1 DEF PipeInv
    <2>7. PipeControl'
      BY <1>3, <1>7, <1>8, <2>2, <2>4, <2>5
    <2> QED BY <1>1, <1>2, <1>5, <2>5, <2>6, <2>7 DEF PipeInv
  <1>12. CASE Wait(r)
    <2>1. r = 1 /\ at[Parent(1)] = "wait" /\ at[Child(1)] \in Over
      <3>1. at[Parent(r)] = "wait" /\ at[Child(r)] \in Over
        BY <1>12 DEF Wait
      <3> QED BY <1>8, <3>1 DEF Runs
    <2>2. CASE program = "pipe_down"
      <3>1. at' = [at EXCEPT ![Parent(1)] = "done"]
        BY <1>4, <1>12, <2>1, <2>2 DEF Wait, Go
      <3>2. W = Parent(1) /\ R = Child(1)
        BY <2>2, PipeEnds
      <3>3. at'[W] = "done" /\ at'[R] = at[R]
        BY <1>0, <1>3, <3>1, <3>2
      <3>4. at'[Parent(1)] = "done" /\ at'[Child(1)] = at[Child(1)]
        BY <3>2, <3>3
      <3>5. PipeControl'
        BY <1>3, <1>6, <1>7, <1>8, <3>1, <3>3, <3>4
      <3>6. bytes + printed = TextLen
        BY <2>1, <3>2 DEF PipeInv
      <3>7. at[R] = "done" => bytes = 0
        BY DEF PipeInv
      <3> QED
        BY <1>1, <1>2, <1>5, <3>3, <3>4, <3>5, <3>6, <3>7 DEF PipeInv
    <2>3. CASE program = "pipe_up"
      <3>1. at' = [at EXCEPT ![Parent(1)] = "read"]
        BY <1>4, <1>12, <2>1, <2>3 DEF Wait, Go
      <3>2. R = Parent(1) /\ W = Child(1)
        BY <2>3, PipeEnds
      <3>3. at'[R] = "read" /\ at'[W] = at[W]
        BY <1>0, <1>3, <3>1, <3>2
      <3>4. at'[Parent(1)] = "read" /\ at'[Child(1)] = at[Child(1)]
        BY <3>2, <3>3
      <3>5. PipeControl'
        BY <1>3, <1>6, <1>7, <1>8, <3>1, <3>3, <3>4
      <3>6. at'[W] \notin {"fork", "close_read", "write"}
        BY <2>1, <3>2, <3>3 DEF Over
      <3>7. /\ at[W] = "off" => bytes = 0 /\ printed = 0
            /\ at[W] \in {"wait", "done"} => bytes + printed = TextLen
        BY DEF PipeInv
      <3> QED
        BY <1>1, <1>2, <1>5, <3>3, <3>5, <3>6, <3>7 DEF PipeInv
    <2> QED BY <2>2, <2>3 DEF Pipes
  <1>13. CASE Interrupt(r)
    <2>1. r = 1
      <3>1. at[Parent(r)] # "off" \/ at[Child(r)] # "off"
        BY <1>13 DEF Interrupt, Active, Over
      <3> QED BY <1>8, <3>1 DEF Runs
    <2>2. ASSUME NEW p \in Procs
          PROVE  at'[p] = at[p] \/ (at'[p] = "killed" /\ at[p] \notin Over)
      BY <1>13, <2>2, Zenon DEF Interrupt
    <2>3. ASSUME NEW p \in {W, R}
          PROVE  at'[p] = IF at[p] \in Over THEN at[p] ELSE "killed"
      <3>1. p[1] = 1 /\ p \in Procs
        BY <1>0 DEF Parent, Child
      <3> QED BY <1>13, <2>1, <3>1 DEF Interrupt
    <2>4. PipeControl'
      <3>1. ASSUME NEW x \in Runs, x > 1
            PROVE  /\ at'[Parent(x)] = at[Parent(x)]
                   /\ at'[Child(x)] = at[Child(x)]
        BY <1>8, <2>2, <3>1 DEF Over
      <3>2. /\ at'[Parent(1)] = at[Parent(1)] \/ at'[Parent(1)] = "killed"
            /\ at'[Child(1)] = at[Child(1)]
                 \/ (at'[Child(1)] = "killed" /\ at[Child(1)] # "off")
            /\ at'[R] = at[R] \/ at'[R] = "killed"
            /\ at'[W] = at[W] \/ at'[W] = "killed"
        BY <1>0, <2>2 DEF Over
      <3> QED BY <1>6, <1>7, <3>1, <3>2
    <2>5. /\ at'[W] \in {"off", "done", "fallen", "killed"}
          /\ at'[W] # "killed" => at'[W] = at[W]
          /\ at'[R] = "done" => at[R] = "done"
      BY <2>3 DEF Over
    <2>6. /\ at[W] = "off" => bytes = 0 /\ printed = 0
          /\ at[W] \in {"wait", "done"} => bytes + printed = TextLen
          /\ at[R] = "done" => bytes = 0 /\ at[Parent(1)] # "off"
      BY DEF PipeInv
    <2>7. at[Parent(1)] # "off" => at'[Parent(1)] # "off"
      BY <1>0, <2>2
    <2>8. at'[W] \in {"off", "done", "killed"}
      BY <1>6, <2>5
    <2> QED
      BY <1>1, <1>2, <1>5, <2>4, <2>5, <2>6, <2>7, <2>8 DEF PipeInv
  <1> QED
    BY <1>9, <1>10, <1>11, <1>12, <1>13

LEMMA PipeNext == FifoInv /\ PipeInv /\ [Next]_vars => PipeInv'
  <1>0. ASSUME program \notin Pipes, [Next]_vars PROVE PipeInv'
    BY <1>0, Fixed, Zenon DEF PipeInv
  <1> SUFFICES ASSUME FifoInv, PipeInv, program \in Pipes, [Next]_vars
               PROVE  PipeInv'
    BY <1>0
  <1>1. Kinds /\ PipeControl
    BY DEF FifoInv, PipeInv
  <1>2. ASSUME NEW r \in Runs, NEW q \in {Parent(r), Child(r)}
        PROVE  at[q] \notin {"open", "send", "exec", "client_open",
                             "client_receive", "client_send"}
    <2>1. q \in Procs
      BY ProcsOfRuns
    <2>2. at[q] = "off" \/ q = WriterOf(1) \/ q = ReaderOf(1)
      BY <1>1, <2>1, AtThePipe
    <2> QED BY <1>1, <2>2 DEF PipeControl
  <1>3. ASSUME NEW r \in Runs
        PROVE  /\ ~Open(r) /\ ~Send(r) /\ ~Exec(r) /\ ~ExecFails(r)
               /\ ~ClientOpen(r) /\ ~ClientReceive(r) /\ ~ClientSend(r)
    BY <1>2 DEF Open, Send, Exec, ExecFails, ClientOpen, ClientReceive,
                ClientSend
  <1>4. ASSUME NEW r \in Runs, ServerSteps(r) \/ ClientSteps(r)
        PROVE  PipeInv'
    BY <1>1, <1>3, <1>4, ProcsOfRuns, PipeSteps, PipeRuns
       DEF ServerSteps, ClientSteps
  <1>5. ASSUME NEW r \in Runs, Start(r) \/ Interrupt(r) PROVE PipeInv'
    BY <1>1, <1>5, PipeRuns
  <1>6. CASE UNCHANGED vars
    <2>1. UNCHANGED <<program, at, bytes, printed, writers>>
      BY <1>6 DEF vars, pipeVars
    <2> QED BY <2>1 DEF PipeInv, PipeControl, WriterOf, ReaderOf
  <1> QED
    BY <1>4, <1>5, <1>6 DEF Next

-----------------------------------------------------------------------------
(* A run by itself whose processes both come to their end, and that follows a
   run which came to its end, is in step: each side has the message of the
   other that belongs to this run, whatever interrupted the runs before, and
   the reader of a pipe has printed the writer's whole text.  This is what the
   unlink at the server's end and the closing of the unused ends of the pipe
   are for. *)
THEOREM CleanRunsAreWhole == Spec => []WholeAfterCleanRun
  <1>1. Init => FifoInv /\ NamedInv /\ PipeInv
    BY FifoInit, SerialInit, PipeInit
  <1>2. FifoInv /\ NamedInv /\ PipeInv /\ [Next]_vars
        => (FifoInv /\ NamedInv /\ PipeInv)'
    BY FifoNext, SerialNext, PipeNext
  <1>3. FifoInv /\ NamedInv /\ PipeInv => WholeAfterCleanRun
    <2> SUFFICES ASSUME FifoInv, NamedInv, PipeInv, serial, NEW r \in Runs,
                        at[Parent(r)] = "done", at[Child(r)] = "done",
                        r > 1 => at[Parent(r - 1)] = "done"
                 PROVE  Whole(r)
      BY DEF WholeAfterCleanRun
    <2>1. CASE program \in Named
      <3>1. InStep(r) => Exchanged(r)
        BY <2>1 DEF NamedInv, SerialInv
      <3>2. InStep(r)
        BY DEF InStep
      <3> QED BY <2>1, <3>1, <3>2 DEF Exchanged, Whole
    <2>2. CASE program \in Pipes
      <3>1. r = 1
        BY <2>2 DEF PipeInv, PipeControl, Runs
      <3>2. at[WriterOf(1)] = "done" /\ at[ReaderOf(1)] = "done"
        BY <3>1 DEF WriterOf, ReaderOf
      <3>3. bytes = 0 /\ bytes + printed = TextLen /\ printed \in Nat
        BY <2>2, <3>2 DEF PipeInv
      <3>4. program \notin Named
        BY <2>2 DEF Pipes, Named
      <3> QED BY <3>3, <3>4 DEF Whole
    <2>3. CASE program = "fifo"
      BY <2>3 DEF Whole, Named, Pipes
    <2> QED BY <2>1, <2>2, <2>3 DEF FifoInv, Kinds
  <1> QED BY <1>1, <1>2, <1>3, PTL DEF Spec

-----------------------------------------------------------------------------
(* The datagram exchange. *)

Hosts   == {SrvHost, Here, Far}
Ports   == Clients \cup {PORT, SrvPort, OtherPort}
Pieces  == {"s", "Hel", "lo!", "=)", "line", "?", "x"}
Texts   == Seq(Pieces)
Packets == [src : Hosts, sport : Ports, dst : Hosts, dport : Ports,
            text : Texts, ok : BOOLEAN]

(* The types. *)
NetTypes ==
  /\ kind \in {"plain", "udp", "ip", "ether"} /\ lossy \in BOOLEAN
  /\ client \in [Clients -> {"off", "open", "waiting", "got", "done",
                             "failed"}]
  /\ inbox \in [Clients -> Seq(Packets)]
  /\ buf \in [Clients -> Texts]
  /\ server \in [Clients -> Hosts]
  /\ refused \subseteq Clients
  /\ srv \in {"down", "first", "greet", "second"}
  /\ squeue \in Seq(Packets)
  /\ peer \in [host : Hosts, port : Ports]
  /\ heard \in Seq(Texts)
  /\ starts \in Nat /\ foreign \in Nat
  /\ greeted \in [Clients -> Nat]

Raw == kind # "plain"

(* The greeting is what reaches a raw client at its port. *)
Delivered(c) ==
  \A i \in 1 .. Len(inbox[c]) : inbox[c][i].dport = PORT =>
    inbox[c][i].text = Greeting /\ greeted[c] > 0

(* A raw client sends from PORT, so that the server greets PORT. *)
FromPort ==
  /\ srv # "down" => starts > 0
  /\ Raw => /\ \A i \in 1 .. Len(squeue) : squeue[i].sport = PORT
            /\ srv = "greet" => peer.port = PORT
            /\ refused = {}
            /\ \A c \in Clients : Delivered(c)

Begins(text) == Len(text) >= 2 /\ text[1] = "Hel" /\ text[2] = "lo!"

(* Who has received something at its port was greeted. *)
WasGreeted ==
  Raw => \A c \in Clients : client[c] \in {"got", "done"} =>
           greeted[c] > 0 /\ Begins(buf[c])

Short(text) == Len(text) <= 2

(* The one greeting of the first start is still to come. *)
ToCome == starts = 0 \/ srv \in {"first", "greet"}

(* What is received is not longer than the greeting until the greeting is, so
   that it covers what is in the buffer. *)
Fits(c) ==
  /\ client[c] \in {"got", "done"} => buf[c] = Greeting
  /\ \A i \in 1 .. Len(inbox[c]) : inbox[c][i].dport = PORT =>
       /\ client[c] = "waiting" => Short(buf[c])
       /\ \A j \in 1 .. i - 1 : Short(inbox[c][j].text)
  /\ ToCome =>
       /\ client[c] \notin {"got", "done"}
       /\ client[c] = "waiting" => Short(buf[c])
       /\ \A i \in 1 .. Len(inbox[c]) :
            inbox[c][i].dport # PORT /\ Short(inbox[c][i].text)

(* No second server's client and no other program has sent a longer packet. *)
OneStart == starts <= 1 /\ foreign = 0 /\ Raw

(* The inductive invariant of EchoIsGreeting. *)
EchoInv ==
  NetTypes /\ FromPort /\ WasGreeted /\ (OneStart => \A c \in Clients : Fits(c))

(* A text that ends as an answer does. *)
IsAnswer(text) == Len(text) > 0 /\ text[Len(text)] \in {"=)", "line"}

AtMostOne == \A c, d \in Clients :
               client[c] # "off" /\ client[d] # "off" => c = d

(* What reaches the server's port is sent by a client. *)
ToServer ==
  /\ \A i \in 1 .. Len(squeue) :
       squeue[i].src = Here \/ squeue[i].sport = PORT
  /\ srv = "greet" => peer.host = Here \/ peer.port = PORT

(* A lone client's first byte is first in the queue. *)
InTurn ==
  /\ srv \in {"greet", "second"} =>
       \A i \in 1 .. Len(squeue) : IsAnswer(squeue[i].text)
  /\ \A i \in 2 .. Len(squeue) : IsAnswer(squeue[i].text)
  /\ (\A c \in Clients : client[c] \in {"off", "open"}) =>
       squeue = <<>> /\ srv \in {"down", "first"}
  /\ \A i \in 1 .. Len(heard) : IsAnswer(heard[i])

(* The inductive invariant of LoneClientIsHeard. *)
LoneInv == /\ NetTypes /\ ToServer
           /\ AtMostOne => InTurn

-----------------------------------------------------------------------------
(* What a packet that leaves its host does to the sockets. *)
Reaches(p) ==
  /\ inbox' \in [Clients -> Seq(Packets)]
  /\ \A c \in Clients : \/ inbox'[c] = inbox[c]
                        \/ Listens(c) /\ inbox'[c] = Append(inbox[c], p)
  /\ squeue' \in Seq(Packets)
  /\ \/ squeue' = squeue
     \/ /\ squeue' = Append(squeue, p) /\ srv # "down"
        /\ p.dst = SrvHost /\ p.dport = SrvPort
  /\ refused' \subseteq Clients
  /\ Raw => refused' = refused

(* A packet that is sent reaches sockets that listen, and no others. *)
LEMMA Transmitted ==
  ASSUME NetTypes, NEW p \in Packets, NEW from, Transmit(p, from)
  PROVE  Reaches(p)
  <1>1. /\ \A c \in Clients : inbox[c] \in Seq(Packets)
        /\ \A c \in Clients : Append(inbox[c], p) \in Seq(Packets)
        /\ Append(squeue, p) \in Seq(Packets)
    BY DEF NetTypes
  <1>2. PICK arrives :
          /\ inbox' = [c \in Clients |->
                        IF Hears(c, p, from) /\ (arrives \/ p.src = Here)
                        THEN Append(inbox[c], p) ELSE inbox[c]]
          /\ squeue' = IF /\ arrives /\ p.dst = SrvHost /\ p.dport = SrvPort
                          /\ p.ok /\ srv # "down"
                       THEN Append(squeue, p) ELSE squeue
          /\ refused' = IF /\ kind = "plain" /\ arrives /\ p.dst = SrvHost
                           /\ p.dport = SrvPort /\ p.ok /\ srv = "down"
                        THEN refused \cup ({from} \cap Clients) ELSE refused
    BY Zenon DEF Transmit
  <1>3. \A c \in Clients : Hears(c, p, from) => Listens(c)
    BY Zenon DEF Hears
  <1>4. \A c \in Clients : \/ inbox'[c] = inbox[c]
                           \/ Listens(c) /\ inbox'[c] = Append(inbox[c], p)
    BY <1>2, <1>3
  <1>5. inbox' \in [Clients -> Seq(Packets)]
    BY <1>1, <1>2
  <1>6. /\ squeue' \in Seq(Packets)
        /\ \/ squeue' = squeue
           \/ /\ squeue' = Append(squeue, p) /\ srv # "down"
              /\ p.dst = SrvHost /\ p.dport = SrvPort
    BY <1>1, <1>2 DEF NetTypes
  <1>7. refused' \subseteq Clients /\ (Raw => refused' = refused)
    BY <1>2 DEF NetTypes, Raw
  <1> QED
    BY <1>4, <1>5, <1>6, <1>7 DEF Reaches

(* The packets of the clients. *)
FromClient(p) ==
  /\ p \in Packets /\ p.dport = SrvPort
  /\ p.src = Here \/ p.sport = PORT
  /\ Raw => p.sport = PORT

Sends(c, p) == SendFirst(c, p) /\ FromClient(p) /\ p.text = First
Answers(c, p) == Answer(c, p) /\ FromClient(p) /\ IsAnswer(p.text)

(* The texts are sequences of pieces, of these lengths. *)
LEMMA TextTypes ==
  /\ First \in Texts /\ Greeting \in Texts /\ Smile \in Texts /\ Line \in Texts
  /\ \A t \in Alien : t \in Texts
  /\ Len(First) = 1 /\ Len(Smile) = 1 /\ Smile[1] = "=)"
  /\ Len(Line) = 1 /\ Line[1] = "line"
  /\ Len(Greeting) = 2 /\ Greeting[1] = "Hel" /\ Greeting[2] = "lo!"
  <1>1. /\ First \in Texts /\ Greeting \in Texts /\ Smile \in Texts
        /\ Line \in Texts
    BY DEF First, Greeting, Smile, Line, Texts, Pieces
  <1>2. <<"x">> \in Texts /\ <<"x", "x", "x">> \in Texts
    BY DEF Texts, Pieces
  <1>3. /\ Len(First) = 1 /\ Len(Smile) = 1 /\ Smile[1] = "=)"
        /\ Len(Line) = 1 /\ Line[1] = "line"
    BY DEF First, Smile, Line
  <1>4. Len(Greeting) = 2 /\ Greeting[1] = "Hel" /\ Greeting[2] = "lo!"
    BY DEF Greeting
  <1> QED
    BY <1>1, <1>2, <1>3, <1>4 DEF Alien

(* Each kind of client writes packets for the server. *)
LEMMA PacketTypes ==
  ASSUME NetTypes, NEW c \in Clients, NEW to \in Hosts, NEW text \in Texts
  PROVE  /\ kind = "plain" => FromClient(PlainPacket(c, text))
         /\ FromClient(UdpPacket(to, text))
         /\ FromClient(IpPacket(to, text))
         /\ FromClient(EtherPacket(text))
         /\ PlainPacket(c, text).text = text
         /\ UdpPacket(to, text).text = text
         /\ IpPacket(to, text).text = text
         /\ EtherPacket(text).text = text
  <1>1. Accepted \in BOOLEAN
    BY Zenon DEF Accepted
  <1> USE DEF FromClient, Packets, Hosts, Ports, Raw
  <1>2. kind = "plain" => FromClient(PlainPacket(c, text))
    BY DEF PlainPacket
  <1>3. FromClient(UdpPacket(to, text))
    BY DEF UdpPacket
  <1>4. FromClient(IpPacket(to, text))
    BY DEF IpPacket
  <1>5. FromClient(EtherPacket(text))
    BY <1>1 DEF EtherPacket
  <1> QED
    BY <1>2, <1>3, <1>4, <1>5
       DEF PlainPacket, UdpPacket, IpPacket, EtherPacket

(* What a client sends back is recognised by its last piece. *)
LEMMA EchoIsAnswer ==
  ASSUME NetTypes, NEW c \in Clients
  PROVE  Echo(c) \in Texts /\ IsAnswer(Echo(c)) /\ IsAnswer(Line)
  <1>1. buf[c] \in Texts /\ Smile \in Texts
    BY TextTypes DEF NetTypes
  <1>2. /\ Echo(c) \in Texts /\ Len(Echo(c)) = Len(buf[c]) + 1
        /\ Echo(c)[Len(buf[c]) + 1] = Smile[1]
    <2>1. Len(Smile) = 1 /\ Len(buf[c]) \in Nat
      BY <1>1, TextTypes DEF Texts
    <2>2. Len(buf[c]) + 1 \in 1 .. Len(buf[c]) + Len(Smile)
      BY <2>1
    <2>3. ~(Len(buf[c]) + 1 <= Len(buf[c]))
      BY <2>1
    <2>4. Len(buf[c]) + 1 - Len(buf[c]) = 1
      BY <2>1
    <2> HIDE DEF Smile
    <2>5. /\ buf[c] \o Smile \in Texts
          /\ Len(buf[c] \o Smile) = Len(buf[c]) + Len(Smile)
          /\ (buf[c] \o Smile)[Len(buf[c]) + 1] = Smile[1]
      BY <1>1, <2>2, <2>3, <2>4, ConcatProperties DEF Texts
    <2> QED
      BY <2>1, <2>5 DEF Echo
  <1>3. Len(buf[c]) \in Nat
    BY <1>1 DEF Texts
  <1> QED
    BY <1>2, <1>3, TextTypes DEF IsAnswer

(* What a client's step is to the invariants: a packet of one of two
   sorts is sent, or one is received, and a raw client takes only PORT's. *)
LEMMA ClientCases ==
  ASSUME NetTypes, NEW c \in Clients, DgramClientSteps(c)
  PROVE  \/ \E p : Sends(c, p)
         \/ \E p : Answers(c, p)
         \/ SendFails(c) \/ RecvRefused(c)
         \/ Raw /\ Ignore(c) /\ ReceivePacket(c, "waiting")
         \/ ReceivePacket(c, "got") /\ (Raw => Head(inbox[c]).dport = PORT)
  <1>1. server[c] \in Hosts /\ SrvHost \in Hosts
    BY DEF NetTypes, Hosts
  <1>2. CASE SendPlain(c) \/ SendUdp(c) \/ SendIp(c) \/ SendEther(c)
    <2>1. First \in Texts
      BY TextTypes
    <2> QED
      BY <1>1, <1>2, <2>1, PacketTypes
         DEF SendPlain, SendUdp, SendIp, SendEther, Sends
  <1>3. CASE EchoUdp(c) \/ EchoIp(c) \/ EchoEther(c) \/ SayLine(c)
    <2>1. /\ Echo(c) \in Texts /\ IsAnswer(Echo(c))
          /\ Line \in Texts /\ IsAnswer(Line)
      BY EchoIsAnswer, TextTypes
    <2> QED
      BY <1>1, <1>3, <2>1, PacketTypes
         DEF EchoUdp, EchoIp, EchoEther, SayLine, Answers
  <1>4. CASE Ignore(c)
    BY <1>4 DEF Ignore, Raw
  <1>5. CASE TakePacket(c)
    BY <1>5 DEF TakePacket
  <1>6. CASE RecvPlain(c)
    BY <1>6 DEF RecvPlain, Raw
  <1> QED
    BY <1>2, <1>3, <1>4, <1>5, <1>6 DEF DgramClientSteps

(* What is left of a longer text behind a shorter one. *)
LEMMA Overlaid ==
  ASSUME NEW t \in Texts, NEW b \in Texts
  PROVE  /\ Overlay(t, b) \in Texts
         /\ Short(t) /\ Short(b) => Short(Overlay(t, b))
         /\ t = Greeting => Begins(Overlay(t, b))
         /\ t = Greeting /\ Short(b) => Overlay(t, b) = Greeting
  <1> DEFINE rest == SubSeq(b, Len(t) + 1, Len(b))
  <1>1. Len(t) \in Nat /\ Len(b) \in Nat
    BY DEF Texts
  <1>2. /\ rest \in Texts
        /\ Len(rest) = IF Len(t) + 1 <= Len(b)
                       THEN Len(b) - (Len(t) + 1) + 1 ELSE 0
    <2>1. \A i \in Len(t) + 1 .. Len(b) : b[i] \in Pieces
      BY <1>1 DEF Texts
    <2> QED
      BY <1>1, <2>1, SubSeqProperties DEF Texts
  <1>3. /\ Overlay(t, b) \in Texts /\ Len(Overlay(t, b)) = Len(t) + Len(rest)
        /\ \A i \in 1 .. Len(t) + Len(rest) : i <= Len(t) =>
             Overlay(t, b)[i] = t[i]
    BY <1>2, ConcatProperties DEF Overlay, Texts
  <1> HIDE DEF rest
  <1>4. Short(t) /\ Short(b) => Short(Overlay(t, b))
    BY <1>1, <1>2, <1>3 DEF Short
  <1>5. t = Greeting => Begins(Overlay(t, b))
    <2>1. ASSUME t = Greeting PROVE Begins(Overlay(t, b))
      <3>1. Len(t) = 2 /\ t[1] = "Hel" /\ t[2] = "lo!"
        BY <2>1, TextTypes
      <3>2. Len(rest) \in Nat
        BY <1>1, <1>2
      <3>3. 1 \in 1 .. Len(t) + Len(rest) /\ 2 \in 1 .. Len(t) + Len(rest)
        BY <3>1, <3>2
      <3>4. Overlay(t, b)[1] = t[1] /\ Overlay(t, b)[2] = t[2]
        BY <1>3, <3>1, <3>3
      <3> QED
        BY <1>3, <3>1, <3>2, <3>4 DEF Begins
    <2> QED
      BY <2>1
  <1>6. t = Greeting /\ Short(b) => Overlay(t, b) = Greeting
    <2>1. ASSUME t = Greeting, Short(b) PROVE Overlay(t, b) = Greeting
      <3>1. Len(t) = 2 /\ Greeting \in Seq(Pieces)
        BY <2>1, TextTypes DEF Texts
      <3>2. SubSeq(b, Len(t) + 1, Len(b)) = <<>>
        BY <1>1, <2>1, <3>1, SubSeqEmpty DEF Short
      <3>3. Greeting \o <<>> = Greeting
        BY <3>1, ConcatEmptySeq
      <3> QED
        BY <2>1, <3>2, <3>3 DEF Overlay
    <2> QED
      BY <2>1
  <1> QED
    BY <1>3, <1>4, <1>5, <1>6

(* The types hold at the start. *)
LEMMA TypesInit == DgramInit => NetTypes
  <1> SUFFICES ASSUME DgramInit PROVE NetTypes
    OBVIOUS
  <1> USE DEF DgramInit
  <1>1. Garbage \in Texts /\ <<>> \in Texts
    BY DEF Garbage, Texts, Pieces
  <1>2. buf \in [Clients -> Texts]
    BY <1>1
  <1>3. inbox \in [Clients -> Seq(Packets)] /\ squeue \in Seq(Packets)
    OBVIOUS
  <1>4. heard \in Seq(Texts)
    OBVIOUS
  <1>5. /\ server \in [Clients -> Hosts]
        /\ peer \in [host : Hosts, port : Ports]
    BY DEF Hosts, Ports
  <1>6. kind \in {"plain", "udp", "ip", "ether"} /\ lossy \in BOOLEAN
    BY Zenon
  <1> QED
    BY <1>2, <1>3, <1>4, <1>5, <1>6 DEF NetTypes

(* The first of a socket's packets. *)
LEMMA HeadPacket ==
  ASSUME NEW q \in Seq(Packets), q # <<>>
  PROVE  /\ Head(q) \in Packets /\ Tail(q) \in Seq(Packets)
         /\ Head(q).src \in Hosts /\ Head(q).sport \in Ports
         /\ Head(q).text \in Texts
  <1>1. Head(q) \in Packets /\ Tail(q) \in Seq(Packets)
    BY HeadTailProperties
  <1> QED
    BY <1>1 DEF Packets

(* Greet's packet. *)
GreetPacket == [src |-> SrvHost, sport |-> SrvPort, dst |-> peer.host,
             dport |-> peer.port, text |-> Greeting, ok |-> TRUE]

(* What the server and the other programs send. *)
LEMMA ServerTransmits ==
  ASSUME NetTypes
  PROVE  /\ Greet => Reaches(GreetPacket)
         /\ Foreign => \E p \in Packets : Reaches(p) /\ p.dport = OtherPort
  <1>1. GreetPacket \in Packets
    BY TextTypes DEF NetTypes, GreetPacket, Packets, Hosts, Ports
  <1>2. Greet => Reaches(GreetPacket)
    BY <1>1, Transmitted DEF Greet, GreetPacket
  <1>3. ASSUME Foreign
        PROVE  \E p \in Packets : Reaches(p) /\ p.dport = OtherPort
    <2>1. PICK t \in Alien :
            Transmit([src |-> Far, sport |-> OtherPort, dst |-> Here,
                      dport |-> OtherPort, text |-> t, ok |-> TRUE], "nobody")
      BY <1>3 DEF Foreign
    <2> DEFINE p == [src |-> Far, sport |-> OtherPort, dst |-> Here,
                     dport |-> OtherPort, text |-> t, ok |-> TRUE]
    <2>2. p \in Packets /\ p.dport = OtherPort
      BY TextTypes DEF Packets, Hosts, Ports
    <2>3. Reaches(p)
      BY <2>1, <2>2, Transmitted
    <2> QED
      BY <2>2, <2>3
  <1> QED
    BY <1>2, <1>3

(* Every step keeps the types. *)
LEMMA TypesNext == NetTypes /\ [DgramNext]_dgramVars => NetTypes'
  <1> SUFFICES ASSUME NetTypes, [DgramNext]_dgramVars PROVE NetTypes'
    OBVIOUS
  <1> USE DEF cfgVars, netVars, srvVars, clientVars
  <1>1. ASSUME NEW p, Reaches(p)
        PROVE  inbox' \in [Clients -> Seq(Packets)] /\ squeue' \in Seq(Packets)
               /\ refused' \subseteq Clients
    BY <1>1 DEF Reaches
  <1>2. CASE StartServer
    BY <1>2 DEF StartServer, NetTypes
  <1>3. CASE RecvFirst
    <2>1. /\ Tail(squeue) \in Seq(Packets)
          /\ Head(squeue).src \in Hosts /\ Head(squeue).sport \in Ports
      BY <1>3, HeadPacket DEF RecvFirst, NetTypes
    <2> QED
      BY <1>3, <2>1 DEF RecvFirst, NetTypes
  <1>4. CASE Greet
    <2>1. greeted' \in [Clients -> Nat]
      BY <1>4 DEF Greet, NetTypes
    <2> QED
      BY <1>1, <1>4, <2>1, ServerTransmits DEF Greet, NetTypes
  <1>5. CASE RecvSecond
    <2>1. Head(squeue).text \in Texts
      BY <1>5, HeadPacket DEF RecvSecond, NetTypes
    <2>2. heard' \in Seq(Texts) /\ squeue' \in Seq(Packets)
      BY <1>5, <2>1 DEF RecvSecond, NetTypes
    <2> QED
      BY <1>5, <2>2 DEF RecvSecond, NetTypes
  <1>6. CASE handle_sigint
    BY <1>6 DEF handle_sigint, NetTypes
  <1>7. CASE Foreign
    <2>1. PICK p \in Packets : Reaches(p)
      BY <1>7, ServerTransmits
    <2>2. /\ UNCHANGED <<kind, lossy, client, buf, server, srv, peer, heard,
                         starts, greeted>>
          /\ foreign' = foreign + 1
      BY <1>7 DEF Foreign
    <2> QED
      BY <1>1, <2>1, <2>2 DEF NetTypes
  <1>8. ASSUME NEW c \in Clients, OpenSocket(c) PROVE NetTypes'
    BY <1>8 DEF OpenSocket, NetTypes
  <1>9. ASSUME NEW c \in Clients, NEW p, Sends(c, p) PROVE NetTypes'
    <2>1. Reaches(p)
      BY <1>9, Transmitted DEF Sends, SendFirst, FromClient
    <2>2. buf' \in [Clients -> Texts]
      <3>1. <<>> \in Texts
        BY DEF Texts
      <3> QED
        BY <1>9, <3>1 DEF Sends, SendFirst, NetTypes
    <2> QED
      BY <1>1, <1>9, <2>1, <2>2 DEF Sends, SendFirst, NetTypes
  <1>10. ASSUME NEW c \in Clients, NEW p, Answers(c, p) PROVE NetTypes'
    <2>1. Reaches(p)
      BY <1>10, Transmitted DEF Answers, Answer, FromClient
    <2> QED
      BY <1>1, <1>10, <2>1 DEF Answers, Answer, NetTypes
  <1>11. ASSUME NEW c \in Clients, SendFails(c) \/ RecvRefused(c)
         PROVE  NetTypes'
    BY <1>11 DEF SendFails, RecvRefused, NetTypes
  <1>12. ASSUME NEW c \in Clients, NEW to \in {"got", "waiting"},
                ReceivePacket(c, to)
         PROVE  NetTypes'
    <2>1. /\ inbox[c] \in Seq(Packets) /\ buf[c] \in Texts
          /\ inbox[c] # <<>>
      BY <1>12 DEF ReceivePacket, NetTypes
    <2>2. /\ Tail(inbox[c]) \in Seq(Packets) /\ Head(inbox[c]).src \in Hosts
          /\ Head(inbox[c]).text \in Texts
      BY <2>1, HeadPacket
    <2>3. Overlay(Head(inbox[c]).text, buf[c]) \in Texts
      BY <2>1, <2>2, Overlaid
    <2>4. /\ inbox' \in [Clients -> Seq(Packets)]
          /\ buf' \in [Clients -> Texts] /\ server' \in [Clients -> Hosts]
      BY <1>12, <2>2, <2>3 DEF ReceivePacket, NetTypes
    <2> QED
      BY <1>12, <2>4 DEF ReceivePacket, NetTypes
  <1>13. CASE UNCHANGED dgramVars
    BY <1>13 DEF dgramVars, NetTypes
  <1> QED
    BY <1>2, <1>3, <1>4, <1>5, <1>6, <1>7, <1>8, <1>9, <1>10, <1>11, <1>12,
       <1>13, ClientCases DEF DgramNext, DgramServerSteps

(* A packet behind the others. *)
LEMMA Appending ==
  ASSUME NEW q \in Seq(Packets), NEW p \in Packets
  PROVE  /\ Append(q, p) # q /\ Append(q, p) \in Seq(Packets)
         /\ Len(Append(q, p)) = Len(q) + 1
         /\ \A i \in 1 .. Len(Append(q, p)) :
              \/ i \in 1 .. Len(q) /\ Append(q, p)[i] = q[i]
              \/ i = Len(q) + 1 /\ Append(q, p)[i] = p
  <1>1. /\ Append(q, p) \in Seq(Packets) /\ Len(Append(q, p)) = Len(q) + 1
        /\ \A i \in 1 .. Len(q) : Append(q, p)[i] = q[i]
        /\ Append(q, p)[Len(q) + 1] = p
    BY AppendProperties
  <1>2. Len(q) \in Nat
    OBVIOUS
  <1> QED
    BY <1>1, <1>2

(* Without its first packet every other one moves up. *)
LEMMA Shortening ==
  ASSUME NEW q \in Seq(Packets), q # <<>>
  PROVE  /\ 1 \in 1 .. Len(q) /\ Head(q) = q[1]
         /\ \A i \in 1 .. Len(Tail(q)) :
              i + 1 \in 1 .. Len(q) /\ Tail(q)[i] = q[i + 1]
  <1>1. /\ Len(Tail(q)) = Len(q) - 1 /\ Len(q) \in Nat /\ Len(q) > 0
        /\ \A i \in 1 .. Len(Tail(q)) : Tail(q)[i] = q[i + 1]
    BY HeadTailProperties
  <1> QED
    BY <1>1

(* A packet that reaches an inbox is behind what is there. *)
LEMMA Grown ==
  ASSUME NetTypes, NEW p \in Packets, Reaches(p), NEW c \in Clients
  PROVE  \A i \in 1 .. Len(inbox'[c]) :
           \/ i \in 1 .. Len(inbox[c]) /\ inbox'[c][i] = inbox[c][i]
           \/ /\ i = Len(inbox[c]) + 1 /\ inbox'[c][i] = p
              /\ inbox'[c] # inbox[c]
  <1>1. inbox[c] \in Seq(Packets)
    BY DEF NetTypes
  <1>2. inbox'[c] = inbox[c] \/ inbox'[c] = Append(inbox[c], p)
    BY DEF Reaches
  <1> QED
    BY <1>1, <1>2, Appending

(* A packet that reaches the server is behind what is there. *)
LEMMA QueueGrown ==
  ASSUME NetTypes, NEW p \in Packets, Reaches(p)
  PROVE  \A i \in 1 .. Len(squeue') :
           \/ i \in 1 .. Len(squeue) /\ squeue'[i] = squeue[i]
           \/ /\ squeue'[i] = p /\ p.dst = SrvHost /\ p.dport = SrvPort
              /\ i = Len(squeue) + 1
  <1>1. squeue \in Seq(Packets)
    BY DEF NetTypes
  <1> QED
    BY <1>1, Appending DEF Reaches

(* A packet for another port than the raw clients' changes no delivery. *)
LEMMA DeliveredBeside ==
  ASSUME NetTypes, NEW p \in Packets, Reaches(p), p.dport # PORT,
         greeted' = greeted, NEW c \in Clients, Delivered(c)
  PROVE  Delivered(c)'
  BY Grown DEF Delivered

(* A raw client's port is neither the server's nor another program's. *)
LEMMA DistinctPorts ==
  PORT # SrvPort /\ PORT # OtherPort /\ SrvPort # OtherPort
  BY DEF PORT, SrvPort, OtherPort

(* What reaches a raw client's port is the greeting of a started server:
   the server answers the port the datagram came from, and nobody else
   sends to it. *)
LEMMA PortNext == NetTypes /\ FromPort /\ [DgramNext]_dgramVars => FromPort'
  <1> SUFFICES ASSUME NetTypes, FromPort, [DgramNext]_dgramVars PROVE FromPort'
    OBVIOUS
  <1> USE DEF cfgVars, netVars, srvVars, clientVars
  <1>1. ASSUME inbox' = inbox, greeted' = greeted
        PROVE  \A c \in Clients : Delivered(c)' <=> Delivered(c)
    BY <1>1 DEF Delivered
  <1>2. CASE StartServer
    BY <1>1, <1>2 DEF StartServer, FromPort, Raw, NetTypes
  <1>3. CASE RecvFirst
    <2>1. squeue \in Seq(Packets) /\ squeue # <<>>
      BY <1>3 DEF RecvFirst, NetTypes
    <2>2. Raw => Head(squeue).sport = PORT
      BY <2>1, Shortening DEF FromPort
    <2>3. Raw => \A i \in 1 .. Len(squeue') : squeue'[i].sport = PORT
      BY <1>3, <2>1, Shortening DEF FromPort, RecvFirst
    <2> QED
      BY <1>1, <1>3, <2>2, <2>3 DEF RecvFirst, FromPort, Raw
  <1>4. CASE Greet
    <2>1. /\ Reaches(GreetPacket) /\ GreetPacket \in Packets
          /\ GreetPacket.dport = peer.port /\ GreetPacket.text = Greeting
          /\ GreetPacket.sport = SrvPort
      BY <1>4, ServerTransmits, TextTypes
         DEF NetTypes, GreetPacket, Packets, Hosts, Ports
    <2>2. starts > 0 /\ (Raw => peer.port = PORT)
      BY <1>4 DEF Greet, FromPort
    <2>3. ASSUME Raw, NEW c \in Clients PROVE Delivered(c)'
      <3>1. Delivered(c) /\ greeted[c] \in Nat
        BY <2>3 DEF FromPort, NetTypes
      <3>2. greeted'[c] = IF inbox'[c] # inbox[c] THEN starts ELSE greeted[c]
        BY <1>4, <2>2, <2>3 DEF Greet
      <3> QED
        BY <2>1, <2>2, <3>1, <3>2, Grown DEF Delivered
    <2>4. Raw => squeue' = squeue /\ refused' = refused
      <3>1. Raw => GreetPacket.dport # SrvPort
        BY <2>1, <2>2, DistinctPorts
      <3> QED
        BY <2>1, <3>1 DEF Reaches
    <2> QED
      BY <1>4, <2>2, <2>3, <2>4 DEF Greet, FromPort, Raw
  <1>5. CASE RecvSecond \/ handle_sigint
    BY <1>1, <1>5 DEF RecvSecond, handle_sigint, FromPort, Raw
  <1>6. CASE Foreign
    <2>1. PICK p \in Packets : Reaches(p) /\ p.dport = OtherPort
      BY <1>6, ServerTransmits
    <2>2. UNCHANGED <<kind, srv, peer, starts, greeted>>
      BY <1>6 DEF Foreign
    <2>3. \A c \in Clients : Delivered(c) => Delivered(c)'
      BY <2>1, <2>2, DeliveredBeside, DistinctPorts
    <2>4. squeue' = squeue /\ (Raw => refused' = refused)
      BY <2>1, DistinctPorts DEF Reaches
    <2> QED
      BY <2>2, <2>3, <2>4 DEF FromPort, Raw
  <1>7. ASSUME NEW c \in Clients, NEW p, Sends(c, p) \/ Answers(c, p)
        PROVE  FromPort'
    <2>1. /\ p \in Packets /\ Reaches(p) /\ p.dport = SrvPort
          /\ Raw => p.sport = PORT
      BY <1>7, Transmitted DEF Sends, SendFirst, Answers, Answer, FromClient
    <2>2. UNCHANGED <<kind, srv, peer, starts, greeted>>
      BY <1>7 DEF Sends, SendFirst, Answers, Answer
    <2>3. \A d \in Clients : Delivered(d) => Delivered(d)'
      BY <2>1, <2>2, DeliveredBeside, DistinctPorts
    <2>4. Raw => \A i \in 1 .. Len(squeue') : squeue'[i].sport = PORT
      BY <2>1, QueueGrown DEF FromPort
    <2>5. Raw => refused' = refused
      BY <2>1 DEF Reaches
    <2> QED
      BY <2>2, <2>3, <2>4, <2>5 DEF FromPort, Raw
  <1>8. ASSUME NEW c \in Clients, NEW to, ReceivePacket(c, to)
        PROVE  FromPort'
    <2>1. inbox[c] \in Seq(Packets) /\ inbox[c] # <<>>
      BY <1>8 DEF ReceivePacket, NetTypes
    <2>2. UNCHANGED <<kind, srv, peer, starts, greeted, squeue, refused>>
      BY <1>8 DEF ReceivePacket
    <2>3. inbox'[c] = <<>> \/ inbox'[c] = Tail(inbox[c])
      BY <1>8 DEF ReceivePacket, NetTypes
    <2>4. \A d \in Clients : d # c => inbox'[d] = inbox[d]
      BY <1>8 DEF ReceivePacket, NetTypes
    <2>5. ASSUME NEW d \in Clients, Delivered(d) PROVE Delivered(d)'
      <3>1. CASE d # c
        BY <2>2, <2>4, <2>5, <3>1 DEF Delivered
      <3>2. CASE d = c /\ inbox'[c] = <<>>
        BY <3>2 DEF Delivered
      <3>3. CASE d = c /\ inbox'[c] = Tail(inbox[c])
        BY <2>1, <2>2, <2>5, <3>3, Shortening DEF Delivered
      <3> QED
        BY <2>3, <3>1, <3>2, <3>3
    <2> QED
      BY <2>2, <2>5 DEF FromPort, Raw
  <1>9. ASSUME NEW c \in Clients, OpenSocket(c) \/ SendFails(c)
        PROVE  FromPort'
    BY <1>1, <1>9 DEF OpenSocket, SendFails, FromPort, Raw
  <1>10. ASSUME NEW c \in Clients, RecvRefused(c) PROVE FromPort'
    BY <1>1, <1>10 DEF RecvRefused, FromPort, Raw
  <1>11. CASE UNCHANGED dgramVars
    BY <1>1, <1>11 DEF dgramVars, FromPort, Raw
  <1> QED
    BY <1>2, <1>3, <1>4, <1>5, <1>6, <1>7, <1>8, <1>9, <1>10, <1>11,
       ClientCases DEF DgramNext, DgramServerSteps

(* The program is fixed, and the bounded counters only grow. *)
LEMMA OnlyGrows ==
  NetTypes /\ [DgramNext]_dgramVars
    => kind' = kind /\ starts <= starts' /\ foreign <= foreign'
  BY DEF NetTypes, cfgVars, netVars, srvVars, clientVars, DgramNext,
         DgramServerSteps, StartServer, RecvFirst, Greet, RecvSecond,
         handle_sigint, Foreign, OpenSocket, dgramVars, DgramClientSteps,
         SendPlain, SendUdp, SendIp, SendEther, SendFirst, SendFails, Ignore,
         TakePacket, RecvPlain, ReceivePacket, RecvRefused, EchoUdp, EchoIp,
         EchoEther, SayLine, Answer

(* A raw client is "got" only by TakePacket, of a greeting. *)
LEMMA GreetedNext ==
  NetTypes /\ FromPort /\ WasGreeted /\ [DgramNext]_dgramVars => WasGreeted'
  <1> SUFFICES ASSUME NetTypes, FromPort, WasGreeted,
                      [DgramNext]_dgramVars, Raw'
               PROVE  \A d \in Clients : client'[d] \in {"got", "done"} =>
                        greeted'[d] > 0 /\ Begins(buf'[d])
    BY DEF WasGreeted, Begins
  <1> USE DEF cfgVars, netVars, srvVars, clientVars
  <1> DEFINE Good(d) ==
        client'[d] \in {"got", "done"} => greeted'[d] > 0 /\ Begins(buf'[d])
  <1>0. Raw
    BY OnlyGrows DEF Raw
  <1>1. ASSUME NEW d \in Clients, buf'[d] = buf[d], greeted' = greeted,
               client'[d] \in {"got", "done"} => client[d] \in {"got", "done"}
        PROVE  Good(d)
    BY <1>0, <1>1 DEF WasGreeted
  <1>2. CASE StartServer \/ RecvFirst \/ RecvSecond \/ handle_sigint
             \/ Foreign \/ UNCHANGED dgramVars
    BY <1>1, <1>2 DEF StartServer, RecvFirst, RecvSecond, handle_sigint,
                      Foreign, dgramVars
  <1>3. CASE Greet
    <2>1. starts > 0
      BY <1>3 DEF Greet, FromPort
    <2>2. \A d \in Clients : greeted[d] > 0 => greeted'[d] > 0
      BY <1>3, <2>1 DEF Greet, NetTypes
    <2>3. client' = client /\ buf' = buf
      BY <1>3 DEF Greet
    <2> QED
      BY <1>0, <2>2, <2>3 DEF WasGreeted
  <1>4. ASSUME NEW c \in Clients, OpenSocket(c) \/ SendFails(c)
        PROVE  \A d \in Clients : Good(d)
    <2>1. /\ buf' = buf /\ greeted' = greeted
          /\ \A d \in Clients : client'[d] \in {"got", "done"}
                                  => client[d] \in {"got", "done"}
      BY <1>4 DEF OpenSocket, SendFails, NetTypes
    <2> QED
      BY <1>1, <2>1
  <1>5. ASSUME NEW c \in Clients, NEW p, Sends(c, p)
        PROVE  \A d \in Clients : Good(d)
    <2>1. /\ greeted' = greeted /\ client'[c] = "waiting"
          /\ \A d \in Clients : d # c => /\ client'[d] = client[d]
                                         /\ buf'[d] = buf[d]
      BY <1>5 DEF Sends, SendFirst, NetTypes
    <2> QED
      BY <1>1, <2>1
  <1>6. ASSUME NEW c \in Clients, NEW p, Answers(c, p)
        PROVE  \A d \in Clients : Good(d)
    <2>1. /\ greeted' = greeted /\ buf' = buf /\ client[c] = "got"
          /\ \A d \in Clients : d # c => client'[d] = client[d]
      BY <1>6 DEF Answers, Answer, NetTypes
    <2> QED
      BY <1>1, <2>1
  <1>7. ASSUME NEW c \in Clients, RecvRefused(c) PROVE FALSE
    BY <1>0, <1>7 DEF RecvRefused, FromPort
  <1>8. ASSUME NEW c \in Clients, NEW to \in {"waiting", "got"},
               ReceivePacket(c, to), to = "got" => Head(inbox[c]).dport = PORT
        PROVE  \A d \in Clients : Good(d)
    <2>1. /\ inbox[c] \in Seq(Packets) /\ inbox[c] # <<>>
          /\ buf[c] \in Texts
      BY <1>8 DEF ReceivePacket, NetTypes
    <2>2. /\ greeted' = greeted /\ client'[c] = to
          /\ \A d \in Clients : d # c => /\ client'[d] = client[d]
                                         /\ buf'[d] = buf[d]
          /\ buf'[c] = Overlay(Head(inbox[c]).text, buf[c])
      BY <1>8 DEF ReceivePacket, NetTypes
    <2>3. ASSUME to = "got" PROVE greeted[c] > 0 /\ Begins(buf'[c])
      <3>1. Head(inbox[c]).text = Greeting /\ greeted[c] > 0
        BY <1>0, <1>8, <2>1, <2>3, Shortening DEF FromPort, Delivered
      <3>2. Greeting \in Texts
        BY TextTypes
      <3> QED
        BY <2>1, <2>2, <3>1, <3>2, Overlaid
    <2> QED
      BY <1>1, <2>2, <2>3
  <1> HIDE DEF Good
  <1>9. ASSUME NEW c \in Clients, DgramClientSteps(c)
        PROVE  \A d \in Clients : Good(d)
    <2>1. CASE Ignore(c) /\ ReceivePacket(c, "waiting")
      BY <1>8, <2>1
    <2>2. CASE ReceivePacket(c, "got") /\ Head(inbox[c]).dport = PORT
      BY <1>8, <2>2
    <2>3. CASE \E p : Sends(c, p)
      BY <1>5, <2>3
    <2>4. CASE \E p : Answers(c, p)
      BY <1>6, <2>4
    <2>5. CASE SendFails(c) \/ RecvRefused(c)
      BY <1>4, <1>7, <2>5
    <2>6. \/ \E p : Sends(c, p)
          \/ \E p : Answers(c, p)
          \/ SendFails(c) \/ RecvRefused(c)
          \/ Raw /\ Ignore(c) /\ ReceivePacket(c, "waiting")
          \/ ReceivePacket(c, "got") /\ (Raw => Head(inbox[c]).dport = PORT)
      BY <1>9, ClientCases, Zenon
    <2> QED
      BY <1>0, <2>1, <2>2, <2>3, <2>4, <2>5, <2>6, Zenon
  <1>10. \/ StartServer \/ Greet \/ RecvFirst \/ RecvSecond
         \/ handle_sigint \/ Foreign \/ UNCHANGED dgramVars
         \/ \E c \in Clients : OpenSocket(c) \/ DgramClientSteps(c)
    BY DEF DgramNext, DgramServerSteps
  <1> QED
    BY <1>2, <1>3, <1>4, <1>9, <1>10 DEF Good

-----------------------------------------------------------------------------
(* One start of the server, and no packet of another program. *)

(* Behind a packet for another port, the greetings in an inbox are those that
   were there, and what is before them is short. *)
LEMMA OldGreetings ==
  ASSUME NetTypes, NEW p \in Packets, Reaches(p), p.dport # PORT,
         NEW c \in Clients, Fits(c),
         NEW i \in 1 .. Len(inbox'[c]), inbox'[c][i].dport = PORT
  PROVE  /\ client[c] = "waiting" => Short(buf[c])
         /\ \A j \in 1 .. i - 1 : Short(inbox'[c][j].text)
  <1>1. inbox[c] \in Seq(Packets) /\ Len(inbox[c]) \in Nat
    BY DEF NetTypes
  <1>2. i \in 1 .. Len(inbox[c]) /\ inbox[c][i].dport = PORT
    BY Grown
  <1>3. \A j \in 1 .. i - 1 : /\ j \in 1 .. Len(inbox'[c])
                              /\ j # Len(inbox[c]) + 1
    BY <1>1, <1>2
  <1>4. \A j \in 1 .. i - 1 : inbox'[c][j] = inbox[c][j]
    BY <1>3, Grown
  <1> QED
    BY <1>2, <1>4 DEF Fits

(* A packet of no concern to the loop of recvfrom joins the inboxes. *)
LEMMA FitsBeside ==
  ASSUME NetTypes, NEW p \in Packets, Reaches(p), p.dport # PORT,
         NEW c \in Clients, Fits(c), ToCome' => ToCome /\ Short(p.text),
         \/ client'[c] = client[c] /\ buf'[c] = buf[c]
         \/ client'[c] = "waiting" /\ buf'[c] = <<>>
  PROVE  Fits(c)'
  <1>1. \A i \in 1 .. Len(inbox'[c]) : inbox'[c][i].dport = PORT =>
          /\ client[c] = "waiting" => Short(buf[c])
          /\ \A j \in 1 .. i - 1 : Short(inbox'[c][j].text)
    BY OldGreetings
  <1>2. ToCome' => \A i \in 1 .. Len(inbox'[c]) :
                     inbox'[c][i].dport # PORT /\ Short(inbox'[c][i].text)
    BY Grown DEF Fits
  <1>3. Short(<<>>) /\ Greeting' = Greeting /\ PORT' = PORT
    BY DEF Short, Greeting, PORT
  <1> QED
    BY <1>1, <1>2, <1>3 DEF Fits, Short

(* A step that leaves c's socket and buffer alone. *)
LEMMA FitsSame ==
  ASSUME NEW c \in Clients, Fits(c), inbox'[c] = inbox[c], buf'[c] = buf[c],
         ToCome' => ToCome,
         client'[c] = client[c] \/ client'[c] \in {"open", "failed"}
  PROVE  Fits(c)'
  BY DEF Fits, Short

(* The first greeting comes behind short packets only. *)
LEMMA FitsGreeted ==
  ASSUME NetTypes, Greet, ToCome, starts > 0, NEW c \in Clients, Fits(c)
  PROVE  Fits(c)'
  <1>1. /\ Reaches(GreetPacket) /\ GreetPacket \in Packets
    BY ServerTransmits, TextTypes
       DEF NetTypes, GreetPacket, Packets, Hosts, Ports
  <1>2. inbox[c] \in Seq(Packets) /\ Len(inbox[c]) \in Nat
    BY DEF NetTypes
  <1>3. /\ client' = client /\ buf' = buf /\ srv' = "second"
        /\ starts' = starts
    BY DEF Greet, clientVars
  <1>4. ~ToCome'
    BY <1>3 DEF ToCome
  <1>5. \A i \in 1 .. Len(inbox[c]) :
          inbox[c][i].dport # PORT /\ Short(inbox[c][i].text)
    BY DEF Fits
  <1>6. ASSUME NEW i \in 1 .. Len(inbox'[c]), inbox'[c][i].dport = PORT
        PROVE  /\ client'[c] = "waiting" => Short(buf'[c])
               /\ \A j \in 1 .. i - 1 : Short(inbox'[c][j].text)
    <2>1. i = Len(inbox[c]) + 1
      BY <1>1, <1>5, <1>6, Grown
    <2>2. \A j \in 1 .. i - 1 : /\ j \in 1 .. Len(inbox'[c])
                                /\ j # Len(inbox[c]) + 1
                                /\ j \in 1 .. Len(inbox[c])
      BY <1>2, <1>6, <2>1
    <2>3. \A j \in 1 .. i - 1 : inbox'[c][j] = inbox[c][j]
      BY <1>1, <2>2, Grown
    <2> QED
      BY <1>3, <1>5, <2>2, <2>3 DEF Fits
  <1>7. client'[c] \notin {"got", "done"}
    BY <1>3 DEF Fits
  <1> QED
    BY <1>4, <1>6, <1>7 DEF Fits, Short, PORT

(* A short packet over a short text leaves a short one, and the greeting
   over a short text is the greeting. *)
LEMMA FitsReceived ==
  ASSUME NetTypes, FromPort, Raw, NEW c \in Clients, Fits(c),
         NEW to \in {"waiting", "got"}, ReceivePacket(c, to),
         to = "got" <=> Head(inbox[c]).dport = PORT
  PROVE  Fits(c)'
  <1>1. /\ inbox[c] \in Seq(Packets) /\ inbox[c] # <<>> /\ buf[c] \in Texts
        /\ client[c] = "waiting"
    BY DEF ReceivePacket, NetTypes
  <1>2. /\ client'[c] = to /\ srv' = srv /\ starts' = starts
        /\ inbox'[c] = IF to = "got" THEN <<>> ELSE Tail(inbox[c])
        /\ buf'[c] = Overlay(Head(inbox[c]).text, buf[c])
    BY DEF ReceivePacket, NetTypes, srvVars
  <1>3. Head(inbox[c]) = inbox[c][1] /\ 1 \in 1 .. Len(inbox[c])
        /\ Head(inbox[c]).text \in Texts
    BY <1>1, Shortening, HeadPacket
  <1>4. ToCome' => ToCome
    BY <1>2 DEF ToCome
  <1>5. CASE to = "got"
    <2>1. Short(buf[c]) /\ ~ToCome /\ Head(inbox[c]).text = Greeting
      BY <1>1, <1>3, <1>5 DEF Fits, FromPort, Delivered
    <2>2. buf'[c] = Greeting
      <3>1. Greeting \in Texts
        BY TextTypes
      <3> QED
        BY <1>1, <1>2, <2>1, <3>1, Overlaid
    <2>3. inbox'[c] = <<>> /\ ~ToCome' /\ Greeting' = Greeting
      BY <1>2, <1>4, <1>5, <2>1 DEF Greeting
    <2>4. \A i \in 1 .. Len(inbox'[c]) : FALSE
      BY <2>3
    <2> QED
      BY <2>2, <2>3, <2>4 DEF Fits
  <1>6. CASE to = "waiting"
    <2>1. inbox[c][1].dport # PORT /\ inbox'[c] = Tail(inbox[c])
      BY <1>2, <1>3, <1>6
    <2>2. ASSUME Short(buf[c]), Short(inbox[c][1].text) PROVE Short(buf'[c])
      BY <1>1, <1>2, <1>3, <2>2, Overlaid
    <2>3. ASSUME NEW i \in 1 .. Len(inbox'[c]), inbox'[c][i].dport = PORT
          PROVE  /\ Short(buf'[c])
                 /\ \A j \in 1 .. i - 1 : Short(inbox'[c][j].text)
      <3>1. i + 1 \in 1 .. Len(inbox[c]) /\ inbox[c][i + 1].dport = PORT
        BY <1>1, <2>1, <2>3, Shortening
      <3>2. /\ Short(buf[c])
            /\ \A j \in 1 .. (i + 1) - 1 : Short(inbox[c][j].text)
        BY <1>1, <3>1 DEF Fits
      <3>3. 1 \in 1 .. (i + 1) - 1
        BY <2>3
      <3>4. \A j \in 1 .. i - 1 : /\ j \in 1 .. Len(inbox'[c])
                                  /\ j + 1 \in 1 .. (i + 1) - 1
        BY <2>3
      <3>5. \A j \in 1 .. i - 1 : inbox'[c][j] = inbox[c][j + 1]
        BY <1>1, <2>1, <3>4, Shortening
      <3> QED
        BY <2>2, <3>2, <3>3, <3>4, <3>5
    <2>4. ASSUME ToCome'
          PROVE  /\ Short(buf'[c])
                 /\ \A i \in 1 .. Len(inbox'[c]) :
                      inbox'[c][i].dport # PORT /\ Short(inbox'[c][i].text)
      <3>1. /\ Short(buf[c])
            /\ \A i \in 1 .. Len(inbox[c]) :
                 inbox[c][i].dport # PORT /\ Short(inbox[c][i].text)
        BY <1>1, <1>4, <2>4 DEF Fits
      <3>2. \A i \in 1 .. Len(inbox'[c]) :
              inbox'[c][i].dport # PORT /\ Short(inbox'[c][i].text)
        BY <1>1, <2>1, <3>1, Shortening
      <3> QED
        BY <1>3, <2>2, <3>1, <3>2
    <2> QED
      BY <1>2, <1>6, <2>3, <2>4 DEF Fits, Short, PORT
  <1> QED
    BY <1>5, <1>6

(* A client that has answered listens no more. *)
LEMMA FitsAnswered ==
  ASSUME NetTypes, NEW p \in Packets, Reaches(p), p.dport # PORT,
         NEW c \in Clients, Fits(c), ~ToCome', client[c] = "got",
         client'[c] = "done", buf'[c] = buf[c]
  PROVE  Fits(c)'
  <1>1. \A i \in 1 .. Len(inbox'[c]) : inbox'[c][i].dport = PORT =>
          \A j \in 1 .. i - 1 : Short(inbox'[c][j].text)
    BY OldGreetings
  <1>2. buf'[c] = Greeting /\ Greeting' = Greeting
    BY DEF Fits, Greeting
  <1> QED
    BY <1>1, <1>2 DEF Fits, Short, PORT

(* IsPrefix, by its first two pieces. *)
LEMMA BeginsIsPrefix ==
  ASSUME NEW b \in Texts, Begins(b)
  PROVE  IsPrefix(Greeting, b)
  <1>1. Len(Greeting) = 2 /\ Len(b) \in Nat /\ Len(b) >= 2 /\ Greeting \in Texts
    BY TextTypes DEF Begins, Texts
  <1>2. SubSeq(Greeting, 1, 2) = Greeting
    BY <1>1, SubSeqFull DEF Texts
  <1>3. SubSeq(b, 1, 2) = Greeting
    <2> DEFINE s == SubSeq(b, 1, 2)
    <2>1. \A i \in 1 .. 2 : b[i] \in Pieces
      BY <1>1 DEF Texts
    <2>2. /\ s \in Seq(Pieces) /\ Len(s) = 2
          /\ \A i \in 1 .. 2 : s[i] = b[i]
      BY <2>1, SubSeqProperties
    <2>3. \A i \in 1 .. 2 : s[i] = Greeting[i]
      BY <2>2, TextTypes DEF Begins
    <2> HIDE DEF s
    <2>4. s = Greeting
      BY <1>1, <2>2, <2>3, SeqEqual DEF Texts
    <2> QED
      BY <2>4 DEF s
  <1> QED
    BY <1>1, <1>2, <1>3 DEF IsPrefix

(* With one start and no other program, every step keeps Fits. *)
LEMMA FitsNext ==
  ASSUME NetTypes, FromPort, OneStart, \A c \in Clients : Fits(c),
         [DgramNext]_dgramVars,
         OneStart'
  PROVE  \A d \in Clients : Fits(d)'
  <1> USE DEF cfgVars, netVars, srvVars, clientVars
  <1>0. Raw /\ starts <= 1 /\ starts \in Nat
    BY DEF OneStart, NetTypes
  <1>1. ASSUME client' = client, inbox' = inbox, buf' = buf,
               ToCome' => ToCome
        PROVE  \A d \in Clients : Fits(d)'
    BY <1>1, FitsSame
  <1>2. CASE StartServer
    <2>1. starts = 0
      BY <1>0, <1>2 DEF StartServer, OneStart
    <2> QED
      BY <1>1, <1>2, <2>1 DEF StartServer, ToCome
  <1>3. CASE RecvFirst \/ RecvSecond \/ handle_sigint \/ UNCHANGED dgramVars
    BY <1>1, <1>3 DEF RecvFirst, RecvSecond, handle_sigint, dgramVars, ToCome
  <1>4. CASE Greet
    <2>1. ToCome /\ starts > 0
      BY <1>4 DEF Greet, ToCome, FromPort
    <2> QED
      BY <1>4, <2>1, FitsGreeted
  <1>5. CASE Foreign
    BY <1>5 DEF Foreign, OneStart, NetTypes
  <1>6. ASSUME NEW c \in Clients, OpenSocket(c) \/ SendFails(c)
        PROVE  \A d \in Clients : Fits(d)'
    <2>1. /\ inbox' = inbox /\ buf' = buf /\ (ToCome' => ToCome)
          /\ \A d \in Clients : client'[d] = client[d]
                                \/ client'[d] \in {"open", "failed"}
      BY <1>6 DEF OpenSocket, SendFails, ToCome, NetTypes
    <2> QED
      BY <2>1, FitsSame
  <1>7. ASSUME NEW c \in Clients, NEW p, Sends(c, p)
        PROVE  \A d \in Clients : Fits(d)'
    <2>1. /\ p \in Packets /\ Reaches(p) /\ p.dport # PORT
          /\ Short(p.text)
      BY <1>7, Transmitted, DistinctPorts, TextTypes
         DEF Sends, SendFirst, FromClient, Short
    <2>2. /\ ToCome' => ToCome
          /\ client'[c] = "waiting" /\ buf'[c] = <<>>
          /\ \A d \in Clients : d # c => /\ client'[d] = client[d]
                                         /\ buf'[d] = buf[d]
      BY <1>0, <1>7 DEF Sends, SendFirst, NetTypes, ToCome, Raw
    <2> QED
      BY <2>1, <2>2, FitsBeside
  <1>8. ASSUME NEW c \in Clients, NEW p, Answers(c, p)
        PROVE  \A d \in Clients : Fits(d)'
    <2>1. p \in Packets /\ Reaches(p) /\ p.dport # PORT
      BY <1>8, Transmitted, DistinctPorts DEF Answers, Answer, FromClient
    <2>2. /\ client[c] = "got" /\ client'[c] = "done" /\ buf' = buf
          /\ srv' = srv /\ starts' = starts
          /\ \A d \in Clients : d # c => client'[d] = client[d]
      BY <1>8 DEF Answers, Answer, NetTypes
    <2>3. ~ToCome /\ ~ToCome'
      BY <2>2 DEF Fits, ToCome
    <2>4. ASSUME NEW d \in Clients, d # c PROVE Fits(d)'
      BY <2>1, <2>2, <2>3, <2>4, FitsBeside
    <2>5. Fits(c)'
      BY <2>1, <2>2, <2>3, FitsAnswered
    <2> QED
      BY <2>4, <2>5
  <1>9. ASSUME NEW c \in Clients, NEW to \in {"waiting", "got"},
               ReceivePacket(c, to), to = "got" <=> Head(inbox[c]).dport = PORT
        PROVE  \A d \in Clients : Fits(d)'
    <2>1. Fits(c)'
      BY <1>0, <1>9, FitsReceived
    <2>2. /\ ToCome' => ToCome
          /\ \A d \in Clients : d # c => /\ client'[d] = client[d]
                                         /\ buf'[d] = buf[d]
                                         /\ inbox'[d] = inbox[d]
      BY <1>9 DEF ReceivePacket, NetTypes, ToCome
    <2>3. ASSUME NEW d \in Clients, d # c PROVE Fits(d)'
      BY <2>2, <2>3, FitsSame
    <2> QED
      BY <2>1, <2>3
  <1>10. ASSUME NEW c \in Clients, RecvRefused(c) PROVE FALSE
    BY <1>0, <1>10 DEF RecvRefused, FromPort
  <1>11. ASSUME NEW c \in Clients, DgramClientSteps(c)
         PROVE  \A d \in Clients : Fits(d)'
    <2>1. CASE Ignore(c) /\ ReceivePacket(c, "waiting")
      <3>1. Head(inbox[c]).dport # PORT
        BY <2>1 DEF Ignore
      <3> QED
        BY <1>9, <2>1, <3>1
    <2>2. CASE ReceivePacket(c, "got") /\ Head(inbox[c]).dport = PORT
      BY <1>9, <2>2
    <2>3. CASE \E p : Sends(c, p)
      BY <1>7, <2>3
    <2>4. CASE \E p : Answers(c, p)
      BY <1>8, <2>4
    <2>5. CASE SendFails(c) \/ RecvRefused(c)
      BY <1>6, <1>10, <2>5
    <2> QED
      BY <1>0, <1>11, <2>1, <2>2, <2>3, <2>4, <2>5, ClientCases, Zenon
  <1> QED
    BY <1>2, <1>3, <1>4, <1>5, <1>6, <1>11 DEF DgramNext, DgramServerSteps

(* The invariant of the echo holds at the start. *)
LEMMA EchoInit == DgramInit => EchoInv
  <1> SUFFICES ASSUME DgramInit PROVE EchoInv
    OBVIOUS
  <1>1. NetTypes
    BY TypesInit
  <1>2. FromPort
    BY DEF DgramInit, FromPort, Delivered
  <1>3. WasGreeted
    BY DEF DgramInit, WasGreeted
  <1>4. \A c \in Clients : Fits(c)
    BY DEF DgramInit, Fits
  <1> QED
    BY <1>1, <1>2, <1>3, <1>4 DEF EchoInv

(* It is inductive. *)
LEMMA EchoNext == EchoInv /\ [DgramNext]_dgramVars => EchoInv'
  <1> SUFFICES ASSUME EchoInv, [DgramNext]_dgramVars PROVE EchoInv'
    OBVIOUS
  <1>1. NetTypes' /\ FromPort' /\ WasGreeted'
    BY TypesNext, PortNext, GreetedNext DEF EchoInv
  <1>2. OneStart' => OneStart
    <2>1. starts <= starts' /\ foreign <= foreign' /\ kind' = kind
      BY OnlyGrows DEF EchoInv
    <2>2. /\ starts \in Nat /\ starts' \in Nat
          /\ foreign \in Nat /\ foreign' \in Nat
      BY <1>1 DEF EchoInv, NetTypes
    <2> QED
      BY <2>1, <2>2 DEF OneStart, Raw
  <1>3. OneStart' => \A c \in Clients : Fits(c)'
    BY <1>2, FitsNext DEF EchoInv
  <1> QED
    BY <1>1, <1>3 DEF EchoInv

(* A raw client answers only when it was greeted, and with the greeting; and
   with nothing behind it unless the server was started again or another
   program's packet came, for any number of clients of any kind. *)
THEOREM EchoesGreetings == DgramSpec => []EchoIsGreeting
  <1>1. EchoInv => EchoIsGreeting
    <2> SUFFICES ASSUME EchoInv, kind # "plain", NEW c \in Clients,
                        client[c] \in {"got", "done"}
                 PROVE  /\ greeted[c] > 0 /\ IsPrefix(Greeting, buf[c])
                        /\ buf[c] # Greeting => starts > 1 \/ foreign > 0
      BY DEF EchoIsGreeting
    <2>1. greeted[c] > 0 /\ Begins(buf[c]) /\ buf[c] \in Texts
      BY DEF EchoInv, WasGreeted, Raw, NetTypes
    <2>2. IsPrefix(Greeting, buf[c])
      BY <2>1, BeginsIsPrefix
    <2>3. starts \in Nat /\ foreign \in Nat
      BY DEF EchoInv, NetTypes
    <2>4. starts <= 1 /\ foreign = 0 => buf[c] = Greeting
      BY DEF EchoInv, OneStart, Raw, Fits
    <2> QED
      BY <2>1, <2>2, <2>3, <2>4
  <1> QED
    BY <1>1, EchoInit, EchoNext, PTL DEF DgramSpec

(* Only a client's packet reaches the server's port. *)
LEMMA ServerUnreached ==
  ASSUME NetTypes, ToServer, Greet \/ Foreign
  PROVE  squeue' = squeue
  <1>1. Here # SrvHost
    BY DEF Here, SrvHost
  <1>2. CASE Greet
    <2>1. peer.host = Here \/ peer.port = PORT
      BY <1>2 DEF Greet, ToServer
    <2>2. GreetPacket.dst = peer.host /\ GreetPacket.dport = peer.port
      BY DEF GreetPacket
    <2> QED
      BY <1>1, <1>2, <2>1, <2>2, ServerTransmits, DistinctPorts DEF Reaches
  <1>3. CASE Foreign
    BY <1>3, ServerTransmits, DistinctPorts DEF Reaches
  <1> QED
    BY <1>2, <1>3

(* Every step keeps that. *)
LEMMA ToServerNext ==
  NetTypes /\ ToServer /\ [DgramNext]_dgramVars => ToServer'
  <1> SUFFICES ASSUME NetTypes, ToServer, [DgramNext]_dgramVars PROVE ToServer'
    OBVIOUS
  <1> USE DEF cfgVars, netVars, srvVars, clientVars
  <1>1. ASSUME squeue' = squeue \/ squeue' = <<>>,
               srv' = "greet" => srv = "greet" /\ peer' = peer
        PROVE  ToServer'
    BY <1>1 DEF ToServer
  <1>2. CASE StartServer \/ RecvSecond \/ handle_sigint \/ UNCHANGED dgramVars
    BY <1>1, <1>2 DEF StartServer, RecvSecond, handle_sigint, dgramVars
  <1>3. CASE RecvFirst
    <2>1. squeue \in Seq(Packets) /\ squeue # <<>>
      BY <1>3 DEF RecvFirst, NetTypes
    <2>2. /\ squeue' = Tail(squeue)
          /\ peer' = [host |-> Head(squeue).src, port |-> Head(squeue).sport]
      BY <1>3 DEF RecvFirst
    <2> QED
      BY <2>1, <2>2, Shortening DEF ToServer
  <1>4. CASE Greet \/ Foreign
    <2>1. squeue' = squeue
      BY <1>4, ServerUnreached
    <2> QED
      BY <1>1, <1>4, <2>1 DEF Greet, Foreign
  <1>5. ASSUME NEW c \in Clients, NEW p, Sends(c, p) \/ Answers(c, p)
        PROVE  ToServer'
    <2>1. /\ p \in Packets /\ Reaches(p)
          /\ p.src = Here \/ p.sport = PORT
      BY <1>5, Transmitted DEF Sends, SendFirst, Answers, Answer, FromClient
    <2>2. srv' = srv /\ peer' = peer
      BY <1>5 DEF Sends, SendFirst, Answers, Answer
    <2> QED
      BY <2>1, <2>2, QueueGrown DEF ToServer
  <1>6. ASSUME NEW c \in Clients,
               OpenSocket(c) \/ SendFails(c) \/ RecvRefused(c)
                 \/ ReceivePacket(c, "waiting") \/ ReceivePacket(c, "got")
        PROVE  ToServer'
    BY <1>1, <1>6 DEF OpenSocket, SendFails, RecvRefused, ReceivePacket
  <1> QED
    BY <1>2, <1>3, <1>4, <1>5, <1>6, ClientCases DEF DgramNext, DgramServerSteps

(* A client that has started stays started. *)
LEMMA StillAtMostOne ==
  ASSUME NetTypes, [DgramNext]_dgramVars, AtMostOne'
  PROVE  AtMostOne
  <1> USE DEF cfgVars, netVars, srvVars, clientVars
  <1>1. ASSUME NEW c \in Clients, NEW p, Sends(c, p) \/ Answers(c, p)
        PROVE  \A d \in Clients : client[d] # "off" => client'[d] # "off"
    BY <1>1 DEF Sends, SendFirst, Answers, Answer, NetTypes
  <1>2. ASSUME NEW c \in Clients,
               OpenSocket(c) \/ SendFails(c) \/ RecvRefused(c)
                 \/ ReceivePacket(c, "waiting") \/ ReceivePacket(c, "got")
        PROVE  \A d \in Clients : client[d] # "off" => client'[d] # "off"
    BY <1>2 DEF OpenSocket, SendFails, RecvRefused, ReceivePacket, NetTypes
  <1>3. CASE UNCHANGED client
    BY <1>3 DEF AtMostOne
  <1>4. CASE \E c \in Clients : OpenSocket(c) \/ DgramClientSteps(c)
    <2>1. \A d \in Clients : client[d] # "off" => client'[d] # "off"
      BY <1>1, <1>2, <1>4, ClientCases
    <2> QED
      BY <2>1 DEF AtMostOne
  <1> QED
    BY <1>3, <1>4
       DEF DgramNext, DgramServerSteps, StartServer, RecvFirst, Greet,
           RecvSecond, handle_sigint, Foreign, dgramVars

(* With one client, every step keeps the turns: its answer comes after its
   first byte was received, for a greeting is in between. *)
LEMMA InTurnNext ==
  ASSUME NetTypes, ToServer, InTurn, AtMostOne, [DgramNext]_dgramVars
  PROVE  InTurn'
  <1> USE DEF cfgVars, netVars, srvVars, clientVars
  <1> DEFINE NoneSent == \A d \in Clients : client[d] \in {"off", "open"}
  <1>1. ASSUME squeue' = squeue \/ squeue' = <<>>, heard' = heard,
               srv' = srv \/ srv' \in {"down", "first"},
               NoneSent' => NoneSent
        PROVE  InTurn'
    BY <1>1 DEF InTurn
  <1>2. CASE StartServer \/ handle_sigint \/ UNCHANGED dgramVars
    BY <1>1, <1>2 DEF StartServer, handle_sigint, dgramVars
  <1>3. CASE RecvFirst
    <2>1. squeue \in Seq(Packets) /\ squeue # <<>> /\ Len(squeue) \in Nat
      BY <1>3 DEF RecvFirst, NetTypes
    <2>2. squeue' = Tail(squeue) /\ heard' = heard /\ client' = client
      BY <1>3 DEF RecvFirst
    <2>3. \A i \in 1 .. Len(Tail(squeue)) : IsAnswer(Tail(squeue)[i].text)
      <3>1. ASSUME NEW i \in 1 .. Len(Tail(squeue))
            PROVE  IsAnswer(Tail(squeue)[i].text)
        <4>1. /\ i + 1 \in 1 .. Len(squeue)
              /\ Tail(squeue)[i] = squeue[i + 1]
          BY <2>1, Shortening
        <4>2. i + 1 \in 2 .. Len(squeue)
          BY <2>1, <4>1
        <4> QED
          BY <4>1, <4>2 DEF InTurn
      <3> QED
        BY <3>1
    <2>4. ~NoneSent'
      BY <2>1, <2>2 DEF InTurn
    <2> QED
      BY <2>2, <2>3, <2>4 DEF InTurn
  <1>4. CASE Greet
    <2>1. squeue' = squeue /\ heard' = heard /\ client' = client
          /\ srv = "greet" /\ srv' = "second"
      BY <1>4, ServerUnreached DEF Greet
    <2> QED
      BY <2>1 DEF InTurn
  <1>5. CASE RecvSecond
    <2>1. /\ squeue \in Seq(Packets) /\ squeue # <<>>
          /\ heard \in Seq(Texts) /\ Head(squeue).text \in Texts
      BY <1>5, HeadPacket DEF RecvSecond, NetTypes
    <2>2. IsAnswer(Head(squeue).text)
      BY <1>5, <2>1, Shortening DEF RecvSecond, InTurn
    <2>3. /\ heard' = Append(heard, Head(squeue).text)
          /\ squeue' = <<>> /\ srv' = "down"
      BY <1>5 DEF RecvSecond
    <2>4. \A i \in 1 .. Len(heard') : IsAnswer(heard'[i])
      BY <2>1, <2>2, <2>3 DEF InTurn
    <2> QED
      BY <2>3, <2>4 DEF InTurn
  <1>6. CASE Foreign
    <2>1. squeue' = squeue
      BY <1>6, ServerUnreached
    <2> QED
      BY <1>1, <1>6, <2>1 DEF Foreign
  <1>7. ASSUME NEW c \in Clients, NEW p, Sends(c, p) PROVE InTurn'
    <2>1. /\ p \in Packets /\ Reaches(p) /\ heard' = heard /\ srv' = srv
          /\ client[c] = "open" /\ client'[c] = "waiting"
      BY <1>7, Transmitted DEF Sends, SendFirst, FromClient, NetTypes
    <2>2. NoneSent
      BY <2>1 DEF AtMostOne
    <2>3. squeue = <<>> /\ srv \in {"down", "first"}
      BY <2>2 DEF InTurn
    <2>4. \A i \in 1 .. Len(squeue') : i = 1
      BY <2>1, <2>3, QueueGrown
    <2>5. Len(squeue') \in Nat
      BY <2>1 DEF Reaches
    <2> QED
      BY <2>1, <2>3, <2>4, <2>5 DEF InTurn
  <1>8. ASSUME NEW c \in Clients, NEW p, Answers(c, p) PROVE InTurn'
    <2>1. /\ p \in Packets /\ Reaches(p) /\ heard' = heard /\ srv' = srv
          /\ client'[c] = "done" /\ IsAnswer(p.text)
      BY <1>8, Transmitted DEF Answers, Answer, FromClient, NetTypes
    <2>2. Len(squeue') \in Nat /\ Len(squeue) \in Nat
      BY <2>1 DEF Reaches, NetTypes
    <2>3. \A i \in 1 .. Len(squeue') :
            \/ i \in 1 .. Len(squeue) /\ squeue'[i] = squeue[i]
            \/ squeue'[i] = p
      BY <2>1, QueueGrown
    <2> QED
      BY <2>1, <2>2, <2>3 DEF InTurn
  <1>9. ASSUME NEW c \in Clients,
               OpenSocket(c) \/ SendFails(c) \/ RecvRefused(c)
                 \/ ReceivePacket(c, "waiting") \/ ReceivePacket(c, "got")
        PROVE  InTurn'
    <2>1. squeue' = squeue /\ heard' = heard /\ srv' = srv
      BY <1>9 DEF OpenSocket, SendFails, RecvRefused, ReceivePacket
    <2>2. NoneSent' => NoneSent
      BY <1>9 DEF OpenSocket, SendFails, RecvRefused, ReceivePacket, NetTypes
    <2> QED
      BY <1>1, <2>1, <2>2
  <1> QED
    BY <1>2, <1>3, <1>4, <1>5, <1>6, <1>7, <1>8, <1>9, ClientCases
       DEF DgramNext, DgramServerSteps

(* The invariant of a lone client holds at the start. *)
LEMMA LoneInit == DgramInit => LoneInv
  <1> SUFFICES ASSUME DgramInit PROVE LoneInv
    OBVIOUS
  <1>1. squeue = <<>> /\ heard = <<>> /\ srv = "down"
    BY Zenon DEF DgramInit
  <1> QED
    BY <1>1, TypesInit DEF LoneInv, ToServer, InTurn

(* It is inductive: who is alone now was alone before. *)
LEMMA LoneNext == LoneInv /\ [DgramNext]_dgramVars => LoneInv'
  <1> SUFFICES ASSUME LoneInv, [DgramNext]_dgramVars PROVE LoneInv'
    OBVIOUS
  <1>1. NetTypes' /\ ToServer'
    BY TypesNext, ToServerNext DEF LoneInv
  <1>2. AtMostOne' => InTurn'
    BY StillAtMostOne, InTurnNext DEF LoneInv
  <1> QED
    BY <1>1, <1>2 DEF LoneInv

(* At most one client has started, by the count and by the clients. *)
LEMMA LoneByCount ==
  Cardinality({c \in Clients : client[c] # "off"}) <= 1 => AtMostOne
  <1> DEFINE started == {c \in Clients : client[c] # "off"}
  <1> SUFFICES ASSUME Cardinality(started) <= 1,
                      NEW c \in started, NEW d \in started, c # d
               PROVE  FALSE
    BY DEF AtMostOne
  <1>1. IsFiniteSet(Clients)
    BY DatagramExchangeAssumption
  <1>2. IsFiniteSet(started)
    BY <1>1, FS_Subset
  <1>3. {c} \subseteq started /\ {c, d} \subseteq started
    OBVIOUS
  <1>4. Cardinality({c}) = 1 /\ IsFiniteSet({c})
    BY FS_Singleton
  <1>5. Cardinality({c} \cup {d}) = 2
    BY <1>4, FS_AddElement
  <1>6. {c} \cup {d} = {c, d}
    OBVIOUS
  <1>7. Cardinality({c, d}) <= Cardinality(started)
    BY <1>2, <1>3, FS_Subset
  <1>8. Cardinality(started) \in Nat
    BY <1>2, FS_CardinalityType
  <1> HIDE DEF started
  <1> QED
    BY <1>5, <1>6, <1>7, <1>8

(* What the server shows of a client that is alone is the client's answer, and
   never its first byte, however often the server is started or interrupted. *)
THEOREM LoneHeard == DgramSpec => []LoneClientIsHeard
  <1>1. LoneInv => LoneClientIsHeard
    <2> SUFFICES ASSUME LoneInv, AtMostOne, NEW i \in DOMAIN heard
                 PROVE  Last(heard[i]) \in {Last(Smile), Last(Line)}
      BY LoneByCount DEF LoneClientIsHeard
    <2>1. i \in 1 .. Len(heard)
      BY DEF LoneInv, NetTypes
    <2>2. IsAnswer(heard[i])
      BY <2>1 DEF LoneInv, InTurn
    <2>3. Last(Smile) = "=)" /\ Last(Line) = "line"
      BY TextTypes DEF Last
    <2> QED
      BY <2>2, <2>3 DEF Last, IsAnswer
  <1> QED
    BY <1>1, LoneInit, LoneNext, PTL DEF DgramSpec

=============================================================================
