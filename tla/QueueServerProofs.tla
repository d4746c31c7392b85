------------------------- MODULE QueueServerProofs -------------------------
(***************************************************************************)
(* Theorems about sokets2/3scheme for any number of clients, workers,      *)
(* descriptors, starts and places in the queue.                            *)
(***************************************************************************)
EXTENDS QueueServer, SequenceTheorems, TLAPS

(* A client is in one place: it has not connected, waits in the backlog, or
   has one descriptor.  Only the last can have been greeted. *)
Places ==
  /\ \A f, g \in Fds : fdtab[f] # Free /\ fdtab[f] = fdtab[g] => f = g
  /\ \A i, j \in 1 .. Len(backlog) : backlog[i] = backlog[j] => i = j
  /\ \A i \in 1 .. Len(backlog) :
       greets[backlog[i]] = 0 /\ \A f \in Fds : fdtab[f] # backlog[i]
  /\ \A c \in Clients : client[c] = "new" =>
       /\ greets[c] = 0
       /\ \A f \in Fds : fdtab[f] # c
       /\ \A i \in 1 .. Len(backlog) : backlog[i] # c

(* Main and the workers name a descriptor wherever they use one. *)
Holding == /\ main = "msgsnd" => buf \in Fds
           /\ \A w \in Workers : work[w] # "msgrcv" => temp_fd[w] \in Fds

Typed == TypeOK /\ Holding

Down ==
  ~Up => /\ fdtab = [f \in Fds |-> Free]
         /\ work = [w \in Workers |-> "msgrcv"]

(* A descriptor on its way to a send belongs to a client not greeted yet. *)
Ungreeted(f) == f \in Fds /\ fdtab[f] # Free /\ greets[fdtab[f]] = 0

(* It is on its way only once: in main's buffer, at one place of the queue,
   or with one worker. *)
OnTheWay ==
  /\ main = "msgsnd" =>
       /\ Ungreeted(buf)
       /\ \A i \in 1 .. Len(queue) : queue[i] # buf
       /\ \A w \in Workers : work[w] = "send" => temp_fd[w] # buf
  /\ \A i \in 1 .. Len(queue) :
       /\ Ungreeted(queue[i])
       /\ \A j \in 1 .. Len(queue) : queue[i] = queue[j] => i = j
       /\ \A w \in Workers : work[w] = "send" => temp_fd[w] # queue[i]
  /\ \A w \in Workers : work[w] = "send" =>
       /\ Ungreeted(temp_fd[w])
       /\ \A v \in Workers :
            work[v] = "send" /\ temp_fd[v] = temp_fd[w] => v = w

(* The inductive invariant.  A descriptor that an earlier process left on the
   queue may be any number, hence the condition on the second half. *)
QueueInv == /\ Typed /\ Places /\ Down
            /\ Up /\ fresh => OnTheWay
            /\ GreetedOnce

LEMMA QueueInit == Init => QueueInv
  <1> SUFFICES ASSUME Init PROVE QueueInv
    OBVIOUS
  <1> USE QueueServerAssumption DEF QueueServerAssumption
  <1>1. /\ greets = [c \in Clients |-> 0] /\ fdtab = [f \in Fds |-> Free]
        /\ backlog = <<>> /\ queue = <<>>
        /\ client = [c \in Clients |-> "new"]
        /\ work = [w \in Workers |-> "msgrcv"]
        /\ ~Up /\ main = "down"
    BY Zenon DEF Init, ClientInit, Up
  <1>2. ClientTypeOK
    BY DEF Init, ClientInit, ClientTypeOK
  <1>3. /\ starts \in 0 .. MaxStarts /\ greets \in [Clients -> Nat]
        /\ Len(queue) <= QueueMax /\ queue \in Seq(Fds)
    BY <1>1 DEF Init
  <1>4. /\ temp_fd \in [Workers -> Fds \cup {NoFd}]
        /\ buf \in Fds \cup {NoFd}
        /\ path \in BOOLEAN /\ fresh \in BOOLEAN
        /\ killed \subseteq Clients /\ heard \subseteq Clients
    BY Zenon DEF Init
  <1>5. TypeOK
    BY <1>1, <1>2, <1>3, <1>4 DEF TypeOK
  <1>6. Holding /\ Down /\ GreetedOnce
    BY <1>1 DEF Holding, Down, GreetedOnce
  <1>7. Places
    <2>1. Free \notin Clients
      BY FreeAssumption
    <2>2. Len(backlog) = 0
      BY <1>1
    <2> QED
      BY <1>1, <2>1, <2>2 DEF Places
  <1> QED
    BY <1>1, <1>5, <1>6, <1>7 DEF QueueInv, Typed

-----------------------------------------------------------------------------
(* Types. *)

LEMMA TypeNext == Typed /\ [Next]_vars => Typed'
  <1> SUFFICES ASSUME Typed, [Next]_vars PROVE Typed'
    OBVIOUS
  <1> USE QueueServerAssumption
      DEF QueueServerAssumption, Typed, Holding, TypeOK, ClientTypeOK,
          clientVars, Becomes
  <1>1. CASE Start
    BY <1>1 DEF Start
  <1>2. ASSUME ProcessEnds, path' \in BOOLEAN PROVE Typed'
    BY <1>2 DEF ProcessEnds, HangUp
  <1>3. ASSUME Die PROVE Typed'
    BY <1>2, <1>3 DEF Die
  <1>4. CASE Accept
    <2>1. Accepted \in Clients
      BY <1>4 DEF Accept, TakeConnection, Accepted
    <2>2. PICK f \in Fds : fdtab' = [fdtab EXCEPT ![f] = Accepted] /\ buf' = f
      BY <1>4 DEF Accept, FreeFds
    <2>3. backlog' \in Seq(Clients) /\ Len(backlog') <= Backlog
      BY <1>4 DEF Accept, TakeConnection
    <2> QED
      BY <1>4, <2>1, <2>2, <2>3 DEF Accept, TakeConnection
  <1>5. CASE MsgSnd
    BY <1>5 DEF MsgSnd
  <1>6. ASSUME NEW w \in Workers, Receive(w) PROVE Typed'
    <2>1. Head(queue) \in Fds
      BY <1>6 DEF Receive
    <2>2. queue' \in Seq(Fds) /\ Len(queue') <= QueueMax
      BY <1>6 DEF Receive
    <2> QED
      BY <1>6, <2>1, <2>2 DEF Receive
  <1>7. ASSUME NEW w \in Workers, Send(w) PROVE Typed'
    <2>1. Peer(w) \in Clients
      BY <1>7 DEF Send, Reachable, Peer
    <2> HIDE DEF Peer
    <2> QED
      BY <1>7, <2>1 DEF Send, Greet
  <1>8. ASSUME NEW w \in Workers, Recv(w) PROVE Typed'
    BY <1>8 DEF Recv, RecvReturns
  <1>9. ASSUME NEW c \in Clients, ClientConnects(c) PROVE Typed'
    BY <1>9 DEF ClientConnects, Connect, serverVars
  <1>10. ASSUME NEW c \in Clients, ClientMoves(c) PROVE Typed'
    <2> USE DEF ClientMoves, serverVars
    <2>1. CASE RecvGreeting(c)
      BY <1>10, <2>1 DEF RecvGreeting
    <2>2. CASE SendTime(c)
      BY <1>10, <2>2 DEF SendTime
    <2>3. CASE Exit(c)
      BY <1>10, <2>3 DEF Exit
    <2> QED
      BY <1>10, <2>1, <2>2, <2>3 DEF ClientStep
  <1>11. ASSUME NEW c \in Clients, ClientKilled(c) PROVE Typed'
    BY <1>11 DEF ClientKilled, Interrupt
  <1>12. CASE UNCHANGED vars
    BY <1>12 DEF vars, serverVars
  <1>13. CASE Signal
    <2>1. path' \in BOOLEAN
      BY <1>13, Zenon DEF Signal
    <2> QED
      BY <1>2, <1>13, <2>1, Zenon DEF Signal
  <1>14. AcceptFails \/ (\E w \in Workers : SendFails(w) \/ RecvErrs(w)) => Die
    BY DEF AcceptFails, SendFails, RecvErrs
  <1> QED
    BY <1>1, <1>3, <1>4, <1>5, <1>6, <1>7, <1>8, <1>9, <1>10, <1>11, <1>12,
       <1>13, <1>14
       DEF Next, Main, process

-----------------------------------------------------------------------------
(* A client is in one place. *)

LEMMA PlacesNext == QueueInv /\ [Next]_vars => Places'
  <1> SUFFICES ASSUME QueueInv, [Next]_vars PROVE Places'
    OBVIOUS
  <1> USE QueueServerAssumption, FreeAssumption
      DEF QueueServerAssumption, QueueInv, Typed, TypeOK, ClientTypeOK,
          clientVars, Becomes
  <1>1. ASSUME UNCHANGED <<fdtab, backlog, greets>>,
               \A c \in Clients : client'[c] = "new" => client[c] = "new"
        PROVE  Places'
    BY <1>1 DEF Places
  <1>2. CASE Start
    <2>1. fdtab = [f \in Fds |-> Free]
      BY <1>2 DEF Start, Down
    <2> QED
      BY <1>2, <2>1 DEF Start, Places
  <1>3. ASSUME ProcessEnds PROVE Places'
    <2>1. /\ fdtab' = [f \in Fds |-> Free] /\ greets' = greets
          /\ Len(backlog') = 0
      BY <1>3 DEF ProcessEnds, HangUp
    <2>2. \A c \in Clients : client'[c] = "new" => client[c] = "new"
      BY <1>3 DEF ProcessEnds, HangUp
    <2> QED
      BY <2>1, <2>2 DEF Places
  <1>4. CASE Accept
    <2>1. /\ Accepted \in Clients /\ Accepted = backlog[1]
          /\ Len(backlog') = Len(backlog) - 1 /\ Len(backlog) \in Nat
          /\ \A i \in 1 .. Len(backlog') : backlog'[i] = backlog[i + 1]
      BY <1>4 DEF Accept, TakeConnection, Accepted
    <2>2. PICK f \in Fds : fdtab' = [fdtab EXCEPT ![f] = Accepted]
      BY <1>4 DEF Accept, FreeFds
    <2>3. client' = client /\ greets' = greets
      BY <1>4 DEF Accept, TakeConnection
    <2>4. Len(backlog) > 0
      BY <2>1, <1>4 DEF Accept, TakeConnection
    <2>5. /\ \A i \in 1 .. Len(backlog') :
               /\ i + 1 \in 1 .. Len(backlog) /\ backlog[i + 1] # Accepted
               /\ backlog[i + 1] \in Clients
          /\ 1 \in 1 .. Len(backlog)
      BY <2>1, <2>4 DEF Places
    <2>6. ASSUME NEW g \in Fds
          PROVE  fdtab'[g] = IF g = f THEN Accepted ELSE fdtab[g]
      BY <2>2
    <2>7. \A g \in Fds : fdtab[g] # Accepted
      BY <2>1, <2>5 DEF Places
    <2>8. \A g, h \in Fds : fdtab'[g] # Free /\ fdtab'[g] = fdtab'[h] => g = h
      BY <2>6, <2>7 DEF Places
    <2>9. \A i, j \in 1 .. Len(backlog') : backlog'[i] = backlog'[j] => i = j
      <3>1. ASSUME NEW i \in 1 .. Len(backlog'), NEW j \in 1 .. Len(backlog'),
                   backlog'[i] = backlog'[j]
            PROVE  i = j
        <4>1. backlog[i + 1] = backlog[j + 1]
          BY <2>1, <3>1
        <4>2. i + 1 \in 1 .. Len(backlog) /\ j + 1 \in 1 .. Len(backlog)
          BY <2>5, <3>1
        <4>3. i + 1 = j + 1
          BY <4>1, <4>2, Zenon DEF Places
        <4> QED
          BY <4>3
      <3> QED
        BY <3>1
    <2>10. \A i \in 1 .. Len(backlog') :
             greets'[backlog'[i]] = 0 /\ \A g \in Fds : fdtab'[g] # backlog'[i]
      <3>1. ASSUME NEW i \in 1 .. Len(backlog')
            PROVE  /\ greets'[backlog'[i]] = 0
                   /\ \A g \in Fds : fdtab'[g] # backlog'[i]
        <4>1. backlog'[i] = backlog[i + 1] /\ i + 1 \in 1 .. Len(backlog)
          BY <2>1, <2>5
        <4>2. /\ greets[backlog[i + 1]] = 0
              /\ \A g \in Fds : fdtab[g] # backlog[i + 1]
          BY <4>1, Zenon DEF Places
        <4> QED
          BY <4>1, <4>2, <2>3, <2>5, <2>6, Zenon
      <3> QED
        BY <3>1
    <2>11. \A c \in Clients : client'[c] = "new" =>
             /\ greets'[c] = 0
             /\ \A g \in Fds : fdtab'[g] # c
             /\ \A i \in 1 .. Len(backlog') : backlog'[i] # c
      <3> SUFFICES ASSUME NEW c \in Clients, client'[c] = "new"
                   PROVE  /\ greets'[c] = 0
                          /\ \A g \in Fds : fdtab'[g] # c
                          /\ \A i \in 1 .. Len(backlog') : backlog'[i] # c
        OBVIOUS
      <3>1. /\ greets[c] = 0
            /\ \A g \in Fds : fdtab[g] # c
            /\ \A i \in 1 .. Len(backlog) : backlog[i] # c
        BY <2>3, Zenon DEF Places
      <3>2. backlog[1] # c
        BY <2>5, <3>1, Zenon
      <3>3. \A g \in Fds : fdtab'[g] # c
        BY <2>1, <2>6, <3>1, <3>2, Zenon
      <3>4. ASSUME NEW i \in 1 .. Len(backlog') PROVE backlog'[i] # c
        <4>1. backlog'[i] = backlog[i + 1] /\ i + 1 \in 1 .. Len(backlog)
          BY <2>1, <2>5, Zenon
        <4> QED
          BY <3>1, <4>1, Zenon
      <3> QED
        BY <2>3, <3>1, <3>3, <3>4, Zenon
    <2> QED
      BY <2>8, <2>9, <2>10, <2>11 DEF Places
  <1>5. ASSUME NEW w \in Workers, Send(w) PROVE Places'
    <2>1. Peer(w) \in Clients /\ temp_fd[w] \in Fds
      BY <1>5 DEF Send, Reachable, Peer, Holding
    <2>2. /\ UNCHANGED <<client, backlog, fdtab>>
          /\ greets' = [greets EXCEPT ![Peer(w)] = greets[Peer(w)] + 1]
      BY <1>5 DEF Send, Greet
    <2>3. \A c \in Clients : greets'[c] # greets[c] => fdtab[temp_fd[w]] = c
      BY <2>1, <2>2 DEF Peer
    <2>4. \A c \in Clients :
            (\A f \in Fds : fdtab[f] # c) => greets'[c] = greets[c]
      BY <2>1, <2>3
    <2>5. \A i \in 1 .. Len(backlog) :
            greets[backlog[i]] = 0 /\ \A f \in Fds : fdtab[f] # backlog[i]
      BY Zenon DEF Places
    <2>6. \A i \in 1 .. Len(backlog) : greets'[backlog[i]] = 0
      <3>1. \A i \in 1 .. Len(backlog) : backlog[i] \in Clients
        OBVIOUS
      <3> QED
        BY <2>4, <2>5, <3>1, Zenon
    <2>7. ASSUME NEW c \in Clients, client'[c] = "new"
          PROVE  /\ greets'[c] = 0
                 /\ \A f \in Fds : fdtab[f] # c
                 /\ \A i \in 1 .. Len(backlog) : backlog[i] # c
      <3>1. client[c] = "new"
        BY <2>2, <2>7, Zenon
      <3>2. /\ greets[c] = 0
            /\ \A f \in Fds : fdtab[f] # c
            /\ \A i \in 1 .. Len(backlog) : backlog[i] # c
        BY <3>1, Zenon DEF Places
      <3> QED
        BY <2>4, <3>2, Zenon
    <2>8. /\ \A f, g \in Fds : fdtab[f] # Free /\ fdtab[f] = fdtab[g] => f = g
          /\ \A i, j \in 1 .. Len(backlog) : backlog[i] = backlog[j] => i = j
      BY Zenon DEF Places
    <2> HIDE DEF QueueInv, Typed, TypeOK, ClientTypeOK, clientVars, Becomes
    <2> QED
      BY <2>2, <2>5, <2>6, <2>7, <2>8, Zenon DEF Places
  <1>6. ASSUME NEW c \in Clients, ClientConnects(c) PROVE Places'
    <2>1. /\ Len(backlog') = Len(backlog) + 1 /\ Len(backlog) \in Nat
          /\ backlog'[Len(backlog) + 1] = c
          /\ \A i \in 1 .. Len(backlog) : backlog'[i] = backlog[i]
      BY <1>6 DEF ClientConnects, Connect
    <2>2. UNCHANGED <<fdtab, greets>> /\ client[c] = "new"
      BY <1>6 DEF ClientConnects, Connect, serverVars
    <2>3. client' = [client EXCEPT ![c] = "waiting"]
      BY <1>6 DEF ClientConnects, Connect
    <2>4. \A i \in 1 .. Len(backlog') :
            /\ i \in 1 .. Len(backlog) \/ i = Len(backlog) + 1
            /\ i = Len(backlog) + 1 <=> backlog'[i] = c
      <3>1. ASSUME NEW i \in 1 .. Len(backlog')
            PROVE  /\ i \in 1 .. Len(backlog) \/ i = Len(backlog) + 1
                   /\ i = Len(backlog) + 1 => backlog'[i] = c
          BY <2>1
      <3>2. ASSUME NEW i \in 1 .. Len(backlog)
            PROVE  backlog'[i] # c
        <4>1. backlog[i] # c
          BY <2>2, Zenon DEF Places
        <4> QED
          BY <2>1, <4>1
      <3> QED
        BY <3>1, <3>2
    <2>5. \A i, j \in 1 .. Len(backlog') : backlog'[i] = backlog'[j] => i = j
      <3>1. ASSUME NEW i \in 1 .. Len(backlog), NEW j \in 1 .. Len(backlog),
                   backlog'[i] = backlog'[j]
            PROVE  i = j
        <4>1. backlog[i] = backlog[j]
          BY <2>1, <3>1, Zenon
        <4> QED
          BY <4>1, Zenon DEF Places
      <3> QED
        BY <2>4, <3>1, Zenon
    <2>6. \A i \in 1 .. Len(backlog') :
            greets'[backlog'[i]] = 0 /\ \A f \in Fds : fdtab'[f] # backlog'[i]
      <3>1. ASSUME NEW i \in 1 .. Len(backlog)
            PROVE  /\ greets'[backlog'[i]] = 0
                   /\ \A f \in Fds : fdtab'[f] # backlog'[i]
        <4>1. greets[backlog[i]] = 0 /\ \A f \in Fds : fdtab[f] # backlog[i]
          BY Zenon DEF Places
        <4> HIDE DEF QueueInv, Typed, TypeOK, ClientTypeOK, clientVars, Becomes
        <4>2. backlog'[i] = backlog[i] /\ greets' = greets /\ fdtab' = fdtab
          BY <2>1, <2>2, Zenon
        <4> QED
          BY <4>1, <4>2, Zenon
      <3>2. greets'[c] = 0 /\ \A f \in Fds : fdtab'[f] # c
        BY <2>2, Zenon DEF Places
      <3> QED
        BY <2>4, <3>1, <3>2, Zenon
    <2>7. \A d \in Clients : client'[d] = "new" => client[d] = "new" /\ d # c
      BY <2>3
    <2>8. \A d \in Clients : client'[d] = "new" =>
            /\ greets'[d] = 0
            /\ \A f \in Fds : fdtab'[f] # d
            /\ \A i \in 1 .. Len(backlog') : backlog'[i] # d
      <3>1. ASSUME NEW d \in Clients, client'[d] = "new"
            PROVE  /\ greets'[d] = 0
                   /\ \A f \in Fds : fdtab'[f] # d
                   /\ \A i \in 1 .. Len(backlog) : backlog'[i] # d
        <4>1. client[d] = "new"
          BY <2>7, <3>1, Zenon
        <4>2. /\ greets[d] = 0
              /\ \A f \in Fds : fdtab[f] # d
              /\ \A i \in 1 .. Len(backlog) : backlog[i] # d
          BY <4>1, Zenon DEF Places
        <4>3. greets' = greets /\ fdtab' = fdtab
          BY <2>2, Zenon
        <4>4. \A i \in 1 .. Len(backlog) : backlog'[i] # d
          BY <2>1, <4>2, Zenon
        <4> QED
          BY <4>2, <4>3, <4>4, Zenon
      <3> QED
        BY <2>4, <2>7, <3>1, Zenon
    <2> QED
      BY <2>2, <2>5, <2>6, <2>8 DEF Places
  <1>7. ASSUME NEW c \in Clients, ClientMoves(c) \/ ClientKilled(c)
        PROVE  Places'
    <2>1. \A d \in Clients : client'[d] = "new" => client[d] = "new"
      BY <1>7 DEF ClientMoves, ClientKilled, ClientStep, RecvGreeting,
                  SendTime, Exit, Interrupt
    <2>2. UNCHANGED <<fdtab, backlog, greets>>
      BY <1>7 DEF ClientMoves, ClientKilled, ClientStep, RecvGreeting,
                  SendTime, Exit, Interrupt, serverVars
    <2> QED
      BY <1>1, <2>1, <2>2
  <1>8. ASSUME \/ MsgSnd \/ UNCHANGED vars
               \/ \E w \in Workers : Receive(w) \/ Recv(w)
        PROVE  Places'
    BY <1>1, <1>8 DEF MsgSnd, Receive, Recv, RecvReturns, vars, serverVars
  <1>9. ASSUME \/ Signal \/ AcceptFails
               \/ \E w \in Workers : SendFails(w) \/ RecvErrs(w)
        PROVE  ProcessEnds
    BY <1>9 DEF Signal, AcceptFails, SendFails, RecvErrs, Die
  <1> QED
    BY <1>1, <1>2, <1>3, <1>4, <1>5, <1>6, <1>7, <1>8, <1>9
       DEF Next, Main, process

LEMMA DownNext == QueueInv /\ [Next]_vars => Down'
  <1> SUFFICES ASSUME QueueInv, [Next]_vars PROVE Down'
    OBVIOUS
  <1>1. ASSUME ProcessEnds PROVE Down'
    BY <1>1 DEF ProcessEnds, Down
  <1>2. ASSUME Start \/ Accept \/ MsgSnd PROVE Down'
    BY <1>2 DEF Start, Accept, MsgSnd, Down, Up
  <1>3. ASSUME NEW w \in Workers, Receive(w) \/ Send(w) \/ Recv(w)
        PROVE  Down'
    <2>1. Up
      BY <1>3 DEF Receive, Send, Recv, QueueInv, Down
    <2>2. main' = main
      BY <1>3 DEF Receive, Send, Recv
    <2> QED
      BY <2>1, <2>2 DEF Down, Up
  <1>4. ASSUME \/ UNCHANGED vars
               \/ \E c \in Clients :
                    ClientConnects(c) \/ ClientMoves(c) \/ ClientKilled(c)
        PROVE  Down'
    <2>1. UNCHANGED <<main, fdtab, work>>
      BY <1>4 DEF ClientConnects, ClientMoves, ClientKilled, vars, serverVars
    <2> QED
      BY <2>1 DEF QueueInv, Down, Up
  <1>5. ASSUME \/ Signal \/ AcceptFails
               \/ \E w \in Workers : SendFails(w) \/ RecvErrs(w)
        PROVE  ProcessEnds
    BY <1>5 DEF Signal, AcceptFails, SendFails, RecvErrs, Die
  <1> QED
    BY <1>1, <1>2, <1>3, <1>4, <1>5 DEF Next, Main, process

-----------------------------------------------------------------------------
(* A descriptor is on its way once, and its client not greeted yet. *)

LEMMA AcceptOnTheWay ==
  ASSUME QueueInv, Accept, OnTheWay PROVE OnTheWay'
  <1> USE DEF QueueInv, Typed, TypeOK, ClientTypeOK
  <1>1. PICK f \in Fds : /\ fdtab[f] = Free
                         /\ fdtab' = [fdtab EXCEPT ![f] = Accepted]
                         /\ buf' = f
    BY DEF Accept, FreeFds
  <1>2. /\ UNCHANGED <<queue, work, temp_fd, greets>>
        /\ backlog # <<>> /\ Accepted = backlog[1]
    BY DEF Accept, TakeConnection, Accepted
  <1>3. greets[Accepted] = 0 /\ Accepted # Free
    <2>1. 1 \in 1 .. Len(backlog) /\ backlog[1] \in Clients
      BY <1>2
    <2> QED
      BY <1>2, <2>1, FreeAssumption, Zenon DEF Places
  <1>4. ASSUME NEW g, Ungreeted(g) PROVE Ungreeted(g)' /\ g # f
    BY <1>1, <1>2, <1>4 DEF Ungreeted
  <1>5. Ungreeted(f)'
    BY <1>1, <1>2, <1>3 DEF Ungreeted
  <1>6. /\ Ungreeted(buf)'
        /\ \A i \in 1 .. Len(queue') : queue'[i] # buf'
        /\ \A w \in Workers : work'[w] = "send" => temp_fd'[w] # buf'
    BY <1>1, <1>2, <1>4, <1>5, Zenon DEF OnTheWay, Ungreeted
  <1>7. ASSUME NEW i \in 1 .. Len(queue')
        PROVE  /\ Ungreeted(queue[i])'
               /\ \A j \in 1 .. Len(queue') : queue'[i] = queue'[j] => i = j
               /\ \A w \in Workers :
                    work'[w] = "send" => temp_fd'[w] # queue'[i]
    BY <1>2, <1>4, Zenon DEF OnTheWay, Ungreeted
  <1>8. ASSUME NEW w \in Workers, work'[w] = "send"
        PROVE  /\ Ungreeted(temp_fd[w])'
               /\ \A v \in Workers :
                    work'[v] = "send" /\ temp_fd'[v] = temp_fd'[w] => v = w
    BY <1>2, <1>4, <1>8, Zenon DEF OnTheWay, Ungreeted
  <1> QED
    BY <1>6, <1>7, <1>8, Zenon DEF OnTheWay, Ungreeted

LEMMA SendOnTheWay ==
  ASSUME NEW w \in Workers, QueueInv, Send(w), OnTheWay
  PROVE  OnTheWay' /\ greets[Peer(w)] = 0
  <1> USE DEF QueueInv, Typed, TypeOK, ClientTypeOK
  <1>1. /\ UNCHANGED <<main, buf, queue, temp_fd, fdtab>>
        /\ work[w] = "send"
        /\ work' = [work EXCEPT ![w] = "recv"]
        /\ greets' = [greets EXCEPT ![Peer(w)] = @ + 1]
    BY DEF Send
  <1>2. Ungreeted(temp_fd[w])
    BY <1>1, Zenon DEF OnTheWay
  <1>3. ASSUME NEW g, Ungreeted(g), g # temp_fd[w] PROVE Ungreeted(g)'
    <2>1. fdtab[g] # Peer(w)
      BY <1>2, <1>3, Zenon DEF Places, Peer, Ungreeted
    <2>2. fdtab[g] \in Clients
      BY <1>3 DEF Ungreeted
    <2> QED
      BY <1>1, <1>3, <2>1, <2>2 DEF Ungreeted
  <1>4. \A v \in Workers : work'[v] = "send" => work[v] = "send" /\ v # w
    BY <1>1
  <1>5. main' = "msgsnd" =>
        /\ Ungreeted(buf)'
        /\ \A i \in 1 .. Len(queue') : queue'[i] # buf'
        /\ \A v \in Workers : work'[v] = "send" => temp_fd'[v] # buf'
    BY <1>1, <1>3, <1>4, Zenon DEF OnTheWay, Ungreeted
  <1>6. ASSUME NEW i \in 1 .. Len(queue')
        PROVE  /\ Ungreeted(queue[i])'
               /\ \A j \in 1 .. Len(queue') : queue'[i] = queue'[j] => i = j
               /\ \A v \in Workers :
                    work'[v] = "send" => temp_fd'[v] # queue'[i]
    BY <1>1, <1>3, <1>4, Zenon DEF OnTheWay, Ungreeted
  <1>7. ASSUME NEW v \in Workers, work'[v] = "send"
        PROVE  /\ Ungreeted(temp_fd[v])'
               /\ \A u \in Workers :
                    work'[u] = "send" /\ temp_fd'[u] = temp_fd'[v] => u = v
    BY <1>1, <1>3, <1>4, <1>7, Zenon DEF OnTheWay, Ungreeted
  <1>8. OnTheWay'
    BY <1>5, <1>6, <1>7, Zenon DEF OnTheWay, Ungreeted
  <1> QED
    BY <1>2, <1>8 DEF Ungreeted, Peer

LEMMA MsgSndOnTheWay ==
  ASSUME QueueInv, MsgSnd, OnTheWay PROVE OnTheWay'
  <1> USE DEF QueueInv, Typed, TypeOK
  <1>1. /\ main = "msgsnd" /\ main' = "accept"
        /\ UNCHANGED <<work, temp_fd, greets, fdtab>>
    BY DEF MsgSnd
  <1>2. /\ Len(queue') = Len(queue) + 1 /\ Len(queue) \in Nat
        /\ queue'[Len(queue) + 1] = buf
        /\ \A i \in 1 .. Len(queue) : queue'[i] = queue[i]
    BY <1>1 DEF MsgSnd, Holding
  <1>3. \A i \in 1 .. Len(queue') :
          i \in 1 .. Len(queue) \/ i = Len(queue) + 1
    BY <1>2
  <1>4. ASSUME NEW i \in 1 .. Len(queue')
        PROVE  /\ Ungreeted(queue[i])'
               /\ \A w \in Workers :
                    work'[w] = "send" => temp_fd'[w] # queue'[i]
    <2>1. CASE i \in 1 .. Len(queue)
      <3>1. queue'[i] = queue[i]
        BY <1>2, <2>1
      <3>2. /\ Ungreeted(queue[i])
            /\ \A w \in Workers : work[w] = "send" => temp_fd[w] # queue[i]
        BY <2>1, Zenon DEF OnTheWay
      <3> QED
        BY <1>1, <3>1, <3>2, Zenon DEF Ungreeted
    <2>2. CASE i = Len(queue) + 1
      BY <1>1, <1>2, <2>2, Zenon DEF OnTheWay, Ungreeted
    <2> QED
      BY <1>3, <2>1, <2>2
  <1>5. ASSUME NEW i \in 1 .. Len(queue'), NEW j \in 1 .. Len(queue'),
               queue'[i] = queue'[j]
        PROVE  i = j
    <2>1. \A k \in 1 .. Len(queue) : queue'[k] # buf
      BY <1>1, <1>2, Zenon DEF OnTheWay
    <2>2. CASE i \in 1 .. Len(queue) /\ j \in 1 .. Len(queue)
      <3>1. queue[i] = queue[j]
        BY <1>2, <1>5, <2>2, Zenon
      <3> QED
        BY <2>2, <3>1, Zenon DEF OnTheWay
    <2> QED
      BY <1>2, <1>3, <1>5, <2>1, <2>2, Zenon
  <1> QED
    BY <1>1, <1>4, <1>5, Zenon DEF OnTheWay, Ungreeted

LEMMA ReceiveOnTheWay ==
  ASSUME NEW w \in Workers, QueueInv, Receive(w), OnTheWay PROVE OnTheWay'
  <1> USE DEF QueueInv, Typed, TypeOK
  <1>1. /\ UNCHANGED <<main, buf, greets, fdtab>>
        /\ temp_fd' = [temp_fd EXCEPT ![w] = queue[1]]
        /\ work' = [work EXCEPT ![w] = "send"]
    BY DEF Receive
  <1>2. /\ Len(queue') = Len(queue) - 1 /\ Len(queue) \in Nat \ {0}
        /\ \A i \in 1 .. Len(queue') : queue'[i] = queue[i + 1]
    BY DEF Receive
  <1>3. /\ 1 \in 1 .. Len(queue)
        /\ \A i \in 1 .. Len(queue') : i + 1 \in 1 .. Len(queue) /\ i + 1 # 1
    BY <1>2
  <1>4. \A f : Ungreeted(f) => Ungreeted(f)'
    BY <1>1 DEF Ungreeted
  <1>5. /\ temp_fd'[w] = queue[1]
        /\ \A v \in Workers : v # w => temp_fd'[v] = temp_fd[v]
        /\ \A v \in Workers : v # w => work'[v] = work[v]
    BY <1>1
  <1>6. main' = "msgsnd" =>
        /\ Ungreeted(buf)'
        /\ \A i \in 1 .. Len(queue') : queue'[i] # buf'
        /\ \A v \in Workers : work'[v] = "send" => temp_fd'[v] # buf'
    <2> SUFFICES ASSUME main' = "msgsnd"
                 PROVE  /\ Ungreeted(buf)'
                        /\ \A i \in 1 .. Len(queue') : queue'[i] # buf
                        /\ \A v \in Workers :
                             work'[v] = "send" => temp_fd'[v] # buf
      BY <1>1
    <2>1. /\ Ungreeted(buf)
          /\ \A i \in 1 .. Len(queue) : queue[i] # buf
          /\ \A v \in Workers : work[v] = "send" => temp_fd[v] # buf
      BY <1>1, Zenon DEF OnTheWay
    <2>2. Ungreeted(buf)'
      BY <1>1, <2>1, Zenon DEF Ungreeted
    <2>3. \A i \in 1 .. Len(queue') : queue'[i] # buf
      BY <1>2, <1>3, <2>1, Zenon
    <2>4. \A v \in Workers : work'[v] = "send" => temp_fd'[v] # buf
      BY <1>3, <1>5, <2>1, Zenon
    <2> QED
      BY <2>2, <2>3, <2>4
  <1>7. ASSUME NEW i \in 1 .. Len(queue')
        PROVE  /\ Ungreeted(queue[i])'
               /\ \A j \in 1 .. Len(queue') : queue'[i] = queue'[j] => i = j
               /\ \A v \in Workers :
                    work'[v] = "send" => temp_fd'[v] # queue'[i]
    <2>1. Ungreeted(queue[i])'
      <3>1. queue'[i] = queue[i + 1] /\ Ungreeted(queue[i + 1])
        BY <1>2, <1>3, Zenon DEF OnTheWay
      <3> QED
        BY <1>1, <3>1, Zenon DEF Ungreeted
    <2>2. ASSUME NEW j \in 1 .. Len(queue'), queue'[i] = queue'[j]
          PROVE  i = j
      <3>1. queue[i + 1] = queue[j + 1]
        BY <1>2, <2>2
      <3>2. i + 1 = j + 1
        BY <1>3, <3>1, Zenon DEF OnTheWay
      <3> QED
        BY <3>2
    <2>3. ASSUME NEW v \in Workers, work'[v] = "send"
          PROVE  temp_fd'[v] # queue'[i]
      <3>1. queue'[i] = queue[i + 1] /\ i + 1 \in 1 .. Len(queue) /\ i + 1 # 1
        BY <1>2, <1>3
      <3>2. CASE v = w
        BY <1>3, <1>5, <3>1, <3>2, Zenon DEF OnTheWay
      <3>3. CASE v # w
        <4>1. work[v] = "send" /\ temp_fd'[v] = temp_fd[v]
          BY <1>5, <2>3, <3>3, Zenon
        <4> QED
          BY <3>1, <4>1, Zenon DEF OnTheWay
      <3> QED
        BY <3>2, <3>3
    <2> QED
      BY <2>1, <2>2, <2>3
  <1>8. ASSUME NEW v \in Workers, work'[v] = "send"
        PROVE  /\ Ungreeted(temp_fd[v])'
               /\ \A u \in Workers :
                    work'[u] = "send" /\ temp_fd'[u] = temp_fd'[v] => u = v
    <2> HIDE DEF QueueInv, Typed, TypeOK
    <2>1. Ungreeted(queue[1])
      BY <1>3, Zenon DEF OnTheWay
    <2>2. ASSUME NEW u \in Workers, u # w, work'[u] = "send"
          PROVE  /\ Ungreeted(temp_fd[u])
                 /\ temp_fd'[u] = temp_fd[u] /\ temp_fd[u] # queue[1]
                 /\ \A x \in Workers :
                      work[x] = "send" /\ temp_fd[x] = temp_fd[u] => x = u
      <3>1. work[u] = "send" /\ temp_fd'[u] = temp_fd[u]
        BY <1>5, <2>2, Zenon
      <3>2. /\ Ungreeted(temp_fd[u])
            /\ \A x \in Workers :
                 work[x] = "send" /\ temp_fd[x] = temp_fd[u] => x = u
        BY <3>1, Zenon DEF OnTheWay
      <3>3. temp_fd[u] # queue[1]
        BY <1>3, <3>1, Zenon DEF OnTheWay
      <3> QED
        BY <3>1, <3>2, <3>3, Zenon
    <2>3. Ungreeted(temp_fd[v])'
      <3>1. CASE v = w
        <4>1. Ungreeted(temp_fd'[v])
          BY <1>5, <2>1, <3>1, Zenon
        <4> QED
          BY <1>1, <4>1, Zenon DEF Ungreeted
      <3>2. CASE v # w
        <4>1. Ungreeted(temp_fd'[v])
          BY <1>8, <2>2, <3>2, Zenon
        <4> QED
          BY <1>1, <4>1, Zenon DEF Ungreeted
      <3> QED
        BY <3>1, <3>2, Zenon
    <2>4. ASSUME NEW u \in Workers, work'[u] = "send",
                 temp_fd'[u] = temp_fd'[v]
          PROVE  u = v
      <3>1. CASE u = w \/ v = w
        BY <1>5, <1>8, <2>2, <2>4, <3>1, Zenon
      <3>2. CASE u # w /\ v # w
        <4>1. work[u] = "send"
          BY <1>5, <2>4, <3>2, Zenon
        <4>2. temp_fd[u] = temp_fd[v]
          BY <1>5, <2>4, <3>2, Zenon
        <4> QED
          BY <1>8, <2>2, <3>2, <4>1, <4>2, Zenon
      <3> QED
        BY <3>1, <3>2, Zenon
    <2> QED
      BY <2>3, <2>4, Zenon
  <1> QED
    BY <1>6, <1>7, <1>8, Zenon DEF OnTheWay, Ungreeted

(* A step that leaves descriptors, greetings and main alone, and puts nobody
   to a send. *)
LEMMA OtherOnTheWay ==
  ASSUME OnTheWay, UNCHANGED <<main, buf, queue, temp_fd, fdtab, greets>>,
         \A w \in Workers : work'[w] = "send" => work[w] = "send"
  PROVE  OnTheWay'
  BY DEF OnTheWay, Ungreeted

-----------------------------------------------------------------------------
LEMMA QueueNext == QueueInv /\ [Next]_vars => QueueInv'
  <1> SUFFICES ASSUME QueueInv, [Next]_vars
               PROVE  (Up /\ fresh => OnTheWay)' /\ GreetedOnce'
    BY TypeNext, PlacesNext, DownNext DEF QueueInv
  <1> USE DEF QueueInv
  <1>1. CASE Start
    <2>1. ASSUME fresh' PROVE OnTheWay'
      <3>1. main' = "accept" /\ Len(queue') = 0
        BY <1>1, <2>1 DEF Start
      <3>2. \A w \in Workers : work'[w] = "msgrcv"
        BY <1>1 DEF Start, Down
      <3> QED
        BY <3>1, <3>2 DEF OnTheWay
    <2>2. GreetedOnce'
      BY <1>1 DEF Start, GreetedOnce
    <2> QED
      BY <2>1, <2>2
  <1>2. ASSUME ProcessEnds
        PROVE  (Up /\ fresh => OnTheWay)' /\ GreetedOnce'
    BY <1>2 DEF ProcessEnds, Up, GreetedOnce
  <1>3. CASE Accept
    <2>1. UNCHANGED <<fresh, greets>> /\ Up
      BY <1>3 DEF Accept, Up
    <2> QED
      BY <1>3, <2>1, AcceptOnTheWay DEF GreetedOnce
  <1>4. CASE MsgSnd
    <2>1. UNCHANGED <<fresh, greets>> /\ Up
      BY <1>4 DEF MsgSnd, Up
    <2> QED
      BY <1>4, <2>1, MsgSndOnTheWay DEF GreetedOnce
  <1>5. ASSUME NEW w \in Workers, Receive(w)
        PROVE  (Up /\ fresh => OnTheWay)' /\ GreetedOnce'
    <2>1. UNCHANGED <<fresh, greets>> /\ Up
      BY <1>5 DEF Receive
    <2> QED
      BY <1>5, <2>1, ReceiveOnTheWay DEF GreetedOnce
  <1>6. ASSUME NEW w \in Workers, Send(w)
        PROVE  (Up /\ fresh => OnTheWay)' /\ GreetedOnce'
    <2>1. /\ fresh' = fresh /\ Up
          /\ greets' = [greets EXCEPT ![Peer(w)] = @ + 1]
      BY <1>6 DEF Send, Down
    <2>2. CASE fresh
      <3>1. OnTheWay' /\ greets[Peer(w)] = 0
        BY <1>6, <2>1, <2>2, SendOnTheWay
      <3>2. \A c \in Clients : greets[c] <= 1
        BY <2>2 DEF GreetedOnce
      <3> QED
        BY <2>1, <3>1, <3>2 DEF GreetedOnce, Typed, TypeOK
    <2>3. CASE ~fresh
      BY <2>1, <2>3 DEF GreetedOnce
    <2> QED
      BY <2>2, <2>3
  <1>7. ASSUME NEW w \in Workers, Recv(w)
        PROVE  (Up /\ fresh => OnTheWay)' /\ GreetedOnce'
    <2>1. /\ UNCHANGED <<main, buf, queue, temp_fd, fdtab, greets, fresh>>
          /\ work' = [work EXCEPT ![w] = "msgrcv"]
      BY <1>7 DEF Recv
    <2>2. \A v \in Workers : work'[v] = "send" => work[v] = "send"
      BY <2>1 DEF Typed, TypeOK
    <2> QED
      BY <2>1, <2>2, OtherOnTheWay DEF GreetedOnce, Up
  <1>8. ASSUME \/ UNCHANGED vars
               \/ \E c \in Clients :
                    ClientConnects(c) \/ ClientMoves(c) \/ ClientKilled(c)
        PROVE  (Up /\ fresh => OnTheWay)' /\ GreetedOnce'
    <2>1. UNCHANGED <<main, buf, queue, work, temp_fd, fdtab, greets, fresh>>
      BY <1>8 DEF ClientConnects, ClientMoves, ClientKilled, vars, serverVars
    <2> QED
      BY <2>1, OtherOnTheWay DEF GreetedOnce, Up
  <1>9. ASSUME \/ Signal \/ AcceptFails
               \/ \E w \in Workers : SendFails(w) \/ RecvErrs(w)
        PROVE  ProcessEnds
    BY <1>9 DEF Signal, AcceptFails, SendFails, RecvErrs, Die
  <1> QED
    BY <1>1, <1>2, <1>3, <1>4, <1>5, <1>6, <1>7, <1>8, <1>9
       DEF Next, Main, process

(* The state of sokets2/3scheme keeps its types through every start, signal
   and failure. *)
THEOREM TypeCorrect == Spec => []TypeOK
  <1>1. QueueInv => TypeOK
    BY DEF QueueInv, Typed
  <1> QED
    BY <1>1, QueueInit, QueueNext, PTL DEF Spec

(* Started on an empty queue, sokets2/3scheme greets no client twice, however
   many workers take from the queue and however often the server was started
   before. *)
THEOREM NobodyGreetedTwice == Spec => []GreetedOnce
  <1>1. QueueInv => GreetedOnce
    BY DEF QueueInv
  <1> QED
    BY <1>1, QueueInit, QueueNext, PTL DEF Spec

-----------------------------------------------------------------------------
(* Nobody is greeted who has left. *)

(* A connected client waits for its greeting, or was greeted once and has its
   greeting before it goes on. *)
InTurn(c) ==
  \/ greets[c] = 0 /\ inbox[c] = 0 /\ client[c] = "waiting"
  \/ greets[c] = 1 /\ inbox[c] = 1 /\ client[c] = "waiting"
  \/ greets[c] = 1 /\ inbox[c] = 0 /\ client[c] \in {"greeted", "sent", "left"}

Conversing ==
  /\ \A i \in 1 .. Len(backlog) :
       inbox[backlog[i]] = 0 /\ client[backlog[i]] = "waiting"
  /\ \A f \in Fds : fdtab[f] # Free => InTurn(fdtab[f])
  /\ \A w \in Workers : work[w] = "recv" => Peer(w) # Free

TurnInv == /\ \A c \in Clients : client[c] = "new" => inbox[c] = 0
           /\ ~Up => Len(backlog) = 0
           /\ Up /\ fresh /\ killed = {} => Conversing

LEMMA TurnInit == Init => TurnInv
  BY DEF Init, ClientInit, TurnInv, Up

LEMMA AcceptTurns ==
  ASSUME QueueInv, Accept, Conversing PROVE Conversing'
  <1> USE DEF QueueInv, Typed, TypeOK, ClientTypeOK
  <1>1. PICK f \in Fds : /\ fdtab[f] = Free
                         /\ fdtab' = [fdtab EXCEPT ![f] = Accepted]
    BY DEF Accept, FreeFds
  <1>2. UNCHANGED <<client, inbox, work, temp_fd, greets>>
    BY DEF Accept, TakeConnection
  <1>3. /\ Accepted = backlog[1] /\ 1 \in 1 .. Len(backlog)
        /\ \A i \in 1 .. Len(backlog') :
             i + 1 \in 1 .. Len(backlog) /\ backlog'[i] = backlog[i + 1]
    BY DEF Accept, TakeConnection, Accepted
  <1>4. greets[Accepted] = 0
    BY <1>3, Zenon DEF Places
  <1>5. ASSUME NEW i \in 1 .. Len(backlog')
        PROVE  inbox'[backlog'[i]] = 0 /\ client'[backlog'[i]] = "waiting"
    <2>1. backlog'[i] = backlog[i + 1] /\ i + 1 \in 1 .. Len(backlog)
      BY <1>3
    <2>2. inbox[backlog[i + 1]] = 0 /\ client[backlog[i + 1]] = "waiting"
      BY <2>1, Zenon DEF Conversing
    <2> QED
      BY <1>2, <2>1, <2>2
  <1>6. InTurn(Accepted)
    BY <1>3, <1>4, Zenon DEF Conversing, InTurn
  <1>7. \A g \in Fds : fdtab'[g] = IF g = f THEN Accepted ELSE fdtab[g]
    BY <1>1
  <1>8. ASSUME NEW g \in Fds, fdtab'[g] # Free PROVE InTurn(fdtab[g])'
    BY <1>2, <1>6, <1>7, <1>8, Zenon DEF Conversing, InTurn
  <1>9. ASSUME NEW w \in Workers, work'[w] = "recv" PROVE Peer(w)' # Free
    <2>1. Peer(w) # Free /\ temp_fd[w] \in Fds
      BY <1>2, <1>9 DEF Conversing, Holding
    <2> QED
      BY <1>1, <1>2, <1>7, <2>1 DEF Peer
  <1> QED
    BY <1>5, <1>8, <1>9, Zenon DEF Conversing

LEMMA SendTurns ==
  ASSUME NEW w \in Workers, QueueInv, Send(w), fresh, Conversing
  PROVE  Conversing'
  <1> USE DEF QueueInv, Typed, TypeOK, ClientTypeOK
  <1>1. /\ Up /\ work[w] = "send" /\ work' = [work EXCEPT ![w] = "recv"]
        /\ UNCHANGED <<client, backlog, temp_fd, fdtab>>
        /\ greets' = [greets EXCEPT ![Peer(w)] = @ + 1]
        /\ inbox' = [inbox EXCEPT ![Peer(w)] = @ + 1]
    BY DEF Send, Greet, Down
  <1>2. temp_fd[w] \in Fds /\ Peer(w) \in Clients
    BY <1>1 DEF Holding, Peer, Send, Reachable
  <1>3. greets[Peer(w)] = 0
    BY <1>1, SendOnTheWay
  <1>4. inbox[Peer(w)] = 0 /\ client[Peer(w)] = "waiting"
    BY <1>2, <1>3, FreeAssumption DEF Conversing, InTurn, Peer
  <1>5. \A c \in Clients : c # Peer(w) =>
          greets'[c] = greets[c] /\ inbox'[c] = inbox[c]
    BY <1>1
  <1>6. ASSUME NEW i \in 1 .. Len(backlog')
        PROVE  inbox'[backlog'[i]] = 0 /\ client'[backlog'[i]] = "waiting"
    <2>1. backlog[i] \in Clients /\ backlog[i] # Peer(w)
      BY <1>1, <1>2 DEF Places, Peer
    <2> QED
      BY <1>1, <1>5, <2>1 DEF Conversing
  <1>7. greets'[Peer(w)] = 1 /\ inbox'[Peer(w)] = 1
    BY <1>1, <1>2, <1>3, <1>4
  <1>8. ASSUME NEW g \in Fds, fdtab'[g] # Free PROVE InTurn(fdtab[g])'
    <2>1. fdtab[g] \in Clients /\ fdtab'[g] = fdtab[g]
      BY <1>1, <1>8
    <2>2. InTurn(fdtab[g])
      BY <1>1, <1>8 DEF Conversing
    <2>3. CASE fdtab[g] = Peer(w)
      BY <1>1, <1>4, <1>7, <2>3 DEF InTurn
    <2>4. CASE fdtab[g] # Peer(w)
      BY <1>1, <1>5, <2>1, <2>2, <2>4 DEF InTurn
    <2> QED
      BY <2>3, <2>4
  <1>9. ASSUME NEW v \in Workers, work'[v] = "recv" PROVE Peer(v)' # Free
    <2>1. Peer(w) # Free
      BY <1>2, FreeAssumption
    <2> QED
      BY <1>1, <1>9, <2>1 DEF Conversing, Peer
  <1> QED
    BY <1>6, <1>8, <1>9, Zenon DEF Conversing

LEMMA ConnectTurns ==
  ASSUME NEW c \in Clients, QueueInv, TurnInv, ClientConnects(c), Conversing
  PROVE  Conversing'
  <1> USE DEF QueueInv, Typed, TypeOK, ClientTypeOK
  <1>1. /\ client[c] = "new" /\ client' = [client EXCEPT ![c] = "waiting"]
        /\ backlog' = Append(backlog, c)
        /\ UNCHANGED <<inbox, greets, fdtab, work, temp_fd>>
    BY DEF ClientConnects, Connect, Becomes, serverVars
  <1>2. inbox[c] = 0
    BY <1>1 DEF TurnInv
  <1>3. ASSUME NEW i \in 1 .. Len(backlog')
        PROVE  inbox'[backlog'[i]] = 0 /\ client'[backlog'[i]] = "waiting"
    <2>1. CASE i \in 1 .. Len(backlog)
      <3>1. /\ backlog'[i] = backlog[i] /\ backlog[i] \in Clients
            /\ inbox[backlog[i]] = 0 /\ client[backlog[i]] = "waiting"
        BY <1>1, <2>1 DEF Conversing
      <3> QED
        BY <1>1, <3>1
    <2>2. CASE i = Len(backlog) + 1
      BY <1>1, <1>2, <2>2
    <2>3. Len(backlog') = Len(backlog) + 1 /\ Len(backlog) \in Nat
      BY <1>1
    <2> QED
      BY <2>1, <2>2, <2>3
  <1>4. ASSUME NEW f \in Fds, fdtab'[f] # Free PROVE InTurn(fdtab[f])'
    <2>1. fdtab[f] # c /\ fdtab[f] \in Clients /\ fdtab'[f] = fdtab[f]
      BY <1>1, <1>4 DEF Places
    <2>2. InTurn(fdtab[f])
      BY <1>1, <1>4 DEF Conversing
    <2> QED
      BY <1>1, <2>1, <2>2 DEF InTurn
  <1>5. \A w \in Workers : work'[w] = "recv" => Peer(w)' # Free
    BY <1>1 DEF Conversing, Peer
  <1> QED
    BY <1>3, <1>4, <1>5, Zenon DEF Conversing

LEMMA ClientTurns ==
  ASSUME NEW c \in Clients, QueueInv, ClientMoves(c), Conversing
  PROVE  Conversing'
  <1> USE DEF QueueInv, Typed, TypeOK, ClientTypeOK
  <1>1. UNCHANGED <<greets, fdtab, work, temp_fd, backlog>>
    BY DEF ClientMoves, serverVars, ClientStep, RecvGreeting, SendTime, Exit
  <1>2. /\ ~(client[c] = "waiting" /\ inbox[c] = 0)
        /\ InTurn(c) => InTurn(c)'
        /\ \A d \in Clients :
             d # c => client'[d] = client[d] /\ inbox'[d] = inbox[d]
    <2>1. CASE RecvGreeting(c)
      BY <1>1, <2>1 DEF RecvGreeting, Becomes, InTurn
    <2>2. CASE SendTime(c)
      BY <1>1, <2>2 DEF SendTime, Becomes, InTurn
    <2>3. CASE Exit(c)
      BY <1>1, <2>3 DEF Exit, Becomes, InTurn
    <2> QED
      BY <2>1, <2>2, <2>3 DEF ClientMoves, ClientStep
  <1>3. ASSUME NEW i \in 1 .. Len(backlog')
        PROVE  inbox'[backlog'[i]] = 0 /\ client'[backlog'[i]] = "waiting"
    <2>1. /\ backlog[i] \in Clients /\ backlog'[i] = backlog[i]
          /\ inbox[backlog[i]] = 0 /\ client[backlog[i]] = "waiting"
      BY <1>1 DEF Conversing
    <2> QED
      BY <1>2, <2>1
  <1>4. ASSUME NEW f \in Fds, fdtab'[f] # Free PROVE InTurn(fdtab[f])'
    <2>1. /\ fdtab[f] \in Clients /\ fdtab'[f] = fdtab[f]
          /\ InTurn(fdtab[f])
      BY <1>1, <1>4 DEF Conversing
    <2>2. CASE fdtab[f] = c
      BY <1>2, <2>1, <2>2, Zenon
    <2>3. CASE fdtab[f] # c
      BY <1>1, <1>2, <2>1, <2>3 DEF InTurn
    <2> QED
      BY <2>2, <2>3
  <1>5. \A w \in Workers : work'[w] = "recv" => Peer(w)' # Free
    BY <1>1 DEF Conversing, Peer
  <1> QED
    BY <1>3, <1>4, <1>5, Zenon DEF Conversing

(* A step that leaves descriptors, greetings and clients alone. *)
LEMMA OtherTurns ==
  ASSUME Conversing, UNCHANGED <<client, backlog, inbox, fdtab, greets>>,
         \A w \in Workers : work'[w] = "recv" =>
           work[w] = "recv" /\ temp_fd'[w] = temp_fd[w]
  PROVE  Conversing'
  BY DEF Conversing, InTurn, Peer

LEMMA TurnNext == QueueInv /\ TurnInv /\ [Next]_vars => TurnInv'
  <1> SUFFICES ASSUME QueueInv, TurnInv, [Next]_vars PROVE TurnInv'
    OBVIOUS
  <1> USE DEF clientVars
  <1>0. Typed /\ (~Up => Down)
    BY DEF QueueInv
  <1>1. CASE Start
    <2>1. /\ UNCHANGED <<client, inbox, backlog, fdtab, work>>
          /\ Len(backlog) = 0 /\ Up' /\ Down /\ ~Up
      BY <1>1, <1>0 DEF Start, TurnInv, Up
    <2>2. Conversing'
      BY <2>1 DEF Conversing, Down
    <2> QED
      BY <2>1, <2>2 DEF TurnInv
  <1>2. ASSUME ProcessEnds PROVE TurnInv'
    BY <1>2, <1>0 DEF ProcessEnds, HangUp, TurnInv, Up, Typed, TypeOK,
                      ClientTypeOK
  <1>3. CASE Accept
    <2>1. UNCHANGED <<fresh, killed, client, inbox>> /\ Up /\ Up'
      BY <1>3 DEF Accept, TakeConnection, Up
    <2> QED
      BY <1>3, <2>1, AcceptTurns DEF TurnInv
  <1>4. CASE MsgSnd
    <2>1. /\ UNCHANGED <<fresh, killed, client, inbox, backlog, fdtab, greets,
                         work, temp_fd>>
          /\ Up /\ Up'
      BY <1>4 DEF MsgSnd, Up
    <2> QED
      BY <2>1, OtherTurns DEF TurnInv
  <1>5. ASSUME NEW w \in Workers, Receive(w) \/ Recv(w) PROVE TurnInv'
    <2>1. /\ UNCHANGED <<main, fresh, killed, client, inbox, backlog, fdtab,
                         greets>>
          /\ \A v \in Workers : work'[v] = "recv" =>
               work[v] = "recv" /\ temp_fd'[v] = temp_fd[v]
      BY <1>0, <1>5 DEF Receive, Recv, RecvReturns, Typed, TypeOK
    <2> QED
      BY <2>1, OtherTurns DEF TurnInv, Up
  <1>6. ASSUME NEW w \in Workers, Send(w) PROVE TurnInv'
    <2>1. /\ UNCHANGED <<main, fresh, killed, client, backlog, fdtab>>
          /\ inbox' = [inbox EXCEPT ![Peer(w)] = @ + 1]
          /\ Peer(w) # Free
      BY <1>6 DEF Send, Greet, Reachable
    <2>2. temp_fd[w] \in Fds
      BY <1>0, <1>6 DEF Send, Typed, Holding
    <2>3. \A c \in Clients : client[c] = "new" => c # Peer(w)
      BY <2>2, Zenon DEF QueueInv, Places, Peer
    <2>4. \A c \in Clients : c # Peer(w) => inbox'[c] = inbox[c]
      BY <2>1, <1>0 DEF Typed, TypeOK, ClientTypeOK
    <2>5. Up /\ fresh /\ killed = {} => Conversing'
      BY <1>6, SendTurns DEF TurnInv
    <2> QED
      BY <2>1, <2>3, <2>4, <2>5 DEF TurnInv, Up
  <1>7. ASSUME NEW c \in Clients, ClientConnects(c) PROVE TurnInv'
    <2>1. UNCHANGED <<main, fresh, killed, inbox>> /\ Up
      BY <1>7 DEF ClientConnects, Connect, serverVars
    <2>2. \A d \in Clients : client'[d] = "new" => client[d] = "new"
      BY <1>0, <1>7 DEF ClientConnects, Connect, Becomes, Typed, TypeOK,
                        ClientTypeOK
    <2> QED
      BY <1>7, <2>1, <2>2, ConnectTurns DEF TurnInv, Up
  <1>8. ASSUME NEW c \in Clients, ClientMoves(c) PROVE TurnInv'
    <2>1. UNCHANGED <<main, fresh, killed, backlog>>
      BY <1>8 DEF ClientMoves, serverVars, ClientStep, RecvGreeting, SendTime,
                  Exit
    <2>2. \A d \in Clients :
            client'[d] = "new" => client[d] = "new" /\ inbox'[d] = inbox[d]
      BY <1>0, <1>8 DEF ClientMoves, ClientStep, RecvGreeting, SendTime, Exit,
                        Becomes, Typed, TypeOK, ClientTypeOK
    <2> QED
      BY <1>8, <2>1, <2>2, ClientTurns DEF TurnInv, Up
  <1>9. ASSUME NEW c \in Clients, ClientKilled(c) PROVE TurnInv'
    <2>1. killed' # {} /\ UNCHANGED <<main, backlog, inbox>>
      BY <1>9 DEF ClientKilled, Interrupt
    <2>2. \A d \in Clients : client'[d] = "new" => client[d] = "new"
      BY <1>0, <1>9 DEF ClientKilled, Interrupt, Becomes, Typed, TypeOK,
                        ClientTypeOK
    <2> QED
      BY <2>1, <2>2 DEF TurnInv, Up
  <1>10. CASE UNCHANGED vars
    <2>1. UNCHANGED <<main, fresh, killed, client, inbox, backlog, fdtab,
                      greets, work, temp_fd>>
      BY <1>10 DEF vars, serverVars
    <2> QED
      BY <2>1, OtherTurns DEF TurnInv, Up
  <1>11. ASSUME \/ Signal \/ AcceptFails
                \/ \E w \in Workers : SendFails(w) \/ RecvErrs(w)
         PROVE  ProcessEnds
    BY <1>11 DEF Signal, AcceptFails, SendFails, RecvErrs, Die
  <1> QED
    BY <1>1, <1>2, <1>3, <1>4, <1>5, <1>6, <1>7, <1>8, <1>9, <1>10, <1>11
       DEF Next, Main, process

(* With no leftover of an earlier process and no client interrupted, no send
   or recv of a worker of sokets2/3scheme ever fails, however few descriptors
   are left: without a signal the process ends, leaving its path behind, only
   at an accept that finds no descriptor. *)
THEOREM WorkersDoNotKill == Spec => OnlyLeftoversKill
  <1> DEFINE Exhausted == /\ main = "accept" /\ backlog # <<>> /\ FreeFds = {}
                          /\ \A w \in Workers : ~Failing(w)
  <1>1. ASSUME QueueInv, TurnInv, Next, Up, main' = "down", path', fresh,
               killed = {}
        PROVE  Exhausted
    <2>1. Conversing /\ OnTheWay /\ Typed
      BY <1>1 DEF TurnInv, QueueInv
    <2>2. ASSUME NEW w \in Workers PROVE ~Failing(w)
      <3>1. ASSUME work[w] = "send", ~Reachable(w) PROVE FALSE
        <4>1. Ungreeted(temp_fd[w])
          BY <2>1, <3>1, Zenon DEF OnTheWay
        <4>2. client[Peer(w)] = "waiting" /\ Peer(w) # Free
          BY <2>1, <4>1 DEF Ungreeted, Conversing, InTurn, Peer
        <4> QED
          BY <3>1, <4>2 DEF Reachable, Closed
      <3>2. ASSUME work[w] = "recv", Peer(w) # Free => RecvFails(Peer(w))
            PROVE  FALSE
        <4>1. Peer(w) # Free /\ temp_fd[w] \in Fds
          BY <2>1, <3>2 DEF Conversing, Typed, Holding
        <4>2. InTurn(Peer(w))
          BY <2>1, <4>1 DEF Conversing, Peer
        <4> QED
          BY <3>2, <4>1, <4>2 DEF RecvFails, Closed, InTurn
      <3> QED
        BY <3>1, <3>2 DEF Failing
    <2>3. ~Signal /\ ~Start
      BY <1>1 DEF Signal, Start
    <2>4. ASSUME NEW w \in Workers, process(w) PROVE FALSE
      <3>1. ~SendFails(w) /\ ~RecvErrs(w)
        BY <2>2 DEF Failing, SendFails, RecvErrs
      <3>2. Receive(w) \/ Send(w) \/ Recv(w)
        BY <2>4, <3>1 DEF process
      <3>3. main' = main
        BY <3>2 DEF Receive, Send, Recv
      <3> QED
        BY <1>1, <3>3 DEF Up
    <2>5. ASSUME NEW c \in Clients,
                 ClientConnects(c) \/ ClientMoves(c) \/ ClientKilled(c)
          PROVE  FALSE
      <3>1. main' = main
        BY <2>5 DEF ClientConnects, ClientMoves, ClientKilled, serverVars
      <3> QED
        BY <1>1, <3>1 DEF Up
    <2>6. AcceptFails
      BY <1>1, <2>3, <2>4, <2>5 DEF Next, Main, Accept, MsgSnd
    <2> QED
      BY <2>2, <2>6, Zenon DEF AcceptFails
  <1>2. UNCHANGED vars => main' = main
    BY DEF vars, serverVars
  <1> HIDE DEF Exhausted
  <1>3. ASSUME QueueInv, TurnInv, [Next]_vars, Up, main' = "down"
        PROVE  ~path' \/ ~fresh \/ killed # {} \/ Exhausted
    BY <1>1, <1>2, <1>3 DEF Up
  <1>4. QueueInv /\ TurnInv /\ [Next]_vars =>
          [Up /\ main' = "down" =>
             \/ ~path' \/ ~fresh \/ killed # {} \/ Exhausted]_vars
    BY <1>3, Zenon
  <1>5. QueueInv /\ TurnInv /\ [Next]_vars =>
          [Up /\ main' = "down" =>
             \/ ~path'
             \/ ~fresh
             \/ killed # {}
             \/ /\ main = "accept" /\ backlog # <<>> /\ FreeFds = {}
                /\ \A w \in Workers : ~Failing(w)]_vars
    BY <1>4, Zenon DEF Exhausted
  <1> QED
    BY <1>5, QueueInit, TurnInit, QueueNext, TurnNext, PTL
       DEF Spec, OnlyLeftoversKill

-----------------------------------------------------------------------------
(* Refinement. *)

(* A worker that waits for a client's line has greeted that client. *)
Served == Intact => \A w \in Workers :
            work[w] = "recv" => Peer(w) # Free /\ greets[Peer(w)] = 1

LEMMA ServedInit == Init => Served
  BY DEF Init, Served, Intact, Up

LEMMA ServedNext == QueueInv /\ Served /\ [Next]_vars => Served'
  <1> SUFFICES ASSUME QueueInv, Served, [Next]_vars, Intact' PROVE Served'
    BY DEF Served
  <1> USE FreeAssumption DEF QueueInv, Typed, TypeOK, ClientTypeOK, Intact
  <1>1. CASE Start
    BY <1>1 DEF Start, Down, Served
  <1>2. CASE Accept
    <2>1. PICK f \in Fds : /\ fdtab[f] = Free
                           /\ fdtab' = [fdtab EXCEPT ![f] = Accepted]
      BY <1>2 DEF Accept, FreeFds
    <2>2. Up /\ fresh /\ UNCHANGED <<work, temp_fd, greets>>
      BY <1>2 DEF Accept, Up
    <2> QED
      BY <2>1, <2>2 DEF Served, Peer, Holding
  <1>3. ASSUME NEW w \in Workers, Send(w) PROVE Served'
    <2>1. /\ fresh /\ Up /\ work[w] = "send"
          /\ work' = [work EXCEPT ![w] = "recv"]
          /\ UNCHANGED <<fdtab, temp_fd>>
          /\ greets' = [greets EXCEPT ![Peer(w)] = @ + 1]
      BY <1>3 DEF Send, Down
    <2>2. Peer(w) \in Clients /\ greets[Peer(w)] = 0
      <3>1. temp_fd[w] \in Fds /\ Peer(w) # Free
        BY <1>3, <2>1 DEF Holding, Reachable, Send
      <3>2. greets[Peer(w)] = 0
        BY <1>3, <2>1, SendOnTheWay
      <3> QED
        BY <3>1, <3>2 DEF Peer
    <2>3. \A v \in Workers : Peer(v)' = Peer(v)
      BY <2>1 DEF Peer
    <2>4. \A c \in Clients : greets'[c] = IF c = Peer(w) THEN 1 ELSE greets[c]
      BY <2>1, <2>2
    <2>5. ASSUME NEW v \in Workers, work'[v] = "recv"
          PROVE  Peer(v)' # Free /\ greets'[Peer(v)'] = 1
      <3>1. CASE v = w
        BY <2>2, <2>3, <2>4, <3>1
      <3>2. CASE v # w
        <4>1. work[v] = "recv"
          BY <2>1, <2>5, <3>2
        <4>2. Peer(v) # Free /\ greets[Peer(v)] = 1 /\ temp_fd[v] \in Fds
          BY <2>1, <4>1 DEF Served, Holding
        <4>3. Peer(v) \in Clients
          BY <4>2 DEF Peer
        <4> QED
          BY <2>3, <2>4, <4>2, <4>3
      <3> QED
        BY <3>1, <3>2
    <2> QED
      BY <2>5, Zenon DEF Served
  <1>4. ASSUME UNCHANGED <<fresh, fdtab, greets>>, Up,
               \A v \in Workers : work'[v] = "recv" =>
                 work[v] = "recv" /\ temp_fd'[v] = temp_fd[v]
        PROVE  Served'
    BY <1>4 DEF Served, Peer
  <1>5. ASSUME NEW w \in Workers, Receive(w) \/ Recv(w) PROVE Served'
    <2>1. UNCHANGED <<main, fresh, fdtab, greets>>
      BY <1>5 DEF Receive, Recv
    <2>2. \A v \in Workers : work'[v] = "recv" =>
            work[v] = "recv" /\ temp_fd'[v] = temp_fd[v]
      BY <1>5 DEF Receive, Recv
    <2> QED
      BY <2>1, <2>2, <1>4 DEF Up
  <1>6. CASE MsgSnd
    BY <1>6, <1>4 DEF MsgSnd, Up
  <1>7. CASE \/ UNCHANGED vars
             \/ \E c \in Clients :
                  ClientConnects(c) \/ ClientMoves(c) \/ ClientKilled(c)
    <2>1. UNCHANGED <<main, fresh, fdtab, greets, work, temp_fd>>
      BY <1>7 DEF ClientConnects, ClientMoves, ClientKilled, vars, serverVars
    <2> QED
      BY <2>1, <1>4 DEF Up
  <1>8. ~ProcessEnds
    BY DEF ProcessEnds, Up
  <1>9. \/ Signal \/ AcceptFails
        \/ \E w \in Workers : SendFails(w) \/ RecvErrs(w)
        => ProcessEnds
    BY DEF Signal, AcceptFails, SendFails, RecvErrs, Die
  <1> QED
    BY <1>1, <1>2, <1>3, <1>5, <1>6, <1>7, <1>8, <1>9, Zenon
       DEF Next, Main, process

(* Sequences. *)

LEMMA ConcatAppend ==
  ASSUME NEW S, NEW s \in Seq(S), NEW t \in Seq(S), NEW e \in S
  PROVE  s \o Append(t, e) = Append(s \o t, e)
  <1>1. <<e>> \in Seq(S) /\ s \o t \in Seq(S)
    BY ConcatProperties
  <1>2. Append(t, e) = t \o <<e>> /\ Append(s \o t, e) = (s \o t) \o <<e>>
    BY <1>1, AppendIsConcat
  <1> QED
    BY <1>1, <1>2, ConcatAssociative

LEMMA ConcatMoveHead ==
  ASSUME NEW S, NEW s \in Seq(S), NEW t \in Seq(S), t # <<>>
  PROVE  Append(s, Head(t)) \o Tail(t) = s \o t
  <1>1. /\ Head(t) \in S /\ Tail(t) \in Seq(S)
    BY HeadTailProperties
  <1>2. /\ Append(s, Head(t)) = s \o <<Head(t)>>
        /\ <<Head(t)>> \in Seq(S)
    BY <1>1, AppendIsConcat
  <1>3. <<Head(t)>> \o Tail(t) = t
    <2>1. SubSeq(t, 1, Len(t)) = t /\ Tail(t) = SubSeq(t, 2, Len(t))
      BY SubSeqFull, TailIsSubSeq
    <2>2. Len(t) \in Nat \ {0} /\ t[1] = Head(t)
      BY EmptySeq
    <2> QED
      BY <2>1, <2>2, SubSeqRecursiveFirst
  <1>4. (s \o <<Head(t)>>) \o Tail(t) = s \o (<<Head(t)>> \o Tail(t))
    BY <1>1, <1>2, ConcatAssociative
  <1> QED
    BY <1>2, <1>3, <1>4

LEMMA ConcatTail ==
  ASSUME NEW S, NEW s \in Seq(S), NEW t \in Seq(S), s # <<>>
  PROVE  s \o t # <<>> /\ Head(s \o t) = s[1] /\ Tail(s \o t) = Tail(s) \o t
  <1>1. /\ s \o t \in Seq(S) /\ Len(s \o t) = Len(s) + Len(t)
        /\ \A i \in 1 .. Len(s) + Len(t) :
             (s \o t)[i] = IF i <= Len(s) THEN s[i] ELSE t[i - Len(s)]
    BY ConcatProperties
  <1>2. Len(s) \in Nat \ {0} /\ Len(t) \in Nat
    BY EmptySeq, LenProperties
  <1>3. s \o t # <<>>
    BY <1>1, <1>2, EmptySeq
  <1>4. Head(s \o t) = s[1]
    BY <1>1, <1>2, <1>3
  <1>5. /\ Tail(s) \in Seq(S) /\ Len(Tail(s)) = Len(s) - 1
        /\ \A i \in 1 .. Len(s) - 1 : Tail(s)[i] = s[i + 1]
    BY HeadTailProperties
  <1>6. /\ Tail(s \o t) \in Seq(S) /\ Len(Tail(s \o t)) = Len(s) + Len(t) - 1
        /\ \A i \in 1 .. Len(s) + Len(t) - 1 :
             Tail(s \o t)[i] = (s \o t)[i + 1]
    BY <1>1, <1>3, HeadTailProperties
  <1>7. /\ Tail(s) \o t \in Seq(S)
        /\ Len(Tail(s) \o t) = Len(s) - 1 + Len(t)
        /\ \A i \in 1 .. Len(s) - 1 + Len(t) : (Tail(s) \o t)[i] =
             IF i <= Len(s) - 1 THEN Tail(s)[i] ELSE t[i - (Len(s) - 1)]
    BY <1>5, ConcatProperties
  <1>8. ASSUME NEW i \in 1 .. Len(s) + Len(t) - 1
        PROVE  Tail(s \o t)[i] = (Tail(s) \o t)[i]
    <2>1. i + 1 \in 1 .. Len(s) + Len(t) /\ i \in 1 .. Len(s) - 1 + Len(t)
      BY <1>2
    <2>2. CASE i <= Len(s) - 1
      <3>1. i \in 1 .. Len(s) - 1 /\ i + 1 <= Len(s)
        BY <1>2, <2>2
      <3> QED
        BY <1>1, <1>5, <1>6, <1>7, <2>1, <2>2, <3>1
    <2>3. CASE ~(i <= Len(s) - 1)
      <3>1. ~(i + 1 <= Len(s)) /\ i + 1 - Len(s) = i - (Len(s) - 1)
        BY <1>2, <2>3
      <3> QED
        BY <1>1, <1>6, <1>7, <2>1, <2>3, <3>1
    <2> QED
      BY <2>2, <2>3
  <1>9. Tail(s \o t) = Tail(s) \o t
    <2>1. Len(Tail(s \o t)) = Len(Tail(s) \o t)
      BY <1>2, <1>6, <1>7
    <2> QED
      BY <1>6, <1>7, <1>8, <2>1, SeqEqual
  <1> QED
    BY <1>3, <1>4, <1>9

(* The line consists of clients. *)
Standing ==
  /\ Handed \in Seq(Fds)
  /\ Intact => /\ Admitted \in Seq(Clients) /\ Len(Admitted) = Len(Handed)
               /\ \A i \in 1 .. Len(Handed) :
                    fdtab[Handed[i]] # Free /\ Admitted[i] = fdtab[Handed[i]]

LEMMA LineTyped == QueueInv => Standing
  <1> SUFFICES ASSUME QueueInv PROVE Standing
    OBVIOUS
  <1> USE DEF QueueInv, Typed, TypeOK, ClientTypeOK
  <1>1. Handed \in Seq(Fds)
    BY DEF Handed, Holding
  <1>2. ASSUME Intact, NEW i \in 1 .. Len(Handed)
        PROVE  Ungreeted(Handed[i])
    <2>1. OnTheWay
      BY <1>2 DEF Intact
    <2>2. CASE main = "msgsnd"
      <3>1. Handed = Append(queue, buf) /\ buf \in Fds
        BY <2>2 DEF Handed, Holding
      <3>2. \/ i \in 1 .. Len(queue) /\ Handed[i] = queue[i]
            \/ Handed[i] = buf
        BY <3>1
      <3> QED
        BY <2>1, <2>2, <3>2, Zenon DEF OnTheWay
    <2>3. CASE main # "msgsnd"
      <3>1. Handed = queue
        BY <2>3 DEF Handed
      <3> QED
        BY <2>1, <3>1, <1>2, Zenon DEF OnTheWay
    <2> QED
      BY <2>2, <2>3
  <1>3. ASSUME Intact, NEW i \in 1 .. Len(Handed)
        PROVE  fdtab[Handed[i]] \in Clients /\ fdtab[Handed[i]] # Free
    BY <1>2, <1>3 DEF Ungreeted
  <1>4. Len(Handed) \in Nat
    BY <1>1, LenProperties
  <1>5. Intact => Admitted \in Seq(Clients) /\ Len(Admitted) = Len(Handed)
    BY <1>3, <1>4 DEF Admitted
  <1> QED
    BY <1>1, <1>3, <1>5 DEF Standing, Admitted

(* A step that hands nobody over keeps the line. *)
LEMMA SameLine ==
  ASSUME QueueInv, Intact,
         UNCHANGED <<main, fresh, backlog, queue, buf, fdtab>>
  PROVE  Line' = Line
  BY DEF Line, Intact, Up, Admitted, Handed

LEMMA AcceptRefines ==
  ASSUME QueueInv, QueueInv', Served, Accept, fresh
  PROVE  UNCHANGED Desk!vars
  <1> USE DEF QueueInv, Typed, TypeOK, ClientTypeOK
  <1>1. PICK f \in Fds : /\ fdtab[f] = Free /\ buf' = f
                         /\ fdtab' = [fdtab EXCEPT ![f] = Accepted]
    BY DEF Accept, FreeFds
  <1>2. /\ main = "accept" /\ main' = "msgsnd" /\ Intact /\ Intact'
        /\ UNCHANGED <<queue, work, temp_fd, greets>>
        /\ backlog # <<>> /\ backlog' = Tail(backlog)
    BY DEF Accept, TakeConnection, Intact, Up
  <1>3. Handed = queue /\ Handed' = Append(queue, f)
    BY <1>1, <1>2 DEF Handed
  <1>4. /\ Admitted \in Seq(Clients) /\ Len(Admitted) = Len(queue)
        /\ \A i \in 1 .. Len(queue) :
             fdtab[queue[i]] # Free /\ Admitted[i] = fdtab[queue[i]]
    BY <1>2, <1>3, LineTyped DEF Standing
  <1>5. /\ Admitted' \in Seq(Clients) /\ Len(Admitted') = Len(Handed')
        /\ \A i \in 1 .. Len(Handed') : Admitted'[i] = fdtab'[Handed'[i]]
    <2>1. Standing'
      BY LineTyped, PTL
    <2> QED
      BY <1>2, <2>1 DEF Standing
  <1>6. Accepted = Head(backlog) /\ Head(backlog) \in Clients
    BY <1>2 DEF Accepted
  <1>7. Admitted' = Append(Admitted, Head(backlog))
    <2> DEFINE A == Append(Admitted, Head(backlog))
    <2>1. /\ A \in Seq(Clients) /\ Len(A) = Len(queue) + 1
          /\ \A i \in 1 .. Len(queue) : A[i] = fdtab[queue[i]]
          /\ A[Len(queue) + 1] = Accepted
      BY <1>4, <1>6, AppendProperties
    <2>2. /\ Len(Handed') = Len(queue) + 1 /\ Len(queue) \in Nat
          /\ \A i \in 1 .. Len(queue) : Handed'[i] = queue[i]
          /\ Handed'[Len(queue) + 1] = f
      BY <1>3
    <2>3. ASSUME NEW i \in 1 .. Len(queue) PROVE Admitted'[i] = A[i]
      <3>1. queue[i] \in Fds /\ queue[i] # f
        BY <1>1, <1>4
      <3>2. fdtab'[queue[i]] = fdtab[queue[i]]
        BY <1>1, <3>1
      <3>3. i \in 1 .. Len(Handed') /\ Handed'[i] = queue[i]
        BY <2>2
      <3>4. Admitted'[i] = fdtab'[queue[i]]
        BY <1>5, <3>3
      <3> QED
        BY <2>1, <3>2, <3>4
    <2>4. Admitted'[Len(queue) + 1] = A[Len(queue) + 1]
      <3>1. fdtab'[f] = Accepted
        BY <1>1
      <3>2. Len(queue) + 1 \in 1 .. Len(Handed')
        BY <2>2
      <3>3. Admitted'[Len(queue) + 1] = fdtab'[f]
        BY <1>5, <2>2, <3>2
      <3> QED
        BY <2>1, <3>1, <3>3
    <2>5. ASSUME NEW i \in 1 .. Len(Admitted') PROVE Admitted'[i] = A[i]
      <3>1. i \in 1 .. Len(queue) \/ i = Len(queue) + 1
        BY <1>5, <2>2
      <3> QED
        BY <2>3, <2>4, <3>1
    <2> HIDE DEF A
    <2>6. Admitted' = A
      BY <1>5, <2>1, <2>2, <2>5, SeqEqual
    <2> QED
      BY <2>6 DEF A
  <1>8. Line' = Line
    <2>1. Admitted' \o backlog' = Admitted \o backlog
      BY <1>2, <1>4, <1>7, ConcatMoveHead
    <2> QED
      BY <1>2, <2>1 DEF Line
  <1>9. ASSUME NEW w \in Workers, work[w] # "msgrcv"
        PROVE  Peer(w)' = Peer(w)
    <2>1. work[w] = "send" \/ work[w] = "recv"
      BY <1>9
    <2>2. temp_fd[w] \in Fds /\ Peer(w) # Free
      <3>1. CASE work[w] = "send"
        BY <1>2, <3>1, Zenon DEF OnTheWay, Ungreeted, Intact, Peer
      <3>2. CASE work[w] = "recv"
        BY <1>2, <3>2 DEF Served, Holding
      <3> QED
        BY <2>1, <3>1, <3>2
    <2> QED
      BY <1>1, <1>2, <2>2 DEF Peer
  <1> QED
    BY <1>2, <1>8, <1>9 DEF Desk!vars, Serving, Greeted

LEMMA MsgSndRefines ==
  ASSUME QueueInv, MsgSnd, fresh
  PROVE  UNCHANGED Desk!vars
  <1>1. /\ main = "msgsnd" /\ main' = "accept" /\ queue' = Append(queue, buf)
        /\ UNCHANGED <<backlog, fdtab, work, temp_fd, greets, fresh>>
    BY DEF MsgSnd, clientVars
  <1>2. Handed' = Handed /\ Intact /\ Intact'
    BY <1>1 DEF Handed, Intact, Up
  <1>3. Line' = Line
    BY <1>1, <1>2 DEF Line, Admitted
  <1> QED
    BY <1>1, <1>2, <1>3 DEF Desk!vars, Serving, Greeted, Peer

LEMMA ReceiveRefines ==
  ASSUME NEW w \in Workers, QueueInv, QueueInv', Receive(w), fresh
  PROVE  Desk!Take(w)
  <1> USE DEF QueueInv, Typed, TypeOK, ClientTypeOK
  <1>1. /\ Up /\ queue # <<>> /\ work[w] = "msgrcv"
        /\ temp_fd' = [temp_fd EXCEPT ![w] = Head(queue)]
        /\ queue' = Tail(queue)
        /\ work' = [work EXCEPT ![w] = "send"]
        /\ UNCHANGED <<backlog, main, fdtab, buf, fresh, greets>>
    BY DEF Receive, clientVars
  <1>2. Intact /\ Intact'
    BY <1>1 DEF Intact, Up
  <1>3. /\ Handed # <<>> /\ Handed[1] = Head(queue) /\ Handed' = Tail(Handed)
    <2>1. CASE main = "msgsnd"
      <3>1. Handed = Append(queue, buf) /\ Handed' = Append(Tail(queue), buf)
        BY <1>1, <2>1 DEF Handed
      <3>2. buf \in Fds
        BY <2>1 DEF Holding
      <3>3. /\ Append(queue, buf) # <<>>
            /\ Tail(Append(queue, buf)) = Append(Tail(queue), buf)
        <4>1. queue \in Seq(Fds) /\ queue # <<>>
          BY <1>1
        <4> HIDE DEF QueueInv, Typed, TypeOK, ClientTypeOK
        <4>2. Append(queue, buf) # <<>>
          BY <3>2, <4>1, AppendProperties
        <4>3. Tail(Append(queue, buf)) = Append(Tail(queue), buf)
          BY <3>2, <4>1, HeadTailAppend
        <4> QED
          BY <4>2, <4>3
      <3>4. Append(queue, buf)[1] = Head(queue)
        BY <1>1, <3>2
      <3> QED
        BY <3>1, <3>3, <3>4
    <2>2. CASE main # "msgsnd"
      BY <1>1, <2>2 DEF Handed
    <2> QED
      BY <2>1, <2>2
  <1>4. Standing /\ Standing'
    BY LineTyped, PTL
  <1>5. /\ Len(Handed) \in Nat \ {0} /\ Len(Handed') = Len(Handed) - 1
        /\ \A i \in 1 .. Len(Handed) - 1 : Handed'[i] = Handed[i + 1]
    BY <1>3, <1>4, EmptySeq, HeadTailProperties DEF Standing
  <1>6. /\ Admitted \in Seq(Clients) /\ Admitted # <<>>
        /\ Len(Admitted) = Len(Handed) /\ Admitted[1] = fdtab[Head(queue)]
        /\ fdtab[Head(queue)] # Free
    <2>1. /\ Admitted \in Seq(Clients) /\ Len(Admitted) = Len(Handed)
          /\ Admitted[1] = fdtab[Handed[1]] /\ fdtab[Handed[1]] # Free
      <3>1. 1 \in 1 .. Len(Handed)
        BY <1>5
      <3> QED
        BY <1>2, <1>4, <3>1 DEF Standing
    <2>2. Admitted # <<>>
      BY <1>5, <2>1, EmptySeq
    <2> QED
      BY <1>3, <2>1, <2>2
  <1>7. Admitted' = Tail(Admitted)
    <2>1. /\ Tail(Admitted) \in Seq(Clients)
          /\ Len(Tail(Admitted)) = Len(Handed) - 1
          /\ \A i \in 1 .. Len(Handed) - 1 :
               Tail(Admitted)[i] = Admitted[i + 1]
      BY <1>6, HeadTailProperties
    <2>2. /\ Admitted' \in Seq(Clients) /\ Len(Admitted') = Len(Handed) - 1
          /\ \A i \in 1 .. Len(Handed') : Admitted'[i] = fdtab'[Handed'[i]]
      BY <1>2, <1>4, <1>5 DEF Standing
    <2>3. ASSUME NEW i \in 1 .. Len(Handed) - 1
          PROVE  Admitted'[i] = Tail(Admitted)[i]
      <3>1. i \in 1 .. Len(Handed') /\ i + 1 \in 1 .. Len(Handed)
        BY <1>5
      <3>2. Admitted'[i] = fdtab[Handed[i + 1]]
        <4>1. Admitted'[i] = fdtab'[Handed'[i]]
          BY <2>2, <3>1, Zenon
        <4>2. Handed'[i] = Handed[i + 1]
          BY <1>5, <2>3, Zenon
        <4>3. fdtab' = fdtab
          BY <1>1, Zenon
        <4> QED
          BY <4>1, <4>2, <4>3, Zenon
      <3>3. Admitted[i + 1] = fdtab[Handed[i + 1]]
        BY <1>2, <1>4, <3>1 DEF Standing
      <3> QED
        BY <2>1, <3>2, <3>3
    <2>4. /\ Len(Admitted') = Len(Tail(Admitted))
          /\ \A i \in 1 .. Len(Admitted') : Admitted'[i] = Tail(Admitted)[i]
      BY <2>1, <2>2, <2>3
    <2> HIDE <1>1, <1>3
    <2> QED
      BY <2>1, <2>2, <2>4, SeqEqual
  <1>8. /\ Line # <<>> /\ Head(Line) = fdtab[Head(queue)]
        /\ Line' = Tail(Line)
    <2>1. /\ Admitted \o backlog # <<>>
          /\ Head(Admitted \o backlog) = Admitted[1]
          /\ Tail(Admitted \o backlog) = Tail(Admitted) \o backlog
      <3>1. backlog \in Seq(Clients)
        OBVIOUS
      <3> HIDE DEF QueueInv, Typed, TypeOK, ClientTypeOK
      <3> QED
        BY <1>6, <3>1, ConcatTail
    <2> QED
      BY <1>1, <1>2, <1>6, <1>7, <2>1 DEF Line
  <1>9. Serving[w] = Free
    BY <1>1 DEF Serving
  <1>10. Serving' = [Serving EXCEPT ![w] = fdtab[Head(queue)]]
    BY <1>1, <1>2 DEF Serving, Peer
  <1>11. Greeted' = Greeted
    BY <1>1, <1>2 DEF Greeted
  <1> QED
    BY <1>8, <1>9, <1>10, <1>11 DEF Desk!Take

LEMMA SendRefines ==
  ASSUME NEW w \in Workers, QueueInv, Send(w), fresh
  PROVE  Desk!Greet(w)
  <1> USE DEF QueueInv, Typed, TypeOK, ClientTypeOK
  <1>1. /\ Up /\ work[w] = "send" /\ work' = [work EXCEPT ![w] = "recv"]
        /\ UNCHANGED <<main, backlog, buf, queue, fresh, temp_fd, fdtab>>
        /\ greets' = [greets EXCEPT ![Peer(w)] = @ + 1]
    BY DEF Send, Greet, Down
  <1>2. Intact /\ Intact'
    BY <1>1 DEF Intact, Up
  <1>3. Peer(w) \in Clients /\ Peer(w) # Free
    <2>1. temp_fd[w] \in Fds /\ Peer(w) # Free
      BY <1>1 DEF Holding, Send, Reachable
    <2> QED
      BY <2>1 DEF Peer
  <1>4. greets[Peer(w)] = 0
    BY <1>1, SendOnTheWay
  <1>5. Serving[w] = Peer(w) /\ Greeted[Peer(w)] = 0
    BY <1>1, <1>2, <1>3, <1>4 DEF Serving, Greeted
  <1>6. Greeted' = [Greeted EXCEPT ![Peer(w)] = 1]
    <2>1. greets' = [greets EXCEPT ![Peer(w)] = 1]
      BY <1>1, <1>4
    <2> HIDE DEF Peer
    <2> QED
      BY <1>2, <1>3, <2>1 DEF Greeted
  <1>7. Serving' = Serving
    BY <1>1, <1>2 DEF Serving, Peer
  <1>8. Line' = Line
    BY <1>1, <1>2, SameLine
  <1> QED
    BY <1>3, <1>5, <1>6, <1>7, <1>8 DEF Desk!Greet

LEMMA RecvRefines ==
  ASSUME NEW w \in Workers, QueueInv, Served, Recv(w), fresh
  PROVE  Desk!Release(w)
  <1> USE DEF QueueInv, Typed, TypeOK, ClientTypeOK
  <1>1. /\ Up /\ work[w] = "recv" /\ work' = [work EXCEPT ![w] = "msgrcv"]
        /\ UNCHANGED <<main, backlog, buf, queue, fresh, temp_fd, fdtab,
                       greets>>
    BY DEF Recv, RecvReturns, Down
  <1>2. Intact /\ Intact'
    BY <1>1 DEF Intact, Up
  <1>3. temp_fd[w] \in Fds /\ Peer(w) # Free /\ greets[Peer(w)] = 1
    BY <1>1, <1>2 DEF Served, Holding
  <1>4. Serving[w] = Peer(w) /\ Peer(w) \in Clients
    BY <1>1, <1>2, <1>3 DEF Serving, Peer
  <1>5. Greeted[Peer(w)] = 1 /\ Greeted' = Greeted
    BY <1>1, <1>2, <1>3, <1>4 DEF Greeted
  <1>6. Serving' = [Serving EXCEPT ![w] = Free]
    BY <1>1, <1>2 DEF Serving, Peer
  <1>7. Line' = Line
    BY <1>1, <1>2, SameLine
  <1> QED
    BY <1>3, <1>4, <1>5, <1>6, <1>7 DEF Desk!Release

LEMMA ConnectRefines ==
  ASSUME NEW c \in Clients, QueueInv, ClientConnects(c), fresh
  PROVE  Desk!Arrive(c)
  <1> USE DEF QueueInv, Typed, TypeOK, ClientTypeOK
  <1>1. /\ Up /\ client[c] = "new" /\ backlog' = Append(backlog, c)
        /\ UNCHANGED <<main, buf, queue, fresh, temp_fd, fdtab, work, greets>>
    BY DEF ClientConnects, Connect, serverVars
  <1>2. Intact /\ Intact'
    BY <1>1 DEF Intact, Up
  <1>3. /\ greets[c] = 0
        /\ \A f \in Fds : fdtab[f] # c
        /\ \A i \in 1 .. Len(backlog) : backlog[i] # c
    BY <1>1 DEF Places
  <1>4. Standing /\ Line = Admitted \o backlog /\ Admitted \in Seq(Clients)
    BY <1>2, LineTyped DEF Line, Standing
  <1>5. \A i \in 1 .. Len(Line) : Line[i] # c
    <2>1. /\ Len(Line) = Len(Admitted) + Len(backlog)
          /\ \A i \in 1 .. Len(Admitted) + Len(backlog) : Line[i] =
               IF i <= Len(Admitted) THEN Admitted[i]
               ELSE backlog[i - Len(Admitted)]
      BY <1>4, ConcatProperties
    <2>2. Len(Admitted) \in Nat /\ Len(backlog) \in Nat
      BY <1>4, LenProperties
    <2>3. ASSUME NEW i \in 1 .. Len(Admitted) PROVE Admitted[i] # c
      BY <1>2, <1>3, <1>4 DEF Standing
    <2>4. ASSUME NEW i \in 1 .. Len(Line), ~(i <= Len(Admitted))
          PROVE  i - Len(Admitted) \in 1 .. Len(backlog)
      BY <2>1, <2>2, <2>4
    <2>5. ASSUME NEW i \in 1 .. Len(Line) PROVE Line[i] # c
      <3>1. CASE i <= Len(Admitted)
        <4>1. i \in 1 .. Len(Admitted) /\ Line[i] = Admitted[i]
          BY <2>1, <2>2, <3>1
        <4> QED
          BY <2>3, <4>1
      <3>2. CASE ~(i <= Len(Admitted))
        <4>1. Line[i] = backlog[i - Len(Admitted)]
          BY <2>1, <3>2
        <4> QED
          BY <1>3, <2>4, <3>2, <4>1
      <3> QED
        BY <3>1, <3>2
    <2> QED
      BY <2>5
  <1>6. \A w \in Workers : Serving[w] # c
    BY <1>3, FreeAssumption DEF Serving, Holding, Peer
  <1>7. Line' = Append(Line, c)
    <2>1. Admitted' = Admitted
      BY <1>1 DEF Admitted, Handed
    <2>2. Line = Admitted \o backlog /\ Line' = Admitted \o Append(backlog, c)
      BY <1>1, <1>2, <2>1 DEF Line
    <2>3. Admitted \in Seq(Clients) /\ backlog \in Seq(Clients)
      BY <1>4
    <2> HIDE DEF QueueInv, Typed, TypeOK, ClientTypeOK
    <2>4. Admitted \o Append(backlog, c) = Append(Admitted \o backlog, c)
      BY <2>3, ConcatAppend
    <2> QED
      BY <2>2, <2>4
  <1>8. Greeted[c] = 0 /\ Greeted' = Greeted /\ Serving' = Serving
    BY <1>1, <1>2, <1>3 DEF Greeted, Serving, Peer
  <1> QED
    BY <1>5, <1>6, <1>7, <1>8 DEF Desk!Arrive

LEMMA ReceptionInit == Init => Desk!Empty
  BY DEF Init, Up, Intact, Desk!Empty, Line, Serving, Greeted

(* Outside an intact run the reception is closed. *)
LEMMA ClosedOutside ==
  ~Intact => Line = <<>> /\ Serving = [w \in Workers |-> Free]
                         /\ Greeted = [c \in Clients |-> 0]
  BY DEF Line, Serving, Greeted

(* So it is when the server has just started. *)
LEMMA StartIsClosed ==
  ASSUME QueueInv, TurnInv, Start
  PROVE  Desk!Empty'
  <1> USE DEF QueueInv, Typed, TypeOK, ClientTypeOK
  <1>1. /\ ~Up /\ main' = "accept" /\ fresh' = (queue = <<>>)
        /\ UNCHANGED <<backlog, queue, work>>
        /\ greets' = [c \in Clients |-> 0]
    BY DEF Start, clientVars
  <1>2. backlog' = <<>> /\ work' = [w \in Workers |-> "msgrcv"]
    BY <1>1, EmptySeq DEF TurnInv, Down
  <1>3. ASSUME Intact' PROVE Line' = <<>>
    <2>1. Handed' = <<>>
      BY <1>1, <1>3 DEF Handed, Intact
    <2>2. Admitted' = <<>>
      BY <2>1 DEF Admitted
    <2> QED
      BY <1>2, <1>3, <2>2 DEF Line
  <1>4. Line' = <<>>
    BY <1>3 DEF Line
  <1>5. Serving' = [w \in Workers |-> Free]
    BY <1>2 DEF Serving
  <1>6. Greeted' = [c \in Clients |-> 0]
    BY <1>1 DEF Greeted
  <1> QED
    BY <1>4, <1>5, <1>6 DEF Desk!Empty

LEMMA ReceptionNext ==
  QueueInv /\ QueueInv' /\ TurnInv /\ Served /\ [Next]_vars =>
    [Desk!Next]_(Desk!vars)
  <1> SUFFICES ASSUME QueueInv, QueueInv', TurnInv, Served, [Next]_vars
               PROVE  Desk!Next \/ UNCHANGED Desk!vars
    OBVIOUS
  <1>1. CASE Start
    BY <1>1, StartIsClosed DEF Desk!Next, Desk!Close
  <1>2. ASSUME ProcessEnds PROVE Desk!Next
    <2>1. ~Intact'
      BY <1>2 DEF ProcessEnds, Intact, Up
    <2>2. (~Intact => Line = <<>> /\ Serving = [w \in Workers |-> Free]
                                  /\ Greeted = [c \in Clients |-> 0])'
      BY ClosedOutside, PTL
    <2> QED
      BY <2>1, <2>2 DEF Desk!Next, Desk!Close, Desk!Empty
  <1>3. CASE ~Intact /\ ~Intact'
    <2>1. (~Intact => Line = <<>> /\ Serving = [w \in Workers |-> Free]
                                  /\ Greeted = [c \in Clients |-> 0])'
      BY ClosedOutside, PTL
    <2> QED
      BY <1>3, <2>1, ClosedOutside DEF Desk!vars
  <1>4. ASSUME \/ Main /\ ~AcceptFails
               \/ \E w \in Workers : Receive(w) \/ Send(w) \/ Recv(w)
               \/ \E c \in Clients :
                    ClientConnects(c) \/ ClientMoves(c) \/ ClientKilled(c)
               \/ UNCHANGED vars
        PROVE  fresh' = fresh /\ Up' = Up
    BY <1>4 DEF Main, Accept, MsgSnd, Receive, Send, Recv, ClientConnects,
                ClientMoves, ClientKilled, vars, serverVars, Up
  <1>5. CASE Accept
    BY <1>3, <1>4, <1>5, AcceptRefines DEF Intact, Main, AcceptFails, Accept
  <1>6. CASE MsgSnd
    BY <1>3, <1>4, <1>6, MsgSndRefines DEF Intact, Main, AcceptFails, MsgSnd
  <1>7. ASSUME NEW w \in Workers, Receive(w) \/ Send(w) \/ Recv(w)
        PROVE  Desk!Next \/ UNCHANGED Desk!vars
    <2>1. CASE fresh
      BY <1>7, <2>1, ReceiveRefines, SendRefines, RecvRefines DEF Desk!Next
    <2>2. CASE ~fresh
      BY <1>3, <1>4, <1>7, <2>2 DEF Intact
    <2> QED
      BY <2>1, <2>2
  <1>8. ASSUME NEW c \in Clients, ClientConnects(c)
        PROVE  Desk!Next \/ UNCHANGED Desk!vars
    <2>1. CASE fresh
      BY <1>8, <2>1, ConnectRefines DEF Desk!Next
    <2>2. CASE ~fresh
      BY <1>3, <1>4, <1>8, <2>2 DEF Intact
    <2> QED
      BY <2>1, <2>2
  <1>9. CASE \/ UNCHANGED vars
             \/ \E c \in Clients : ClientMoves(c) \/ ClientKilled(c)
    <2>1. UNCHANGED <<main, fresh, backlog, queue, buf, fdtab, work, temp_fd,
                      greets>>
      BY <1>9 DEF ClientMoves, ClientStep, RecvGreeting, SendTime, Exit,
                  ClientKilled, Interrupt, vars, serverVars, clientVars
    <2>2. CASE Intact
      BY <2>1, <2>2, SameLine DEF Desk!vars, Serving, Greeted, Intact, Up, Peer
    <2>3. CASE ~Intact
      BY <1>3, <1>4, <1>9, <2>3 DEF Intact
    <2> QED
      BY <2>2, <2>3
  <1>10. \/ Signal \/ AcceptFails
         \/ \E w \in Workers : SendFails(w) \/ RecvErrs(w)
         => ProcessEnds
    BY DEF Signal, AcceptFails, SendFails, RecvErrs, Die
  <1> QED
    BY <1>1, <1>2, <1>5, <1>6, <1>7, <1>8, <1>9, <1>10, Zenon
       DEF Next, Main, process

(* Started on an empty queue, sokets2/3scheme is one line of clients in the
   order of connect, whatever the number of clients, workers, descriptors and
   starts: a worker takes the first, greets it once and then lets it go. *)
THEOREM ServerImplementsReception == Spec => ImplementsReception
  <1>1. QueueInv /\ TurnInv /\ Served /\ [Next]_vars =>
          (QueueInv /\ TurnInv /\ Served)'
    BY QueueNext, TurnNext, ServedNext
  <1>2. QueueInv /\ TurnInv /\ Served /\ [Next]_vars =>
          [Desk!Next]_(Desk!vars)
    BY QueueNext, ReceptionNext
  <1> QED
    BY <1>1, <1>2, QueueInit, TurnInit, ServedInit, ReceptionInit, PTL
       DEF Spec, ImplementsReception, Desk!Spec
=============================================================================
