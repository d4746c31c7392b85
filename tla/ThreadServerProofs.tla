------------------------- MODULE ThreadServerProofs -------------------------
(***************************************************************************)
(* Theorems about sokets2/1-2scheme and, in the second half, 4scheme, for  *)
(* any number of clients and threads.                                      *)
(***************************************************************************)
EXTENDS ThreadServer, MuxServer, SequenceTheorems, TLAPS

-----------------------------------------------------------------------------
(* The threads and what they have read. *)

(* main makes the thread of a connection after the connection, and a thread
   reads client_fd after that: it never reads an earlier descriptor. *)
Threaded ==
  /\ client_fd = Len(fds)
  /\ main = "accept" => Len(fds) < NumThreads
  /\ main = "create" => Len(fds) > 0
  /\ \A t \in Threads : thread[t] # "absent" =>
       t <= Len(fds) /\ (main = "create" => t < Len(fds))
  /\ \A t \in Threads : HasFd(t) => t <= temp_fd[t] /\ temp_fd[t] <= Len(fds)
  /\ main = "returned" => \A t \in Threads : thread[t] = "end"

ThreadInv == TypeOK /\ Threaded

(* A line that was sent waits or was heard; a thread ends when it has received
   the line of its client, or the client's end behind it. *)
Heard ==
  /\ Up => \A c \in Clients :
       client[c] \in {"sent", "left"} /\ c \notin mail
         => c \in heard \cup killed
  /\ \A t \in Threads : thread[t] = "end" => Peer(t) \in heard \cup killed

-----------------------------------------------------------------------------
(* One thread per connection. *)

(* A client is in one place: it has not connected, waits in the backlog, or
   has one descriptor. *)
Places ==
  /\ \A f, g \in 1 .. Len(fds) : fds[f] = fds[g] => f = g
  /\ \A i, j \in 1 .. Len(backlog) : backlog[i] = backlog[j] => i = j
  /\ \A i \in 1 .. Len(backlog), f \in 1 .. Len(fds) : fds[f] # backlog[i]
  /\ \A c \in Clients : client[c] = "new" =>
       /\ \A f \in 1 .. Len(fds) : fds[f] # c
       /\ \A i \in 1 .. Len(backlog) : backlog[i] # c

Serves(t, f) == thread[t] \in {"recv", "end"} /\ temp_fd[t] = f

(* Where nothing is shared, a client has a greeting or is past it when a
   thread has served it, and waits without one before that. *)
InStep ==
  /\ \A c \in Clients : (\A f \in 1 .. Len(fds) : fds[f] # c) =>
       inbox[c] = 0 /\ client[c] \in {"new", "waiting"}
  /\ \A f \in 1 .. Len(fds) :
       \/ /\ \A t \in Threads : ~Serves(t, f)
          /\ inbox[fds[f]] = 0 /\ client[fds[f]] = "waiting"
       \/ /\ \E t \in Threads : Serves(t, f)
          /\ \/ inbox[fds[f]] = 1 /\ client[fds[f]] = "waiting"
             \/ /\ inbox[fds[f]] = 0
                /\ client[fds[f]] \in {"greeted", "sent", "left"}

(* The inductive invariant. *)
ServerInv == /\ ThreadInv /\ Heard /\ Places
             /\ Up => InStep \/ Shared \/ killed # {}
             /\ DiesOnlyWhenShared

-----------------------------------------------------------------------------
LEMMA ServerInit == Init => ServerInv
  <1> SUFFICES ASSUME Init PROVE ServerInv
    OBVIOUS
  <1> USE ThreadServerAssumption DEF ThreadServerAssumption
  <1>1. /\ client = [c \in Clients |-> "new"] /\ backlog = <<>>
        /\ inbox = [c \in Clients |-> 0] /\ mail = {}
        /\ main = "accept" /\ client_fd = 0 /\ fds = <<>>
        /\ thread = [t \in Threads |-> "absent"]
        /\ temp_fd = [t \in Threads |-> 0]
        /\ heard = {} /\ killed = {}
    BY Zenon DEF Init, ClientInit
  <1>2. Len(fds) = 0 /\ Len(backlog) = 0
    BY <1>1
  <1>3. TypeOK
    BY <1>1, <1>2 DEF TypeOK, ClientTypeOK
  <1>4. Threaded /\ Heard
    BY <1>1, <1>2 DEF Threaded, HasFd, Heard
  <1>5. Places /\ InStep
    BY <1>1, <1>2 DEF Places, InStep
  <1> QED
    BY <1>1, <1>3, <1>4, <1>5 DEF ServerInv, ThreadInv, DiesOnlyWhenShared

LEMMA ThreadNext == ThreadInv /\ [Next]_vars => ThreadInv'
  <1> SUFFICES ASSUME ThreadInv, [Next]_vars PROVE ThreadInv'
    OBVIOUS
  <1> USE ThreadServerAssumption
      DEF ThreadServerAssumption, ThreadInv, Threaded, HasFd, TypeOK,
          ClientTypeOK, Threads
  <1>1. ASSUME NEW how \in {"returned", "died", "signalled"},
               ProcessEnds(how),
               how = "returned" => \A t \in Threads : thread[t] = "end"
        PROVE  ThreadInv'
    <2>1. ClientTypeOK'
      BY <1>1 DEF ProcessEnds, HangUp
    <2>2. /\ main' = how
          /\ UNCHANGED <<client_fd, fds, thread, temp_fd, heard, killed>>
      BY <1>1, Zenon DEF ProcessEnds
    <2> QED
      BY <1>1, <2>1, <2>2
  <1>2. CASE Accept
    <2>1. Accepted \in Clients
      BY <1>2 DEF Accept, TakeConnection, Accepted
    <2>2. backlog' \in Seq(Clients) /\ Len(backlog') <= Backlog
      BY <1>2 DEF Accept, TakeConnection
    <2>3. fds' \in Seq(Clients) /\ Len(fds') = Len(fds) + 1
      BY <1>2, <2>1 DEF Accept
    <2>4. /\ client_fd' = Len(fds) + 1
          /\ main = "accept" /\ main' = "create"
          /\ UNCHANGED <<client, inbox, mail, thread, temp_fd, heard, killed>>
      BY <1>2, <2>3 DEF Accept, TakeConnection
    <2>5. Len(fds) \in Nat /\ Len(fds) < NumThreads
      BY <2>4
    <2>6. TypeOK'
      BY <2>2, <2>3, <2>4, <2>5
    <2>7. Threaded'
      <3> DEFINE n == Len(fds)
      <3>1. n \in Nat /\ Len(fds') = n + 1
        BY <2>3, <2>5
      <3>2. ASSUME NEW t \in Threads
            PROVE  /\ thread[t] # "absent" => t <= n
                   /\ HasFd(t) => t <= temp_fd[t] /\ temp_fd[t] <= n
                   /\ temp_fd[t] \in Int /\ t \in Int
        OBVIOUS
      <3> HIDE DEF n
      <3>3. ASSUME NEW t \in Threads
            PROVE  /\ thread[t] # "absent" => t <= n + 1 /\ t < n + 1
                   /\ HasFd(t) => t <= temp_fd[t] /\ temp_fd[t] <= n + 1
        BY <3>1, <3>2
      <3>4. n + 1 > 0
        BY <3>1
      <3> QED
        BY <2>4, <3>1, <3>3, <3>4 DEF n
    <2> QED
      BY <2>6, <2>7
  <1>3. CASE Create
    BY <1>3 DEF Create, clientVars
  <1>4. CASE Join
    BY <1>1, <1>4 DEF Join
  <1>5. CASE Signal
    BY <1>1, <1>5 DEF Signal
  <1>6. ASSUME NEW t \in Threads, ReadFd(t) PROVE ThreadInv'
    BY <1>6 DEF ReadFd, At, Up, Go, clientVars
  <1>7. ASSUME NEW t \in Threads, Send(t) PROVE ThreadInv'
    <2>1. Peer(t) \in Clients
      BY <1>7 DEF Send, At, Peer
    <2>2. inbox' \in [Clients -> Nat]
      BY <1>7, <2>1 DEF Send, Greet
    <2> QED
      BY <1>7, <2>2 DEF Send, Greet, At, Up, Go
  <1>8. ASSUME NEW t \in Threads, Recv(t) PROVE ThreadInv'
    BY <1>8 DEF Recv, RecvReturns, At, Up, Go
  <1>9. ASSUME NEW t \in Threads, SendFails(t) \/ RecvErrs(t)
        PROVE  ThreadInv'
    BY <1>1, <1>9 DEF SendFails, RecvErrs
  <1>10. ASSUME NEW c \in Clients, ClientConnects(c) PROVE ThreadInv'
    BY <1>10 DEF ClientConnects, Connect, Becomes, serverVars
  <1>11. ASSUME NEW c \in Clients, ClientMoves(c) PROVE ThreadInv'
    <2> USE DEF ClientMoves, serverVars, Becomes
    <2>1. CASE RecvGreeting(c)
      BY <1>11, <2>1 DEF RecvGreeting
    <2>2. CASE SendTime(c)
      BY <1>11, <2>2 DEF SendTime
    <2>3. CASE Exit(c)
      BY <1>11, <2>3 DEF Exit
    <2> QED
      BY <1>11, <2>1, <2>2, <2>3 DEF ClientStep
  <1>12. ASSUME NEW c \in Clients, ClientKilled(c) PROVE ThreadInv'
    BY <1>12 DEF ClientKilled, Interrupt, Becomes
  <1>13. CASE UNCHANGED vars
    BY <1>13 DEF vars, clientVars, serverVars
  <1> QED
    BY <1>2, <1>3, <1>4, <1>5, <1>6, <1>7, <1>8, <1>9, <1>10, <1>11, <1>12,
       <1>13
       DEF Next, Main, process

-----------------------------------------------------------------------------
LEMMA FdsInRange ==
  ASSUME ThreadInv, NEW t \in Threads, HasFd(t)
  PROVE  temp_fd[t] \in 1 .. Len(fds)
  BY DEF ThreadInv, TypeOK, Threaded, Threads

LEMMA HeardNext == ThreadInv /\ Heard /\ [Next]_vars => Heard'
  <1> SUFFICES ASSUME ThreadInv, Heard, [Next]_vars PROVE Heard'
    OBVIOUS
  <1> USE DEF ThreadInv, TypeOK, ClientTypeOK, Becomes
  <1>1. \A t \in Threads : HasFd(t) => temp_fd[t] \in 1 .. Len(fds)
    BY FdsInRange
  <1>2. ASSUME UNCHANGED <<thread, temp_fd, heard, killed>>,
               \A f \in 1 .. Len(fds) : fds'[f] = fds[f]
        PROVE  \A t \in Threads :
                 thread'[t] = "end" => Peer(t)' \in heard' \cup killed'
    BY <1>1, <1>2 DEF Heard, HasFd, Peer
  <1>3. ASSUME NEW how, ProcessEnds(how),
               how \notin {"accept", "create", "join"}
        PROVE  Heard'
    BY <1>2, <1>3 DEF ProcessEnds, Heard, Up
  <1>4. CASE Accept
    <2>1. \A f \in 1 .. Len(fds) : fds'[f] = fds[f]
      <3>1. Accepted \in Clients
        BY <1>4 DEF Accept, TakeConnection, Accepted
      <3> QED
        BY <1>4, <3>1 DEF Accept
    <2> QED
      BY <1>2, <1>4, <2>1 DEF Accept, TakeConnection, Heard, Up
  <1>5. CASE Create
    BY <1>5 DEF Create, clientVars, Heard, Up, Peer
  <1>6. ASSUME NEW t \in Threads, ReadFd(t) PROVE Heard'
    BY <1>6 DEF ReadFd, At, Go, clientVars, Heard, Up, Peer
  <1>7. ASSUME NEW t \in Threads, Send(t) PROVE Heard'
    BY <1>7 DEF Send, Greet, At, Go, Heard, Up, Peer
  <1>8. ASSUME NEW t \in Threads, Recv(t) PROVE Heard'
    <2>1. Peer(t) \in Clients
      BY <1>1, <1>8 DEF Recv, At, HasFd, Peer
    <2>2. /\ heard' = heard \cup (mail \cap {Peer(t)})
          /\ mail' = mail \ {Peer(t)}
          /\ Peer(t) \in mail \/ client[Peer(t)] = "left"
          /\ thread' = [thread EXCEPT ![t] = "end"]
          /\ UNCHANGED <<main, client, fds, temp_fd, killed>>
          /\ Up
      BY <1>8 DEF Recv, RecvReturns, Closed, At, Go
    <2>3. Peer(t) \in heard' \cup killed
      BY <2>1, <2>2 DEF Heard
    <2> QED
      BY <2>2, <2>3 DEF Heard, Up, Peer
  <1>9. ASSUME NEW c \in Clients, ClientConnects(c) PROVE Heard'
    BY <1>9 DEF ClientConnects, Connect, serverVars, Heard, Up, Peer
  <1>10. ASSUME NEW c \in Clients, ClientMoves(c) PROVE Heard'
    <2> USE DEF ClientMoves, serverVars, Heard, Up, Peer
    <2>1. CASE RecvGreeting(c)
      BY <1>10, <2>1 DEF RecvGreeting
    <2>2. CASE SendTime(c)
      BY <1>10, <2>2 DEF SendTime
    <2>3. CASE Exit(c)
      BY <1>10, <2>3 DEF Exit
    <2> QED
      BY <1>10, <2>1, <2>2, <2>3 DEF ClientStep
  <1>11. ASSUME NEW c \in Clients, ClientKilled(c) PROVE Heard'
    BY <1>11 DEF ClientKilled, Interrupt, Heard, Up, Peer
  <1>12. CASE UNCHANGED vars
    BY <1>12 DEF vars, clientVars, serverVars, Heard, Up, Peer
  <1>13. ASSUME \/ Join \/ Signal
                \/ \E t \in Threads : SendFails(t) \/ RecvErrs(t)
         PROVE  Heard'
    BY <1>3, <1>13 DEF Join, Signal, SendFails, RecvErrs
  <1> QED
    BY <1>4, <1>5, <1>6, <1>7, <1>8, <1>9, <1>10, <1>11, <1>12, <1>13
       DEF Next, Main, process

-----------------------------------------------------------------------------
(* What accept does to the two sequences. *)
AcceptMoved ==
  /\ Accepted \in Clients /\ 1 \in 1 .. Len(backlog)
  /\ Accepted = backlog[1]
  /\ \A i \in 1 .. Len(backlog') :
       /\ i + 1 \in 1 .. Len(backlog) /\ i + 1 # 1
       /\ backlog'[i] = backlog[i + 1]
  /\ Len(fds) \in Nat /\ Len(fds') = Len(fds) + 1
  /\ \A f \in 1 .. Len(fds) : fds'[f] = fds[f] /\ f # Len(fds) + 1
  /\ fds'[Len(fds) + 1] = Accepted
  /\ \A f \in 1 .. Len(fds') : f \in 1 .. Len(fds) \/ f = Len(fds) + 1

LEMMA AcceptMoves == ThreadInv /\ Accept => AcceptMoved
  <1> SUFFICES ASSUME ThreadInv, Accept PROVE AcceptMoved
    OBVIOUS
  <1> USE DEF ThreadInv, TypeOK, ClientTypeOK
  <1>1. /\ Accepted \in Clients /\ Accepted = backlog[1]
        /\ Len(backlog) \in Nat \ {0} /\ Len(backlog') = Len(backlog) - 1
        /\ \A i \in 1 .. Len(backlog') : backlog'[i] = backlog[i + 1]
    BY DEF Accept, TakeConnection, Accepted
  <1>2. /\ Len(fds) \in Nat /\ Len(fds') = Len(fds) + 1
        /\ \A f \in 1 .. Len(fds) : fds'[f] = fds[f]
        /\ fds'[Len(fds) + 1] = Accepted
    BY <1>1 DEF Accept
  <1>3. \A i \in 1 .. Len(backlog') : i + 1 \in 1 .. Len(backlog) /\ i + 1 # 1
    BY <1>1
  <1>4. 1 \in 1 .. Len(backlog)
    BY <1>1
  <1>5. /\ \A f \in 1 .. Len(fds) : f # Len(fds) + 1
        /\ \A f \in 1 .. Len(fds') : f \in 1 .. Len(fds) \/ f = Len(fds) + 1
    BY <1>2
  <1> QED
    BY <1>1, <1>2, <1>3, <1>4, <1>5, Zenon DEF AcceptMoved

(* What connect does to the backlog. *)
ConnectAppended(c) ==
  /\ client[c] = "new" /\ client' = [client EXCEPT ![c] = "waiting"]
  /\ \A i \in 1 .. Len(backlog) : backlog'[i] = backlog[i]
  /\ backlog'[Len(backlog) + 1] = c
  /\ \A i \in 1 .. Len(backlog') :
       i \in 1 .. Len(backlog) \/ i = Len(backlog) + 1

LEMMA ConnectAppends ==
  ASSUME ThreadInv, NEW c \in Clients, Connect(c) PROVE ConnectAppended(c)
  <1> USE DEF ThreadInv, TypeOK, ClientTypeOK, Connect, Becomes
  <1>1. /\ Len(backlog) \in Nat /\ Len(backlog') = Len(backlog) + 1
        /\ \A i \in 1 .. Len(backlog) : backlog'[i] = backlog[i]
        /\ backlog'[Len(backlog) + 1] = c
    OBVIOUS
  <1>2. \A i \in 1 .. Len(backlog') :
          i \in 1 .. Len(backlog) \/ i = Len(backlog) + 1
    BY <1>1
  <1> QED
    BY <1>1, <1>2 DEF ConnectAppended

LEMMA PlacesNext == ThreadInv /\ Places /\ [Next]_vars => Places'
  <1> SUFFICES ASSUME ThreadInv, Places, [Next]_vars PROVE Places'
    OBVIOUS
  <1>1. ASSUME UNCHANGED <<fds, backlog>>,
               \A c \in Clients : client'[c] = "new" => client[c] = "new"
        PROVE  Places'
    BY <1>1, Zenon DEF Places
  <1>2. ASSUME NEW how, ProcessEnds(how) PROVE Places'
    <2>1. Len(backlog') = 0 /\ fds' = fds
      BY <1>2 DEF ProcessEnds, HangUp
    <2>2. \A c \in Clients : client'[c] = "new" => client[c] = "new"
      BY <1>2 DEF ProcessEnds, HangUp
    <2>3. \A i \in 1 .. Len(backlog') : FALSE
      BY <2>1
    <2>4. /\ \A f, g \in 1 .. Len(fds') : fds'[f] = fds'[g] => f = g
          /\ \A c \in Clients : client'[c] = "new" =>
               \A f \in 1 .. Len(fds') : fds'[f] # c
      BY <2>1, <2>2 DEF Places
    <2> QED
      BY <2>3, <2>4, Zenon DEF Places
  <1>3. CASE Accept
    <2>0. AcceptMoved
      BY <1>3, AcceptMoves
    <2>1. UNCHANGED client
      BY <1>3 DEF Accept, TakeConnection
    <2>2. /\ Accepted = backlog[1] /\ 1 \in 1 .. Len(backlog)
          /\ Accepted \in Clients
      BY <2>0 DEF AcceptMoved
    <2>3. \A i \in 1 .. Len(backlog') :
            /\ i + 1 \in 1 .. Len(backlog) /\ i + 1 # 1
            /\ backlog'[i] = backlog[i + 1]
      BY <2>0 DEF AcceptMoved
    <2>4. \A f \in 1 .. Len(fds') :
            \/ f \in 1 .. Len(fds) /\ fds'[f] = fds[f]
            \/ f = Len(fds) + 1 /\ fds'[f] = Accepted
      BY <2>0 DEF AcceptMoved
    <2>5. \A f \in 1 .. Len(fds) : fds[f] # Accepted
      BY <2>2, Zenon DEF Places
    <2>6. \A f, g \in 1 .. Len(fds') : fds'[f] = fds'[g] => f = g
      <3>1. \A f, g \in 1 .. Len(fds) : fds[f] = fds[g] => f = g
        BY Zenon DEF Places
      <3> QED
        BY <2>4, <2>5, <3>1, Zenon
    <2>7. ASSUME NEW i \in 1 .. Len(backlog'), NEW j \in 1 .. Len(backlog'),
                 backlog'[i] = backlog'[j]
          PROVE  i = j
      <3>1. i \in Int /\ j \in Int
        OBVIOUS
      <3>2. i + 1 = j + 1
        BY <2>3, <2>7, Zenon DEF Places
      <3> QED
        BY <3>1, <3>2
    <2>8. ASSUME NEW i \in 1 .. Len(backlog'), NEW f \in 1 .. Len(fds')
          PROVE  fds'[f] # backlog'[i]
      <3>1. backlog[i + 1] # Accepted
        BY <2>2, <2>3, Zenon DEF Places
      <3>2. \A g \in 1 .. Len(fds) : fds[g] # backlog[i + 1]
        BY <2>3, Zenon DEF Places
      <3> QED
        BY <2>3, <2>4, <3>1, <3>2, Zenon
    <2>9. ASSUME NEW c \in Clients, client'[c] = "new"
          PROVE  /\ \A f \in 1 .. Len(fds') : fds'[f] # c
                 /\ \A i \in 1 .. Len(backlog') : backlog'[i] # c
      <3>1. /\ \A f \in 1 .. Len(fds) : fds[f] # c
            /\ \A i \in 1 .. Len(backlog) : backlog[i] # c
        BY <2>1, <2>9, Zenon DEF Places
      <3> QED
        BY <2>2, <2>3, <2>4, <3>1, Zenon
    <2> QED
      BY <2>6, <2>7, <2>8, <2>9, Zenon DEF Places
  <1>4. ASSUME NEW c \in Clients, ClientConnects(c) PROVE Places'
    <2>1. Connect(c) /\ UNCHANGED fds
      BY <1>4 DEF ClientConnects, serverVars
    <2>2. ConnectAppended(c)
      BY <2>1, ConnectAppends
    <2>3. /\ \A f \in 1 .. Len(fds) : fds[f] # c
          /\ \A i \in 1 .. Len(backlog) : backlog[i] # c
      BY <2>2, Zenon DEF Places, ConnectAppended
    <2>4. \A d \in Clients : client'[d] = "new" => client[d] = "new" /\ d # c
      BY <2>2 DEF ConnectAppended, ThreadInv, TypeOK, ClientTypeOK
    <2>5. \A i \in 1 .. Len(backlog') :
            \/ i \in 1 .. Len(backlog) /\ backlog'[i] = backlog[i]
            \/ i = Len(backlog) + 1 /\ backlog'[i] = c
      BY <2>2 DEF ConnectAppended
    <2>6. \A i, j \in 1 .. Len(backlog') : backlog'[i] = backlog'[j] => i = j
      <3>1. \A i, j \in 1 .. Len(backlog) : backlog[i] = backlog[j] => i = j
        BY Zenon DEF Places
      <3> QED
        BY <2>3, <2>5, <3>1, Zenon
    <2>7. \A i \in 1 .. Len(backlog'), f \in 1 .. Len(fds') :
            fds'[f] # backlog'[i]
      <3>1. \A i \in 1 .. Len(backlog), f \in 1 .. Len(fds) :
              fds[f] # backlog[i]
        BY Zenon DEF Places
      <3> QED
        BY <2>1, <2>3, <2>5, <3>1, Zenon
    <2>8. ASSUME NEW d \in Clients, client'[d] = "new"
          PROVE  /\ \A f \in 1 .. Len(fds') : fds'[f] # d
                 /\ \A i \in 1 .. Len(backlog') : backlog'[i] # d
      <3>1. /\ \A f \in 1 .. Len(fds) : fds[f] # d
            /\ \A i \in 1 .. Len(backlog) : backlog[i] # d
        BY <2>4, <2>8, Zenon DEF Places
      <3> QED
        BY <2>1, <2>4, <2>5, <2>8, <3>1, Zenon
    <2>9. \A f, g \in 1 .. Len(fds') : fds'[f] = fds'[g] => f = g
      BY <2>1 DEF Places
    <2> QED
      BY <2>6, <2>7, <2>8, <2>9, Zenon DEF Places
  <1>5. ASSUME NEW c \in Clients, ClientMoves(c) \/ ClientKilled(c)
        PROVE  Places'
    <2>1. \A d \in Clients : client'[d] = "new" => client[d] = "new"
      BY <1>5 DEF ClientMoves, ClientKilled, ClientStep, RecvGreeting,
                  SendTime, Exit, Interrupt, Becomes, ThreadInv, TypeOK,
                  ClientTypeOK
    <2>2. UNCHANGED <<fds, backlog>>
      BY <1>5 DEF ClientMoves, ClientKilled, ClientStep, RecvGreeting,
                  SendTime, Exit, Interrupt, serverVars
    <2> QED
      BY <1>1, <2>1, <2>2
  <1>6. ASSUME \/ Create \/ UNCHANGED vars
               \/ \E t \in Threads : ReadFd(t) \/ Send(t) \/ Recv(t)
        PROVE  Places'
    BY <1>1, <1>6 DEF Create, ReadFd, Send, Greet, Recv, RecvReturns, vars,
                      clientVars, serverVars
  <1>7. ASSUME \/ Join \/ Signal
               \/ \E t \in Threads : SendFails(t) \/ RecvErrs(t)
        PROVE  Places'
    BY <1>2, <1>7 DEF Join, Signal, SendFails, RecvErrs
  <1> QED
    BY <1>3, <1>4, <1>5, <1>6, <1>7 DEF Next, Main, process

-----------------------------------------------------------------------------
(* A thread keeps what it has read, so sharing is for good. *)
LEMMA FdsAreKept ==
  ASSUME ThreadInv, [Next]_vars
  PROVE  /\ \A t \in Threads :
              HasFd(t) => HasFd(t)' /\ temp_fd'[t] = temp_fd[t]
         /\ Shared => Shared'
         /\ killed \subseteq killed'
  <1> USE DEF ThreadInv, Threaded, TypeOK, HasFd
  <1>1. \A t \in Threads : HasFd(t) => HasFd(t)' /\ temp_fd'[t] = temp_fd[t]
    <2>1. CASE Create
      <3>1. thread' = [thread EXCEPT ![Len(fds)] = "start"]
            /\ UNCHANGED temp_fd
        BY <2>1 DEF Create
      <3>2. \A t \in Threads : HasFd(t) => t # Len(fds)
        BY <2>1 DEF Create, Threads
      <3> QED
        BY <3>1, <3>2
    <2>2. ASSUME NEW t \in Threads, ReadFd(t) \/ Send(t) \/ Recv(t)
          PROVE  \A u \in Threads :
                   HasFd(u) => HasFd(u)' /\ temp_fd'[u] = temp_fd[u]
      BY <2>2 DEF ReadFd, Send, Recv, At, Go
    <2>3. ASSUME \/ Accept \/ Join \/ Signal \/ UNCHANGED vars
                 \/ \E t \in Threads : SendFails(t) \/ RecvErrs(t)
                 \/ \E c \in Clients :
                      ClientConnects(c) \/ ClientMoves(c) \/ ClientKilled(c)
          PROVE  UNCHANGED <<thread, temp_fd>>
      BY <2>3 DEF Accept, Join, Signal, SendFails, RecvErrs, ProcessEnds,
                  ClientConnects, ClientMoves, ClientKilled, vars, serverVars
    <2> QED
      BY <2>1, <2>2, <2>3 DEF Next, Main, process
  <1>2. Shared => Shared'
    BY <1>1 DEF Shared
  <1>3. killed \subseteq killed'
    BY DEF Next, Main, process, Accept, Create, Join, Signal, ProcessEnds,
           ReadFd, Send, SendFails, Recv, RecvErrs, ClientConnects,
           ClientMoves, ClientKilled, vars, serverVars
  <1> QED
    BY <1>1, <1>2, <1>3

(* Neither the clients without a descriptor nor the others see a difference. *)
LEMMA SameStep ==
  ASSUME InStep, UNCHANGED <<client, inbox, fds>>,
         \A t \in Threads, f \in 1 .. Len(fds) : Serves(t, f)' <=> Serves(t, f)
  PROVE  InStep'
  BY DEF InStep

LEMMA InStepNext ==
  ASSUME ThreadInv, Places, InStep, ~Shared, [Next]_vars, Up', killed' = {}
  PROVE  InStep'
  <1> USE DEF ThreadInv, TypeOK, ClientTypeOK, Becomes
  <1>0. /\ \A f \in 1 .. Len(fds) : fds[f] \in Clients
        /\ \A t \in Threads : HasFd(t) => temp_fd[t] \in 1 .. Len(fds)
    BY FdsInRange
  <1>1. CASE Accept
    <2>0. AcceptMoved
      BY <1>1, AcceptMoves
    <2>1. UNCHANGED <<client, inbox, thread, temp_fd>>
      BY <1>1 DEF Accept, TakeConnection
    <2>2. \A f \in 1 .. Len(fds') :
            \/ f \in 1 .. Len(fds) /\ fds'[f] = fds[f]
            \/ f = Len(fds) + 1 /\ fds'[f] = Accepted
      BY <2>0 DEF AcceptMoved
    <2>3. \A t \in Threads : ~Serves(t, Len(fds) + 1)
      <3>1. Len(fds) + 1 \notin 1 .. Len(fds)
        BY <2>0 DEF AcceptMoved
      <3> QED
        BY <1>0, <3>1 DEF Serves, HasFd
    <2>4. inbox[Accepted] = 0 /\ client[Accepted] = "waiting"
      <3>1. Accepted \in Clients /\ \E i \in 1 .. Len(backlog) :
                                      backlog[i] = Accepted
        BY <2>0 DEF AcceptMoved
      <3>2. \A f \in 1 .. Len(fds) : fds[f] # Accepted
        BY <3>1, Zenon DEF Places
      <3>3. client[Accepted] # "new"
        BY <3>1, Zenon DEF Places
      <3> QED
        BY <3>1, <3>2, <3>3 DEF InStep
    <2>5. ASSUME NEW c \in Clients, \A f \in 1 .. Len(fds') : fds'[f] # c
          PROVE  inbox'[c] = 0 /\ client'[c] \in {"new", "waiting"}
      <3>1. ASSUME NEW f \in 1 .. Len(fds)
            PROVE  fds'[f] = fds[f] /\ f \in 1 .. Len(fds')
        <4>1. Len(fds) \in Nat /\ Len(fds') = Len(fds) + 1
          BY <2>0, Zenon DEF AcceptMoved
        <4>2. fds'[f] = fds[f]
          BY <2>0, Zenon DEF AcceptMoved
        <4> QED
          BY <4>1, <4>2
      <3> QED
        BY <2>1, <2>5, <3>1 DEF InStep
    <2>6. ASSUME NEW f \in 1 .. Len(fds')
          PROVE  \/ /\ \A t \in Threads : ~Serves(t, f)
                    /\ inbox'[fds'[f]] = 0 /\ client'[fds'[f]] = "waiting"
                 \/ /\ \E t \in Threads : Serves(t, f)
                    /\ \/ inbox'[fds'[f]] = 1 /\ client'[fds'[f]] = "waiting"
                       \/ /\ inbox'[fds'[f]] = 0
                          /\ client'[fds'[f]] \in {"greeted", "sent", "left"}
      <3>1. CASE f \in 1 .. Len(fds) /\ fds'[f] = fds[f]
        BY <2>1, <3>1 DEF InStep
      <3>2. CASE f = Len(fds) + 1 /\ fds'[f] = Accepted
        BY <2>1, <2>3, <2>4, <3>2
      <3> QED
        BY <2>2, <3>1, <3>2
    <2> QED
      BY <2>1, <2>5, <2>6 DEF InStep, Serves
  <1>2. CASE Create
    <2>1. UNCHANGED <<client, inbox, fds, temp_fd>>
          /\ thread' = [thread EXCEPT ![Len(fds)] = "start"]
      BY <1>2 DEF Create, clientVars
    <2>2. \A t \in Threads : thread[t] # "absent" => t # Len(fds)
      BY <1>2 DEF Create, Threaded, Threads
    <2>3. \A t \in Threads, f \in 1 .. Len(fds) :
            Serves(t, f)' <=> Serves(t, f)
      BY <2>1, <2>2 DEF Serves
    <2> QED
      BY <2>1, <2>3, SameStep
  <1>3. ASSUME NEW t \in Threads, ReadFd(t) PROVE InStep'
    <2>1. UNCHANGED <<client, inbox, fds>>
      BY <1>3 DEF ReadFd, clientVars
    <2>2. \A u \in Threads, f \in 1 .. Len(fds) :
            Serves(u, f)' <=> Serves(u, f)
      BY <1>3 DEF ReadFd, At, Go, Serves
    <2> QED
      BY <2>1, <2>2, SameStep
  <1>4. ASSUME NEW t \in Threads, Recv(t) PROVE InStep'
    <2>1. UNCHANGED <<client, inbox, fds>>
      BY <1>4 DEF Recv, RecvReturns
    <2>2. \A u \in Threads, f \in 1 .. Len(fds) :
            Serves(u, f)' <=> Serves(u, f)
      BY <1>4 DEF Recv, At, Go, Serves
    <2> QED
      BY <2>1, <2>2, SameStep
  <1>5. ASSUME NEW t \in Threads, Send(t) PROVE InStep'
    <2> DEFINE g == temp_fd[t]
    <2>1. /\ g \in 1 .. Len(fds) /\ fds[g] \in Clients
          /\ \A u \in Threads : ~Serves(u, g)
      <3>1. HasFd(t) /\ thread[t] = "send"
        BY <1>5 DEF Send, At, HasFd
      <3>2. \A u \in Threads : u # t /\ HasFd(u) => temp_fd[u] # g
        BY <3>1 DEF Shared
      <3> QED
        BY <1>0, <3>1, <3>2 DEF Serves, HasFd
    <2>2. /\ inbox' = [inbox EXCEPT ![fds[g]] = inbox[fds[g]] + 1]
          /\ UNCHANGED <<client, fds, temp_fd>>
          /\ thread' = [thread EXCEPT ![t] = "recv"]
      BY <1>5 DEF Send, Greet, Go, Peer
    <2>3. inbox[fds[g]] = 0 /\ client[fds[g]] = "waiting"
      BY <2>1 DEF InStep
    <2> HIDE DEF g
    <2>4. \A u \in Threads, f \in 1 .. Len(fds) :
            Serves(u, f)' <=> (u = t /\ f = g) \/ Serves(u, f)
      BY <1>5, <2>2 DEF Send, At, Serves, g
    <2>5. inbox'[fds[g]] = 1
      BY <2>1, <2>2, <2>3
    <2>6. ASSUME NEW f \in 1 .. Len(fds), f # g
          PROVE  inbox'[fds[f]] = inbox[fds[f]]
                 /\ \A u \in Threads : Serves(u, f)' <=> Serves(u, f)
      <3>1. fds[f] # fds[g]
        BY <2>1, <2>6, Zenon DEF Places
      <3> QED
        BY <1>0, <2>2, <2>4, <2>6, <3>1
    <2>7. \A c \in Clients : c # fds[g] => inbox'[c] = inbox[c]
      BY <2>1, <2>2
    <2>8. ASSUME NEW c \in Clients, \A f \in 1 .. Len(fds') : fds'[f] # c
          PROVE  inbox'[c] = 0 /\ client'[c] \in {"new", "waiting"}
      BY <2>1, <2>2, <2>7, <2>8 DEF InStep
    <2>9. ASSUME NEW f \in 1 .. Len(fds')
          PROVE  \/ /\ \A u \in Threads : ~Serves(u, f)'
                    /\ inbox'[fds'[f]] = 0 /\ client'[fds'[f]] = "waiting"
                 \/ /\ \E u \in Threads : Serves(u, f)'
                    /\ \/ inbox'[fds'[f]] = 1 /\ client'[fds'[f]] = "waiting"
                       \/ /\ inbox'[fds'[f]] = 0
                          /\ client'[fds'[f]] \in {"greeted", "sent", "left"}
      <3>1. CASE f = g
        BY <2>2, <2>3, <2>4, <2>5, <2>9, <3>1
      <3>2. CASE f # g
        BY <2>2, <2>6, <2>9, <3>2 DEF InStep
      <3> QED
        BY <3>1, <3>2
    <2> QED
      BY <2>8, <2>9 DEF InStep
  <1>6. ASSUME NEW c \in Clients, ClientConnects(c) PROVE InStep'
    <2>1. /\ client[c] = "new" /\ client' = [client EXCEPT ![c] = "waiting"]
          /\ UNCHANGED <<inbox, fds, thread, temp_fd>>
      BY <1>6 DEF ClientConnects, Connect, serverVars
    <2>2. \A f \in 1 .. Len(fds) : fds[f] # c
      BY <2>1, Zenon DEF Places
    <2> QED
      BY <1>0, <2>1, <2>2 DEF InStep, Serves
  <1>7. ASSUME NEW c \in Clients, ClientMoves(c) PROVE InStep'
    <2>1. UNCHANGED <<fds, thread, temp_fd>>
      BY <1>7 DEF ClientMoves, serverVars
    <2>2. /\ \/ inbox[c] > 0 /\ client[c] = "waiting"
             \/ client[c] \in {"greeted", "sent"}
          /\ \A d \in Clients :
               d # c => inbox'[d] = inbox[d] /\ client'[d] = client[d]
      <3>1. CASE RecvGreeting(c)
        BY <3>1 DEF RecvGreeting
      <3>2. CASE SendTime(c)
        BY <3>2 DEF SendTime
      <3>3. CASE Exit(c)
        BY <3>3 DEF Exit
      <3> QED
        BY <1>7, <3>1, <3>2, <3>3 DEF ClientMoves, ClientStep
    <2>3. PICK g \in 1 .. Len(fds) : fds[g] = c
      <3>1. ~(inbox[c] = 0 /\ client[c] \in {"new", "waiting"})
        BY <2>2
      <3>2. (\A f \in 1 .. Len(fds) : fds[f] # c)
              => inbox[c] = 0 /\ client[c] \in {"new", "waiting"}
        BY Zenon DEF InStep
      <3> QED
        BY <3>1, <3>2, Zenon
    <2>4. /\ \E t \in Threads : Serves(t, g)
          /\ \/ inbox[c] = 1 /\ client[c] = "waiting"
             \/ inbox[c] = 0 /\ client[c] \in {"greeted", "sent", "left"}
      BY <2>2, <2>3 DEF InStep
    <2>5. inbox'[c] = 0 /\ client'[c] \in {"greeted", "sent", "left"}
      <3>1. CASE RecvGreeting(c)
        BY <2>4, <3>1 DEF RecvGreeting
      <3>2. CASE SendTime(c)
        BY <2>4, <3>2 DEF SendTime
      <3>3. CASE Exit(c)
        BY <2>4, <3>3 DEF Exit
      <3> QED
        BY <1>7, <3>1, <3>2, <3>3 DEF ClientMoves, ClientStep
    <2>6. \A f \in 1 .. Len(fds) : f # g => fds[f] # c
      BY <2>3, Zenon DEF Places
    <2>7. ASSUME NEW d \in Clients, \A f \in 1 .. Len(fds) : fds[f] # d
          PROVE  inbox'[d] = 0 /\ client'[d] \in {"new", "waiting"}
      <3>1. d # c
        BY <2>3, <2>7, Zenon
      <3> QED
        BY <2>2, <2>7, <3>1 DEF InStep
    <2>8. ASSUME NEW f \in 1 .. Len(fds)
          PROVE  \/ /\ \A t \in Threads : ~Serves(t, f)
                    /\ inbox'[fds[f]] = 0 /\ client'[fds[f]] = "waiting"
                 \/ /\ \E t \in Threads : Serves(t, f)
                    /\ \/ inbox'[fds[f]] = 1 /\ client'[fds[f]] = "waiting"
                       \/ /\ inbox'[fds[f]] = 0
                          /\ client'[fds[f]] \in {"greeted", "sent", "left"}
      <3>1. CASE f = g
        BY <2>3, <2>4, <2>5, <3>1
      <3>2. CASE f # g
        <4>1. /\ inbox'[fds[f]] = inbox[fds[f]]
              /\ client'[fds[f]] = client[fds[f]]
          BY <1>0, <2>2, <2>6, <3>2
        <4> QED
          BY <4>1 DEF InStep
      <3> QED
        BY <3>1, <3>2
    <2> QED
      BY <2>1, <2>7, <2>8 DEF InStep, Serves
  <1>8. ASSUME NEW c \in Clients, ClientKilled(c) PROVE FALSE
    BY <1>8 DEF ClientKilled
  <1>9. CASE UNCHANGED vars
    <2>1. UNCHANGED <<client, inbox, fds, thread, temp_fd>>
      BY <1>9 DEF vars, clientVars, serverVars
    <2> QED
      BY <2>1, SameStep DEF Serves
  <1>10. ASSUME \/ Join \/ Signal
                \/ \E t \in Threads : SendFails(t) \/ RecvErrs(t)
         PROVE  FALSE
    BY <1>10 DEF Join, Signal, SendFails, RecvErrs, ProcessEnds, Up
  <1> QED
    BY <1>1, <1>2, <1>3, <1>4, <1>5, <1>6, <1>7, <1>8, <1>9, <1>10
       DEF Next, Main, process

-----------------------------------------------------------------------------
(* A send or recv that fails has a client that is gone too early: another
   thread has served it, or it was interrupted. *)
LEMMA NobodyDiesInStep ==
  ASSUME ThreadInv, InStep, ~Shared, NEW t \in Threads
  PROVE  ~SendFails(t) /\ ~RecvErrs(t)
  <1> USE DEF ThreadInv, TypeOK, ClientTypeOK
  <1>1. HasFd(t) => /\ temp_fd[t] \in 1 .. Len(fds)
                    /\ \A u \in Threads :
                         u # t /\ HasFd(u) => temp_fd[u] # temp_fd[t]
    BY FdsInRange DEF Shared
  <1>2. ASSUME SendFails(t) PROVE FALSE
    <2>1. HasFd(t) /\ thread[t] = "send" /\ client[Peer(t)] = "left"
      BY <1>2 DEF SendFails, At, HasFd, Closed
    <2>2. \A u \in Threads : ~Serves(u, temp_fd[t])
      BY <1>1, <2>1 DEF Serves, HasFd
    <2> QED
      BY <1>1, <2>1, <2>2 DEF InStep, Peer
  <1>3. ASSUME RecvErrs(t) PROVE FALSE
    <2>1. HasFd(t) /\ client[Peer(t)] = "left" /\ inbox[Peer(t)] > 0
      BY <1>3 DEF RecvErrs, RecvFails, At, HasFd, Closed
    <2> QED
      BY <1>1, <2>1 DEF InStep, Peer
  <1> QED
    BY <1>2, <1>3

LEMMA ServerNext == ServerInv /\ [Next]_vars => ServerInv'
  <1> SUFFICES ASSUME ServerInv, [Next]_vars PROVE ServerInv'
    OBVIOUS
  <1> USE DEF ServerInv
  <1>1. ThreadInv' /\ Heard' /\ Places'
    BY ThreadNext, HeardNext, PlacesNext
  <1>2. (Shared => Shared') /\ killed \subseteq killed'
    BY FdsAreKept
  <1>3. ASSUME Up' PROVE Up
    BY <1>3 DEF Next, Main, process, Accept, Create, Join, Signal, ProcessEnds,
                ReadFd, Send, SendFails, Recv, RecvErrs, ClientConnects,
                ClientMoves, ClientKilled, vars, serverVars, Up, At
  <1>4. Up' => InStep' \/ Shared' \/ killed' # {}
    BY <1>2, <1>3, InStepNext
  <1>5. ASSUME main' = "died", main # "died"
        PROVE  Shared \/ killed # {}
    <2>1. PICK t \in Threads : SendFails(t) \/ RecvErrs(t)
      BY <1>5 DEF Next, Main, process, Accept, Create, Join, Signal,
                  ProcessEnds, ReadFd, Send, Recv, ClientConnects,
                  ClientMoves, ClientKilled, vars, serverVars
    <2>2. Up
      BY <2>1 DEF SendFails, RecvErrs, At
    <2> QED
      BY <2>1, <2>2, NobodyDiesInStep
  <1>6. DiesOnlyWhenShared'
    BY <1>2, <1>5 DEF DiesOnlyWhenShared
  <1> QED
    BY <1>1, <1>4, <1>6

LEMMA SpecServerInv == Spec => []ServerInv
  BY ServerInit, ServerNext, PTL DEF Spec

(* The state of sokets2/1-2scheme keeps its types: no thread reads a
   descriptor that was not accepted. *)
THEOREM TypeCorrect == Spec => []TypeOK
  <1>1. ServerInv => TypeOK
    BY DEF ServerInv, ThreadInv
  <1> QED
    BY <1>1, SpecServerInv, PTL

(* For any number of threads, sokets2/1-2scheme is killed by one of them only
   when two have read the same descriptor or a client was interrupted. *)
THEOREM OnlySharingKills == Spec => []DiesOnlyWhenShared
  <1>1. ServerInv => DiesOnlyWhenShared
    BY DEF ServerInv
  <1> QED
    BY <1>1, SpecServerInv, PTL

(* When main of sokets2/1-2scheme returns, a connection that nobody heard is
   one whose thread read client_fd after a later accept; the last is heard. *)
THEOREM OnlyOvertakenAreSkipped == Spec => []SkippedOnlyWhenOvertaken
  <1>1. ASSUME ServerInv, main = "returned", NEW t \in Threads,
               ~(fds[t] \in heard \cup killed)
        PROVE  temp_fd[t] > t /\ t < NumThreads
    <2>1. thread[t] = "end" /\ Peer(t) \in heard \cup killed
      BY <1>1 DEF ServerInv, ThreadInv, Threaded, Heard
    <2>2. t <= temp_fd[t] /\ temp_fd[t] <= NumThreads
      BY <1>1, <2>1
         DEF ServerInv, ThreadInv, Threaded, HasFd, TypeOK, Threads
    <2>3. temp_fd[t] # t
      BY <1>1, <2>1 DEF Peer
    <2> QED
      BY <1>1, <2>2, <2>3, ThreadServerAssumption
         DEF ServerInv, ThreadInv, TypeOK, Threads, ThreadServerAssumption
  <1>2. ServerInv => SkippedOnlyWhenOvertaken
    BY <1>1 DEF SkippedOnlyWhenOvertaken
  <1> QED
    BY <1>2, SpecServerInv, PTL

-----------------------------------------------------------------------------
(* sokets2/4scheme: the multiplexing server of MuxServer, whose stream clients
   are those of ThreadServer. *)

(* The types, and that main and a stream worker have a client where they use
   it. *)
MuxTypeInv ==
  /\ MuxTypeOK
  /\ muxMain = "sendA" => accepted \in Clients
  /\ \A w \in SWorkers :
       work[w] \in {"send", "recv"} => worker_fd[w] \in Clients

(* The two sets of workers are disjoint, and a mutex has a worker's number. *)
LEMMA SomeWorkers ==
  /\ \A w \in SWorkers : w \in Workers /\ w \notin DWorkers
  /\ \A w \in DWorkers : w \in Workers /\ w \notin SWorkers
  /\ \A w \in Workers :
       w # 0 /\ (w \in SWorkers \/ w \in DWorkers)
  /\ \A w \in Workers :
       moved \subseteq SWorkers => Mutex(w) \in Workers
  BY MuxServerAssumption
     DEF MuxServerAssumption, SWorkers, DWorkers, Workers, Mutex

(* The types hold at the start, and every step keeps them. *)
LEMMA MuxTypeInit == MuxInit => MuxTypeInv
  <1> SUFFICES ASSUME MuxInit PROVE MuxTypeInv
    OBVIOUS
  <1> USE MuxServerAssumption DEF MuxServerAssumption, MuxInit
  <1>1. queueB \in Seq(BOOLEAN) /\ Len(queueB) <= QueueMax
    <2>1. <<TRUE>> \in Seq(BOOLEAN) /\ Len(<<TRUE>>) = 1
      OBVIOUS
    <2>2. queueB = <<TRUE>> \/ queueB = <<>>
      BY Zenon
    <2>3. <<>> \in Seq(BOOLEAN) /\ Len(<<>>) = 0
      OBVIOUS
    <2>4. 0 <= QueueMax /\ 1 <= QueueMax
      OBVIOUS
    <2> HIDE DEF MuxInit
    <2> QED
      BY <2>1, <2>2, <2>3, <2>4
  <1>2. ClientTypeOK
    BY DEF ClientInit, ClientTypeOK
  <1>3. /\ queueA \in Seq(Clients) /\ Len(queueA) <= QueueMax
        /\ socket \in Seq(Datagram)
    OBVIOUS
  <1>4. /\ muxMain = "epoll" /\ work = [w \in Workers |-> "lock"]
    OBVIOUS
  <1>5. /\ accepted \in Clients \cup {Nobody}
        /\ udp_cln \in Dgrams \cup {Nobody}
        /\ holder \in [Workers -> Workers \cup {0}]
        /\ worker_fd \in [SWorkers -> Clients \cup {Nobody}]
        /\ strange \in [DWorkers -> BOOLEAN]
        /\ dclient \in [Dgrams -> {"new", "waiting", "greeted", "sent"}]
        /\ moved \subseteq SWorkers /\ kills \in BOOLEAN
        /\ leftover \in BOOLEAN /\ late \in BOOLEAN /\ crowded \in BOOLEAN
        /\ muxHeard \subseteq Clients \cup Dgrams
    BY Zenon
  <1>6. dinbox \in [Dgrams -> Nat] /\ greets \in [Dgrams -> Nat]
    OBVIOUS
  <1>7. MuxTypeOK
    BY <1>1, <1>2, <1>3, <1>4, <1>5, <1>6 DEF MuxTypeOK
  <1> QED
    BY <1>4, <1>7, SomeWorkers DEF MuxTypeInv

LEMMA MuxTypeNext == MuxTypeInv /\ [MuxNext]_muxVars => MuxTypeInv'
  <1> SUFFICES ASSUME MuxTypeInv, [MuxNext]_muxVars PROVE MuxTypeInv'
    OBVIOUS
  <1> USE MuxServerAssumption, SomeWorkers
          DEF MuxServerAssumption, MuxTypeInv, MuxTypeOK, ClientTypeOK,
              clientVars, mainVars, streamVars, dgramVars, rigid, MuxUp,
              WorkerAt, Becomes, Becoming, muxServerVars, dgramClients
  <1>1. ASSUME Ends PROVE MuxTypeInv'
    BY <1>1 DEF Ends, HangUp
  <1>2. CASE MuxSignal \/ PollOverruns
    BY <1>1, <1>2 DEF MuxSignal, PollOverruns
  <1>3. CASE Poll
    BY <1>3 DEF Poll
  <1>4. CASE MuxAccept
    <2>1. Accepted \in Clients
      BY <1>4 DEF MuxAccept, TakeConnection, Accepted
    <2>2. ClientTypeOK'
      BY <1>4 DEF MuxAccept, TakeConnection
    <2>3. /\ accepted' = Accepted /\ muxMain' = "sendA"
          /\ UNCHANGED <<streamVars, dgramVars, rigid, holder, work, muxHeard,
                         late>>
      BY <1>4, Zenon DEF MuxAccept
    <2> QED
      BY <2>1, <2>2, <2>3
  <1>5. CASE MsgSndA
    BY <1>5 DEF MsgSndA
  <1>6. CASE RecvByte
    <2>1. Head(socket) \in Datagram /\ Tail(socket) \in Seq(Datagram)
      BY <1>6, HeadTailProperties DEF RecvByte
    <2>2. Head(socket).from \in Dgrams /\ socket' \in Seq(Datagram)
      BY <1>6, <2>1 DEF RecvByte, Datagram
    <2> QED
      BY <1>6, <2>2 DEF RecvByte
  <1>7. CASE MsgSndB
    BY <1>7 DEF MsgSndB
  <1>8. CASE Wake
    <2>1. late' \in BOOLEAN
      BY <1>8, Zenon DEF Wake
    <2> QED
      BY <1>8, <2>1 DEF Wake
  <1>9. ASSUME NEW w \in Workers, TryLock(w) PROVE MuxTypeInv'
    BY <1>9 DEF TryLock
  <1>10. ASSUME NEW w \in SWorkers, TakeA(w) PROVE MuxTypeInv'
    <2>1. Head(queueA) \in Clients /\ queueA' \in Seq(Clients)
          /\ Len(queueA') <= QueueMax
      BY <1>10 DEF TakeA
    <2> QED
      BY <1>10, <2>1 DEF TakeA
  <1>11. ASSUME NEW w \in SWorkers, MuxSend(w) PROVE MuxTypeInv'
    BY <1>11 DEF MuxSend, Greet
  <1>12. ASSUME NEW w \in SWorkers, MuxRecv(w) PROVE MuxTypeInv'
    BY <1>12 DEF MuxRecv, RecvReturns, Unlock
  <1>13. ASSUME NEW w \in DWorkers, TakeB(w) PROVE MuxTypeInv'
    <2>1. Head(queueB) \in BOOLEAN /\ queueB' \in Seq(BOOLEAN)
          /\ Len(queueB') <= QueueMax
      BY <1>13 DEF TakeB
    <2> QED
      BY <1>13, <2>1 DEF TakeB
  <1>14. ASSUME NEW w \in DWorkers, SendTo(w) PROVE MuxTypeInv'
    BY <1>14 DEF SendTo
  <1>15. ASSUME NEW w \in DWorkers, RecvFrom(w) PROVE MuxTypeInv'
    <2>1. Head(socket) \in Datagram /\ Tail(socket) \in Seq(Datagram)
      BY <1>15, HeadTailProperties DEF RecvFrom
    <2>2. Head(socket).from \in Dgrams /\ socket' \in Seq(Datagram)
      BY <1>15, <2>1 DEF RecvFrom, Datagram
    <2> QED
      BY <1>15, <2>2 DEF RecvFrom, Unlock
  <1>16. ASSUME NEW c \in Clients, StreamConnects(c) PROVE MuxTypeInv'
    <2>1. Append(backlog, c) \in Seq(Clients)
          /\ Len(Append(backlog, c)) = Len(backlog) + 1
      BY AppendProperties
    <2>2. ClientTypeOK'
      BY <1>16, <2>1 DEF StreamConnects, Connect, Becomes
    <2> QED
      BY <1>16, <2>2 DEF StreamConnects, Connect
  <1>17. ASSUME NEW c \in Clients, StreamMoves(c) PROVE MuxTypeInv'
    <2>1. ClientTypeOK'
      <3>1. CASE RecvGreeting(c)
        BY <3>1 DEF RecvGreeting, Becomes
      <3>2. CASE SendTime(c)
        BY <3>2 DEF SendTime, Becomes
      <3>3. CASE Exit(c)
        BY <3>3 DEF Exit, Becomes
      <3> QED
        BY <1>17, <3>1, <3>2, <3>3 DEF StreamMoves, ClientStep
    <2> QED
      BY <1>17, <2>1 DEF StreamMoves, ClientStep, RecvGreeting, SendTime, Exit
  <1>18. ASSUME NEW d \in Dgrams, SendByte(d) PROVE MuxTypeInv'
    <2>1. [from |-> d, line |-> FALSE] \in Datagram
      BY DEF Datagram
    <2>2. crowded' \in BOOLEAN
      BY <1>18, Zenon DEF SendByte
    <2> QED
      BY <1>18, <2>1, <2>2 DEF SendByte
  <1>19. ASSUME NEW d \in Dgrams, GetGreeting(d) PROVE MuxTypeInv'
    <2>1. dclient' \in [Dgrams -> {"new", "waiting", "greeted", "sent"}]
      BY <1>19 DEF GetGreeting
    <2>2. dinbox' \in [Dgrams -> Nat]
      <3>1. dinbox' = [dinbox EXCEPT ![d] = dinbox[d] - 1] /\ dinbox[d] > 0
        BY <1>19, Zenon DEF GetGreeting
      <3>2. dinbox \in [Dgrams -> Nat]
        OBVIOUS
      <3> QED
        BY ONLY <3>1, <3>2, d \in Dgrams
    <2>3. UNCHANGED <<clientVars, muxServerVars, socket, crowded>>
      BY <1>19, Zenon DEF GetGreeting
    <2> QED
      BY <2>1, <2>2, <2>3
  <1>20. ASSUME NEW d \in Dgrams, SendLine(d) PROVE MuxTypeInv'
    <2>1. [from |-> d, line |-> TRUE] \in Datagram
      BY DEF Datagram
    <2>2. socket' \in Seq(Datagram)
      BY <1>20, <2>1 DEF SendLine
    <2>3. /\ dclient' \in [Dgrams -> {"new", "waiting", "greeted", "sent"}]
          /\ dinbox' \in [Dgrams -> Nat]
      BY <1>20 DEF SendLine
    <2>4. UNCHANGED <<clientVars, muxServerVars, crowded>>
      BY <1>20, Zenon DEF SendLine
    <2> QED
      BY <2>2, <2>3, <2>4
  <1>21. ASSUME NEW w \in DWorkers, SendToFails(w) PROVE MuxTypeInv'
    BY <1>1, <1>21 DEF SendToFails
  <1>22. CASE UNCHANGED muxVars
    BY <1>22 DEF muxVars
  <1> QED
    BY <1>2, <1>3, <1>4, <1>5, <1>6, <1>7, <1>8, <1>9, <1>10, <1>11, <1>12,
       <1>13, <1>14, <1>15, <1>16, <1>17, <1>18, <1>19, <1>20, <1>21, <1>22
       DEF MuxNext, MuxLoop, stream_process, process2, client2

-----------------------------------------------------------------------------
(* A datagram exchange, stage by stage: the byte that asks for a greeting, the
   greeting, and the line. *)
Byte(d) == [from |-> d, line |-> FALSE]
Text(d) == [from |-> d, line |-> TRUE]

(* A client has not asked, has not been greeted yet, or is done. *)
New(d)    == dclient[d] = "new" /\ greets[d] = 0 /\ dinbox[d] = 0
Asked(d)  == dclient[d] = "waiting" /\ greets[d] = 0 /\ dinbox[d] = 0
Served(d) == /\ dclient[d] = "sent" /\ greets[d] = 1 /\ dinbox[d] = 0
             /\ d \in muxHeard
AllBut(S) == \A d \in Dgrams \ S : New(d) \/ Served(d)

Busy(w) == work[w] \in {"send", "recv"}
BusyAt(w, label) ==
  /\ work[w] = label
  /\ \A v \in DWorkers : Busy(v) => v = w

(* No address is queued and no worker has one. *)
Idle == queueB = <<>> /\ \A w \in DWorkers : ~Busy(w)

(* Between two exchanges: at most one client's byte waits. *)
AtRest ==
  /\ Idle
  /\ \/ socket = <<>> /\ AllBut({})
     \/ \E e \in Dgrams : socket = <<Byte(e)>> /\ Asked(e) /\ AllBut({e})

(* udp_cln's client d has asked; a greeting is under way or was read; its
   line is there, and another client's byte may be behind it. *)
Requested(d) ==
  d \in Dgrams /\ socket = <<>> /\ Asked(d) /\ AllBut({d})

Pending(d) ==
  /\ d \in Dgrams /\ socket = <<>> /\ AllBut({d}) /\ greets[d] = 1
  /\ \/ dclient[d] = "waiting" /\ dinbox[d] = 1
     \/ dclient[d] = "greeted" /\ dinbox[d] = 0

Replied(d) ==
  /\ d \in Dgrams /\ greets[d] = 1
  /\ dclient[d] = "sent" /\ dinbox[d] = 0
  /\ \/ socket = <<Text(d)>> /\ AllBut({d})
     \/ \E e \in Dgrams : /\ e # d /\ socket = <<Text(d), Byte(e)>>
                          /\ Asked(e) /\ AllBut({d, e})

(* The address is queued; one worker has it. *)
Passed ==
  /\ queueB = <<FALSE>> /\ Requested(udp_cln)
  /\ \A v \in DWorkers : ~Busy(v)

Working(w) ==
  /\ queueB = <<>>
  /\ \/ BusyAt(w, "send") /\ Requested(udp_cln) /\ ~strange[w]
     \/ BusyAt(w, "recv") /\ (Pending(udp_cln) \/ Replied(udp_cln))

InExchange == Passed \/ \E w \in DWorkers : Working(w)

(* main is awake between exchanges only. *)
Stages ==
  /\ muxMain \in {"epoll", "accept", "sendA", "recvfrom"} => AtRest
  /\ muxMain = "recvfrom" => socket # <<>>
  /\ muxMain = "sendB" => Idle /\ Requested(udp_cln)
  /\ muxMain = "sleep" => AtRest \/ InExchange

(* The inductive invariant.  When the server has ended nothing is known of the
   stages, but the property itself remains. *)
MuxInv == /\ MuxTypeInv
          /\ Undisturbed /\ MuxUp => Stages
          /\ AloneIsGreetedOnce

(* A step that changes nothing the stages speak of, but heard, which grows. *)
Beside ==
  /\ queueB' = queueB /\ udp_cln' = udp_cln /\ socket' = socket
  /\ strange' = strange /\ dclient' = dclient /\ dinbox' = dinbox
  /\ greets' = greets
  /\ muxHeard \subseteq muxHeard'
  /\ \A w \in DWorkers : \A l \in {"send", "recv"} :
       work'[w] = l <=> work[w] = l

(* Such a step keeps every stage. *)
LEMMA BesideKeeps ==
  Beside => /\ Idle => Idle'
            /\ AtRest => AtRest'
            /\ Requested(udp_cln) => Requested(udp_cln)'
            /\ InExchange => InExchange'
  <1> SUFFICES ASSUME Beside
               PROVE  /\ Idle => Idle'
                      /\ AtRest => AtRest'
                      /\ Requested(udp_cln) => Requested(udp_cln)'
                      /\ InExchange => InExchange'
    OBVIOUS
  <1>1. \A d : /\ New(d) => New(d)'
               /\ Asked(d) => Asked(d)'
               /\ Served(d) => Served(d)'
    BY DEF Beside, New, Asked, Served
  <1>2. \A S : AllBut(S) => AllBut(S)'
    BY <1>1 DEF AllBut
  <1>3. \A w \in DWorkers : Busy(w)' <=> Busy(w)
    BY DEF Beside, Busy
  <1>4. Idle => Idle'
    BY <1>3 DEF Beside, Idle
  <1>5. AtRest => AtRest'
    BY <1>1, <1>2, <1>4 DEF Beside, AtRest, Byte
  <1>6. /\ Requested(udp_cln) => Requested(udp_cln)'
        /\ Pending(udp_cln) => Pending(udp_cln)'
        /\ Replied(udp_cln) => Replied(udp_cln)'
    BY <1>1, <1>2 DEF Beside, Requested, Pending, Replied, Byte, Text
  <1>7. \A w \in DWorkers : Working(w) => Working(w)'
    BY <1>3, <1>6 DEF Beside, Working, BusyAt
  <1>8. Passed => Passed'
    BY <1>3, <1>6 DEF Beside, Passed
  <1> QED
    BY <1>4, <1>5, <1>6, <1>7, <1>8 DEF InExchange

(* A worker is busy only while main sleeps, and then it alone. *)
LEMMA BusyMeansExchange ==
  ASSUME NEW w \in DWorkers, Stages, MuxUp, MuxTypeOK, Busy(w)
  PROVE  muxMain = "sleep" /\ Working(w)
  <1>1. muxMain = "sleep" /\ InExchange
    BY DEF Stages, AtRest, Idle, MuxTypeOK, MuxUp
  <1>2. \E v \in DWorkers : Working(v)
    BY <1>1 DEF InExchange, Passed
  <1> QED
    BY <1>1, <1>2 DEF Working, BusyAt

(* In every stage nobody was greeted twice, and a line waits or was heard. *)
LEMMA StagesGreet ==
  ASSUME Stages, MuxUp, MuxTypeOK
  PROVE  AloneIsGreetedOnce
  <1>1. \A d : New(d) \/ Asked(d) => greets[d] = 0 /\ dclient[d] # "sent"
    BY DEF New, Asked
  <1>2. \A d : Served(d) => greets[d] = 1 /\ d \in muxHeard
    BY DEF Served
  <1>3. AtRest \/ Requested(udp_cln) \/ Pending(udp_cln) \/ Replied(udp_cln)
    BY DEF Stages, MuxTypeOK, MuxUp, InExchange, Passed, Working
  <1>4. ASSUME NEW d \in Dgrams
        PROVE  /\ greets[d] <= 1
               /\ dclient[d] = "sent" =>
                    d \in muxHeard \/ \E i \in 1 .. Len(socket) :
                                     socket[i] = Text(d)
    <2>1. CASE AtRest
      BY <1>1, <1>2, <2>1 DEF AtRest, AllBut
    <2>2. CASE Requested(udp_cln)
      BY <1>1, <1>2, <2>2 DEF Requested, AllBut
    <2>3. CASE Pending(udp_cln)
      BY <1>1, <1>2, <2>3 DEF Pending, AllBut
    <2>4. CASE Replied(udp_cln)
      <3>1. CASE d = udp_cln
        <4>1. /\ Len(<<Text(d)>>) = 1 /\ <<Text(d)>>[1] = Text(d)
              /\ \A x : Len(<<Text(d), x>>) = 2 /\ <<Text(d), x>>[1] = Text(d)
          OBVIOUS
        <4>2. Len(socket) \in {1, 2} /\ socket[1] = Text(d)
          BY <2>4, <3>1, <4>1 DEF Replied
        <4>3. 1 \in 1 .. Len(socket)
          BY <4>2
        <4> QED
          BY <2>4, <3>1, <4>2, <4>3 DEF Replied
      <3>2. CASE d # udp_cln
        BY <1>1, <1>2, <2>4, <3>2 DEF Replied, AllBut
      <3> QED
        BY <3>1, <3>2
    <2> QED
      BY <1>3, <2>1, <2>2, <2>3, <2>4
  <1> QED
    BY <1>4 DEF AloneIsGreetedOnce, Text

(* A sequence of one element. *)
LEMMA Single ==
  \A x : Head(<<x>>) = x /\ Tail(<<x>>) = <<>> /\ <<x>> # <<>>
  OBVIOUS

(* main's steps: a byte read opens an exchange, and main wakes after it. *)
LEMMA MainKeepsStages ==
  ASSUME MuxTypeInv, Stages, MuxLoop, ~late'
  PROVE  MuxUp' => Stages'
  <1> USE DEF mainVars, streamVars, dgramVars, rigid, clientVars
  <1>1. CASE Poll
    <2>1. Beside
      BY <1>1 DEF Poll, Beside
    <2> QED
      BY <1>1, <2>1, BesideKeeps DEF Poll, Stages
  <1>2. CASE PollOverruns
    BY <1>2 DEF PollOverruns, Ends, MuxUp
  <1>3. CASE MuxAccept
    <2>1. Beside
      BY <1>3 DEF MuxAccept, Beside
    <2> QED
      BY <1>3, <2>1, BesideKeeps DEF MuxAccept, Stages
  <1>4. CASE MsgSndA
    <2>1. Beside
      BY <1>4 DEF MsgSndA, Beside
    <2> QED
      BY <1>4, <2>1, BesideKeeps DEF MsgSndA, Stages
  <1>5. CASE RecvByte
    <2>1. PICK e \in Dgrams : socket = <<Byte(e)>> /\ Asked(e) /\ AllBut({e})
      BY <1>5 DEF RecvByte, Stages, AtRest
    <2>2. Head(<<Byte(e)>>).from = e /\ Tail(<<Byte(e)>>) = <<>>
      BY DEF Byte
    <2>3. muxMain' = "sendB" /\ udp_cln' = e /\ socket' = <<>>
      BY <1>5, <2>1, <2>2 DEF RecvByte
    <2>4. Idle'
      BY <1>5 DEF RecvByte, Stages, AtRest, Idle, Busy
    <2>5. Asked(e)' /\ AllBut({e})'
      BY <1>5, <2>1 DEF RecvByte, Asked, AllBut, New, Served
    <2> QED
      BY <2>3, <2>4, <2>5 DEF Stages, Requested
  <1>6. CASE MsgSndB
    <2>1. Idle /\ Requested(udp_cln)
      BY <1>6 DEF MsgSndB, Stages
    <2>2. muxMain' = "sleep" /\ queueB' = <<FALSE>>
      BY <1>6, <2>1 DEF MsgSndB, Idle
    <2>3. Requested(udp_cln)'
      BY <1>6, <2>1 DEF MsgSndB, Requested, Asked, AllBut, New, Served
    <2>4. \A v \in DWorkers : ~Busy(v)'
      BY <1>6, <2>1 DEF MsgSndB, Idle, Busy
    <2> QED
      BY <2>2, <2>3, <2>4 DEF Stages, InExchange, Passed
  <1>7. CASE Wake
    <2>1. ~Exchanging
      BY <1>7 DEF Wake
    <2>2. AtRest
      <3>1. ~Passed
        BY <2>1, Single DEF Passed, Exchanging
      <3>2. \A w \in DWorkers : ~Working(w)
        BY <2>1 DEF Working, BusyAt, Exchanging
      <3> QED
        BY <1>7, <3>1, <3>2 DEF Wake, Stages, InExchange
    <2>3. Beside
      BY <1>7 DEF Wake, Beside
    <2> QED
      BY <1>7, <2>2, <2>3, BesideKeeps DEF Wake, Stages
  <1> QED
    BY <1>1, <1>2, <1>3, <1>4, <1>5, <1>6, <1>7 DEF MuxLoop

(* A worker takes the address. *)
LEMMA TakeBKeepsStages ==
  ASSUME MuxTypeInv, Stages,
         NEW w \in DWorkers, TakeB(w)
  PROVE  Stages'
  <1> USE DEF MuxTypeInv, MuxTypeOK
  <1>1. muxMain = "sleep" /\ Passed
    BY DEF TakeB, WorkerAt, MuxUp, Stages, AtRest, Idle, InExchange, Working
  <1>2. Head(<<FALSE>>) = FALSE /\ Tail(<<FALSE>>) = <<>>
    BY Single
  <1>3. /\ muxMain' = "sleep" /\ queueB' = <<>> /\ ~strange'[w]
        /\ work' = [work EXCEPT ![w] = "send"]
    BY <1>1, <1>2 DEF TakeB, Passed, mainVars
  <1>4. BusyAt(w, "send")'
    BY <1>1, <1>3, SomeWorkers DEF BusyAt, Busy, Passed
  <1>5. Requested(udp_cln)'
    BY <1>1 DEF Passed, TakeB, Requested, Asked, AllBut, New, Served
  <1> QED
    BY <1>3, <1>4, <1>5 DEF Stages, InExchange, Working

(* It greets the client that asked: udp_cln is still that client. *)
LEMMA SendToKeepsStages ==
  ASSUME MuxTypeInv, Stages,
         NEW w \in DWorkers, SendTo(w)
  PROVE  Stages'
  <1> USE DEF MuxTypeInv, MuxTypeOK
  <1>1. MuxUp /\ work[w] = "send" /\ Busy(w)
    BY DEF SendTo, WorkerAt, Busy
  <1>2. muxMain = "sleep" /\ Working(w)
    BY <1>1, BusyMeansExchange
  <1>3. queueB = <<>> /\ BusyAt(w, "send") /\ Requested(udp_cln)
    BY <1>1, <1>2 DEF Working, BusyAt
  <1>4. /\ muxMain' = "sleep" /\ queueB' = <<>> /\ udp_cln' = udp_cln
        /\ socket' = <<>>
        /\ work' = [work EXCEPT ![w] = "recv"]
    BY <1>2, <1>3 DEF SendTo, Requested, mainVars
  <1>5. BusyAt(w, "recv")'
    BY <1>3, <1>4, SomeWorkers DEF BusyAt, Busy
  <1>6. /\ dclient' = dclient /\ dclient[udp_cln] = "waiting"
        /\ greets' = [greets EXCEPT ![udp_cln] = 1]
        /\ dinbox' = [dinbox EXCEPT ![udp_cln] = 1]
        /\ muxHeard' = muxHeard
    BY <1>3 DEF SendTo, Requested, Asked
  <1>7. AllBut({udp_cln})'
    BY <1>3, <1>4, <1>6 DEF Requested, AllBut, New, Served
  <1>8. Pending(udp_cln)'
    BY <1>3, <1>4, <1>6, <1>7 DEF Requested, Pending
  <1> QED
    BY <1>4, <1>5, <1>8 DEF Stages, InExchange, Working

(* What it then receives is that client's line. *)
LEMMA RecvFromKeepsStages ==
  ASSUME MuxTypeInv, Stages,
         NEW w \in DWorkers, RecvFrom(w)
  PROVE  Stages'
  <1> USE DEF MuxTypeInv, MuxTypeOK
  <1>0. PICK d : d = udp_cln
    OBVIOUS
  <1>1. MuxUp /\ work[w] = "recv" /\ Busy(w) /\ socket # <<>>
    BY DEF RecvFrom, WorkerAt, Busy
  <1>2. muxMain = "sleep" /\ Working(w)
    BY <1>1, BusyMeansExchange
  <1>3. queueB = <<>> /\ BusyAt(w, "recv") /\ Replied(d)
    BY <1>0, <1>1, <1>2 DEF Working, BusyAt, Pending
  <1>4. /\ muxMain' = "sleep" /\ queueB' = <<>> /\ dclient' = dclient
        /\ dinbox' = dinbox /\ greets' = greets
        /\ work' = [work EXCEPT ![w] = "lock"]
    BY <1>2, <1>3 DEF RecvFrom, Unlock, mainVars
  <1>5. Idle'
    BY <1>3, <1>4, SomeWorkers DEF BusyAt, Busy, Idle
  <1>6. /\ Tail(<<Text(d)>>) = <<>> /\ Head(<<Text(d)>>) = Text(d)
        /\ \A x : /\ Tail(<<Text(d), x>>) = <<x>>
                  /\ Head(<<Text(d), x>>) = Text(d)
    OBVIOUS
  <1>7. Head(socket) = Text(d)
    BY <1>3, <1>6 DEF Replied
  <1>8. muxHeard' = muxHeard \cup {d}
    BY <1>7 DEF RecvFrom, Text
  <1>9. Served(d)'
    BY <1>3, <1>4, <1>8 DEF Replied, Served
  <1>10. \A S : AllBut(S \cup {d}) => AllBut(S)'
    BY <1>4, <1>8, <1>9 DEF AllBut, New, Served
  <1>11. AtRest'
    <2>1. CASE socket = <<Text(d)>> /\ AllBut({d})
      <3>1. socket' = <<>>
        BY <1>6, <2>1 DEF RecvFrom
      <3>2. AllBut({})'
        BY <1>10, <2>1 DEF AllBut
      <3> QED
        BY <1>5, <3>1, <3>2 DEF AtRest
    <2>2. ASSUME NEW e \in Dgrams, socket = <<Text(d), Byte(e)>>,
                 Asked(e), AllBut({d, e})
          PROVE  AtRest'
      <3>1. socket' = <<Byte(e)>>
        BY <1>6, <2>2 DEF RecvFrom
      <3>2. Asked(e)'
        BY <1>4, <2>2 DEF Asked
      <3>3. {d, e} = {e} \cup {d}
        OBVIOUS
      <3>4. AllBut({e})'
        BY <1>10, <2>2, <3>3
      <3>5. Byte(e)' = Byte(e)
        BY DEF Byte
      <3> QED
        BY <1>5, <3>1, <3>2, <3>4, <3>5 DEF AtRest
    <2> QED
      BY <1>3, <2>1, <2>2 DEF Replied
  <1> QED
    BY <1>4, <1>11 DEF Stages

(* Append to a sequence of no and of one element. *)
LEMMA Appended ==
  ASSUME NEW S, NEW x \in S, NEW y \in S
  PROVE  Append(<<>>, y) = <<y>> /\ Append(<<x>>, y) = <<x, y>>
  <1>1. <<>> \in Seq(S) /\ <<x>> \in Seq(S) /\ <<y>> \in Seq(S)
        /\ <<x, y>> \in Seq(S)
    OBVIOUS
  <1>2. Append(<<>>, y) = <<y>>
    OBVIOUS
  <1>3. /\ Len(Append(<<x>>, y)) = 2 /\ Append(<<x>>, y) \in Seq(S)
        /\ Append(<<x>>, y)[1] = x /\ Append(<<x>>, y)[2] = y
    BY <1>1, AppendProperties
  <1>4. Len(<<x, y>>) = 2 /\ <<x, y>>[1] = x /\ <<x, y>>[2] = y
    OBVIOUS
  <1>5. Append(<<x>>, y) = <<x, y>>
    <2>1. \A i \in 1 .. 2 : Append(<<x>>, y)[i] = <<x, y>>[i]
      BY <1>3, <1>4
    <2> QED
      BY <1>1, <1>3, <1>4, <2>1, SeqEqual
  <1> QED
    BY <1>2, <1>5

(* A client asks while no other's exchange is under way. *)
LEMMA SendByteKeepsStages ==
  ASSUME MuxTypeInv, Stages, NEW d \in Dgrams, SendByte(d), ~crowded'
  PROVE  Stages'
  <1> USE DEF MuxTypeInv, MuxTypeOK, muxServerVars, mainVars
  <1>1. /\ dclient[d] = "new" /\ \A e \in Dgrams : dclient[e] # "waiting"
        /\ \A e \in Dgrams : dclient[e] # "greeted"
    <2>1. crowded' = (crowded \/ \E e \in Dgrams : Underway(e))
      BY Zenon DEF SendByte
    <2> QED
      BY <2>1 DEF SendByte, Underway
  <1>2. /\ dclient' = [dclient EXCEPT ![d] = "waiting"]
        /\ socket' = Append(socket, Byte(d))
        /\ UNCHANGED <<muxMain, queueB, udp_cln, strange, work, muxHeard,
                       greets, dinbox>>
    BY DEF SendByte, Becoming, Byte
  <1>3. \A e \in Dgrams : ~Asked(e)
    BY <1>1 DEF Asked
  <1>4. /\ Append(<<>>, Byte(d)) = <<Byte(d)>>
        /\ \A x \in Datagram : Append(<<x>>, Byte(d)) = <<x, Byte(d)>>
    <2>1. Byte(d) \in Datagram
      BY DEF Byte, Datagram
    <2> QED
      BY <2>1, Appended
  <1>5. ASSUME NEW S, AllBut(S), d \notin S
        PROVE  AllBut(S \cup {d})' /\ Asked(d)'
    <2>1. New(d)
      BY <1>1, <1>5 DEF AllBut, Served
    <2> QED
      BY <1>2, <1>5, <2>1 DEF AllBut, Asked, New, Served
  <1>6. \A w \in DWorkers : Busy(w)' <=> Busy(w)
    BY <1>2 DEF Busy
  <1>7. ASSUME AtRest PROVE AtRest' /\ socket' # <<>>
    <2>1. socket = <<>> /\ AllBut({})
      BY <1>3, <1>7 DEF AtRest
    <2>2. AllBut({} \cup {d})' /\ Asked(d)'
      BY <1>5, <2>1
    <2>3. socket' = <<Byte(d)>> /\ {} \cup {d} = {d} /\ Byte(d)' = Byte(d)
      BY <1>2, <1>4, <2>1 DEF Byte
    <2>4. Idle'
      BY <1>2, <1>6, <1>7 DEF AtRest, Idle
    <2> QED
      BY <2>2, <2>3, <2>4, Single DEF AtRest
  <1>8. ASSUME InExchange PROVE InExchange'
    <2>1. PICK w \in DWorkers : Working(w)
      BY <1>3, <1>8 DEF InExchange, Passed, Requested
    <2>2. PICK f : f = udp_cln
      OBVIOUS
    <2>3. queueB = <<>> /\ BusyAt(w, "recv") /\ Replied(f)
      BY <1>1, <1>3, <2>1, <2>2 DEF Working, Requested, Pending
    <2>4. socket = <<Text(f)>> /\ AllBut({f}) /\ d # f
      BY <1>1, <1>3, <2>3 DEF Replied
    <2>5. AllBut({f} \cup {d})' /\ Asked(d)'
      BY <1>5, <2>4
    <2>6. /\ socket' = <<Text(f), Byte(d)>> /\ {f} \cup {d} = {f, d}
          /\ Byte(d)' = Byte(d) /\ Text(f)' = Text(f)
      <3>1. Text(f) \in Datagram
        BY <2>3 DEF Replied, Text, Datagram
      <3> QED
        BY <1>2, <1>4, <2>4, <3>1 DEF Byte, Text
    <2>7. dclient'[f] = "sent" /\ greets'[f] = 1 /\ dinbox'[f] = 0
          /\ f \in Dgrams
      BY <1>2, <2>3, <2>4 DEF Replied
    <2>8. Replied(f)'
      BY <2>4, <2>5, <2>6, <2>7 DEF Replied
    <2>9. queueB' = <<>> /\ BusyAt(w, "recv")' /\ udp_cln' = f
      BY <1>2, <1>6, <2>2, <2>3 DEF BusyAt
    <2>10. Replied(udp_cln)'
      BY <2>8, <2>9 DEF Replied
    <2> QED
      BY <2>9, <2>10 DEF Working, InExchange
  <1> QED
    BY <1>2, <1>3, <1>7, <1>8 DEF Stages, Requested

(* A client that can take a greeting, or has, is udp_cln's. *)
LEMMA GreetingIsPending ==
  ASSUME MuxTypeInv, Stages, MuxUp, NEW d \in Dgrams,
         (dclient[d] = "waiting" /\ dinbox[d] > 0) \/ dclient[d] = "greeted"
  PROVE  /\ muxMain = "sleep" /\ d = udp_cln /\ Pending(d)
         /\ \E w \in DWorkers : queueB = <<>> /\ BusyAt(w, "recv")
  <1> USE DEF MuxTypeInv, MuxTypeOK
  <1>1. ~New(d) /\ ~Asked(d) /\ ~Served(d)
    BY DEF New, Asked, Served
  <1>2. ~AtRest /\ ~Requested(udp_cln)
    BY <1>1 DEF AtRest, Requested, AllBut
  <1>3. muxMain = "sleep" /\ InExchange
    BY <1>2 DEF Stages, MuxUp
  <1>4. PICK w \in DWorkers : Working(w)
    BY <1>2, <1>3 DEF InExchange, Passed
  <1>5. queueB = <<>> /\ BusyAt(w, "recv")
    BY <1>2, <1>4 DEF Working
  <1>6. Pending(udp_cln) \/ Replied(udp_cln)
    BY <1>2, <1>4 DEF Working
  <1>7. ~Replied(udp_cln)
    BY <1>1 DEF Replied, AllBut
  <1>8. d = udp_cln
    BY <1>1, <1>6, <1>7 DEF Pending, AllBut
  <1> QED
    BY <1>3, <1>5, <1>6, <1>7, <1>8

(* It takes the greeting and sends its line. *)
LEMMA ClientKeepsStages ==
  ASSUME MuxTypeInv, Stages, MuxUp, NEW d \in Dgrams, client2(d)
  PROVE  Stages'
  <1> USE DEF MuxTypeInv, MuxTypeOK, muxServerVars, mainVars
  <1>1. /\ muxMain = "sleep" /\ d = udp_cln /\ Pending(d)
        /\ \E w \in DWorkers : queueB = <<>> /\ BusyAt(w, "recv")
    BY GreetingIsPending DEF client2, GetGreeting, SendLine
  <1>2. PICK w \in DWorkers : queueB = <<>> /\ BusyAt(w, "recv")
    BY <1>1
  <1>3. UNCHANGED <<muxMain, queueB, udp_cln, strange, work, muxHeard, greets>>
    BY DEF client2, GetGreeting, SendLine
  <1>4. queueB' = <<>> /\ BusyAt(w, "recv")'
    BY <1>2, <1>3 DEF BusyAt, Busy
  <1>5. AllBut({d})'
    BY <1>1, <1>3
       DEF client2, GetGreeting, SendLine, Becoming, Pending, AllBut, New,
           Served
  <1>6. CASE GetGreeting(d)
    <2>1. Pending(d)'
      BY <1>1, <1>3, <1>5, <1>6 DEF GetGreeting, Becoming, Pending
    <2>2. Pending(udp_cln)'
      BY <1>1, <1>3, <2>1 DEF Pending
    <2> QED
      BY <1>1, <1>3, <1>4, <2>2 DEF Stages, InExchange, Working
  <1>7. CASE SendLine(d)
    <2>1. Append(<<>>, Text(d)) = <<Text(d)>> /\ Text(d)' = Text(d)
      BY DEF Text
    <2>2. socket' = <<Text(d)>>
      BY <1>1, <1>7, <2>1 DEF SendLine, Pending, Text
    <2>3. Replied(d)'
      BY <1>1, <1>3, <1>5, <1>7, <2>1, <2>2
         DEF SendLine, Becoming, Pending, Replied
    <2>4. Replied(udp_cln)'
      BY <1>1, <1>3, <2>3 DEF Replied
    <2> QED
      BY <1>1, <1>3, <1>4, <2>4 DEF Stages, InExchange, Working
  <1> QED
    BY <1>6, <1>7 DEF client2

(* StagesGreet as a formula, in this state and in the next. *)
StagesGreeted == Stages /\ MuxUp /\ MuxTypeOK => AloneIsGreetedOnce

LEMMA StagesGreetNext == StagesGreeted'
  <1>1. StagesGreeted
    BY StagesGreet DEF StagesGreeted
  <1> QED
    BY <1>1, PTL

(* At the start nobody has asked. *)
LEMMA MuxInvInit == MuxInit => MuxInv
  <1> SUFFICES ASSUME MuxInit PROVE MuxInv
    OBVIOUS
  <1>1. MuxTypeInv
    BY MuxTypeInit
  <1>2. ASSUME Undisturbed PROVE Stages
    <2>1. queueB = <<>>
      BY <1>2 DEF MuxInit, Undisturbed
    <2>2. Idle
      BY <2>1, SomeWorkers DEF MuxInit, Idle, Busy
    <2>3. AllBut({})
      BY DEF MuxInit, AllBut, New
    <2> QED
      BY <2>2, <2>3 DEF MuxInit, Stages, AtRest
  <1>3. AloneIsGreetedOnce
    BY DEF MuxInit, AloneIsGreetedOnce
  <1> QED
    BY <1>1, <1>2, <1>3 DEF MuxInv

(* No step undoes a disturbance or the end. *)
LEMMA Disturbed ==
  ASSUME MuxTypeInv, [MuxNext]_muxVars
  PROVE  /\ late => late'
         /\ crowded => crowded'
         /\ leftover' = leftover
         /\ MuxUp' => MuxUp
  <1> USE DEF Ends, MuxUp, WorkerAt, mainVars, streamVars, dgramVars, rigid,
              clientVars, muxServerVars, dgramClients
  <1>1. CASE MuxLoop
    <2>1. MuxUp
      BY <1>1
         DEF MuxLoop, Poll, PollOverruns, MuxAccept, MsgSndA, RecvByte,
             MsgSndB, Wake
    <2>2. crowded' = crowded /\ leftover' = leftover
      BY <1>1
         DEF MuxLoop, Poll, PollOverruns, MuxAccept, MsgSndA, RecvByte,
             MsgSndB, Wake
    <2>3. late => late'
      BY <1>1
         DEF MuxLoop, Poll, PollOverruns, MuxAccept, MsgSndA, RecvByte,
             MsgSndB, Wake
    <2> QED
      BY <2>1, <2>2, <2>3, Zenon
  <1>2. CASE MuxSignal
    BY <1>2 DEF MuxSignal
  <1>3. ASSUME NEW w \in SWorkers, stream_process(w)
        PROVE  UNCHANGED <<late, crowded, leftover, muxMain>>
    BY <1>3 DEF stream_process, TryLock, TakeA, MuxSend, MuxRecv
  <1>4. ASSUME NEW w \in DWorkers, process2(w)
        PROVE  UNCHANGED <<late, crowded, leftover>> /\ (MuxUp' => MuxUp)
    BY <1>4 DEF process2, TryLock, TakeB, SendTo, SendToFails, RecvFrom
  <1>5. ASSUME NEW c \in Clients, StreamConnects(c) \/ StreamMoves(c)
        PROVE  UNCHANGED <<late, crowded, leftover, muxMain>>
    BY <1>5 DEF StreamConnects, StreamMoves
  <1>6. ASSUME NEW d \in Dgrams, SendByte(d)
        PROVE  UNCHANGED <<late, leftover, muxMain>> /\ (crowded => crowded')
    BY <1>6, Zenon DEF SendByte
  <1>7. ASSUME NEW d \in Dgrams, client2(d)
        PROVE  UNCHANGED <<late, crowded, leftover, muxMain>>
    BY <1>7 DEF client2, GetGreeting, SendLine
  <1>8. CASE UNCHANGED muxVars
    BY <1>8 DEF muxVars
  <1> QED
    BY <1>1, <1>2, <1>3, <1>4, <1>5, <1>6, <1>7, <1>8 DEF MuxNext

(* The steps of the stream side, and a datagram worker's TryLock. *)
LEMMA OthersAreBeside ==
  ASSUME MuxTypeInv
  PROVE  /\ \A w \in Workers : TryLock(w) => Beside /\ muxMain' = muxMain
         /\ \A w \in SWorkers :
              stream_process(w) => Beside /\ muxMain' = muxMain
         /\ \A c \in Clients : StreamConnects(c) \/ StreamMoves(c)
                                 => Beside /\ muxMain' = muxMain
         /\ UNCHANGED muxVars => Beside /\ muxMain' = muxMain
  <1> USE MuxServerAssumption, SomeWorkers
          DEF MuxTypeInv, MuxTypeOK, Beside, WorkerAt, mainVars, streamVars,
              dgramVars, rigid, clientVars, muxServerVars, dgramClients
  <1>1. ASSUME NEW w \in Workers, TryLock(w)
        PROVE  Beside /\ muxMain' = muxMain
    BY <1>1 DEF TryLock
  <1>2. ASSUME NEW w \in SWorkers, stream_process(w)
        PROVE  Beside /\ muxMain' = muxMain
    BY <1>1, <1>2 DEF stream_process, TakeA, MuxSend, MuxRecv, Unlock
  <1>3. ASSUME NEW c \in Clients, StreamConnects(c) \/ StreamMoves(c)
        PROVE  Beside /\ muxMain' = muxMain
    BY <1>3 DEF StreamConnects, StreamMoves
  <1>4. ASSUME UNCHANGED muxVars PROVE Beside /\ muxMain' = muxMain
    BY <1>4 DEF muxVars
  <1> QED
    BY <1>1, <1>2, <1>3, <1>4

LEMMA BesideKeepsStages ==
  ASSUME Stages, Beside, muxMain' = muxMain
  PROVE  Stages'
  BY BesideKeeps DEF Stages, Beside

(* Every undisturbed step that does not end the server keeps the stages. *)
LEMMA StagesNext ==
  ASSUME MuxTypeInv, Stages, MuxUp,
         [MuxNext]_muxVars, Undisturbed', MuxUp'
  PROVE  Stages'
  <1>1. CASE MuxLoop
    BY <1>1, MainKeepsStages DEF Undisturbed
  <1>2. CASE MuxSignal
    BY <1>2 DEF MuxSignal, Ends, MuxUp
  <1>3. ASSUME NEW w \in SWorkers, stream_process(w) PROVE Stages'
    BY <1>3, OthersAreBeside, BesideKeepsStages
  <1>4. ASSUME NEW w \in DWorkers, process2(w) PROVE Stages'
    <2>1. CASE TryLock(w)
      BY <2>1, OthersAreBeside, BesideKeepsStages, SomeWorkers
    <2>2. CASE TakeB(w) \/ SendTo(w) \/ RecvFrom(w)
      BY <2>2, TakeBKeepsStages, SendToKeepsStages, RecvFromKeepsStages
    <2>3. CASE SendToFails(w)
      BY <2>3 DEF SendToFails, Ends, MuxUp
    <2> QED
      BY <1>4, <2>1, <2>2, <2>3 DEF process2
  <1>5. ASSUME NEW c \in Clients, StreamConnects(c) \/ StreamMoves(c)
        PROVE  Stages'
    BY <1>5, OthersAreBeside, BesideKeepsStages
  <1>6. ASSUME NEW d \in Dgrams, SendByte(d) PROVE Stages'
    BY <1>6, SendByteKeepsStages DEF Undisturbed
  <1>7. ASSUME NEW d \in Dgrams, client2(d) PROVE Stages'
    BY <1>7, ClientKeepsStages
  <1>8. CASE UNCHANGED muxVars
    BY <1>8, OthersAreBeside, BesideKeepsStages
  <1> QED
    BY <1>1, <1>2, <1>3, <1>4, <1>5, <1>6, <1>7, <1>8 DEF MuxNext

(* Once the server has ended, or as it ends, nothing is greeted or received,
   and a client that has not sent its line never does. *)
LEMMA EndedKeeps ==
  ASSUME MuxTypeInv, AloneIsGreetedOnce, [MuxNext]_muxVars,
         Undisturbed, ~MuxUp'
  PROVE  AloneIsGreetedOnce'
  <1> USE DEF MuxTypeInv, MuxTypeOK, Ends, mainVars, streamVars, dgramVars,
              rigid, clientVars, muxServerVars, dgramClients
  <1> DEFINE Kept ==
        /\ greets' = greets /\ muxHeard' = muxHeard /\ socket' = socket
        /\ \A d \in Dgrams : dclient'[d] = "sent" => dclient[d] = "sent"
  <1>1. Kept
    <2>1. CASE MuxLoop
      <3>1. CASE PollOverruns
        BY <3>1 DEF PollOverruns
      <3>2. ~(Poll \/ MuxAccept \/ MsgSndA \/ RecvByte
                \/ MsgSndB \/ Wake)
        BY DEF Poll, MuxAccept, MsgSndA, RecvByte, MsgSndB, Wake, MuxUp
      <3> QED
        BY <2>1, <3>1, <3>2 DEF MuxLoop
    <2>2. CASE MuxSignal
      BY <2>2 DEF MuxSignal
    <2>3. CASE \E w \in SWorkers : stream_process(w)
      <3>1. ~\E w \in SWorkers : stream_process(w)
        BY DEF stream_process, TryLock, TakeA, MuxSend, MuxRecv, WorkerAt,
               MuxUp, Unlock
      <3> QED
        BY <2>3, <3>1
    <2>4. ASSUME NEW w \in DWorkers, process2(w)
          PROVE  Kept
      <3>1. /\ ~TryLock(w) /\ ~TakeB(w)
            /\ ~SendTo(w) /\ ~RecvFrom(w)
        BY DEF TryLock, TakeB, SendTo, RecvFrom, WorkerAt, MuxUp
      <3> QED
        BY <2>4, <3>1 DEF process2, SendToFails
    <2>5. ASSUME NEW c \in Clients, StreamConnects(c) \/ StreamMoves(c)
          PROVE  UNCHANGED <<greets, muxHeard, socket, dclient>>
      BY <2>5 DEF StreamConnects, StreamMoves, muxServerVars
    <2>6. ASSUME NEW d \in Dgrams, SendByte(d) \/ SendLine(d)
          PROVE  FALSE
      BY <2>6 DEF SendByte, SendLine, MuxUp, muxServerVars
    <2>7. ASSUME NEW d \in Dgrams, GetGreeting(d)
          PROVE  Kept
      BY <2>7 DEF GetGreeting, Becoming, muxServerVars
    <2>8. CASE UNCHANGED muxVars
      BY <2>8 DEF muxVars
    <2> QED
      BY <2>1, <2>2, <2>3, <2>4, <2>5, <2>6, <2>7, <2>8 DEF MuxNext, client2
  <1> QED
    BY <1>1 DEF AloneIsGreetedOnce, Undisturbed

(* The invariant is inductive. *)
LEMMA MuxInvNext == MuxInv /\ [MuxNext]_muxVars => MuxInv'
  <1> SUFFICES ASSUME MuxInv, [MuxNext]_muxVars PROVE MuxInv'
    OBVIOUS
  <1>1. MuxTypeInv /\ MuxTypeInv'
    BY MuxTypeNext DEF MuxInv
  <1>2. Undisturbed' => Undisturbed
    BY <1>1, Disturbed, Zenon DEF Undisturbed
  <1>3. ASSUME Undisturbed', MuxUp' PROVE Stages'
    <2>1. MuxUp /\ Stages
      BY <1>1, <1>2, <1>3, Disturbed DEF MuxInv
    <2> QED
      BY <1>1, <1>3, <2>1, StagesNext
  <1>4. AloneIsGreetedOnce'
    <2>1. CASE ~Undisturbed'
      BY <2>1 DEF AloneIsGreetedOnce
    <2>2. CASE Undisturbed' /\ MuxUp'
      BY <1>1, <1>3, <2>2, StagesGreetNext DEF StagesGreeted, MuxTypeInv
    <2>3. CASE Undisturbed' /\ ~MuxUp'
      BY <1>1, <1>2, <2>3, EndedKeeps DEF MuxInv
    <2> QED
      BY <2>1, <2>2, <2>3
  <1> QED
    BY <1>1, <1>3, <1>4 DEF MuxInv

(* The multiplexing server's variables keep their types. *)
THEOREM MuxTypeCorrect == MuxSpec => []MuxTypeOK
  <1>1. MuxTypeInv => MuxTypeOK
    BY DEF MuxTypeInv
  <1> QED
    BY <1>1, MuxTypeInit, MuxTypeNext, PTL DEF MuxSpec

(* While main sleeps through every exchange and no two exchanges meet, a
   datagram client is greeted at most once and its line goes to a worker. *)
THEOREM AloneGreetedOnce == MuxSpec => []AloneIsGreetedOnce
  <1>1. MuxInv => AloneIsGreetedOnce
    BY DEF MuxInv
  <1> QED
    BY <1>1, MuxInvInit, MuxInvNext, PTL DEF MuxSpec
=============================================================================
