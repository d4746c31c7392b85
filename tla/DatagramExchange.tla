-------------------------- MODULE DatagramExchange --------------------------
(***************************************************************************)
(* A greeting and an answer over UDP: sokets1/AF_INET/UDP and the three    *)
(* programs of raw_socket.  The client sends one byte, the server greets   *)
(* the address it came from and waits for one more datagram; the client    *)
(* sends the greeting back with " =)" behind it (its user's line in        *)
(* sokets1) and both end.                                                  *)
(*                                                                         *)
(*   "plain"  a connected UDP socket with a port of its own                *)
(*   "udp"    a raw socket, the UDP header written by the program          *)
(*   "ip"     the same with the IP header                                  *)
(*   "ether"  a packet socket, every header written by the program, and    *)
(*            the server on another machine                                *)
(*                                                                         *)
(* A raw socket gets a copy of every UDP packet that is delivered on its   *)
(* host, a packet socket of every frame but its own: the client looks for  *)
(* its port number in a loop, and all raw clients have the same port.      *)
(*                                                                         *)
(* No name of Exchanges is used again here (hence DgramNext and its like): *)
(* ExchangesProofs extends both.                                           *)
(***************************************************************************)
EXTENDS Integers, Sequences, FiniteSets, SequencesExt

CONSTANTS
  Clients,
  MaxStarts,   \* bound of the model: how often the server is started
  MaxForeign   \* bound of the model: packets of other programs

ASSUME DatagramExchangeAssumption ==
  /\ IsFiniteSet(Clients)
  /\ MaxStarts \in Nat /\ MaxForeign \in Nat

(* Texts, in pieces: what a longer one leaves behind a shorter one counts. *)
First    == <<"s">>
Greeting == <<"Hel", "lo!">>
Smile    == <<"=)">>
Line     == <<"line">>          \* what the user of the plain client enters
Garbage  == <<"?", "?", "?">>   \* an array that was never written
Alien    == {<<"x">>, <<"x", "x", "x">>}

PORT     == "7777"            \* of every raw client
SrvPort  == "8888"
OtherPort == "9"
SrvHost  == "server"          \* ADDR of server.c
Here     == "here"            \* the clients' own address
Far      == "far"
SIZE     == 199
HeaderBits == 65536

VARIABLES
  kind,     \* the program, fixed for a behaviour
  lossy,    \* does the network between the machines lose frames
  client,   \* "off", "open", "waiting", "got", "done" or "failed"
  inbox,    \* per client: the packets its socket holds
  buf,      \* per client: the text behind the headers in its buffer
  server,   \* per client: the address the last packet came from
  refused,  \* plain clients whose datagram met a closed port
  srv,      \* the server: "down", "first", "greet" or "second"
  squeue,   \* the packets its socket holds
  peer,     \* the address and port of the first datagram
  heard,    \* the lines it has shown, over all starts
  starts, foreign,
  greeted   \* history: per client, the start whose greeting it got last, or 0

netVars == <<inbox, squeue, refused>>
srvVars == <<srv, peer, heard, starts, greeted>>
cfgVars == <<kind, lossy>>
dgramVars == <<cfgVars, client, buf, server, foreign, netVars, srvVars>>

DgramInit ==
  /\ kind \in {"plain", "udp", "ip", "ether"}
  /\ lossy \in IF kind = "ether" THEN BOOLEAN ELSE {FALSE}
  /\ client = [c \in Clients |-> "off"]
  /\ inbox = [c \in Clients |-> <<>>]
  /\ \E b \in {<<>>, Garbage} : buf = [c \in Clients |-> b]
  /\ server = [c \in Clients |-> SrvHost]
  /\ refused = {}
  /\ srv = "down"
  /\ squeue = <<>>
  /\ peer = [host |-> SrvHost, port |-> SrvPort]
  /\ heard = <<>>
  /\ starts = 0
  /\ foreign = 0
  /\ greeted = [c \in Clients |-> 0]

-----------------------------------------------------------------------------
(* The network. *)

(* What a socket gets after the client's last recvfrom is never read. *)
Listens(c) == client[c] \in {"open", "waiting"}

(* Does the socket of c get a copy of p, which the program from has sent. *)
Hears(c, p, from) ==
  /\ Listens(c)
  /\ CASE kind = "plain" -> p.dport = c /\ p.src = SrvHost
       [] kind = "ether" -> Here \in {p.src, p.dst} /\ from # c
       [] OTHER          -> p.dst \in {Here, SrvHost}

(* p leaves its host; it reaches another one unless the network loses it. *)
Transmit(p, from) ==
  \E arrives \in IF lossy THEN BOOLEAN ELSE {TRUE} :
    LET atServer == arrives /\ p.dst = SrvHost /\ p.dport = SrvPort /\ p.ok
    IN  /\ inbox' = [c \in Clients |->
                      IF Hears(c, p, from) /\ (arrives \/ p.src = Here)
                      THEN Append(inbox[c], p) ELSE inbox[c]]
        /\ squeue' = IF atServer /\ srv # "down" THEN Append(squeue, p)
                                                 ELSE squeue
        /\ refused' = IF kind = "plain" /\ atServer /\ srv = "down"
                      THEN refused \cup ({from} \cap Clients) ELSE refused

(* Another program sends a packet to a port of no concern. *)
Foreign ==
  /\ foreign < MaxForeign
  /\ foreign' = foreign + 1
  /\ \E t \in Alien :
       Transmit([src |-> Far, sport |-> OtherPort, dst |-> Here,
                 dport |-> OtherPort, text |-> t, ok |-> TRUE], "nobody")
  /\ UNCHANGED <<cfgVars, client, buf, server, srvVars>>

-----------------------------------------------------------------------------
(* The headers. *)

SumOf(words) == FoldSeq(LAMBDA w, s : w + s, 0, words)
CarryIn(s)   == (s \div HeaderBits) + (s % HeaderBits)

(* A defective checksum that does not add the carries. *)
check_sum_no_carry(words) == HeaderBits - 1 - (SumOf(words) % HeaderBits)

(* The carries are added twice: once for the sum, once for what that gives. *)
check_sum(words) == HeaderBits - 1 - CarryIn(CarryIn(SumOf(words)))

(* version, ihl and tos; tot_len; id; frag_off; ttl and protocol; check;
   saddr 192.168.122.29 and daddr 192.168.122.1.  htonl(12345) leaves 0 in the
   16 bits of id. *)
IpHeader(bytes, check) ==
  <<17664, 28 + bytes, 0, 0, 65297, check, 49320, 31261, 49320, 31233>>

(* What the server's kernel asks of a header before it delivers a packet. *)
Verifies(words) == CarryIn(CarryIn(SumOf(words))) = HeaderBits - 1

(* Do the packets of every length pass?  The check is made over a header with
   0 in its place. *)
Accepted ==
  \A n \in 0 .. SIZE : Verifies(IpHeader(n, check_sum(IpHeader(n, 0))))

UdpPacket(to, text) ==
  [src |-> Here, sport |-> PORT, dst |-> to, dport |-> SrvPort,
   text |-> text, ok |-> TRUE]

(* Both addresses of the header are PATH, wherever sendto sends it: on this
   host it comes back, anywhere else it is lost. *)
IpPacket(to, text) ==
  [src |-> SrvHost, sport |-> PORT, dport |-> SrvPort,
   dst |-> IF to = Far THEN Far ELSE SrvHost,
   text |-> text, ok |-> TRUE]

EtherPacket(text) ==
  [src |-> Here, sport |-> PORT, dst |-> SrvHost, dport |-> SrvPort,
   text |-> text, ok |-> Accepted]

(* The kernel writes the headers of a plain socket. *)
PlainPacket(c, text) ==
  [src |-> Here, sport |-> c, dst |-> SrvHost, dport |-> SrvPort,
   text |-> text, ok |-> TRUE]

-----------------------------------------------------------------------------
(* The client. *)

OpenSocket(c) ==
  /\ client[c] = "off"
  /\ client' = [client EXCEPT ![c] = "open"]
  /\ UNCHANGED <<cfgVars, buf, server, foreign, netVars, srvVars>>

(* A defective start that does not clear the buffer. *)
SendFirstOnly(c, p) ==
  /\ client[c] = "open"
  /\ Transmit(p, c)
  /\ client' = [client EXCEPT ![c] = "waiting"]
  /\ UNCHANGED <<cfgVars, buf, server, foreign, srvVars>>

(* The raw clients clear the text of the buffer, the plain one does not. *)
SendFirst(c, p) ==
  /\ client[c] = "open"
  /\ Transmit(p, c)
  /\ client' = [client EXCEPT ![c] = "waiting"]
  /\ buf' = [buf EXCEPT ![c] = IF kind = "plain" THEN @ ELSE <<>>]
  /\ UNCHANGED <<cfgVars, server, foreign, srvVars>>

SendPlain(c) == kind = "plain" /\ SendFirst(c, PlainPacket(c, First))
SendUdp(c)   == kind = "udp" /\ SendFirst(c, UdpPacket(SrvHost, First))
SendIp(c)    == kind = "ip" /\ SendFirst(c, IpPacket(SrvHost, First))
SendEther(c) == kind = "ether" /\ SendFirst(c, EtherPacket(First))

(* sendto or socket returns -1 (the program needs privileges): return 1. *)
SendFails(c) ==
  /\ kind # "plain"
  /\ client[c] \in {"open", "got"}
  /\ client' = [client EXCEPT ![c] = "failed"]
  /\ UNCHANGED <<cfgVars, buf, server, foreign, netVars, srvVars>>

(* A packet is written over the start of the buffer and nothing is cleared:
   the end of a longer one stays. *)
Overlay(text, old) == text \o SubSeq(old, Len(text) + 1, Len(old))

ReceivePacket(c, to) ==
  /\ client[c] = "waiting"
  /\ inbox[c] # <<>>
  /\ inbox' = [inbox EXCEPT ![c] = IF to = "got" THEN <<>> ELSE Tail(@)]
  /\ buf' = [buf EXCEPT ![c] = Overlay(Head(inbox[c]).text, @)]
  /\ server' = [server EXCEPT ![c] = Head(inbox[c]).src]
  /\ client' = [client EXCEPT ![c] = to]
  /\ UNCHANGED <<cfgVars, squeue, refused, foreign, srvVars>>

(* The loop of recvfrom until the packet is for PORT. *)
Ignore(c) ==
  /\ kind # "plain"
  /\ client[c] = "waiting" /\ inbox[c] # <<>>
  /\ Head(inbox[c]).dport # PORT
  /\ ReceivePacket(c, "waiting")

TakePacket(c) ==
  /\ kind # "plain"
  /\ client[c] = "waiting" /\ inbox[c] # <<>>
  /\ Head(inbox[c]).dport = PORT
  /\ ReceivePacket(c, "got")

(* The plain client's one recvfrom: an error that is pending comes first. *)
RecvPlain(c) ==
  /\ kind = "plain"
  /\ c \notin refused
  /\ ReceivePacket(c, "got")

RecvRefused(c) ==
  /\ c \in refused
  /\ client[c] = "waiting"
  /\ client' = [client EXCEPT ![c] = "got"]
  /\ refused' = refused \ {c}
  /\ UNCHANGED <<cfgVars, buf, server, inbox, squeue, foreign, srvVars>>

(* The answer is sent and the socket closed. *)
Answer(c, p) ==
  /\ client[c] = "got"
  /\ Transmit(p, c)
  /\ client' = [client EXCEPT ![c] = "done"]
  /\ UNCHANGED <<cfgVars, buf, server, foreign, srvVars>>

Echo(c) == buf[c] \o Smile
EchoUdp(c)   == kind = "udp" /\ Answer(c, UdpPacket(server[c], Echo(c)))
EchoIp(c)    == kind = "ip" /\ Answer(c, IpPacket(server[c], Echo(c)))
EchoEther(c) == kind = "ether" /\ Answer(c, EtherPacket(Echo(c)))
SayLine(c)   == kind = "plain" /\ Answer(c, PlainPacket(c, Line))

DgramClientSteps(c) ==
  \/ SendPlain(c) \/ SendUdp(c) \/ SendIp(c) \/ SendEther(c) \/ SendFails(c)
  \/ Ignore(c) \/ TakePacket(c) \/ RecvPlain(c) \/ RecvRefused(c)
  \/ EchoUdp(c) \/ EchoIp(c) \/ EchoEther(c) \/ SayLine(c)

-----------------------------------------------------------------------------
(* The server. *)

clientVars == <<client, buf, server>>

StartServer ==
  /\ srv = "down"
  /\ starts < MaxStarts
  /\ starts' = starts + 1
  /\ srv' = "first"
  /\ UNCHANGED <<cfgVars, clientVars, foreign, netVars, peer, heard, greeted>>

(* A defective recvfrom that leaves the datagram where it is. *)
PeekFirst ==
  /\ srv = "first"
  /\ squeue # <<>>
  /\ peer' = [host |-> Head(squeue).src, port |-> Head(squeue).sport]
  /\ srv' = "greet"
  /\ UNCHANGED <<cfgVars, clientVars, foreign, netVars, heard, starts,
                 greeted>>

(* One byte of whatever datagram is first. *)
RecvFirst ==
  /\ srv = "first"
  /\ squeue # <<>>
  /\ peer' = [host |-> Head(squeue).src, port |-> Head(squeue).sport]
  /\ squeue' = Tail(squeue)
  /\ srv' = "greet"
  /\ UNCHANGED <<cfgVars, clientVars, foreign, inbox, refused, heard, starts,
                 greeted>>

Greet ==
  /\ srv = "greet"
  /\ Transmit([src |-> SrvHost, sport |-> SrvPort, dst |-> peer.host,
               dport |-> peer.port, text |-> Greeting, ok |-> TRUE], "server")
  /\ greeted' = [c \in Clients |->
                   IF inbox'[c] # inbox[c] /\ peer.port \in {c, PORT}
                   THEN starts ELSE greeted[c]]
  /\ srv' = "second"
  /\ UNCHANGED <<cfgVars, clientVars, foreign, peer, heard, starts>>

(* Anyone's next datagram is shown, and the server ends. *)
RecvSecond ==
  /\ srv = "second"
  /\ squeue # <<>>
  /\ heard' = Append(heard, Head(squeue).text)
  /\ squeue' = <<>>
  /\ srv' = "down"
  /\ UNCHANGED <<cfgVars, clientVars, foreign, inbox, refused, peer, starts,
                 greeted>>

(* SIGINT, or SIGTSTP to the server of "udp", which alone has handlers: the
   program ends.  (SIGTSTP stops the others for a while; that is left out.) *)
handle_sigint ==
  /\ srv # "down"
  /\ squeue' = <<>>
  /\ srv' = "down"
  /\ UNCHANGED <<cfgVars, clientVars, foreign, inbox, refused, peer, heard,
                 starts, greeted>>

DgramServerSteps == RecvFirst \/ Greet \/ RecvSecond

DgramNext ==
  \/ StartServer \/ DgramServerSteps \/ handle_sigint
  \/ Foreign
  \/ \E c \in Clients : OpenSocket(c) \/ DgramClientSteps(c)

(* Neither the raw clients nor their server wait for a user. *)
DgramFairness ==
  /\ WF_dgramVars(kind # "plain" /\ DgramServerSteps)
  /\ \A c \in Clients : WF_dgramVars(kind # "plain" /\ DgramClientSteps(c))

DgramSpec == DgramInit /\ [][DgramNext]_dgramVars
DgramFairSpec == DgramSpec /\ DgramFairness

-----------------------------------------------------------------------------
(* Properties. *)

(* A raw client answers only when it was greeted, and with the greeting,
   whatever else passes its socket; and with nothing behind it, unless its
   buffer may have held a longer packet: one of another program, or another
   client's answer, which is out before the greeting of a second server. *)
EchoIsGreeting ==
  kind # "plain" =>
    \A c \in Clients :
      client[c] \in {"got", "done"} =>
        /\ greeted[c] > 0 /\ IsPrefix(Greeting, buf[c])
        /\ buf[c] # Greeting => starts > 1 \/ foreign > 0

(* The line the server shows is an answer, unless several clients send to it:
   its second datagram is not known to come from the client it greeted. *)
LoneClientIsHeard ==
  Cardinality({c \in Clients : client[c] # "off"}) <= 1 =>
    \A i \in DOMAIN heard : Last(heard[i]) \in {Last(Smile), Last(Line)}

(* While the server waits for a first byte, a raw client that sends one gets
   an answer, or the server has ended.  And one greeting serves every raw
   client that listens: each of them ends, and so does the server.  Unless
   frames are lost, or a sendto fails. *)
GreetingEndsAll ==
  \A c \in Clients :
    LET Undisturbed == ~lossy /\ kind # "plain"
    IN  /\ srv = "first" /\ client[c] = "open" /\ Undisturbed ~>
             client[c] \in {"done", "failed"} \/ srv = "down"
        /\ srv = "second" /\ greeted[c] = starts /\ Undisturbed ~>
             client[c] = "failed" \/ (client[c] = "done" /\ srv # "second")
=============================================================================
