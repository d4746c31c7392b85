--------------------------- MODULE QueueChatProofs ---------------------------
(***************************************************************************)
(* Theorems about queue/chat for any number of clients, lines, rows and    *)
(* restarts of the server, and queues of any length.                       *)
(***************************************************************************)
EXTENDS QueueChat, SequenceTheorems, TLAPS

(* A server that runs was started. *)
Started == server # "down" => starts >= 1

TypeInv == TypeOK /\ Started

(* m comes after every message of its client in s. *)
After(s, m) == \A i \in 1 .. Len(s) : s[i][1] = m[1] => s[i][2] < m[2]

(* Every client's messages in s are in the order they were sent. *)
InOrder(s) ==
  \A i, j \in 1 .. Len(s) : i < j /\ s[i][1] = s[j][1] => s[i][2] < s[j][2]

(* Every message in s was sent. *)
AllSent(s) == \A i \in 1 .. Len(s) : s[i][2] <= sent[s[i][1]]

(* The inductive invariant of the order: the messages in the queue go on where
   those in the history of a server that has not overrun stop. *)
OrderInv ==
  /\ \A r \in overrun : r <= starts
  /\ InOrder(msgq) /\ AllSent(msgq)
  /\ starts \notin overrun =>
       /\ ~Wild(rows)
       /\ InOrder(rows) /\ AllSent(rows)
       /\ \A j \in 1 .. Len(msgq) : After(rows, msgq[j])

(* The last snapshot of an idle server is the last in the queue or, when that
   is empty, on a screen. *)
Delivered ==
  server = "msgrcv" /\ rows # <<>> /\ ~Wild(rows) =>
    IF grpq = <<>> THEN \E c \in Clients : view[c] = Latest
    ELSE grpq[Len(grpq)] = Latest

(* b shows more than a, or comes from a later start or after an overrun. *)
Grows(a, b) ==
  \/ a.run < b.run
  \/ /\ a.run = b.run
     /\ IsStrictPrefix(a.rows, b.rows) \/ a.run \in overrun

(* a is not ahead of the server. *)
UpTo(a) ==
  \/ a.run < starts
  \/ a.run = starts /\ (IsPrefix(a.rows, rows) \/ starts \in overrun)

(* The inductive invariant of the screens: what is shown, what is queued and
   what is about to be queued grow in this order. *)
GrowInv ==
  /\ \A i \in 1 .. Len(grpq) : UpTo(grpq[i])
  /\ \A c \in Clients : UpTo(view[c])
  /\ \A i, j \in 1 .. Len(grpq) : i < j => Grows(grpq[i], grpq[j])
  /\ \A c \in Clients, i \in 1 .. Len(grpq) : Grows(view[c], grpq[i])
  /\ server = "msgsnd" =>
       /\ \A i \in 1 .. Len(grpq) : Grows(grpq[i], Latest)
       /\ \A c \in Clients : Grows(view[c], Latest)

-----------------------------------------------------------------------------
(* Sequences. *)

(* What is left when the head is taken. *)
LEMMA TailIs ==
  ASSUME NEW S, NEW s \in Seq(S), s # <<>>
  PROVE  /\ Head(s) = s[1] /\ Head(s) \in S /\ Tail(s) \in Seq(S)
         /\ Len(s) \in Nat \ {0} /\ Len(Tail(s)) = Len(s) - 1
         /\ \A i \in 1 .. Len(Tail(s)) :
              i + 1 \in 2 .. Len(s) /\ Tail(s)[i] = s[i + 1]
  <1>1. /\ Head(s) \in S /\ Tail(s) \in Seq(S)
        /\ Len(Tail(s)) = Len(s) - 1
        /\ \A i \in 1 .. Len(Tail(s)) : Tail(s)[i] = s[i + 1]
    BY HeadTailProperties
  <1>2. Len(s) \in Nat \ {0} /\ Head(s) = s[1]
    BY EmptySeq
  <1> QED BY <1>1, <1>2

(* What is there when m is put at the end. *)
LEMMA AppendIs ==
  ASSUME NEW S, NEW s \in Seq(S), NEW m \in S
  PROVE  /\ Append(s, m) \in Seq(S) /\ Append(s, m) # <<>>
         /\ Len(s) \in Nat /\ Len(Append(s, m)) = Len(s) + 1
         /\ \A i \in 1 .. Len(s) : Append(s, m)[i] = s[i]
         /\ Append(s, m)[Len(s) + 1] = m
         /\ \A i \in 1 .. Len(Append(s, m)) :
              i \in 1 .. Len(s) \/ i = Len(s) + 1
  <1>1. Len(s) \in Nat /\ Len(Append(s, m)) = Len(s) + 1
    BY LenProperties, AppendProperties
  <1> QED BY <1>1, AppendProperties

(* A history with one more message is a longer one. *)
LEMMA PrefixAppend ==
  ASSUME NEW S, NEW s \in Seq(S), NEW t \in Seq(S), NEW m \in S,
         IsPrefix(s, t)
  PROVE  IsStrictPrefix(s, Append(t, m))
  <1> DEFINE u == Append(t, m)
  <1>1. u \in Seq(S) /\ Len(u) = Len(t) + 1
        /\ Len(t) \in Nat /\ Len(s) \in Nat /\ Len(s) <= Len(t)
    BY AppendIs, LenProperties DEF IsPrefix
  <1>2. \A i \in 1 .. Len(s) : s[i] \in S /\ t[i] \in S /\ u[i] = t[i]
    BY <1>1, AppendIs, ElementOfSeq
  <1>3. \A i \in 1 .. Len(s) : u[i] \in S
    BY <1>2
  <1> DEFINE a == SubSeq(t, 1, Len(s))
             b == SubSeq(u, 1, Len(s))
  <1>4. /\ a \in Seq(S) /\ Len(a) = Len(s)
        /\ \A i \in 1 .. Len(s) : a[i] = t[i]
    BY <1>1, <1>2, SubSeqProperties
  <1>5. /\ b \in Seq(S) /\ Len(b) = Len(s)
        /\ \A i \in 1 .. Len(s) : b[i] = u[i]
    BY <1>1, <1>3, SubSeqProperties
  <1>6. \A i \in 1 .. Len(a) : a[i] = b[i]
    BY <1>2, <1>4, <1>5
  <1> HIDE DEF u, a, b
  <1>7. a = b
    BY <1>4, <1>5, <1>6, SeqEqual
  <1>8. SubSeq(s, 1, Len(s)) = b /\ Len(s) < Len(u)
    BY <1>1, <1>7 DEF IsPrefix, a
  <1>9. IsPrefix(s, u) /\ s # u
    BY <1>1, <1>8 DEF IsPrefix, b
  <1> QED BY <1>9 DEF IsStrictPrefix, u

-----------------------------------------------------------------------------
(* The types. *)

LEMMA TypeInit == Init => TypeInv
  <1> SUFFICES ASSUME Init PROVE TypeInv
    OBVIOUS
  <1> USE QueueChatAssumption DEF QueueChatAssumption, Init
  <1>1. NoView \in Snapshots /\ ~Wild(NoView.rows)
    BY EmptySeq DEF NoView, Snapshots, Wild
  <1> QED BY <1>1, EmptySeq DEF TypeInv, TypeOK, Started

LEMMA TypeNext == TypeInv /\ [Next]_vars => TypeInv'
  <1> SUFFICES ASSUME TypeInv, [Next]_vars PROVE TypeInv'
    OBVIOUS
  <1> USE QueueChatAssumption DEF QueueChatAssumption, TypeInv, TypeOK,
          Started, clientVars, serverVars
  <1>0. CASE Start
    <2>1. rows' \in Seq(Msgs) /\ Len(rows') <= Rows + 1
      BY <1>0, EmptySeq DEF Start
    <2> QED BY <1>0, <2>1 DEF Start, Wild
  <1>1. CASE Stop
    BY <1>1 DEF Stop, Wild
  <1>2. ASSUME Receive
        PROVE  /\ Head(msgq) \in Msgs /\ msgq' \in Seq(Msgs)
               /\ Len(msgq') <= MsgMax /\ starts \in 1 .. MaxStarts
               /\ UNCHANGED <<grpq, starts, sent, view, gone, victims, seen>>
    BY <1>2, TailIs DEF Receive
  <1>3. CASE Store
    BY <1>3, <1>2, AppendIs DEF Store, Wild
  <1>4. CASE Overrun
    <2>1. \A i \in 1 .. NewlineCode + 1 : rows[i] \in Msgs
      BY <1>4, ElementOfSeq DEF Overrun
    <2>2. rows' \in Seq(Msgs) /\ Len(rows') <= Rows + 1
      BY <1>4, <1>2, <2>1, AppendIs, SubSeqProperties DEF Overrun
    <2> QED BY <1>4, <1>2, <2>2 DEF Overrun, Wild
  <1>5. CASE Fault
    BY <1>5, <1>2 DEF Fault, Wild
  <1>6. CASE Send
    <2>1. Latest \in Snapshots
      BY DEF Latest, Snapshots
    <2> QED BY <1>6, <2>1, AppendIs DEF Send, Wild
  <1>7. ASSUME NEW c \in Clients, Write(c) PROVE TypeInv'
    <2>1. sent' \in [Clients -> 0 .. 2 * MaxLines] /\ <<c, sent'[c]>> \in Msgs
      BY <1>7 DEF Write, Msgs
    <2> QED BY <1>7, <2>1, AppendIs DEF Write, Wild
  <1>8. ASSUME NEW c \in Clients, Take(c)
        PROVE  /\ Head(grpq) \in Snapshots /\ grpq' \in Seq(Snapshots)
               /\ Len(grpq') <= GrpMax
               /\ UNCHANGED <<msgq, server, rows, starts, overrun, sent>>
    BY <1>8, TailIs DEF Take
  <1>9. ASSUME NEW c \in Clients, Show(c) PROVE TypeInv'
    <2>1. Head(grpq).rows \in Seq(Msgs)
      BY <1>8, <1>9 DEF Show, Snapshots
    <2>2. ToSet(Head(grpq).rows) \subseteq Msgs
      BY <2>1 DEF ToSet
    <2> QED BY <1>8, <1>9, <2>2 DEF Show, Wild
  <1>10. ASSUME NEW c \in Clients, ShowFaults(c) PROVE TypeInv'
    <2>1. Head(grpq).run \in 0 .. MaxStarts
      BY <1>8, <1>10 DEF ShowFaults, Snapshots
    <2>2. /\ victims' \subseteq gone' \X (0 .. MaxStarts)
          /\ gone' \subseteq Clients
      BY <1>10, <2>1 DEF ShowFaults
    <2> QED BY <1>8, <1>10, <2>2 DEF ShowFaults, Wild
  <1>11. ASSUME NEW c \in Clients, ShowNothing(c) PROVE TypeInv'
    <2>1. Head(grpq).run \in 0 .. MaxStarts
      BY <1>8, <1>11 DEF ShowNothing, Snapshots
    <2>2. /\ [run |-> Head(grpq).run, rows |-> <<>>] \in Snapshots
          /\ ~Wild(<<>>)
      BY <2>1, EmptySeq DEF Snapshots, Wild
    <2> QED BY <1>8, <1>11, <2>2 DEF ShowNothing, Wild
  <1>12. ASSUME NEW c \in Clients, Leave(c) PROVE TypeInv'
    BY <1>12 DEF Leave, Wild
  <1>13. CASE UNCHANGED vars
    BY <1>13 DEF vars, Wild
  <1> QED
    BY <1>0, <1>1, <1>3, <1>4, <1>5, <1>6, <1>7, <1>9, <1>10, <1>11, <1>12,
       <1>13 DEF Next, Serve, prints

LEMMA TypeAlways == Spec => []TypeInv
  <1> QED BY TypeInit, TypeNext, PTL DEF Spec

(* The variables keep their types; in particular the server never counts more
   than one row too many and no client shows such a count. *)
THEOREM TypeCorrect == Spec => []TypeOK
  <1>1. TypeInv => TypeOK
    BY DEF TypeInv
  <1> QED BY TypeAlways, <1>1, PTL

-----------------------------------------------------------------------------
(* The order of the messages. *)

(* Taking the head leaves the order of the rest. *)
LEMMA OrderOfTail ==
  ASSUME NEW s \in Seq(Msgs), s # <<>>, InOrder(s), AllSent(s)
  PROVE  /\ InOrder(Tail(s)) /\ AllSent(Tail(s))
         /\ Head(s)[2] <= sent[Head(s)[1]]
         /\ \A j \in 1 .. Len(Tail(s)) :
              Head(s)[1] = Tail(s)[j][1] => Head(s)[2] < Tail(s)[j][2]
  <1>1. /\ Head(s) = s[1] /\ Len(s) \in Nat \ {0}
        /\ Len(Tail(s)) = Len(s) - 1
        /\ \A i \in 1 .. Len(Tail(s)) :
             i + 1 \in 2 .. Len(s) /\ Tail(s)[i] = s[i + 1]
    BY TailIs
  <1>2. InOrder(Tail(s))
    <2> SUFFICES ASSUME NEW i \in 1 .. Len(Tail(s)),
                        NEW j \in 1 .. Len(Tail(s)),
                        i < j, Tail(s)[i][1] = Tail(s)[j][1]
                 PROVE  Tail(s)[i][2] < Tail(s)[j][2]
      BY DEF InOrder
    <2>1. /\ i + 1 \in 1 .. Len(s) /\ j + 1 \in 1 .. Len(s) /\ i + 1 < j + 1
          /\ Tail(s)[i] = s[i + 1] /\ Tail(s)[j] = s[j + 1]
      BY <1>1
    <2> QED BY <2>1 DEF InOrder
  <1>3. AllSent(Tail(s)) /\ Head(s)[2] <= sent[Head(s)[1]]
    BY <1>1 DEF AllSent
  <1>4. ASSUME NEW j \in 1 .. Len(Tail(s)), Head(s)[1] = Tail(s)[j][1]
        PROVE  Head(s)[2] < Tail(s)[j][2]
    <2>1. j + 1 \in 1 .. Len(s) /\ 1 \in 1 .. Len(s) /\ 1 < j + 1
          /\ Tail(s)[j] = s[j + 1]
      BY <1>1
    <2> QED BY <1>1, <1>4, <2>1 DEF InOrder
  <1> QED BY <1>2, <1>3, <1>4

(* A message that comes after the others goes to the end. *)
LEMMA OrderOfAppend ==
  ASSUME NEW s \in Seq(Msgs), NEW m \in Msgs, InOrder(s), After(s, m)
  PROVE  /\ InOrder(Append(s, m))
         /\ AllSent(s) /\ m[2] <= sent[m[1]] => AllSent(Append(s, m))
  <1> DEFINE t == Append(s, m)
  <1>1. /\ Len(s) \in Nat /\ Len(t) = Len(s) + 1 /\ t[Len(s) + 1] = m
        /\ \A i \in 1 .. Len(s) : t[i] = s[i]
        /\ \A i \in 1 .. Len(t) : i \in 1 .. Len(s) \/ i = Len(s) + 1
    BY AppendIs
  <1> HIDE DEF t
  <1>2. InOrder(t)
    <2> SUFFICES ASSUME NEW i \in 1 .. Len(t), NEW j \in 1 .. Len(t),
                        i < j, t[i][1] = t[j][1]
                 PROVE  t[i][2] < t[j][2]
      BY DEF InOrder
    <2>1. i \in 1 .. Len(s)
      BY <1>1
    <2>2. CASE j \in 1 .. Len(s)
      BY <1>1, <2>1, <2>2 DEF InOrder
    <2>3. CASE j = Len(s) + 1
      BY <1>1, <2>1, <2>3 DEF After
    <2> QED BY <1>1, <2>2, <2>3
  <1>3. AllSent(s) /\ m[2] <= sent[m[1]] => AllSent(t)
    BY <1>1 DEF AllSent
  <1> QED BY <1>2, <1>3 DEF t

LEMMA OrderInit == Init => OrderInv
  BY QueueChatAssumption
     DEF QueueChatAssumption, Init, OrderInv, InOrder, AllSent, After, Wild

LEMMA OrderNext == TypeInv /\ OrderInv /\ [Next]_vars => OrderInv'
  <1> SUFFICES ASSUME TypeInv, OrderInv, [Next]_vars PROVE OrderInv'
    OBVIOUS
  <1>0. TypeInv'
    BY TypeNext
  <1> USE QueueChatAssumption DEF QueueChatAssumption, clientVars, serverVars
  <1>a. \A r \in overrun : r <= starts
    BY DEF OrderInv
  <1>1. CASE Start
    <2>1. /\ starts' \notin overrun' /\ rows' = <<>>
          /\ UNCHANGED <<msgq, overrun, sent>>
          /\ starts' = starts + 1 /\ starts \in Nat /\ overrun \subseteq Int
      BY <1>1, <1>a DEF Start, TypeInv, TypeOK
    <2>2. ~Wild(<<>>) /\ InOrder(<<>>) /\ AllSent(<<>>)
          /\ \A m \in Msgs : After(<<>>, m)
      BY DEF Wild, InOrder, AllSent, After
    <2>3. \A r \in overrun' : r <= starts'
      BY <1>a, <2>1
    <2> QED BY <2>1, <2>2, <2>3 DEF OrderInv, InOrder, AllSent, After, Wild
  <1>2. CASE Stop \/ Send
    <2>1. UNCHANGED <<msgq, rows, starts, overrun, sent>>
      BY <1>2 DEF Stop, Send
    <2> QED BY <2>1 DEF OrderInv, InOrder, AllSent, After, Wild
  <1>3. ASSUME Receive
        PROVE  /\ Head(msgq) \in Msgs /\ msgq' = Tail(msgq)
               /\ InOrder(msgq') /\ AllSent(msgq') /\ UNCHANGED <<starts, sent>>
               /\ Head(msgq)[2] <= sent[Head(msgq)[1]]
               /\ \A j \in 1 .. Len(msgq') :
                    Head(msgq)[1] = msgq'[j][1] => Head(msgq)[2] < msgq'[j][2]
    <2>1. msgq \in Seq(Msgs) /\ msgq # <<>> /\ InOrder(msgq) /\ AllSent(msgq)
      BY <1>3 DEF Receive, OrderInv, TypeInv, TypeOK
    <2>2. msgq' = Tail(msgq) /\ UNCHANGED <<starts, sent>>
      BY <1>3 DEF Receive
    <2> QED BY <2>1, <2>2, TailIs, OrderOfTail
  <1>4. CASE Store
    <2> DEFINE m == Head(msgq)
    <2>1. /\ rows' = Append(rows, m) /\ rows \in Seq(Msgs) /\ Len(rows) < Rows
          /\ UNCHANGED <<overrun, starts, sent>>
          /\ m \in Msgs /\ m[2] <= sent[m[1]]
      BY <1>3, <1>4 DEF Store, TypeInv, TypeOK
    <2>2. InOrder(msgq') /\ AllSent(msgq)'
      BY <1>3, <1>4 DEF Store, AllSent
    <2>3. ASSUME starts \notin overrun
          PROVE  /\ ~Wild(rows') /\ InOrder(rows') /\ AllSent(rows)'
                 /\ \A j \in 1 .. Len(msgq') : After(rows', msgq'[j])
      <3>1. InOrder(rows) /\ AllSent(rows)
        BY <2>3 DEF OrderInv
      <3>2. /\ msgq \in Seq(Msgs) /\ msgq # <<>>
            /\ \A j \in 1 .. Len(msgq) : After(rows, msgq[j])
        BY <1>4, <2>3 DEF OrderInv, Store, Receive, TypeInv, TypeOK
      <3>3. /\ m = msgq[1] /\ Len(msgq) \in Nat \ {0} /\ msgq' = Tail(msgq)
            /\ \A j \in 1 .. Len(msgq') :
                 j + 1 \in 2 .. Len(msgq) /\ msgq'[j] = msgq[j + 1]
        BY <1>4, <3>2, TailIs DEF Store, Receive
      <3>4. After(rows, m)
        BY <3>2, <3>3
      <3>5. InOrder(rows') /\ AllSent(rows')
        BY <2>1, <3>1, <3>4, OrderOfAppend
      <3>6. ASSUME NEW j \in 1 .. Len(msgq') PROVE After(rows', msgq'[j])
        <4>1. After(rows, msgq'[j])
          BY <3>2, <3>3
        <4>2. m[1] = msgq'[j][1] => m[2] < msgq'[j][2]
          BY <1>3, <1>4 DEF Store
        <4> HIDE DEF m
        <4> SUFFICES ASSUME NEW i \in 1 .. Len(rows'),
                            rows'[i][1] = msgq'[j][1]
                     PROVE  rows'[i][2] < msgq'[j][2]
          BY DEF After
        <4>3. CASE i \in 1 .. Len(rows)
          BY <2>1, <4>1, <4>3, AppendIs DEF After
        <4>4. CASE i = Len(rows) + 1
          BY <2>1, <4>2, <4>4, AppendIs
        <4> QED BY <2>1, <4>3, <4>4, AppendIs
      <3>7. ~Wild(rows')
        BY <2>1, AppendIs DEF Wild
      <3>8. AllSent(rows)'
        BY <2>1, <3>5 DEF AllSent
      <3> QED BY <3>5, <3>6, <3>7, <3>8
    <2> HIDE DEF m
    <2>4. \A r \in overrun' : r <= starts'
      BY <1>a, <2>1
    <2> QED
      BY <2>1, <2>2, <2>3, <2>4 DEF OrderInv, Wild, InOrder, After
  <1>5. CASE Overrun
    <2>1. starts' \in overrun' /\ \A r \in overrun' : r <= starts'
      BY <1>5, <1>a DEF Overrun, Receive, TypeInv, TypeOK
    <2> QED BY <1>3, <1>5, <2>1 DEF Overrun, OrderInv, AllSent, InOrder
  <1>6. CASE Fault
    <2>1. Receive /\ UNCHANGED <<overrun, rows>> /\ starts \in overrun
      BY <1>6 DEF Fault, OrderInv
    <2> QED BY <1>3, <1>a, <2>1 DEF OrderInv, AllSent, InOrder
  <1>7. ASSUME NEW c \in Clients, Write(c) PROVE OrderInv'
    <2> DEFINE m == <<c, sent'[c]>>
    <2>1. /\ msgq' = Append(msgq, m) /\ msgq \in Seq(Msgs)
          /\ sent[c] \in Nat /\ sent'[c] = sent[c] + 1
          /\ sent' = [sent EXCEPT ![c] = @ + 1]
          /\ UNCHANGED <<rows, starts, overrun>> /\ rows \in Seq(Msgs)
          /\ InOrder(msgq) /\ AllSent(msgq)
      BY <1>7 DEF Write, TypeInv, TypeOK, OrderInv
    <2>2. m \in Msgs /\ m[1] = c /\ m[2] = sent[c] + 1
      BY <1>7, <2>1 DEF Write, Msgs, TypeInv, TypeOK
    <2> HIDE DEF m
    <2>3. ASSUME NEW s \in Seq(Msgs), AllSent(s)
          PROVE  AllSent(s)' /\ After(s, m)
      <3> SUFFICES ASSUME NEW i \in 1 .. Len(s)
                   PROVE  /\ s[i][2] <= sent'[s[i][1]]
                          /\ s[i][1] = m[1] => s[i][2] < m[2]
        BY DEF AllSent, After
      <3>1. s[i] \in Msgs /\ s[i][2] <= sent[s[i][1]]
        BY <2>3, ElementOfSeq DEF AllSent
      <3>2. /\ s[i][1] \in Clients /\ s[i][2] \in Int
            /\ sent[s[i][1]] \in Nat
        BY <3>1 DEF Msgs, TypeInv, TypeOK
      <3>3. CASE s[i][1] = c
        <4>1. sent'[s[i][1]] = sent[s[i][1]] + 1
          BY <2>1, <3>3
        <4> QED BY <2>2, <3>1, <3>2, <3>3, <4>1
      <3>4. CASE s[i][1] # c
        <4>1. sent'[s[i][1]] = sent[s[i][1]]
          BY <2>1, <3>2, <3>4
        <4> QED BY <2>2, <3>1, <3>4, <4>1
      <3> QED BY <3>3, <3>4
    <2>4. /\ Len(msgq) \in Nat /\ Len(msgq') = Len(msgq) + 1
          /\ msgq'[Len(msgq) + 1] = m
          /\ \A i \in 1 .. Len(msgq) : msgq'[i] = msgq[i]
          /\ \A i \in 1 .. Len(msgq') :
               i \in 1 .. Len(msgq) \/ i = Len(msgq) + 1
      BY <2>1, <2>2, AppendIs
    <2>5. InOrder(msgq') /\ AllSent(msgq)'
      <3>1. AllSent(msgq)' /\ After(msgq, m)
        <4>1. After(msgq, m) /\ \A i \in 1 .. Len(msgq) :
                                 msgq[i][2] <= sent'[msgq[i][1]]
          BY <2>1, <2>3 DEF AllSent
        <4>2. m[2] <= sent'[m[1]]
          BY <2>1, <2>2
        <4> QED BY <2>4, <4>1, <4>2 DEF AllSent
      <3>2. InOrder(msgq')
        BY <2>1, <2>2, <3>1, OrderOfAppend
      <3> QED BY <3>1, <3>2
    <2>6. ASSUME starts \notin overrun
          PROVE  /\ ~Wild(rows) /\ InOrder(rows) /\ AllSent(rows)'
                 /\ \A j \in 1 .. Len(msgq') : After(rows, msgq'[j])
      <3>1. /\ ~Wild(rows) /\ InOrder(rows) /\ AllSent(rows)
            /\ \A j \in 1 .. Len(msgq) : After(rows, msgq[j])
        BY <2>6 DEF OrderInv
      <3>2. After(rows, m) /\ \A i \in 1 .. Len(rows) :
                               rows[i][2] <= sent'[rows[i][1]]
        BY <2>1, <2>3, <3>1 DEF AllSent
      <3>3. AllSent(rows)'
        BY <2>1, <3>2 DEF AllSent
      <3> QED BY <2>4, <3>1, <3>2, <3>3
    <2>7. \A r \in overrun' : r <= starts'
      BY <1>a, <2>1
    <2> QED
      BY <2>1, <2>5, <2>6, <2>7 DEF OrderInv, Wild, InOrder, After
  <1>8. ASSUME NEW c \in Clients, Leave(c) \/ prints(c) PROVE OrderInv'
    <2>1. UNCHANGED <<msgq, rows, starts, overrun, sent>>
      BY <1>8 DEF Leave, prints, Show, ShowFaults, ShowNothing, Take
    <2> QED BY <2>1 DEF OrderInv, InOrder, AllSent, After, Wild
  <1>9. CASE UNCHANGED vars
    BY <1>9 DEF vars, OrderInv, InOrder, AllSent, After, Wild
  <1> QED
    BY <1>1, <1>2, <1>4, <1>5, <1>6, <1>7, <1>8, <1>9 DEF Next, Serve

-----------------------------------------------------------------------------
(* The victims. *)

(* No client has been killed by a snapshot of run r. *)
Spared(r) == \A v \in victims : v[2] # r

(* A wild snapshot of run r waits for a client. *)
Pending(r) == \E i \in 1 .. Len(grpq) : grpq[i].run = r /\ Wild(grpq[i].rows)

(* The inductive invariant of the victims: a run sends one wild snapshot, and
   until a client has taken it nobody was killed by that run. *)
VictimInv ==
  /\ OneVictimPerOverrun
  /\ \A v \in victims : v[2] <= starts
  /\ \A i \in 1 .. Len(grpq) :
       /\ grpq[i].run <= starts
       /\ Wild(grpq[i].rows) => grpq[i].run \in overrun /\ Spared(grpq[i].run)
  /\ \A i, j \in 1 .. Len(grpq) :
       Wild(grpq[i].rows) /\ Wild(grpq[j].rows) /\ grpq[i].run = grpq[j].run
         => i = j
  /\ server = "msgsnd" \/ (server = "msgrcv" /\ ~Wild(rows)) =>
       Spared(starts) /\ ~Pending(starts)

LEMMA VictimInit == Init => VictimInv
  BY EmptySeq DEF Init, VictimInv, OneVictimPerOverrun, Spared, Pending

LEMMA VictimNext ==
  TypeInv /\ OrderInv /\ VictimInv /\ [Next]_vars => VictimInv'
  <1> SUFFICES ASSUME TypeInv, OrderInv, VictimInv, [Next]_vars
               PROVE  VictimInv'
    OBVIOUS
  <1> USE DEF clientVars, serverVars
  <1>0. /\ grpq \in Seq(Snapshots) /\ Len(grpq) \in Nat
        /\ \A i \in 1 .. Len(grpq) : grpq[i].run \in Nat
        /\ starts \in Nat
        /\ \A v \in victims : v[2] \in Nat
    <2>1. grpq \in Seq(Snapshots) /\ Len(grpq) \in Nat
      BY LenProperties DEF TypeInv, TypeOK
    <2>2. \A i \in 1 .. Len(grpq) : grpq[i] \in Snapshots
      BY <2>1, ElementOfSeq
    <2> QED
      BY <2>1, <2>2, QueueChatAssumption
         DEF QueueChatAssumption, TypeInv, TypeOK, Snapshots
  <1>1. CASE Start
    <2>1. /\ starts' = starts + 1 /\ server' = "msgrcv"
          /\ UNCHANGED <<grpq, overrun, victims>>
      BY <1>1 DEF Start
    <2>2. Spared(starts') /\ ~Pending(starts')
      BY <1>0, <2>1 DEF VictimInv, Spared, Pending
    <2> QED
      BY <1>0, <2>1, <2>2 DEF VictimInv, OneVictimPerOverrun, Spared, Pending
  <1>2. CASE Store \/ Overrun
    <2>1. /\ server = "msgrcv" /\ ~Wild(rows) /\ overrun \subseteq overrun'
          /\ UNCHANGED <<grpq, starts, victims>>
      BY <1>2, QueueChatAssumption
         DEF QueueChatAssumption, Store, Overrun, Receive, Wild, TypeInv,
             TypeOK
    <2>2. Spared(starts) /\ ~Pending(starts)
      BY <2>1 DEF VictimInv
    <2> QED BY <2>1, <2>2 DEF VictimInv, OneVictimPerOverrun, Spared, Pending
  <1>3. CASE Stop \/ Fault
    <2>1. /\ server' = "down"
          /\ UNCHANGED <<grpq, starts, overrun, victims>>
      BY <1>3 DEF Stop, Fault, Receive
    <2> QED BY <2>1 DEF VictimInv, OneVictimPerOverrun, Spared
  <1>4. CASE Send
    <2> DEFINE l == Latest
    <2>1. /\ server = "msgsnd" /\ server' = "msgrcv"
          /\ grpq' = Append(grpq, l) /\ l \in Snapshots
          /\ l.run = starts /\ (Wild(l.rows) <=> Wild(rows))
          /\ UNCHANGED <<rows, starts, overrun, victims>>
      BY <1>4 DEF Send, Latest, Snapshots, TypeInv, TypeOK
    <2>2. Spared(starts) /\ ~Pending(starts)
      BY <2>1 DEF VictimInv
    <2>3. Wild(l.rows) => starts \in overrun
      BY <2>1 DEF OrderInv
    <2> HIDE DEF l
    <2>4. /\ grpq'[Len(grpq) + 1] = l
          /\ \A i \in 1 .. Len(grpq) : grpq'[i] = grpq[i]
          /\ \A i \in 1 .. Len(grpq') :
               i \in 1 .. Len(grpq) \/ i = Len(grpq) + 1
      BY <1>0, <2>1, AppendIs
    <2>5. \A i \in 1 .. Len(grpq) :
            Wild(grpq[i].rows) => grpq[i].run # starts
      BY <2>2 DEF Pending
    <2>6. ASSUME NEW i \in 1 .. Len(grpq')
          PROVE  /\ grpq'[i].run <= starts
                 /\ Wild(grpq'[i].rows) =>
                      grpq'[i].run \in overrun /\ Spared(grpq'[i].run)
      <3>1. CASE i \in 1 .. Len(grpq)
        BY <2>4, <3>1 DEF VictimInv
      <3>2. CASE i = Len(grpq) + 1
        BY <1>0, <2>1, <2>2, <2>3, <2>4, <3>2
      <3> QED BY <2>4, <3>1, <3>2
    <2>7. ASSUME NEW i \in 1 .. Len(grpq'), NEW j \in 1 .. Len(grpq'),
                 Wild(grpq'[i].rows), Wild(grpq'[j].rows),
                 grpq'[i].run = grpq'[j].run
          PROVE  i = j
      <3>1. CASE i \in 1 .. Len(grpq) /\ j \in 1 .. Len(grpq)
        BY <2>4, <2>7, <3>1 DEF VictimInv
      <3>2. CASE i \in 1 .. Len(grpq) /\ j = Len(grpq) + 1
        BY <2>1, <2>4, <2>5, <2>7, <3>2
      <3>3. CASE i = Len(grpq) + 1 /\ j \in 1 .. Len(grpq)
        BY <2>1, <2>4, <2>5, <2>7, <3>3
      <3> QED BY <2>4, <3>1, <3>2, <3>3
    <2>8. ~Wild(rows) => ~Pending(starts)'
      <3>1. SUFFICES ASSUME ~Wild(rows), NEW i \in 1 .. Len(grpq'),
                            grpq'[i].run = starts, Wild(grpq'[i].rows)
                     PROVE  FALSE
        BY <2>1 DEF Pending
      <3>2. i \in 1 .. Len(grpq)
        BY <2>1, <2>4, <3>1
      <3> QED BY <2>4, <2>5, <3>1, <3>2
    <2> QED
      BY <2>1, <2>2, <2>6, <2>7, <2>8
         DEF VictimInv, OneVictimPerOverrun, Spared, Wild
  <1>5. ASSUME NEW c \in Clients, prints(c) PROVE VictimInv'
    <2> DEFINE h == Head(grpq)
    <2>1. /\ grpq # <<>> /\ grpq' = Tail(grpq)
          /\ UNCHANGED <<server, rows, starts, overrun>>
          /\ \/ victims' = victims
             \/ Wild(h.rows) /\ victims' = victims \cup {<<c, h.run>>}
      BY <1>5 DEF prints, Show, ShowFaults, ShowNothing, Take
    <2>2. h = grpq[1] /\ 1 \in 1 .. Len(grpq)
      BY <1>0, <2>1, TailIs
    <2>3. \A i \in 1 .. Len(grpq') : /\ i + 1 \in 1 .. Len(grpq) /\ i + 1 # 1
                                     /\ grpq'[i] = grpq[i + 1]
      <3>1. \A i \in 1 .. Len(grpq') : /\ i + 1 \in 2 .. Len(grpq)
                                       /\ grpq'[i] = grpq[i + 1]
        BY <1>0, <2>1, TailIs
      <3> QED BY <1>0, <3>1
    <2> HIDE DEF h
    <2>4. \A i \in 1 .. Len(grpq') :
            Wild(h.rows) /\ Wild(grpq'[i].rows) => grpq'[i].run # h.run
      BY <2>2, <2>3 DEF VictimInv
    <2>5. \A r : Pending(r)' => Pending(r)
      BY <2>3 DEF Pending
    <2>6. \A i, j \in 1 .. Len(grpq') :
            Wild(grpq'[i].rows) /\ Wild(grpq'[j].rows)
              /\ grpq'[i].run = grpq'[j].run => i = j
      <3> SUFFICES ASSUME NEW i \in 1 .. Len(grpq'), NEW j \in 1 .. Len(grpq'),
                          Wild(grpq'[i].rows), Wild(grpq'[j].rows),
                          grpq'[i].run = grpq'[j].run
                   PROVE  i = j
        OBVIOUS
      <3>1. i + 1 = j + 1
        BY <2>3 DEF VictimInv
      <3>2. i \in Int /\ j \in Int
        OBVIOUS
      <3> QED BY <3>1, <3>2
    <2>7. CASE victims' = victims
      <3>1. \A r : Spared(r)' <=> Spared(r)
        BY <2>7 DEF Spared
      <3> QED
        BY <2>1, <2>3, <2>5, <2>6, <2>7, <3>1
           DEF VictimInv, OneVictimPerOverrun, Wild
    <2>8. CASE Wild(h.rows) /\ victims' = victims \cup {<<c, h.run>>}
      <3>1. h.run <= starts /\ h.run \in overrun /\ Spared(h.run)
        BY <2>2, <2>8 DEF VictimInv
      <3>2. OneVictimPerOverrun'
        BY <2>1, <2>8, <3>1 DEF VictimInv, OneVictimPerOverrun, Spared
      <3>3. \A i \in 1 .. Len(grpq') :
              /\ grpq'[i].run <= starts
              /\ Wild(grpq'[i].rows) =>
                   /\ grpq'[i].run \in overrun
                   /\ \A v \in victims' : v[2] # grpq'[i].run
        <4> SUFFICES ASSUME NEW i \in 1 .. Len(grpq')
                     PROVE  /\ grpq'[i].run <= starts
                            /\ Wild(grpq'[i].rows) =>
                                 /\ grpq'[i].run \in overrun
                                 /\ \A v \in victims' : v[2] # grpq'[i].run
          OBVIOUS
        <4>1. /\ grpq'[i].run <= starts
              /\ Wild(grpq'[i].rows) =>
                   grpq'[i].run \in overrun /\ Spared(grpq'[i].run)
          BY <2>3 DEF VictimInv
        <4>2. Wild(grpq'[i].rows) => grpq'[i].run # h.run
          BY <2>4, <2>8
        <4> QED BY <2>8, <4>1, <4>2 DEF Spared
      <3>4. server = "msgsnd" \/ (server = "msgrcv" /\ ~Wild(rows)) =>
              Spared(starts)' /\ ~Pending(starts)'
        <4>1. Pending(h.run)
          BY <2>2, <2>8 DEF Pending
        <4>2. SUFFICES ASSUME \/ server = "msgsnd"
                              \/ server = "msgrcv" /\ ~Wild(rows)
                       PROVE  Spared(starts)' /\ ~Pending(starts)'
          OBVIOUS
        <4>3. Spared(starts) /\ ~Pending(starts)
          BY <4>2 DEF VictimInv
        <4>4. starts # h.run
          BY <4>1, <4>3
        <4>5. \A v \in victims' : v[2] # starts
          BY <2>8, <4>3, <4>4 DEF Spared
        <4>6. ~\E i \in 1 .. Len(grpq') :
                 grpq'[i].run = starts /\ Wild(grpq'[i].rows)
          BY <2>3, <4>3 DEF Pending
        <4> QED BY <2>1, <4>5, <4>6 DEF Spared, Pending, Wild
      <3>5. \A v \in victims' : v[2] <= starts
        BY <2>8, <3>1 DEF VictimInv
      <3> QED
        BY <2>1, <2>6, <3>2, <3>3, <3>4, <3>5 DEF VictimInv, Spared, Wild
    <2> QED BY <2>1, <2>7, <2>8
  <1>6. CASE UNCHANGED vars \/ \E c \in Clients : Write(c) \/ Leave(c)
    <2>1. UNCHANGED <<grpq, server, rows, starts, overrun, victims>>
      BY <1>6 DEF vars, Write, Leave
    <2> QED
      BY <2>1 DEF VictimInv, OneVictimPerOverrun, Spared, Pending, Wild
  <1> QED
    BY <1>1, <1>2, <1>3, <1>4, <1>5, <1>6 DEF Next, Serve

(* Whatever the number of starts and clients and however long the queue that
   outlives the server: an overrun kills one client at most, and nothing else
   kills one. *)
THEOREM OneVictimCorrect == Spec => []OneVictimPerOverrun
  <1>1. VictimInv => OneVictimPerOverrun
    BY DEF VictimInv
  <1> QED
    BY TypeAlways, OrderInit, OrderNext, VictimInit, VictimNext, <1>1, PTL
       DEF Spec

-----------------------------------------------------------------------------
(* The last snapshot. *)

LEMMA DeliveredNext ==
  TypeInv /\ Delivered /\ [Next]_vars => Delivered'
  <1> SUFFICES ASSUME TypeInv, Delivered, [Next]_vars PROVE Delivered'
    OBVIOUS
  <1> USE DEF TypeInv, TypeOK, clientVars, serverVars
  <1>1. CASE Start \/ Stop \/ Store \/ Overrun \/ Fault
    BY <1>1 DEF Start, Stop, Store, Overrun, Fault, Receive, Delivered
  <1>2. CASE Send
    <2>1. Latest \in Snapshots
      BY DEF Latest, Snapshots
    <2> DEFINE l == Latest
    <2>2. grpq' = Append(grpq, l) /\ grpq \in Seq(Snapshots) /\ l \in Snapshots
      BY <1>2, <2>1 DEF Send
    <2> HIDE DEF l
    <2>4. grpq' # <<>> /\ grpq'[Len(grpq')] = l
      BY <2>2, AppendIs
    <2>3. Latest' = Latest
      BY <1>2 DEF Send, Latest
    <2> QED BY <2>3, <2>4 DEF Delivered, l
  <1>3. ASSUME NEW c \in Clients, Write(c) \/ Leave(c) PROVE Delivered'
    BY <1>3 DEF Write, Leave, Delivered, Latest
  <1>4. ASSUME NEW c \in Clients, Show(c) PROVE Delivered'
    <2>1. /\ grpq # <<>> /\ grpq \in Seq(Snapshots) /\ grpq' = Tail(grpq)
          /\ view' = [view EXCEPT ![c] = Head(grpq)]
          /\ UNCHANGED <<server, rows, starts>>
      BY <1>4 DEF Show, Take
    <2>2. /\ Len(grpq) \in Nat \ {0} /\ Len(grpq') = Len(grpq) - 1
          /\ view'[c] = grpq[1]
          /\ \A i \in 1 .. Len(grpq') : grpq'[i] = grpq[i + 1]
      BY <2>1, TailIs
    <2>3. SUFFICES ASSUME server = "msgrcv", rows # <<>>, ~Wild(rows)
                   PROVE  IF grpq' = <<>>
                          THEN \E d \in Clients : view'[d] = Latest'
                          ELSE grpq'[Len(grpq')] = Latest'
      BY <2>1 DEF Delivered
    <2>4. grpq[Len(grpq)] = Latest /\ Latest' = Latest
      BY <2>1, <2>3 DEF Delivered, Latest
    <2>5. CASE grpq' = <<>>
      <3>1. Len(grpq) = 1
        BY <2>2, <2>5, EmptySeq
      <3> QED BY <2>2, <2>4, <2>5, <3>1
    <2>6. CASE grpq' # <<>>
      <3>1. Len(grpq') \in 1 .. Len(grpq') /\ Len(grpq') + 1 = Len(grpq)
        BY <2>1, <2>2, <2>6, TailIs, EmptySeq
      <3>2. grpq'[Len(grpq')] = grpq[Len(grpq)]
        BY <2>2, <3>1
      <3> QED BY <2>4, <2>6, <3>2
    <2> QED BY <2>5, <2>6
  <1>5. ASSUME NEW c \in Clients, ShowFaults(c) \/ ShowNothing(c)
        PROVE  Delivered'
    <2>1. /\ grpq # <<>> /\ grpq \in Seq(Snapshots) /\ grpq' = Tail(grpq)
          /\ Wild(Head(grpq).rows)
          /\ UNCHANGED <<server, rows, starts>>
      BY <1>5 DEF ShowFaults, ShowNothing, Take
    <2>2. /\ Len(grpq) \in Nat \ {0} /\ Len(grpq') = Len(grpq) - 1
          /\ Head(grpq) = grpq[1]
          /\ \A i \in 1 .. Len(grpq') : grpq'[i] = grpq[i + 1]
      BY <2>1, TailIs
    <2>3. SUFFICES ASSUME server = "msgrcv", rows # <<>>, ~Wild(rows)
                   PROVE  grpq' # <<>> /\ grpq'[Len(grpq')] = Latest'
      BY <2>1 DEF Delivered, Wild
    <2>4. grpq[Len(grpq)] = Latest /\ Latest' = Latest /\ Latest.rows = rows
      BY <2>1, <2>3 DEF Delivered, Latest
    <2>5. Len(grpq) # 1
      BY <2>1, <2>2, <2>3, <2>4
    <2>6. grpq' # <<>>
      BY <2>2, <2>5, EmptySeq
    <2>7. Len(grpq') \in 1 .. Len(grpq') /\ Len(grpq') + 1 = Len(grpq)
      BY <2>1, <2>2, <2>6, TailIs, EmptySeq
    <2>8. grpq'[Len(grpq')] = grpq[Len(grpq)]
      BY <2>2, <2>7
    <2> QED BY <2>4, <2>6, <2>8
  <1>6. CASE UNCHANGED vars
    BY <1>6 DEF vars, Delivered, Latest
  <1> QED
    BY <1>1, <1>2, <1>3, <1>4, <1>5, <1>6 DEF Next, Serve, prints

(* The snapshots that clients take from one queue are not lost: the whole
   history of an idle server is on a screen once the queue is empty. *)
THEOREM NothingUnshown == Spec => []SomeoneShowsAll
  <1>1. Init => Delivered
    BY DEF Init, Delivered
  <1>2. Delivered => SomeoneShowsAll
    BY DEF Delivered, SomeoneShowsAll
  <1> QED BY TypeAlways, DeliveredNext, <1>1, <1>2, PTL DEF Spec

-----------------------------------------------------------------------------
(* The screens. *)

LEMMA PrefixOfItself ==
  ASSUME NEW S, NEW s \in Seq(S) PROVE IsPrefix(s, s)
  BY LenProperties DEF IsPrefix

(* What was taken from the server stays behind it and, but for the snapshot
   that waits to be sent, behind its next snapshot. *)
LEMMA GrowStable ==
  ASSUME TypeInv, OrderInv, [Next]_vars, NEW a \in Snapshots, UpTo(a)
  PROVE  /\ UpTo(a)'
         /\ \A b \in Snapshots : Grows(a, b) => Grows(a, b)'
         /\ server' = "msgsnd" => \/ Grows(a, Latest)'
                                  \/ server = "msgsnd" /\ Latest' = Latest
  <1> USE DEF TypeInv, TypeOK, Started, clientVars, serverVars
  <1>1. a.run \in Nat /\ a.rows \in Seq(Msgs) /\ starts \in Nat
    BY QueueChatAssumption DEF QueueChatAssumption, Snapshots
  <1>2. ASSUME overrun \subseteq overrun', NEW b \in Snapshots, Grows(a, b)
        PROVE  Grows(a, b)'
    BY <1>2 DEF Grows
  <1>3. CASE Start
    <2>1. a.run < starts' /\ server' # "msgsnd" /\ overrun' = overrun
      BY <1>1, <1>3 DEF Start, UpTo
    <2> QED BY <1>2, <2>1 DEF UpTo
  <1>4. CASE Store
    <2>1. /\ rows' = Append(rows, Head(msgq)) /\ Head(msgq) \in Msgs
          /\ UNCHANGED <<starts, overrun>>
      BY <1>4, TailIs DEF Store, Receive
    <2>2. IsPrefix(a.rows, rows) => IsStrictPrefix(a.rows, rows')
      BY <1>1, <2>1, PrefixAppend
    <2>3. Grows(a, Latest)'
      BY <2>1, <2>2 DEF UpTo, Grows, Latest
    <2>4. UpTo(a)'
      BY <2>1, <2>2 DEF UpTo, IsStrictPrefix
    <2> QED BY <1>2, <2>1, <2>3, <2>4
  <1>5. CASE Overrun
    <2>1. starts' = starts /\ overrun \subseteq overrun' /\ starts \in overrun'
      BY <1>5 DEF Overrun, Receive
    <2>2. UpTo(a)' /\ Grows(a, Latest)'
      BY <2>1 DEF UpTo, Grows, Latest
    <2> QED BY <1>2, <2>1, <2>2
  <1>6. CASE /\ UNCHANGED <<rows, starts, overrun>>
             /\ server' = "msgsnd" => server = "msgsnd"
    <2>1. UpTo(a)' /\ Latest' = Latest
      BY <1>6 DEF UpTo, Latest
    <2> QED BY <1>2, <1>6, <2>1
  <1>7. CASE Stop \/ Fault \/ Send
    <2>1. /\ UNCHANGED <<rows, starts, overrun>>
          /\ server' # "msgsnd"
      BY <1>7 DEF Stop, Fault, Send, Receive
    <2> QED BY <1>6, <2>1
  <1>8. CASE \E c \in Clients : Write(c) \/ Leave(c) \/ prints(c)
    <2>1. UNCHANGED <<server, rows, starts, overrun>>
      BY <1>8 DEF Write, Leave, prints, Show, ShowFaults, ShowNothing, Take
    <2> QED BY <1>6, <2>1
  <1>9. CASE UNCHANGED vars
    BY <1>6, <1>9 DEF vars
  <1> QED
    BY <1>3, <1>4, <1>5, <1>7, <1>8, <1>9 DEF Next, Serve

LEMMA GrowInit == Init => GrowInv
  <1> SUFFICES ASSUME Init PROVE GrowInv
    OBVIOUS
  <1>1. UpTo(NoView)
    BY EmptySeq, PrefixOfItself DEF Init, UpTo, NoView
  <1> QED BY <1>1, EmptySeq DEF Init, GrowInv

LEMMA GrowNext ==
  TypeInv /\ OrderInv /\ VictimInv /\ GrowInv /\ [Next]_vars => GrowInv'
  <1> SUFFICES ASSUME TypeInv, OrderInv, VictimInv, GrowInv, [Next]_vars
               PROVE  GrowInv'
    OBVIOUS
  <1> USE DEF clientVars, serverVars
  <1>1. /\ grpq \in Seq(Snapshots) /\ Len(grpq) \in Nat
        /\ \A i \in 1 .. Len(grpq) : grpq[i] \in Snapshots
        /\ \A c \in Clients : view[c] \in Snapshots
    BY ElementOfSeq, LenProperties DEF TypeInv, TypeOK
  <1>2. /\ \A i \in 1 .. Len(grpq) : UpTo(grpq[i])
        /\ \A c \in Clients : UpTo(view[c])
        /\ \A i, j \in 1 .. Len(grpq) : i < j => Grows(grpq[i], grpq[j])
        /\ \A c \in Clients, i \in 1 .. Len(grpq) : Grows(view[c], grpq[i])
        /\ server = "msgsnd" =>
             /\ \A i \in 1 .. Len(grpq) : Grows(grpq[i], Latest)
             /\ \A c \in Clients : Grows(view[c], Latest)
    BY DEF GrowInv
  <1>3. Latest \in Snapshots
    BY DEF TypeInv, TypeOK, Latest, Snapshots
  <1>4. ASSUME NEW a \in Snapshots, UpTo(a) PROVE UpTo(a)'
    BY <1>4, GrowStable
  <1>5. ASSUME NEW a \in Snapshots, UpTo(a), NEW b \in Snapshots, Grows(a, b)
        PROVE  Grows(a, b)'
    BY <1>5, GrowStable
  <1>6. ASSUME NEW a \in Snapshots, UpTo(a), server' = "msgsnd",
               server = "msgsnd" => Grows(a, Latest)
        PROVE  Grows(a, Latest)'
    <2>1. CASE Grows(a, Latest)'
      BY <2>1
    <2>2. CASE server = "msgsnd" /\ Latest' = Latest
      BY <1>3, <1>5, <1>6, <2>2 DEF Grows
    <2> QED BY <1>6, <2>1, <2>2, GrowStable
  <1>7. CASE UNCHANGED <<grpq, view>>
    <2>1. /\ \A i \in 1 .. Len(grpq') : UpTo(grpq[i])'
          /\ \A c \in Clients : UpTo(view[c])'
      BY <1>1, <1>2, <1>4, <1>7 DEF UpTo
    <2>2. \A i, j \in 1 .. Len(grpq') : i < j => Grows(grpq[i], grpq[j])'
      BY <1>1, <1>2, <1>5, <1>7 DEF Grows
    <2>3. \A c \in Clients, i \in 1 .. Len(grpq') : Grows(view[c], grpq[i])'
      BY <1>1, <1>2, <1>5, <1>7 DEF Grows
    <2>4. server' = "msgsnd" =>
            /\ \A i \in 1 .. Len(grpq') : Grows(grpq[i], Latest)'
            /\ \A c \in Clients : Grows(view[c], Latest)'
      BY <1>1, <1>2, <1>6, <1>7 DEF Grows
    <2> QED BY <2>1, <2>2, <2>3, <2>4 DEF GrowInv
  <1>8. CASE Send
    <2> DEFINE l == Latest
    <2>1. /\ server = "msgsnd" /\ server' # "msgsnd"
          /\ grpq' = Append(grpq, l) /\ l \in Snapshots
          /\ UNCHANGED <<rows, starts, overrun, view>>
          /\ rows \in Seq(Msgs)
      BY <1>3, <1>8 DEF Send, TypeInv, TypeOK
    <2>2. UpTo(l)
      BY <2>1, PrefixOfItself DEF UpTo, Latest
    <2>3. /\ \A i \in 1 .. Len(grpq) : Grows(grpq[i], l)
          /\ \A c \in Clients : Grows(view[c], l)
      BY <1>2, <2>1
    <2> HIDE DEF l
    <2>4. /\ grpq'[Len(grpq) + 1] = l
          /\ \A i \in 1 .. Len(grpq) : grpq'[i] = grpq[i]
          /\ \A i \in 1 .. Len(grpq') :
               i \in 1 .. Len(grpq) \/ i = Len(grpq) + 1
      BY <1>1, <2>1, AppendIs
    <2>5. /\ \A i \in 1 .. Len(grpq') : UpTo(grpq'[i])
          /\ \A c \in Clients : UpTo(view[c])
      BY <1>2, <2>2, <2>4
    <2>6. \A c \in Clients, i \in 1 .. Len(grpq') : Grows(view[c], grpq'[i])
      BY <1>2, <2>3, <2>4
    <2>7. ASSUME NEW i \in 1 .. Len(grpq'), NEW j \in 1 .. Len(grpq'), i < j
          PROVE  Grows(grpq'[i], grpq'[j])
      <3>1. i \in 1 .. Len(grpq) /\ grpq'[i] = grpq[i]
        BY <1>1, <2>4, <2>7
      <3>2. CASE j \in 1 .. Len(grpq)
        BY <1>2, <2>4, <2>7, <3>1, <3>2
      <3>3. CASE j = Len(grpq) + 1
        BY <2>3, <2>4, <3>1, <3>3
      <3> QED BY <2>4, <3>2, <3>3
    <2> QED BY <2>1, <2>5, <2>6, <2>7 DEF GrowInv, UpTo, Grows
  <1>9. ASSUME NEW c \in Clients, prints(c) PROVE GrowInv'
    <2> DEFINE Shown(s) == s = Head(grpq) \/ (/\ s.run = Head(grpq).run
                                             /\ s.rows = <<>>
                                             /\ s.run \in overrun)
    <2>1. /\ grpq # <<>> /\ grpq' = Tail(grpq)
          /\ UNCHANGED <<server, rows, starts, overrun>>
          /\ \A d \in Clients :
               view'[d] = view[d] \/ (d = c /\ Shown(view'[d]))
      <3>1. CASE Show(c) \/ ShowFaults(c)
        BY <3>1 DEF Show, ShowFaults, Take, TypeInv, TypeOK
      <3>2. CASE ShowNothing(c)
        <4>1. grpq[1] = Head(grpq) /\ 1 \in 1 .. Len(grpq)
          BY <1>1, <3>2, TailIs DEF ShowNothing, Take
        <4>2. Head(grpq).run \in overrun
          BY <3>2, <4>1 DEF VictimInv, ShowNothing
        <4>3. view \in [Clients -> Snapshots]
          BY DEF TypeInv, TypeOK
        <4> DEFINE blank == [run |-> Head(grpq).run, rows |-> <<>>]
        <4>4. Shown(blank)
          BY <4>2
        <4>5. /\ view' = [view EXCEPT ![c] = blank]
              /\ grpq # <<>> /\ grpq' = Tail(grpq)
              /\ UNCHANGED <<server, rows, starts, overrun>>
          BY <3>2 DEF ShowNothing, Take
        <4> HIDE DEF blank, Shown
        <4> QED BY <4>3, <4>4, <4>5
      <3> QED BY <1>9, <3>1, <3>2 DEF prints
    <2>2. /\ Head(grpq) = grpq[1] /\ 1 \in 1 .. Len(grpq)
          /\ Len(grpq') = Len(grpq) - 1
          /\ \A i \in 1 .. Len(grpq') : /\ i + 1 \in 2 .. Len(grpq)
                                        /\ grpq'[i] = grpq[i + 1]
      BY <1>1, <2>1, TailIs
    <2>3. \A i \in 1 .. Len(grpq') : /\ i + 1 \in 1 .. Len(grpq) /\ 1 < i + 1
                                     /\ grpq'[i] = grpq[i + 1]
      BY <1>1, <2>2
    <2>a. UpTo(Head(grpq)) /\ \A s : Shown(s) => UpTo(s)
      BY <1>2, <2>2 DEF UpTo
    <2>b. \A s, b : Shown(s) /\ Grows(Head(grpq), b) => Grows(s, b)
      BY DEF Grows
    <2> HIDE DEF Shown
    <2>4. /\ \A i \in 1 .. Len(grpq') : UpTo(grpq'[i])
          /\ \A d \in Clients : UpTo(view'[d])
      BY <1>2, <2>1, <2>3, <2>a
    <2>5. \A d \in Clients, i \in 1 .. Len(grpq') : Grows(view'[d], grpq'[i])
      BY <1>2, <2>1, <2>2, <2>3, <2>b
    <2>6. ASSUME NEW i \in 1 .. Len(grpq'), NEW j \in 1 .. Len(grpq'), i < j
          PROVE  Grows(grpq'[i], grpq'[j])
      <3>1. i + 1 < j + 1
        BY <1>1, <2>2, <2>6
      <3> QED BY <1>2, <2>3, <3>1
    <2>7. server = "msgsnd" =>
            /\ \A i \in 1 .. Len(grpq') : Grows(grpq'[i], Latest)
            /\ \A d \in Clients : Grows(view'[d], Latest)
      BY <1>2, <2>1, <2>2, <2>3, <2>b
    <2> QED
      BY <2>1, <2>4, <2>5, <2>6, <2>7 DEF GrowInv, UpTo, Grows, Latest
  <1>10. CASE \/ Start \/ Stop \/ Store \/ Overrun \/ Fault
              \/ \E c \in Clients : Write(c) \/ Leave(c)
    BY <1>7, <1>10 DEF Start, Stop, Store, Overrun, Fault, Receive, Write,
                       Leave
  <1> QED
    BY <1>7, <1>8, <1>9, <1>10 DEF Next, Serve, vars

(* For every client, whatever the others take from the same queue: what it
   shows never shrinks, but for a later start or an overrun. *)
THEOREM ScreensGrow == Spec => ViewsGrow
  <1>1. TypeInv /\ VictimInv /\ GrowInv /\ [Next]_vars =>
          [\A c \in Clients :
             view'[c] # view[c] =>
               \/ view'[c].run > view[c].run
               \/ /\ view'[c].run = view[c].run
                  /\ \/ IsStrictPrefix(view[c].rows, view'[c].rows)
                     \/ view[c].run \in overrun]_vars
    <2> SUFFICES ASSUME TypeInv, VictimInv, GrowInv, [Next]_vars,
                        NEW c \in Clients, view'[c] # view[c]
                 PROVE  \/ view'[c].run > view[c].run
                        \/ /\ view'[c].run = view[c].run
                           /\ \/ IsStrictPrefix(view[c].rows, view'[c].rows)
                              \/ view[c].run \in overrun
      OBVIOUS
    <2>1. Show(c) \/ ShowNothing(c)
      BY DEF Next, vars, Start, Stop, Serve, Store, Overrun, Fault, Receive,
             Send, Write, Leave, prints, Show, ShowFaults, ShowNothing, Take,
             clientVars, TypeInv, TypeOK
    <2> DEFINE h == Head(grpq)
    <2>2. grpq # <<>> /\ grpq \in Seq(Snapshots)
      BY <2>1 DEF Show, ShowNothing, Take, TypeInv, TypeOK
    <2>3. h = grpq[1] /\ 1 \in 1 .. Len(grpq) /\ h \in Snapshots
      BY <2>2, TailIs
    <2>4. \/ view'[c] = h
          \/ view'[c].run = h.run /\ Wild(h.rows)
      BY <2>1 DEF Show, ShowNothing, TypeInv, TypeOK
    <2> HIDE DEF h
    <2>5. Grows(view[c], h) /\ (Wild(h.rows) => h.run \in overrun)
      BY <2>3 DEF GrowInv, VictimInv
    <2>6. view[c].run \in Int /\ h.run \in Int
      BY <2>3, QueueChatAssumption
         DEF QueueChatAssumption, TypeInv, TypeOK, Snapshots
    <2> QED BY <2>4, <2>5, <2>6 DEF Grows
  <1> QED
    BY TypeAlways, OrderInit, OrderNext, VictimInit, VictimNext, GrowInit,
       GrowNext, <1>1, PTL
       DEF Spec, ViewsGrow

-----------------------------------------------------------------------------
(* Refinement. *)

(* Every snapshot holds a row. *)
Filled == /\ server = "msgsnd" => rows # <<>>
          /\ \A i \in 1 .. Len(grpq) : grpq[i].rows # <<>>

LEMMA FilledNext == TypeInv /\ Filled /\ [Next]_vars => Filled'
  <1> SUFFICES ASSUME TypeInv, Filled, [Next]_vars PROVE Filled'
    OBVIOUS
  <1> USE DEF TypeInv, TypeOK, clientVars, serverVars
  <1>1. CASE Store \/ Overrun
    <2>1. /\ grpq' = grpq /\ Head(msgq) \in Msgs
          /\ \/ rows' = Append(rows, Head(msgq))
             \/ Len(rows) = Rows /\ rows' = SubSeq(rows, 1, NewlineCode + 1)
      BY <1>1, TailIs DEF Store, Overrun, Receive
    <2>2. CASE rows' = Append(rows, Head(msgq))
      BY <2>1, <2>2, AppendIs DEF Filled
    <2>3. CASE Len(rows) = Rows /\ rows' = SubSeq(rows, 1, NewlineCode + 1)
      <3>1. /\ NewlineCode + 1 \in 1 .. Len(rows)
            /\ \A i \in 1 .. NewlineCode + 1 : rows[i] \in Msgs
        BY <2>3, QueueChatAssumption, ElementOfSeq DEF QueueChatAssumption
      <3>2. Len(rows') = NewlineCode + 1
        BY <2>3, <3>1, SubSeqProperties
      <3>3. rows' # <<>>
        BY <3>1, <3>2, EmptySeq
      <3> QED BY <2>1, <3>3 DEF Filled
    <2> QED BY <2>1, <2>2, <2>3
  <1>2. CASE Send
    <2> DEFINE l == Latest
    <2>1. /\ grpq' = Append(grpq, l) /\ l \in Snapshots /\ l.rows # <<>>
          /\ server' # "msgsnd"
      BY <1>2 DEF Send, Latest, Snapshots, Filled
    <2> HIDE DEF l
    <2>2. /\ grpq'[Len(grpq) + 1] = l
          /\ \A i \in 1 .. Len(grpq) : grpq'[i] = grpq[i]
          /\ \A i \in 1 .. Len(grpq') :
               i \in 1 .. Len(grpq) \/ i = Len(grpq) + 1
      BY <2>1, AppendIs
    <2> QED BY <2>1, <2>2 DEF Filled
  <1>3. ASSUME NEW c \in Clients, prints(c) PROVE Filled'
    <2>1. /\ grpq # <<>> /\ grpq' = Tail(grpq)
          /\ UNCHANGED <<server, rows>>
      BY <1>3 DEF prints, Show, ShowFaults, ShowNothing, Take
    <2>2. \A i \in 1 .. Len(grpq') :
            i + 1 \in 1 .. Len(grpq) /\ grpq'[i] = grpq[i + 1]
      BY <2>1, TailIs
    <2> QED BY <2>1, <2>2 DEF Filled
  <1>4. CASE \/ Start \/ Stop \/ Fault \/ UNCHANGED vars
             \/ \E c \in Clients : Write(c) \/ Leave(c)
    BY <1>4 DEF Start, Stop, Fault, Receive, Write, Leave, Filled, vars
  <1> QED BY <1>1, <1>2, <1>3, <1>4 DEF Next, Serve

LEMMA StartIsBlank ==
  ASSUME TypeInv, OrderInv, GrowInv, Start
  PROVE  History!Blank'
  <1>1. /\ starts' = starts + 1 /\ starts \in Nat /\ rows' = <<>>
        /\ view' = view
    BY QueueChatAssumption
       DEF QueueChatAssumption, Start, TypeInv, TypeOK, clientVars
  <1>2. Recorded' = <<>>
    BY <1>1 DEF Recorded
  <1>3. \A c \in Clients : view[c].run # starts'
    <2>1. ASSUME NEW c \in Clients PROVE view[c].run # starts'
      <3>1. UpTo(view[c]) /\ view[c].run \in Nat
        BY QueueChatAssumption
           DEF QueueChatAssumption, GrowInv, TypeInv, TypeOK, Snapshots
      <3> QED BY <1>1, <3>1 DEF UpTo
    <2> QED BY <2>1
  <1>4. Screens' = [c \in Clients |-> <<>>]
    BY <1>1, <1>3 DEF Screens
  <1> QED BY <1>2, <1>4 DEF History!Blank

LEMMA StorePublishes ==
  ASSUME TypeInv, OrderInv, Store, Sound
  PROVE  History!Publish(Head(msgq)) /\ Head(msgq) \in Msgs
  <1>1. /\ rows' = Append(rows, Head(msgq)) /\ Sound'
        /\ UNCHANGED <<view, starts>>
    BY DEF Store, Receive, Sound, clientVars
  <1>2. /\ 1 \in 1 .. Len(msgq) /\ Head(msgq) = msgq[1] /\ Head(msgq) \in Msgs
    BY TailIs DEF Store, Receive, TypeInv, TypeOK
  <1>3. After(rows, Head(msgq))
    BY <1>2 DEF OrderInv, Sound
  <1>4. /\ \A i \in 1 .. Len(Recorded) : Recorded[i][1] = Head(msgq)[1] =>
             Recorded[i][2] < Head(msgq)[2]
        /\ Recorded' = Append(Recorded, Head(msgq))
    BY <1>1, <1>3 DEF Recorded, After
  <1>5. Screens' = Screens
    BY <1>1 DEF Screens
  <1> QED BY <1>2, <1>4, <1>5 DEF History!Publish

LEMMA ShowShows ==
  ASSUME TypeInv, GrowInv, Filled, Sound, NEW c \in Clients, Show(c)
  PROVE  History!Next \/ UNCHANGED History!vars
  <1> DEFINE s == Head(grpq)
  <1>1. /\ view' = [view EXCEPT ![c] = s] /\ grpq # <<>>
        /\ UNCHANGED <<rows, starts, overrun>>
    BY DEF Show, Take, serverVars
  <1>2. /\ s = grpq[1] /\ 1 \in 1 .. Len(grpq) /\ s \in Snapshots
    BY <1>1, TailIs DEF TypeInv, TypeOK
  <1>3. UpTo(s) /\ Grows(view[c], s) /\ s.rows # <<>> /\ UpTo(view[c])
    BY <1>2 DEF GrowInv, Filled
  <1> HIDE DEF s
  <1>4. /\ s.run \in Nat /\ s.rows \in Seq(Msgs) /\ starts \in Nat
        /\ view[c].run \in Nat /\ view[c].rows \in Seq(Msgs)
        /\ rows \in Seq(Msgs)
    BY <1>2, QueueChatAssumption
       DEF QueueChatAssumption, TypeInv, TypeOK, Snapshots
  <1>5. Recorded' = Recorded /\ Recorded = rows
    BY <1>1 DEF Recorded, Sound
  <1>6. CASE s.run = starts
    <2> DEFINE n == Len(s.rows)
    <2>1. IsPrefix(s.rows, rows)
      BY <1>3, <1>4, <1>6 DEF UpTo, Sound
    <2>2. n \in Nat \ {0} /\ Len(rows) \in Nat
      BY <1>3, <1>4, EmptySeq, LenProperties
    <2>3. n \in 1 .. Len(rows) /\ s.rows = SubSeq(rows, 1, n)
      BY <1>4, <2>1, <2>2, SubSeqFull DEF IsPrefix
    <2>4. Len(Screens[c]) < n
      <3>1. CASE view[c].run = starts
        <4>1. IsStrictPrefix(view[c].rows, s.rows)
          BY <1>3, <1>4, <1>6, <3>1 DEF Grows, Sound
        <4>2. /\ Len(view[c].rows) <= n /\ view[c].rows # s.rows
              /\ SubSeq(view[c].rows, 1, Len(view[c].rows))
                   = SubSeq(s.rows, 1, Len(view[c].rows))
          BY <4>1 DEF IsStrictPrefix, IsPrefix
        <4>3. Len(view[c].rows) # n
          BY <1>4, <4>2, SubSeqFull
        <4>4. Len(view[c].rows) < n
          BY <1>4, <2>2, <4>2, <4>3, LenProperties
        <4> QED BY <3>1, <4>4 DEF Screens
      <3>2. CASE view[c].run # starts
        BY <2>2, <3>2, EmptySeq DEF Screens
      <3> QED BY <3>1, <3>2
    <2>5. Screens' = [Screens EXCEPT ![c] = s.rows]
      BY <1>1, <1>6 DEF Screens, Sound, TypeInv, TypeOK
    <2>6. History!Show(c, n)
      BY <1>5, <2>3, <2>4, <2>5 DEF History!Show
    <2> QED BY <1>5, <2>3, <2>6 DEF History!Next
  <1>7. CASE s.run # starts
    <2>1. view[c].run # starts
      BY <1>3, <1>4, <1>7 DEF UpTo, Grows
    <2>2. Screens' = Screens
      BY <1>1, <1>7, <2>1 DEF Screens, Sound, TypeInv, TypeOK
    <2> QED BY <1>5, <2>2 DEF History!vars
  <1> QED BY <1>6, <1>7

(* A client that prints nothing took the snapshot of a run that has overrun. *)
LEMMA ShowsNothing ==
  ASSUME TypeInv, VictimInv, GrowInv, Sound, NEW c \in Clients, ShowNothing(c)
  PROVE  UNCHANGED History!vars
  <1> DEFINE h == Head(grpq)
             blank == [run |-> h.run, rows |-> <<>>]
  <1>1. /\ view' = [view EXCEPT ![c] = blank]
        /\ grpq # <<>> /\ Wild(h.rows)
        /\ UNCHANGED <<rows, starts, overrun>>
    BY DEF ShowNothing, Take, serverVars
  <1>2. h = grpq[1] /\ 1 \in 1 .. Len(grpq) /\ h \in Snapshots
    BY <1>1, TailIs DEF TypeInv, TypeOK
  <1> HIDE DEF h
  <1>3. Grows(view[c], h) /\ UpTo(h) /\ h.run \in overrun
    BY <1>1, <1>2 DEF GrowInv, VictimInv
  <1>4. h.run \in Nat /\ starts \in Nat /\ view[c].run \in Nat
    <2>1. view[c] \in Snapshots /\ starts \in 0 .. MaxStarts
      BY DEF TypeInv, TypeOK
    <2> QED
      BY <1>2, <2>1, QueueChatAssumption DEF QueueChatAssumption, Snapshots
  <1>5. blank.run # starts /\ view[c].run # starts
    BY <1>3, <1>4 DEF Sound, UpTo, Grows
  <1> HIDE DEF blank
  <1>6. Screens' = Screens
    BY <1>1, <1>5 DEF Screens, Sound, TypeInv, TypeOK
  <1> QED BY <1>1, <1>6 DEF History!vars, Recorded, Sound

LEMMA HistoryNext ==
  TypeInv /\ OrderInv /\ VictimInv /\ GrowInv /\ Filled /\ [Next]_vars =>
    [History!Next]_(History!vars)
  <1> SUFFICES ASSUME TypeInv, OrderInv, VictimInv, GrowInv, Filled,
                      [Next]_vars
               PROVE  History!Next \/ UNCHANGED History!vars
    OBVIOUS
  <1> USE DEF clientVars, serverVars
  <1>1. CASE Start
    BY <1>1, StartIsBlank DEF History!Next, History!Restart
  <1>2. CASE Store /\ Sound
    BY <1>2, StorePublishes DEF History!Next
  <1>3. CASE Overrun
    <2>1. ~Sound'
      BY <1>3 DEF Overrun, Receive, Sound
    <2>2. History!Blank'
      BY <2>1 DEF History!Blank, Recorded, Screens
    <2> QED BY <2>2 DEF History!Next, History!Restart
  <1>4. ASSUME NEW c \in Clients, Show(c), Sound
        PROVE  History!Next \/ UNCHANGED History!vars
    BY <1>4, ShowShows
  <1>5. CASE ~Sound /\ ~Sound'
    BY <1>5 DEF History!vars, Recorded, Screens
  <1>6. CASE UNCHANGED <<rows, view, starts, overrun>>
    BY <1>6 DEF History!vars, Recorded, Screens, Sound
  <1>7. CASE \/ Store /\ ~Sound
             \/ \E c \in Clients : (Show(c) \/ ShowNothing(c)) /\ ~Sound
    BY <1>5, <1>7 DEF Store, Receive, Show, ShowNothing, Take, Sound
  <1>8. CASE \/ Stop \/ Fault \/ Send \/ UNCHANGED vars
             \/ \E c \in Clients : Write(c) \/ Leave(c) \/ ShowFaults(c)
    BY <1>6, <1>8
       DEF Stop, Fault, Receive, Send, vars, Write, Leave, ShowFaults, Take
  <1>9. ASSUME NEW c \in Clients, ShowNothing(c), Sound
        PROVE  UNCHANGED History!vars
    BY <1>9, ShowsNothing
  <1> QED
    BY <1>1, <1>2, <1>3, <1>4, <1>7, <1>8, <1>9 DEF Next, Serve, prints

(* queue/chat implements one history and screens that show more and more of
   it, whatever the number of clients, rows, lines, starts and places in the
   queues. *)
THEOREM ChatImplementsHistory == Spec => ImplementsHistory
  <1>1. Init => Filled
    BY EmptySeq DEF Init, Filled
  <1>2. Init => History!Blank
    BY DEF Init, NoView, History!Blank, Recorded, Screens
  <1> QED
    BY <1>1, <1>2, TypeAlways, OrderInit, OrderNext, VictimInit, VictimNext,
       GrowInit, GrowNext, FilledNext, HistoryNext, PTL
       DEF Spec, ImplementsHistory, History!Spec
=============================================================================
