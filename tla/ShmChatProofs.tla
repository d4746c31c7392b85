---------------------------- MODULE ShmChatProofs ----------------------------
(***************************************************************************)
(* Theorems about shared_memory/chat for any number of clients, messages,  *)
(* rows and restarts of the server.                                        *)
(***************************************************************************)
EXTENDS ShmChat, SequenceTheorems, TLAPS

(* While the server serves, its co is the published counter; it has looked
   for the end of arr before it copies; and it has just been started while it
   wipes. *)
ServerCounts ==
  /\ server \in {"poll", "copy1", "copy2", "publish", "clear1", "clear2"} =>
       co = count
  /\ server \in {"copy2", "publish"} => co < Rows
  /\ server \in {"wipe1", "wipe2", "zero"} => resets < MaxResets

(* Readers of the present log are not ahead of it, and not killed by it. *)
ReadersBehind ==
  \A c \in Clients :
    /\ joined[c] <= resets
    /\ reader[c] = "on" /\ joined[c] = resets => k[c] <= count
    /\ reader[c] = "dead" => joined[c] < resets

(* Between the halves of a message, there is one. *)
WritersBegun == \A c \in Clients : writer[c] = 2 => sent[c] >= 1

(* The inductive invariant of the counters: the type of k and co needs the
   bounds that the server's place in its loop and the readers' tests give. *)
CountInv == TypeOK /\ ServerCounts /\ ReadersBehind /\ WritersBegun

(* A half that names a message was written by its client, and the second half
   only after the message was begun and finished. *)
Written(v, h) ==
  v # Wor =>
    /\ v[2] <= sent[v[1]]
    /\ h = 2 /\ v[2] = sent[v[1]] => writer[v[1]] = 1

HalvesWritten ==
  \A h \in Halves :
    /\ Written(text[h], h)
    /\ \A i \in 0 .. Rows - 1 : Written(arr[i][h], h)

(* v may follow the published rows: it is later than what they hold. *)
Later(v, h) ==
  \A i \in 0 .. count - 1 :
    v # Wor /\ arr[i][h] # Wor /\ arr[i][h][1] = v[1] => arr[i][h][2] < v[2]

(* Nothing that is still to be published has been published: neither in the
   slot until it is copied, nor in the row until it is announced. *)
Unpublished ==
  /\ server \in {"poll", "copy1", "clear2"} => Later(text[1], 1)
  /\ server \in {"copy2", "publish"} => Later(arr[co][1], 1)
  /\ server \in {"poll", "copy1", "copy2"} => Later(text[2], 2)
  /\ server = "publish" => Later(arr[co][2], 2)

(* The inductive invariant of the order: OnceAndInOrder alone says nothing of
   the slot from which the next row is made. *)
OrderInv == HalvesWritten /\ Unpublished /\ OnceAndInOrder

-----------------------------------------------------------------------------
(* The counters. *)

LEMMA CountInit == Init => CountInv
  BY ShmChatAssumption
     DEF ShmChatAssumption, Init, CountInv, TypeOK, ServerCounts,
         ReadersBehind, WritersBegun, Text, Empty, Halves

LEMMA CountNext == CountInv /\ [Next]_vars => CountInv'
  <1> SUFFICES ASSUME CountInv, [Next]_vars PROVE CountInv'
    OBVIOUS
  <1> USE ShmChatAssumption DEF ShmChatAssumption, CountInv, clientVars,
          serverVars, WritersBegun
  <1>1. CASE Start
    BY <1>1 DEF Start, TypeOK, ServerCounts, ReadersBehind
  <1>2. CASE Stop
    BY <1>2 DEF Stop, TypeOK, ServerCounts, ReadersBehind
  <1>3. ASSUME NEW half \in Halves, NEW from, NEW to, PutWor(half, from, to),
               <<from, to>> \in {<<"wipe1", "wipe2">>, <<"wipe2", "zero">>,
                                 <<"clear1", "clear2">>, <<"clear2", "poll">>}
        PROVE  CountInv'
    <2>1. text' \in Text
      BY <1>3 DEF PutWor, TypeOK, Text
    <2>2. TypeOK'
      BY <1>3, <2>1 DEF PutWor, TypeOK
    <2>3. (ServerCounts /\ ReadersBehind /\ WritersBegun)'
      BY <1>3 DEF PutWor, ServerCounts, ReadersBehind
    <2> QED BY <2>2, <2>3
  <1>4. CASE Zero
    <2>1. (TypeOK /\ ServerCounts /\ WritersBegun)'
      BY <1>4 DEF Zero, TypeOK, ServerCounts
    <2>2. ReadersBehind'
      BY <1>4 DEF Zero, TypeOK, ReadersBehind
    <2> QED BY <2>1, <2>2
  <1>5. CASE Poll
    BY <1>5 DEF Poll, TypeOK, ServerCounts, ReadersBehind
  <1>6. ASSUME NEW half \in Halves, NEW from, NEW to,
               CopyHalf(half, from, to),
               <<from, to>> \in {<<"copy1", "copy2">>, <<"copy2", "publish">>}
        PROVE  CountInv'
    <2>1. co \in 0 .. Rows - 1 /\ text[half] \in Msgs \cup {Wor}
      BY <1>6 DEF CopyHalf, TypeOK, Text
    <2>2. arr' \in [0 .. Rows - 1 -> Text]
      BY <1>6, <2>1 DEF CopyHalf, TypeOK, Text
    <2>3. TypeOK'
      BY <1>6, <2>2 DEF CopyHalf, TypeOK
    <2>4. (ServerCounts /\ ReadersBehind /\ WritersBegun)'
      BY <1>6 DEF CopyHalf, ServerCounts, ReadersBehind
    <2> QED BY <2>3, <2>4
  <1>7. CASE CopyFaults
    BY <1>7 DEF CopyFaults, TypeOK, ServerCounts, ReadersBehind
  <1>8. CASE Publish
    BY <1>8 DEF Publish, TypeOK, ServerCounts, ReadersBehind
  <1>9. ASSUME NEW c \in Clients, Join(c) PROVE CountInv'
    BY <1>9 DEF Join, TypeOK, ServerCounts, ReadersBehind
  <1>10. ASSUME NEW c \in Clients, ShowRows(c) PROVE CountInv'
    <2>1. /\ reader[c] = "on" /\ count # k[c] /\ k[c] < Rows
          /\ k' = [k EXCEPT ![c] = @ + 1]
          /\ UNCHANGED <<text, serverVars, reader, writer, sent, joined>>
      BY <1>10, Zenon DEF ShowRows
    <2>2. k[c] + 1 \in 0 .. Rows
      BY <2>1 DEF TypeOK
    <2>3. TypeOK'
      BY <2>1, <2>2 DEF TypeOK
    <2>4. (ServerCounts /\ WritersBegun)'
      BY <2>1 DEF ServerCounts
    <2>5. ReadersBehind'
      BY <2>1 DEF TypeOK, ReadersBehind
    <2> QED BY <2>3, <2>4, <2>5
  <1>11. ASSUME NEW c \in Clients, ShowFaults(c) PROVE CountInv'
    BY <1>11 DEF ShowFaults, TypeOK, ServerCounts, ReadersBehind
  <1>12. ASSUME NEW c \in Clients, WriteFirst(c) PROVE CountInv'
    <2>1. sent' \in [Clients -> 0 .. MaxMsgs] /\ sent'[c] \in 1 .. MaxMsgs
      <3>1. PICK q \in Quotas : sent[c] < q[c]
        BY <1>12 DEF WriteFirst, MayWrite
      <3>2. q[c] \in 0 .. MaxMsgs
        BY ShmChatAssumption
      <3> QED BY <1>12, <3>1, <3>2 DEF WriteFirst, TypeOK
    <2>2. <<c, sent'[c]>> \in Msgs
      BY <2>1 DEF Msgs
    <2>3. text' \in Text
      BY <1>12, <2>2 DEF WriteFirst, TypeOK, Text, Halves
    <2>4. TypeOK'
      BY <1>12, <2>1, <2>3 DEF WriteFirst, TypeOK, Halves
    <2>5. (ServerCounts /\ ReadersBehind /\ WritersBegun)'
      BY <1>12, <2>1 DEF WriteFirst, TypeOK, ServerCounts, ReadersBehind
    <2> QED BY <2>4, <2>5
  <1>13. ASSUME NEW c \in Clients, WriteRest(c) PROVE CountInv'
    <2>1. <<c, sent[c]>> \in Msgs
      BY <1>13 DEF WriteRest, TypeOK, Msgs
    <2>2. text' \in Text
      BY <1>13, <2>1 DEF WriteRest, TypeOK, Text, Halves
    <2>3. TypeOK'
      BY <1>13, <2>2 DEF WriteRest, TypeOK, Halves
    <2>4. (ServerCounts /\ ReadersBehind /\ WritersBegun)'
      BY <1>13 DEF WriteRest, TypeOK, ServerCounts, ReadersBehind
    <2> QED BY <2>3, <2>4
  <1>14. CASE UNCHANGED vars
    BY <1>14 DEF vars, TypeOK, ServerCounts, ReadersBehind
  <1> QED
    BY <1>1, <1>2, <1>3, <1>4, <1>5, <1>6, <1>7, <1>8, <1>9, <1>10, <1>11,
       <1>12, <1>13, <1>14
       DEF Next, Serve, Wipe, Copy, Clear, prints, writs, Halves

LEMMA CountAlways == Spec => []CountInv
  <1> QED BY CountInit, CountNext, PTL DEF Spec

(* The variables keep their types; in particular no row is copied and no
   reader moves past the last row, for any number of rows and restarts. *)
THEOREM TypeCorrect == Spec => []TypeOK
  <1>1. CountInv => TypeOK
    BY DEF CountInv
  <1> QED BY CountAlways, <1>1, PTL

(* A reader is ahead of the server, or killed, only if the server was started
   again since the reader read *count. *)
THEOREM AheadMeansRestart == Spec => []AheadOnlyAfterRestart
  <1>1. CountInv => AheadOnlyAfterRestart
    BY DEF CountInv, TypeOK, ReadersBehind, AheadOnlyAfterRestart
  <1> QED BY CountAlways, <1>1, PTL

(* The server writes only the row that comes after those *count announces. *)
LEMMA RowsStay ==
  CountInv /\ [Next]_vars =>
    \A i \in 0 .. count - 1 : i < count' => arr'[i] = arr[i]
  <1> SUFFICES ASSUME CountInv, [Next]_vars, NEW i \in 0 .. count - 1
               PROVE  arr'[i] = arr[i]
    OBVIOUS
  <1>1. ASSUME NEW half \in Halves, NEW from, NEW to,
               CopyHalf(half, from, to), from \in {"copy1", "copy2"}
        PROVE  arr'[i] = arr[i]
    <2>1. i # co
      BY <1>1 DEF CopyHalf, CountInv, TypeOK, ServerCounts
    <2> QED BY <1>1, <2>1 DEF CopyHalf, CountInv, TypeOK
  <1>2. CASE ~Copy
    BY <1>2 DEF Next, vars, Start, Stop, Serve, Wipe, Clear, PutWor, Zero,
                Poll, CopyFaults, Publish, prints, Join, ShowRows, ShowFaults,
                writs, WriteFirst, WriteRest, serverVars
  <1> QED BY <1>1, <1>2 DEF Copy, Halves

(* An announced row keeps its content for as long as it is announced. *)
THEOREM RowsAreImmutable == Spec => PublishedRowsImmutable
  <1>1. CountInv /\ [Next]_vars =>
          [\A i \in 0 .. count - 1 : i < count' => arr'[i] = arr[i]]_vars
    BY RowsStay
  <1> QED BY CountAlways, <1>1, PTL DEF Spec, PublishedRowsImmutable

-----------------------------------------------------------------------------
(* The order of the messages. *)

LEMMA OrderInit == Init => OrderInv
  BY ShmChatAssumption
     DEF ShmChatAssumption, Init, OrderInv, HalvesWritten, Written, Empty,
         Unpublished, OnceAndInOrder, Halves

LEMMA OrderNext == CountInv /\ OrderInv /\ [Next]_vars => OrderInv'
  <1> SUFFICES ASSUME CountInv, OrderInv, [Next]_vars PROVE OrderInv'
    OBVIOUS
  <1>0. CountInv'
    BY CountNext
  <1> USE ShmChatAssumption DEF ShmChatAssumption, clientVars, serverVars
  <1>1. CASE Start \/ Stop \/ Poll \/ CopyFaults
    <2>1. UNCHANGED <<text, arr, count, sent, writer>>
      BY <1>1 DEF Start, Stop, Poll, CopyFaults
    <2>2. \/ server' \in {"down", "wipe1"}
          \/ server = "poll" /\ server' = "copy1"
      BY <1>1 DEF Start, Stop, Poll, CopyFaults
    <2> QED
      BY <2>1, <2>2 DEF OrderInv, HalvesWritten, Written, Unpublished, Later,
                        OnceAndInOrder
  <1>2. ASSUME NEW half \in Halves, NEW from, NEW to, PutWor(half, from, to),
               \/ half = 1 /\ to \in {"wipe2", "clear2"}
               \/ half = 2 /\ from = "wipe2" /\ to = "zero"
               \/ half = 2 /\ from = "clear2" /\ to = "poll"
        PROVE  OrderInv'
    <2>1. /\ server = from /\ server' = to
          /\ text' = [text EXCEPT ![half] = Wor]
          /\ UNCHANGED <<arr, count, co, sent, writer>>
      BY <1>2 DEF PutWor
    <2>2. text \in [Halves -> Msgs \cup {Wor}]
      BY DEF CountInv, TypeOK, Text
    <2>3. text'[half] = Wor /\ \A h \in Halves : h # half => text'[h] = text[h]
      BY <2>1, <2>2
    <2>4. HalvesWritten'
      BY <2>1, <2>3 DEF OrderInv, HalvesWritten, Written
    <2>5. Unpublished'
      BY <1>2, <2>1, <2>3 DEF OrderInv, Unpublished, Later, Halves
    <2>6. OnceAndInOrder'
      BY <2>1 DEF OrderInv, OnceAndInOrder
    <2> QED BY <2>4, <2>5, <2>6 DEF OrderInv
  <1>3. CASE Zero
    <2>1. /\ UNCHANGED <<text, arr, sent, writer>>
          /\ 0 .. count' - 1 = {}
          /\ server' = "poll"
      BY <1>3 DEF Zero
    <2> QED BY <2>1 DEF OrderInv, HalvesWritten, Written, Unpublished, Later,
                        OnceAndInOrder
  <1>4. ASSUME NEW half \in Halves, NEW from, NEW to,
               CopyHalf(half, from, to),
               \/ half = 1 /\ from = "copy1" /\ to = "copy2"
               \/ half = 2 /\ from = "copy2" /\ to = "publish"
        PROVE  OrderInv'
    <2>1. /\ server = from /\ server' = to /\ co = count
          /\ co \in 0 .. Rows - 1
          /\ arr' = [arr EXCEPT ![co][half] = text[half]]
          /\ UNCHANGED <<text, count, co, sent, writer>>
      BY <1>4 DEF CopyHalf, CountInv, TypeOK, ServerCounts
    <2>2. /\ arr'[co][half] = text[half]
          /\ \A h \in Halves : h # half => arr'[co][h] = arr[co][h]
          /\ \A i \in 0 .. Rows - 1 : i # co => arr'[i] = arr[i]
      BY <2>1 DEF CountInv, TypeOK, Text
    <2>3. \A i \in 0 .. count - 1 : arr'[i] = arr[i]
      BY <2>1, <2>2 DEF CountInv, TypeOK
    <2>4. HalvesWritten'
      BY <2>1, <2>2 DEF OrderInv, HalvesWritten, Written
    <2>5. Unpublished'
      BY <1>4, <2>1, <2>2, <2>3 DEF OrderInv, Unpublished, Later, Halves
    <2>6. OnceAndInOrder'
      BY <2>1, <2>3 DEF OrderInv, OnceAndInOrder
    <2> QED BY <2>4, <2>5, <2>6 DEF OrderInv
  <1>5. CASE Publish
    <2>1. /\ server = "publish" /\ server' = "clear1" /\ co = count
          /\ count \in Nat /\ count' = count + 1
          /\ UNCHANGED <<text, arr, sent, writer>>
      BY <1>5 DEF Publish, CountInv, TypeOK, ServerCounts
    <2>2. HalvesWritten' /\ Unpublished'
      BY <2>1 DEF OrderInv, HalvesWritten, Written, Unpublished
    <2>3. \A h \in Halves : Later(arr[count][h], h)
      BY <2>1 DEF OrderInv, Unpublished, Halves
    <2>4. OnceAndInOrder'
      <3> SUFFICES ASSUME NEW i \in 0 .. count, NEW j \in 0 .. count,
                          NEW h \in Halves, i < j,
                          arr[i][h] # Wor, arr[j][h] # Wor,
                          arr[i][h][1] = arr[j][h][1]
                   PROVE  arr[i][h][2] < arr[j][h][2]
        BY <2>1 DEF OnceAndInOrder
      <3>1. CASE j = count
        <4>1. i \in 0 .. count - 1
          BY <2>1, <3>1
        <4> QED BY <2>3, <3>1, <4>1 DEF Later
      <3>2. CASE j # count
        <4>1. i \in 0 .. count - 1 /\ j \in 0 .. count - 1
          BY <2>1, <3>2
        <4> QED BY <4>1 DEF OrderInv, OnceAndInOrder
      <3> QED BY <3>1, <3>2
    <2> QED BY <2>2, <2>4 DEF OrderInv
  <1>6. ASSUME NEW c \in Clients, prints(c) PROVE OrderInv'
    <2>1. UNCHANGED <<text, arr, count, server, co, sent, writer>>
      BY <1>6 DEF prints, Join, ShowRows, ShowFaults
    <2> QED BY <2>1 DEF OrderInv, HalvesWritten, Written, Unpublished, Later,
                        OnceAndInOrder
  <1>7. ASSUME NEW c \in Clients, WriteFirst(c) PROVE OrderInv'
    <2>1. /\ writer[c] = 1 /\ writer' = [writer EXCEPT ![c] = 2]
          /\ sent[c] \in Nat /\ sent' = [sent EXCEPT ![c] = @ + 1]
          /\ sent'[c] = sent[c] + 1
          /\ text'[1] = <<c, sent'[c]>> /\ text'[2] = text[2]
          /\ UNCHANGED <<arr, count, server, co>>
      BY <1>7 DEF WriteFirst, CountInv, TypeOK, Text, Halves
    <2>2. ASSUME NEW h \in Halves, NEW v \in Msgs \cup {Wor}, Written(v, h)
          PROVE  Written(v, h)'
      BY <2>1, <2>2 DEF Written, Msgs, CountInv, TypeOK
    <2>3. Written(text[1], 1)'
      BY <2>1 DEF Written
    <2>4. HalvesWritten'
      <3>1. \A h \in Halves : Written(text[h], h)'
        BY <2>1, <2>2, <2>3 DEF OrderInv, HalvesWritten, CountInv, TypeOK,
                                Text, Halves
      <3>2. \A h \in Halves, i \in 0 .. Rows - 1 : Written(arr[i][h], h)'
        BY <2>1, <2>2 DEF OrderInv, HalvesWritten, CountInv, TypeOK, Text
      <3> QED BY <3>1, <3>2 DEF HalvesWritten
    <2>5. Later(text[1], 1)'
      BY <2>1 DEF Later, OrderInv, HalvesWritten, Written, Halves, CountInv,
                  TypeOK, Text, Msgs
    <2>6. Unpublished'
      BY <2>1, <2>5 DEF OrderInv, Unpublished, Later
    <2>7. OnceAndInOrder'
      BY <2>1 DEF OrderInv, OnceAndInOrder
    <2> QED BY <2>4, <2>6, <2>7 DEF OrderInv
  <1>8. ASSUME NEW c \in Clients, WriteRest(c) PROVE OrderInv'
    <2>1. /\ writer[c] = 2 /\ writer' = [writer EXCEPT ![c] = 1]
          /\ sent[c] \in Nat
          /\ text'[2] = <<c, sent[c]>> /\ text'[1] = text[1]
          /\ UNCHANGED <<arr, count, server, co, sent>>
      BY <1>8 DEF WriteRest, CountInv, TypeOK, Text, Halves
    <2>2. ASSUME NEW h \in Halves, NEW v \in Msgs \cup {Wor}, Written(v, h)
          PROVE  Written(v, h)'
      BY <2>1, <2>2 DEF Written, Msgs, CountInv, TypeOK
    <2>3. Written(text[2], 2)'
      BY <2>1 DEF Written, CountInv, TypeOK
    <2>4. HalvesWritten'
      <3>1. \A h \in Halves : Written(text[h], h)'
        BY <2>1, <2>2, <2>3 DEF OrderInv, HalvesWritten, CountInv, TypeOK,
                                Text, Halves
      <3>2. \A h \in Halves, i \in 0 .. Rows - 1 : Written(arr[i][h], h)'
        BY <2>1, <2>2 DEF OrderInv, HalvesWritten, CountInv, TypeOK, Text
      <3> QED BY <3>1, <3>2 DEF HalvesWritten
    <2>5. Later(text[2], 2)'
      BY <2>1 DEF Later, OrderInv, HalvesWritten, Written, Halves, CountInv,
                  TypeOK, Text, Msgs
    <2>6. Unpublished'
      BY <2>1, <2>5 DEF OrderInv, Unpublished, Later
    <2>7. OnceAndInOrder'
      BY <2>1 DEF OrderInv, OnceAndInOrder
    <2> QED BY <2>4, <2>6, <2>7 DEF OrderInv
  <1>9. CASE UNCHANGED vars
    BY <1>9 DEF vars, OrderInv, HalvesWritten, Written, Unpublished, Later,
                OnceAndInOrder
  <1> QED
    BY <1>1, <1>2, <1>3, <1>4, <1>5, <1>6, <1>7, <1>8, <1>9
       DEF Next, Serve, Wipe, Copy, Clear, writs, Halves

(* No half of a message is published twice, and the messages of a client are
   published in the order it wrote them, however writers and server race. *)
THEOREM MessagesKeepOrder == Spec => []OnceAndInOrder
  <1>1. Init => OrderInv
    BY OrderInit
  <1>2. OrderInv => OnceAndInOrder
    BY DEF OrderInv
  <1> QED BY CountAlways, OrderNext, <1>1, <1>2, PTL DEF Spec

-----------------------------------------------------------------------------
(* The refinement. *)

(* What the refinement mapping shows for log and cursor. *)
LogRows == [i \in 1 .. count |-> arr[i - 1]]
Cursors == [c \in Clients |-> IF c \in Current THEN k[c] ELSE 0]

LEMMA LogIsSeq == TypeOK => LogRows \in Seq(Text) /\ Len(LogRows) = count
  <1> SUFFICES ASSUME TypeOK
               PROVE  LogRows \in Seq(Text) /\ Len(LogRows) = count
    OBVIOUS
  <1>1. \A i \in 1 .. count : arr[i - 1] \in Text
    BY ShmChatAssumption DEF TypeOK, ShmChatAssumption
  <1>2. count \in Nat /\ LogRows \in [1 .. count -> Text]
    BY <1>1, ShmChatAssumption DEF LogRows, TypeOK, ShmChatAssumption
  <1>3. LogRows \in Seq(Text)
    BY <1>2
  <1>4. Len(LogRows) \in Nat /\ 1 .. Len(LogRows) = 1 .. count
    BY <1>2, <1>3, LenProperties
  <1> QED BY <1>2, <1>3, <1>4

LEMMA LogInit == Init => Log!Init
  <1> SUFFICES ASSUME Init PROVE Log!Init
    OBVIOUS
  <1>1. TypeOK /\ count = 0
    BY CountInit DEF CountInv, Init
  <1>2. LogRows = <<>>
    BY <1>1, LogIsSeq, EmptySeq
  <1>3. Current = {}
    BY DEF Init, Current
  <1> QED BY <1>2, <1>3 DEF Log!Init, LogRows

LEMMA LogNext == CountInv /\ [Next]_vars => [Log!Next]_(Log!vars)
  <1> SUFFICES ASSUME CountInv, [Next]_vars
               PROVE  Log!Next \/ UNCHANGED Log!vars
    OBVIOUS
  <1>0. CountInv' /\ TypeOK /\ TypeOK'
    BY CountNext DEF CountInv
  <1>a. /\ LogRows \in Seq(Text) /\ Len(LogRows) = count
        /\ LogRows' \in Seq(Text) /\ Len(LogRows)' = count'
    <2>1. (TypeOK => LogRows \in Seq(Text) /\ Len(LogRows) = count)'
      BY LogIsSeq, PTL
    <2> QED BY <1>0, <2>1, LogIsSeq
  <1> USE ShmChatAssumption DEF ShmChatAssumption, clientVars, serverVars
  <1>b. ASSUME count' = count, \A i \in 0 .. count - 1 : arr'[i] = arr[i]
        PROVE  LogRows' = LogRows
    BY <1>b, <1>0 DEF LogRows, TypeOK
  <1>1. CASE Zero
    <2>1. Current' = {}
      BY <1>1 DEF Zero, Current, CountInv, ReadersBehind, TypeOK
    <2>2. LogRows' = <<>>
      BY <1>1, <1>a, EmptySeq DEF Zero
    <2>3. Log!Reset
      BY <2>1, <2>2 DEF Log!Reset, LogRows
    <2> QED BY <2>3 DEF Log!Next
  <1>2. CASE Publish
    <2>1. /\ count' = count + 1 /\ arr' = arr /\ count \in 0 .. Rows - 1
          /\ UNCHANGED <<Current, Cursors>>
      BY <1>2 DEF Publish, CountInv, TypeOK, ServerCounts, Current, Cursors
    <2>2. arr[count] \in Text
      BY <2>1 DEF CountInv, TypeOK
    <2>3. /\ Append(LogRows, arr[count]) \in Seq(Text)
          /\ Len(Append(LogRows, arr[count])) = count + 1
          /\ \A i \in 1 .. count : Append(LogRows, arr[count])[i] = LogRows[i]
          /\ Append(LogRows, arr[count])[count + 1] = arr[count]
      BY <1>a, <2>1, <2>2, AppendProperties
    <2>4. \A i \in 1 .. count + 1 :
            LogRows'[i] = Append(LogRows, arr[count])[i]
      BY <2>1, <2>3 DEF LogRows
    <2>5. LogRows' = Append(LogRows, arr[count])
      BY <1>a, <2>1, <2>3, <2>4, SeqEqual
    <2>6. Log!Publish
      BY <2>1, <2>2, <2>5 DEF Log!Publish, LogRows, Cursors
    <2> QED BY <2>6 DEF Log!Next
  <1>3. ASSUME NEW c \in Clients, Join(c) PROVE Log!Join(c)
    <2>1. /\ c \notin Current /\ Current' = Current \cup {c}
          /\ LogRows' = LogRows /\ k' = [k EXCEPT ![c] = count]
      BY <1>3, <1>b DEF Join, Current, CountInv, TypeOK
    <2>2. Cursors' = [Cursors EXCEPT ![c] = Len(LogRows)]
      BY <1>a, <2>1 DEF Cursors, CountInv, TypeOK
    <2> QED BY <2>1, <2>2 DEF Log!Join, LogRows, Cursors
  <1>4. ASSUME NEW c \in Clients, ShowRows(c)
        PROVE  Log!Advance(c) \/ UNCHANGED Log!vars
    <2>1. /\ Current' = Current /\ LogRows' = LogRows
          /\ k' = [k EXCEPT ![c] = @ + 1]
      BY <1>4, <1>b DEF ShowRows, Current
    <2>2. CASE c \in Current
      <3>1. Cursors[c] < Len(LogRows)
        BY <1>4, <1>a, <2>2
           DEF ShowRows, Cursors, Current, CountInv, TypeOK, ReadersBehind
      <3>2. Cursors' = [Cursors EXCEPT ![c] = @ + 1]
        BY <2>1, <2>2 DEF Cursors, CountInv, TypeOK
      <3> QED BY <2>1, <2>2, <3>1, <3>2 DEF Log!Advance, LogRows, Cursors
    <2>3. CASE c \notin Current
      <3>1. Cursors' = Cursors
        BY <2>1, <2>3 DEF Cursors, CountInv, TypeOK
      <3> QED BY <2>1, <3>1 DEF Log!vars, LogRows, Cursors
    <2> QED BY <2>2, <2>3
  <1>5. ASSUME NEW c \in Clients, ShowFaults(c) PROVE UNCHANGED Log!vars
    <2>1. c \notin Current
      BY <1>5 DEF ShowFaults, Current, CountInv, TypeOK, ReadersBehind
    <2>2. Current' = Current
      BY <1>5, <2>1 DEF ShowFaults, Current, CountInv, TypeOK
    <2>3. LogRows' = LogRows /\ Cursors' = Cursors
      BY <1>5, <1>b, <2>2 DEF ShowFaults, Cursors
    <2> QED BY <2>2, <2>3 DEF Log!vars, LogRows, Cursors
  <1>6. CASE UNCHANGED <<count, reader, k, joined, resets>>
    <2>1. LogRows' = LogRows
      BY <1>6, <1>b, RowsStay DEF CountInv, TypeOK
    <2>2. Current' = Current /\ Cursors' = Cursors
      BY <1>6 DEF Current, Cursors
    <2> QED BY <2>1, <2>2 DEF Log!vars, LogRows, Cursors
  <1>7. \/ Zero \/ Publish
        \/ \E c \in Clients : Join(c) \/ ShowRows(c) \/ ShowFaults(c)
        \/ UNCHANGED <<count, reader, k, joined, resets>>
    BY DEF Next, vars, Start, Stop, Serve, Wipe, Clear, PutWor, Poll, Copy,
           CopyHalf, CopyFaults, prints, writs, WriteFirst, WriteRest
  <1> QED
    BY <1>1, <1>2, <1>3, <1>4, <1>5, <1>6, <1>7 DEF Log!Next

(* The chat implements an append-only log that a restart of the server
   empties, whatever the number of clients, rows, messages and restarts. *)
THEOREM ChatImplementsLog == Spec => ImplementsLog
  <1> QED
    BY CountAlways, LogInit, LogNext, PTL DEF Spec, ImplementsLog, Log!Spec
=============================================================================
