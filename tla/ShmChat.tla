------------------------------ MODULE ShmChat ------------------------------
(***************************************************************************)
(* shared_memory/chat: a server and its clients over three shared memory   *)
(* segments.  text is a slot that holds the sentinel WOR when it is empty; *)
(* a client writes its message there, the server finds it by polling,      *)
(* copies it to the next row of arr, publishes the row in *count and puts  *)
(* the sentinel back.  Every client prints rows while *count is not its k. *)
(*                                                                         *)
(* Nothing synchronises the processes.  A strcpy is two steps, one for     *)
(* each half of the string, so a copy can meet a half-written slot.  The   *)
(* segments are never removed: they outlive a server that is stopped, and  *)
(* a server that is started again finds them as they were.                 *)
(***************************************************************************)
EXTENDS Integers, Sequences, FiniteSets

CONSTANTS
  Clients,
  Rows,       \* rows of ROWS characters in the segment of arr
  MaxMsgs,    \* bound of the model: messages any client writes
  Quotas,     \* bound of the model: how many each client writes, together
  MaxResets   \* bound of the model: how often a server sets *count to 0

ASSUME ShmChatAssumption ==
  /\ Rows \in Nat \ {0}
  /\ MaxMsgs \in Nat
  /\ Quotas \subseteq [Clients -> 0 .. MaxMsgs]
  /\ MaxResets \in Nat

Wor    == <<>>                          \* either half of the sentinel
Msgs   == Clients \X (1 .. MaxMsgs)     \* the n-th message of a client
Halves == {1, 2}
Text   == [Halves -> Msgs \cup {Wor}]
Empty  == [h \in Halves |-> Wor]

VARIABLES
  text, arr, count,   \* the shared segments
  server, co,         \* the server: its next statement, its row counter
  reader, k,          \* prints(): "off", "on" or "dead", and its counter
  writer, sent,       \* writs(): the half it writes next, messages so far
  resets,             \* history: how often *count was set to 0
  joined              \* history: resets when a reader took its k

vars == <<text, arr, count, server, co, reader, k, writer, sent, resets,
          joined>>

TypeOK ==
  /\ text \in Text
  /\ arr \in [0 .. Rows - 1 -> Text]
  /\ count \in 0 .. Rows
  /\ server \in {"down", "wipe1", "wipe2", "zero", "poll", "copy1", "copy2",
                 "publish", "clear1", "clear2"}
  /\ co \in 0 .. Rows
  /\ reader \in [Clients -> {"off", "on", "dead"}]
  /\ k \in [Clients -> 0 .. Rows]
  /\ writer \in [Clients -> Halves]
  /\ sent \in [Clients -> 0 .. MaxMsgs]
  /\ resets \in 0 .. MaxResets
  /\ joined \in [Clients -> 0 .. MaxResets]

Init ==
  /\ text = Empty
  /\ arr = [i \in 0 .. Rows - 1 |-> Empty]
  /\ count = 0
  /\ server = "down"
  /\ co = 0
  /\ reader = [c \in Clients |-> "off"]
  /\ k = [c \in Clients |-> 0]
  /\ writer = [c \in Clients |-> 1]
  /\ sent = [c \in Clients |-> 0]
  /\ resets = 0
  /\ joined = [c \in Clients |-> 0]

clientVars == <<reader, k, writer, sent, joined>>

-----------------------------------------------------------------------------
(* The server. *)

Start ==
  /\ server = "down"
  /\ resets < MaxResets
  /\ server' = "wipe1"
  /\ UNCHANGED <<text, arr, count, co, resets, clientVars>>

(* The user stops the server; co is gone, the segments stay. *)
Stop ==
  /\ server # "down"
  /\ server' = "down"
  /\ co' = 0
  /\ UNCHANGED <<text, arr, count, resets, clientVars>>

(* One half of strcpy(text, WOR). *)
PutWor(half, from, to) ==
  /\ server = from
  /\ text' = [text EXCEPT ![half] = Wor]
  /\ server' = to
  /\ UNCHANGED <<arr, count, co, resets, clientVars>>

Wipe == PutWor(1, "wipe1", "wipe2") \/ PutWor(2, "wipe2", "zero")

(* *count = 0; int co = 0; *)
Zero ==
  /\ server = "zero"
  /\ count' = 0
  /\ co' = 0
  /\ resets' = resets + 1
  /\ server' = "poll"
  /\ UNCHANGED <<text, arr, clientVars>>

(* A defective comparison that looks at the first half only. *)
PollHalf ==
  /\ server = "poll"
  /\ text[1] # Wor
  /\ server' = "copy1"
  /\ UNCHANGED <<text, arr, count, co, resets, clientVars>>

(* A defective order: the row is announced before it has been copied. *)
PollPublishes ==
  /\ server = "poll"
  /\ text # Empty
  /\ server' = "copy1"
  /\ count' = IF co < Rows THEN co + 1 ELSE count
  /\ UNCHANGED <<text, arr, co, resets, clientVars>>

(* strcmp(text, WOR) # 0; a difference found by a slower comparison is still
   there when the comparison ends. *)
Poll ==
  /\ server = "poll"
  /\ text # Empty
  /\ server' = "copy1"
  /\ UNCHANGED <<text, arr, count, co, resets, clientVars>>

(* One half of strcpy(arr[co], text). *)
CopyHalf(half, from, to) ==
  /\ server = from
  /\ co < Rows
  /\ arr' = [arr EXCEPT ![co][half] = text[half]]
  /\ server' = to
  /\ UNCHANGED <<text, count, co, resets, clientVars>>

Copy == CopyHalf(1, "copy1", "copy2") \/ CopyHalf(2, "copy2", "publish")

(* arr[co] is outside the segment: the server is killed. *)
CopyFaults ==
  /\ server = "copy1"
  /\ co = Rows
  /\ server' = "down"
  /\ co' = 0
  /\ UNCHANGED <<text, arr, count, resets, clientVars>>

(* A defective publication that repeats the row. *)
PublishAgain ==
  /\ server = "publish"
  /\ co' = co + 1
  /\ count' = co'
  /\ server' = "poll"
  /\ UNCHANGED <<text, arr, resets, clientVars>>

(* co++; *count = co; *)
Publish ==
  /\ server = "publish"
  /\ co' = co + 1
  /\ count' = co'
  /\ server' = "clear1"
  /\ UNCHANGED <<text, arr, resets, clientVars>>

Clear == PutWor(1, "clear1", "clear2") \/ PutWor(2, "clear2", "poll")

Serve == Wipe \/ Zero \/ Poll \/ Copy \/ CopyFaults \/ Publish \/ Clear

-----------------------------------------------------------------------------
(* The clients. *)

serverVars == <<arr, count, server, co, resets>>

(* A defective start of the reader: it begins one row late. *)
JoinLate(c) ==
  /\ reader[c] = "off"
  /\ reader' = [reader EXCEPT ![c] = "on"]
  /\ k' = [k EXCEPT ![c] = IF count < Rows THEN count + 1 ELSE count]
  /\ joined' = [joined EXCEPT ![c] = resets]
  /\ UNCHANGED <<text, serverVars, writer, sent>>

(* int k = *count; *)
Join(c) ==
  /\ reader[c] = "off"
  /\ reader' = [reader EXCEPT ![c] = "on"]
  /\ k' = [k EXCEPT ![c] = count]
  /\ joined' = [joined EXCEPT ![c] = resets]
  /\ UNCHANGED <<text, serverVars, writer, sent>>

(* A defective reader that moves once per change of *count, never to it. *)
ShowOnce(c) ==
  /\ reader[c] = "on"
  /\ count = k[c] + 1
  /\ k' = [k EXCEPT ![c] = @ + 1]
  /\ UNCHANGED <<text, serverVars, reader, writer, sent, joined>>

(* the loop while *count == k, then k++, and the print of rows 0 .. k - 1. *)
ShowRows(c) ==
  /\ reader[c] = "on"
  /\ count # k[c]
  /\ k[c] < Rows
  /\ k' = [k EXCEPT ![c] = @ + 1]
  /\ UNCHANGED <<text, serverVars, reader, writer, sent, joined>>

(* The loop runs over the end of the segment: the client is killed. *)
ShowFaults(c) ==
  /\ reader[c] = "on"
  /\ count # k[c]
  /\ k[c] = Rows
  /\ reader' = [reader EXCEPT ![c] = "dead"]
  /\ UNCHANGED <<text, serverVars, k, writer, sent, joined>>

MayWrite(c) == \E q \in Quotas : /\ sent[c] < q[c]
                                /\ \A d \in Clients : sent[d] <= q[d]

(* strcpy(text, ...) of the next message, half by half. *)
WriteFirst(c) ==
  /\ reader[c] # "dead"
  /\ writer[c] = 1
  /\ MayWrite(c)
  /\ sent' = [sent EXCEPT ![c] = @ + 1]
  /\ text' = [text EXCEPT ![1] = <<c, sent'[c]>>]
  /\ writer' = [writer EXCEPT ![c] = 2]
  /\ UNCHANGED <<serverVars, reader, k, joined>>

WriteRest(c) ==
  /\ reader[c] # "dead"
  /\ writer[c] = 2
  /\ text' = [text EXCEPT ![2] = <<c, sent[c]>>]
  /\ writer' = [writer EXCEPT ![c] = 1]
  /\ UNCHANGED <<serverVars, reader, k, sent, joined>>

prints(c) == Join(c) \/ ShowRows(c) \/ ShowFaults(c)
writs(c)  == WriteFirst(c) \/ WriteRest(c)

-----------------------------------------------------------------------------
Next == \/ Start \/ Stop \/ Serve
        \/ \E c \in Clients : prints(c) \/ writs(c)

(* Processes are scheduled; nobody has to start, stop or type anything. *)
Fairness == /\ WF_vars(Serve)
            /\ \A c \in Clients : /\ WF_vars(ShowRows(c) \/ ShowFaults(c))
                                  /\ WF_vars(WriteRest(c))

Spec == Init /\ [][Next]_vars
FairSpec == Spec /\ Fairness

-----------------------------------------------------------------------------
(* Properties. *)

(* A row that *count announces is never written again while it is announced,
   whatever the clients write to the slot meanwhile. *)
PublishedRowsImmutable ==
  [][\A i \in 0 .. count - 1 : i < count' => arr'[i] = arr[i]]_vars

(* The sentinel is put back before the slot is polled again, so no half of a
   message is published twice, and each client's messages are published in
   the order it wrote them (some may be lost, or be torn). *)
OnceAndInOrder ==
  \A i, j \in 0 .. count - 1 : \A h \in Halves :
    /\ i < j
    /\ arr[i][h] # Wor /\ arr[j][h] # Wor
    /\ arr[i][h][1] = arr[j][h][1]
    => arr[i][h][2] < arr[j][h][2]

(* A reader prints only announced rows, unless the server was started again
   since the reader read *count: then the reader's k is beyond *count, and
   the test for equality never stops it. *)
AheadOnlyAfterRestart ==
  \A c \in Clients :
    (reader[c] = "on" /\ k[c] > count) \/ reader[c] = "dead" =>
      joined[c] < resets

(* What is in the slot is taken out and becomes a row, unless the server is
   stopped or arr is full. *)
SlotIsServed ==
  \A n \in 0 .. Rows - 1 :
    server = "poll" /\ text # Empty /\ count = n ~>
      count = n + 1 \/ server = "down"

(* A reader that is behind catches up, or the server resets the log. *)
ReaderCatchesUp ==
  \A c \in Clients :
    reader[c] = "on" /\ k[c] < count ~> k[c] = count \/ joined[c] < resets

(* The readers that took their k since *count was last set to 0. *)
Current == {c \in Clients : reader[c] # "off" /\ joined[c] = resets}

(* The program is an append-only log that a restart of the server empties:
   rows are announced whole and in order, never changed, and read one by one;
   only the readers of before the restart lose their place. *)
Log == INSTANCE AppendLog WITH
         Readers <- Clients, Row <- Text,
         log <- [i \in 1 .. count |-> arr[i - 1]],
         cursor <- [c \in Clients |-> IF c \in Current THEN k[c] ELSE 0],
         joined <- Current
ImplementsLog == Log!Spec
=============================================================================
