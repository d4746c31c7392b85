----------------------------- MODULE QueueChat -----------------------------
(***************************************************************************)
(* queue/chat: clients send lines to the server through one System V       *)
(* message queue; the server adds each to its history and puts a snapshot  *)
(* of the whole history on a second queue, where the first client to call  *)
(* msgrcv takes it.  A client sends every line as two messages, the text   *)
(* and then a newline.                                                     *)
(*                                                                         *)
(* grp.count is the word after grp.marray: the message after the last row  *)
(* is copied over it.  A newline makes it 10, so the history is cut; the   *)
(* first bytes of a text make it a wild number, with which the next row is *)
(* outside the process, and so is the loop of the client that prints the   *)
(* snapshot, unless the text's fourth byte makes the number negative: then *)
(* the client prints nothing.                                              *)
(*                                                                         *)
(* Both queues outlive the processes.  A client is started once, when the  *)
(* server has created them; its user may end it, but not between its       *)
(* msgrcv and the printf of what it received.                              *)
(***************************************************************************)
EXTENDS Integers, SequencesExt

CONSTANTS
  Clients,
  Rows,        \* ROWS
  NewlineCode, \* '\n' as a number of rows: 10, less than ROWS
  MsgMax,      \* messages the first queue holds
  GrpMax,      \* snapshots the second queue holds
  MaxLines,    \* bound of the model: lines a client types
  MaxStarts    \* bound of the model: how often the server is started

ASSUME QueueChatAssumption ==
  /\ Rows \in Nat \ {0}
  /\ NewlineCode \in 0 .. Rows - 1
  /\ MsgMax \in Nat \ {0} /\ GrpMax \in Nat \ {0}
  /\ MaxLines \in Nat /\ MaxStarts \in Nat

VARIABLES
  msgq, grpq,    \* the two queues
  server, rows,  \* the server: its next statement, the rows it counts
  sent,          \* per client: messages sent
  view,          \* per client: the snapshot on its screen
  gone,          \* clients ended by their user or by a wild count
  starts,        \* how often the server was started
  overrun,       \* history: the starts in which a row was written past ROWS
  victims,       \* history: each client killed, with the run of the snapshot
  seen           \* history: messages that have been on some screen

vars == <<msgq, grpq, server, rows, sent, view, gone, starts, overrun,
          victims, seen>>

Msgs       == Clients \X (1 .. 2 * MaxLines)
Newline(m) == m[2] % 2 = 0
Wild(r)    == Len(r) > Rows    \* grp.count was overwritten by a text

NoView     == [run |-> 0, rows |-> <<>>]
Latest     == [run |-> starts, rows |-> rows]
Snapshots  == [run : 0 .. MaxStarts, rows : Seq(Msgs)]

TypeOK ==
  /\ msgq \in Seq(Msgs) /\ Len(msgq) <= MsgMax
  /\ grpq \in Seq(Snapshots) /\ Len(grpq) <= GrpMax
  /\ server \in {"down", "msgrcv", "msgsnd"}
  /\ rows \in Seq(Msgs) /\ Len(rows) <= Rows + 1
  /\ sent \in [Clients -> 0 .. 2 * MaxLines]
  /\ view \in [Clients -> Snapshots]
  /\ \A c \in Clients : ~Wild(view[c].rows)
  /\ gone \subseteq Clients
  /\ starts \in 0 .. MaxStarts
  /\ overrun \subseteq 1 .. MaxStarts
  /\ victims \subseteq gone \X (0 .. MaxStarts)
  /\ seen \subseteq Msgs

Init ==
  /\ msgq = <<>> /\ grpq = <<>>
  /\ server = "down"
  /\ rows = <<>>
  /\ sent = [c \in Clients |-> 0]
  /\ view = [c \in Clients |-> NoView]
  /\ gone = {}
  /\ starts = 0
  /\ overrun = {}
  /\ victims = {}
  /\ seen = {}

clientVars == <<sent, view, gone, victims, seen>>

-----------------------------------------------------------------------------
(* The server. *)

(* msgget finds the queues as they are; grp.count = 0. *)
Start ==
  /\ server = "down"
  /\ starts < MaxStarts
  /\ starts' = starts + 1
  /\ server' = "msgrcv"
  /\ rows' = <<>>
  /\ UNCHANGED <<msgq, grpq, overrun, clientVars>>

Stop ==
  /\ server # "down"
  /\ server' = "down"
  /\ UNCHANGED <<msgq, grpq, rows, starts, overrun, clientVars>>

Receive == /\ server = "msgrcv"
           /\ msgq # <<>>
           /\ msgq' = Tail(msgq)
           /\ UNCHANGED <<grpq, starts, clientVars>>

(* A defective count: a newline is stored but not counted. *)
StoreUncounted ==
  /\ Receive
  /\ Len(rows) < Rows
  /\ rows' = IF Newline(Head(msgq)) /\ rows # <<>>
             THEN [rows EXCEPT ![Len(rows)] = Head(msgq)]
             ELSE Append(rows, Head(msgq))
  /\ server' = "msgsnd"
  /\ UNCHANGED overrun

(* A defective store that goes back to msgrcv without sending a snapshot. *)
StoreSilently ==
  /\ Receive
  /\ Len(rows) < Rows
  /\ rows' = Append(rows, Head(msgq))
  /\ server' = "msgrcv"
  /\ UNCHANGED overrun

(* msgrcv, strcpy(grp.marray[grp.count], msg.mtext), grp.count++. *)
Store ==
  /\ Receive
  /\ Len(rows) < Rows
  /\ rows' = Append(rows, Head(msgq))
  /\ server' = "msgsnd"
  /\ UNCHANGED overrun

(* The copy lands on grp.count. *)
Overrun ==
  /\ Receive
  /\ Len(rows) = Rows
  /\ rows' = IF Newline(Head(msgq)) THEN SubSeq(rows, 1, NewlineCode + 1)
             ELSE Append(rows, Head(msgq))
  /\ overrun' = overrun \cup {starts}
  /\ server' = "msgsnd"

(* A defective store that survives the wild count and leaves it. *)
FaultSpared ==
  /\ Receive
  /\ Wild(rows)
  /\ server' = "msgsnd"
  /\ UNCHANGED <<rows, overrun>>

(* The copy goes to a wild address: the server is killed. *)
Fault ==
  /\ Receive
  /\ Wild(rows)
  /\ server' = "down"
  /\ UNCHANGED <<rows, overrun>>

(* A defective msgsnd that drops the snapshot when the queue is full. *)
SendNoWait ==
  /\ server = "msgsnd"
  /\ grpq' = IF Len(grpq) < GrpMax THEN Append(grpq, Latest) ELSE grpq
  /\ server' = "msgrcv"
  /\ UNCHANGED <<msgq, rows, starts, overrun, clientVars>>

(* msgsnd blocks while the queue is full. *)
Send ==
  /\ server = "msgsnd"
  /\ Len(grpq) < GrpMax
  /\ grpq' = Append(grpq, Latest)
  /\ server' = "msgrcv"
  /\ UNCHANGED <<msgq, rows, starts, overrun, clientVars>>

Serve == Store \/ Overrun \/ Fault \/ Send

-----------------------------------------------------------------------------
(* The clients. *)

serverVars == <<server, rows, starts, overrun>>

(* The next message: a text, or the newline that follows it. *)
Write(c) ==
  /\ c \notin gone
  /\ starts > 0
  /\ sent[c] < 2 * MaxLines
  /\ Len(msgq) < MsgMax
  /\ sent' = [sent EXCEPT ![c] = @ + 1]
  /\ msgq' = Append(msgq, <<c, sent'[c]>>)
  /\ UNCHANGED <<grpq, serverVars, view, gone, victims, seen>>

(* The client's user ends it; what it showed stays on the screen. *)
Leave(c) ==
  /\ c \notin gone
  /\ starts > 0
  /\ gone' = gone \cup {c}
  /\ UNCHANGED <<msgq, grpq, serverVars, sent, view, victims, seen>>

Take(c) == /\ c \notin gone
           /\ grpq # <<>>
           /\ grpq' = Tail(grpq)
           /\ UNCHANGED <<msgq, serverVars, sent>>

Show(c) ==
  /\ Take(c)
  /\ ~Wild(Head(grpq).rows)
  /\ view' = [view EXCEPT ![c] = Head(grpq)]
  /\ seen' = seen \cup ToSet(Head(grpq).rows)
  /\ UNCHANGED <<gone, victims>>

(* The loop over grp.count rows leaves the process: the client is killed. *)
ShowFaults(c) ==
  /\ Take(c)
  /\ Wild(Head(grpq).rows)
  /\ gone' = gone \cup {c}
  /\ victims' = victims \cup {<<c, Head(grpq).run>>}
  /\ UNCHANGED <<view, seen>>

(* grp.count is negative: the screen is cleared and nothing printed.  A
   client's first text begins with "New ", which makes a positive number. *)
ShowNothing(c) ==
  /\ Take(c)
  /\ Wild(Head(grpq).rows)
  /\ Last(Head(grpq).rows)[2] # 1
  /\ view' = [view EXCEPT ![c] = [run |-> Head(grpq).run, rows |-> <<>>]]
  /\ UNCHANGED <<gone, victims, seen>>

prints(c) == Show(c) \/ ShowFaults(c) \/ ShowNothing(c)

-----------------------------------------------------------------------------
Next == \/ Start \/ Stop \/ Serve
        \/ \E c \in Clients : Write(c) \/ Leave(c) \/ prints(c)

(* Both sides are scheduled; a client that has sent a text goes on to send
   its newline without its user. *)
Fairness == /\ WF_vars(Serve)
            /\ \A c \in Clients : /\ WF_vars(prints(c))
                                  /\ WF_vars(Write(c) /\ sent[c] % 2 = 1)

Spec == Init /\ [][Next]_vars
FairSpec == Spec /\ Fairness

-----------------------------------------------------------------------------
(* Properties. *)

(* Although the clients compete for the snapshots, what one client sees only
   grows: a new screen holds the old one and more, unless it comes from a
   later start of the server or the server's array has overrun. *)
ViewsGrow ==
  [][\A c \in Clients :
       view'[c] # view[c] =>
         \/ view'[c].run > view[c].run
         \/ /\ view'[c].run = view[c].run
            /\ \/ IsStrictPrefix(view[c].rows, view'[c].rows)
               \/ view[c].run \in overrun]_vars

(* A server that has not written past its last row. *)
Sound == starts \notin overrun

Recorded == IF Sound THEN rows ELSE <<>>

Screens == [c \in Clients |-> IF Sound /\ view[c].run = starts
                              THEN view[c].rows ELSE <<>>]

History == INSTANCE ChatHistory WITH history <- Recorded, screen <- Screens

(* Until the array overruns, the server and the clients that compete for its
   snapshots are one history to which each client's messages are added in the
   order it sent them, and screens that show more and more of it. *)
ImplementsHistory == History!Spec

(* No snapshot is lost: when the server is idle and the queue is empty, some
   client shows the whole history (which one is a matter of luck), whatever
   earlier starts have left in the queue and whoever was killed by it. *)
SomeoneShowsAll ==
  server = "msgrcv" /\ grpq = <<>> /\ rows # <<>> /\ ~Wild(rows) =>
    \E c \in Clients : view[c] = Latest

(* An overrun kills one client at most, in that start of the server or a later
   one: the first message after it kills the server before it can send another
   wild count, a start counts from 0 again, and each snapshot in the queue
   that outlives the server is taken once.  Nothing else kills a client. *)
OneVictimPerOverrun ==
  /\ \A v \in victims : v[2] \in overrun
  /\ \A v, w \in victims : v[2] = w[2] => v = w

(* With both queues bounded nobody blocks for ever: a message that waits in
   the queue, even since an earlier start of the server, comes onto a screen
   unless the server is stopped or overruns, or every client is gone. *)
EveryMessageIsShown ==
  \A m \in Msgs :
    m \in ToSet(msgq) /\ server # "down" ~>
      \/ m \in seen
      \/ server = "down" \/ starts \in overrun
      \/ Clients \subseteq gone
=============================================================================
