---------------------------- MODULE GreetClient ----------------------------
(***************************************************************************)
(* The client of sokets2 (1-2scheme/client.c and 3scheme/client.c are the  *)
(* same program) and the stream socket between it and the server: connect, *)
(* receive the greeting, send the time, exit.                              *)
(*                                                                         *)
(* A socket is a byte stream, so one recv takes every greeting that is     *)
(* waiting.  Once a client has exited, the server's next send on that      *)
(* socket is fatal (SIGPIPE), and its next recv finds first the line the   *)
(* client left behind, then ECONNRESET if the client exited with a         *)
(* greeting unread, else end of file.                                      *)
(***************************************************************************)
EXTENDS Integers, FiniteSets, Sequences

CONSTANTS
  Clients,
  Backlog   \* connections the kernel holds before they are accepted

VARIABLES
  client,   \* how far each client is
  backlog,  \* clients connected and not yet accepted, in order
  inbox,    \* greetings in each client's receive buffer
  mail      \* clients whose line is in the server's receive buffer

clientVars == <<client, backlog, inbox, mail>>

ClientTypeOK ==
  /\ client \in [Clients -> {"new", "waiting", "greeted", "sent", "left",
                             "lost"}]
  /\ backlog \in Seq(Clients) /\ Len(backlog) <= Backlog
  /\ inbox \in [Clients -> Nat]
  /\ mail \subseteq Clients

ClientInit == /\ client = [c \in Clients |-> "new"]
              /\ backlog = <<>>
              /\ inbox = [c \in Clients |-> 0]
              /\ mail = {}

Becomes(c, phase) == client' = [client EXCEPT ![c] = phase]

(* connect, to a server that listens. *)
Connect(c) ==
  /\ client[c] = "new"
  /\ Len(backlog) < Backlog
  /\ Becomes(c, "waiting")
  /\ backlog' = Append(backlog, c)
  /\ UNCHANGED <<inbox, mail>>

RecvGreeting(c) ==
  /\ client[c] = "waiting"
  /\ inbox[c] > 0
  /\ Becomes(c, "greeted")
  /\ inbox' = [inbox EXCEPT ![c] = 0]
  /\ UNCHANGED <<backlog, mail>>

SendTime(c) ==
  /\ client[c] = "greeted"
  /\ Becomes(c, "sent")
  /\ mail' = mail \cup {c}
  /\ UNCHANGED <<backlog, inbox>>

Exit(c) ==
  /\ client[c] = "sent"
  /\ Becomes(c, "left")
  /\ UNCHANGED <<backlog, inbox, mail>>

ClientStep(c) == RecvGreeting(c) \/ SendTime(c) \/ Exit(c)

(* The user interrupts a client that the server has not answered yet. *)
Interrupt(c) ==
  /\ client[c] = "waiting"
  /\ Becomes(c, "left")
  /\ UNCHANGED <<backlog, inbox, mail>>

-----------------------------------------------------------------------------
(* The server's end of the sockets. *)

Accepted == Head(backlog)

TakeConnection == /\ backlog # <<>>
                  /\ backlog' = Tail(backlog)
                  /\ UNCHANGED <<client, inbox, mail>>

Closed(c) == client[c] = "left"

Greet(c) == /\ inbox' = [inbox EXCEPT ![c] = @ + 1]
            /\ UNCHANGED <<client, backlog, mail>>

(* recv returns -1: the client left a greeting unread and sent nothing. *)
RecvFails(c) == c \notin mail /\ Closed(c) /\ inbox[c] > 0

(* recv returns the line, or 0 at end of file. *)
RecvReturns(c) == /\ c \in mail \/ (Closed(c) /\ inbox[c] = 0)
                  /\ mail' = mail \ {c}
                  /\ UNCHANGED <<client, backlog, inbox>>

(* The server's process ends: a client that has not sent its line never will,
   since its recv returns nothing and its send raises SIGPIPE. *)
HangUp ==
  /\ client' = [c \in Clients |-> IF client[c] \in {"waiting", "greeted"}
                                  THEN "lost" ELSE client[c]]
  /\ backlog' = <<>>
  /\ inbox' = [c \in Clients |-> 0]
  /\ mail' = {}
=============================================================================
