----------------------------- MODULE MCShmChat -----------------------------
(***************************************************************************)
(* ShmChat with clients that write MaxMsgs messages between them.          *)
(***************************************************************************)
EXTENDS ShmChat, FiniteSetsExt

MCQuotas ==
  {q \in [Clients -> 0 .. MaxMsgs] :
     MapThenSumSet(LAMBDA c : q[c], Clients) = MaxMsgs}
=============================================================================
