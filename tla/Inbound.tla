------------------------------ MODULE Inbound ------------------------------
(***************************************************************************)
(* What the two chat adapters of one process receive.  The OpenILink       *)
(* client guards against events that the hub delivers again (SeenEvents),  *)
(* the Telegram client against updates that the server would forget before *)
(* they were handled (TelegramPoll).  They run side by side and share      *)
(* nothing.                                                                *)
(***************************************************************************)
EXTENDS TelegramPoll, SeenEvents

InboundInit == Init /\ NothingSeen

InboundNext ==
    \/ Next /\ UNCHANGED seenVars
    \/ Receive /\ UNCHANGED vars

InboundSpec == InboundInit /\ [][InboundNext]_<<vars, seenVars>>
=============================================================================
