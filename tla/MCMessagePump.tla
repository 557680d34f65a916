--------------------------- MODULE MCMessagePump ---------------------------
(***************************************************************************)
(* MessagePump on a small instance: two ids for each link, so that two     *)
(* requests of a link can be in any two places at once, and queues that    *)
(* hold one message, so that each can be full.                             *)
(***************************************************************************)
EXTENDS MessagePump

CONSTANTS a, b

=============================================================================
