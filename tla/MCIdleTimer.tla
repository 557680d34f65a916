---------------------------- MODULE MCIdleTimer ----------------------------
(* IdleTimer with short times, and a clock that wraps once. *)
EXTENDS IdleTimer
=============================================================================
