------------------------------- MODULE MCWire -------------------------------
(***************************************************************************)
(* Wire on a small instance: a buffer of three bytes, and bytes that start *)
(* requests of two and of four bytes (the last never fits), an immediate   *)
(* message, a malformed one, and nothing at all.                           *)
(***************************************************************************)
EXTENDS Wire

MCBytes ==
  {[kind |-> "request", len |-> 2], [kind |-> "request", len |-> 4],
   [kind |-> "immediate", len |-> 1], [kind |-> "malformed", len |-> 2],
   [kind |-> "junk", len |-> 1]}

=============================================================================
