---------------------------- MODULE MCPinClient ----------------------------
(***************************************************************************)
(* PinClient with two PINs and two servers; a PIN is only compared, so the *)
(* PINs are symmetric.                                                     *)
(***************************************************************************)
EXTENDS PinClient, TLC

CONSTANTS p1, p2

MCPins == {p1, p2}
PinSymmetry == Permutations(MCPins)
============================================================================
