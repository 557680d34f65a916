------------------------------- MODULE MCOta -------------------------------
(***************************************************************************)
(* Ota on a small instance: two connections, an image header of two units  *)
(* and firmware of up to a few units, so that headers arrive in one piece, *)
(* in several, or not at all.                                              *)
(***************************************************************************)
EXTENDS Ota, TLC

CONSTANTS usb, ble

MCSources == {usb, ble}
SourceSymmetry == Permutations(MCSources)

=============================================================================
