----------------------------- MODULE MCKeychain -----------------------------
(***************************************************************************)
(* Keychain on a small instance: two mnemonics, two passphrases, two AES   *)
(* keys, the USB source and QR mode.                                       *)
(***************************************************************************)
EXTENDS KeychainHistory, TLC

CONSTANTS m1, m2, k1, k2, empty, p1, usb, internal

\* Mnemonics and AES keys are only compared for equality.
Symmetric == Permutations({m1, m2}) \cup Permutations({k1, k2})

=============================================================================
