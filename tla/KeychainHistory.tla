--------------------------- MODULE KeychainHistory ---------------------------
(***************************************************************************)
(* Keychain with two history variables, which tell apart the behaviours in *)
(* which what the documents promise does not hold.                         *)
(***************************************************************************)
EXTENDS Keychain

VARIABLES
  revived,  \* the counter was restored for a blob left over from an interrupted erasure
  borrowed  \* a temporary wallet was used since the last start

hvars == <<vars, revived, borrowed>>

HInit == Init /\ revived = FALSE /\ borrowed = FALSE

\* Attempts are restored for a blob that the unit does not know of.
Revives == fBlob' = fBlob /\ fBlob # None /\ ~has_encrypted_blob /\ fCounter' > fCounter

HStep ==
  /\ Next
  /\ revived' = (fBlob' = fBlob /\ (revived \/ Revives))
  /\ borrowed' = (borrowed \/ keychain_temporary')

HReboot == Reboot /\ borrowed' = FALSE /\ UNCHANGED revived

HNext == HStep \/ HReboot

HSpec == HInit /\ [][HNext]_hvars

\* "Check 3 incorrect PIN attempts erases stored key data" (selfcheck.c:195): no more than
\* three wrong keys are tried on one blob, over any number of restarts; unless power was lost
\* before an exhausted blob was erased, and again between the two writes that save
\* the next wallet, of which the first restores the counter (storage.c:447).
ThreeStrikesErase == revived \/ strikes <= MaxAttempts

\* "wallet is locked to mainnet/production networks and cannot be used on testnet or regtest
\* networks" (docs/index.rst:171): while the saved wallet is unlocked the restriction in RAM
\* is the one saved with it, unless a temporary wallet was used since the last start, whose
\* restriction outlives it (keychain.c:68); and a wallet that was never saved does not
\* find a restriction of an earlier one in flash.  As long as no commit has failed, since
\* mnemonic.c does not look at the outcome.
LockedToNetwork ==
  keychain_data # None /\ ~keychain_temporary /\ faults = 0 =>
    IF has_encrypted_blob
      THEN ~borrowed => network_type_restriction = fNet
      ELSE fNet = "NONE"

=============================================================================
