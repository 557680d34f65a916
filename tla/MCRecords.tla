----------------------------- MODULE MCRecords -----------------------------
(***************************************************************************)
(* Records for two wallets, one of them restricted to test networks, that  *)
(* are co-signers of the same multisig wallet, two names and room for one  *)
(* record of each kind.                                                    *)
(***************************************************************************)
EXTENDS Records

Signer(wallet, derivation, path) ==
  [fingerprint |-> wallet, key |-> <<wallet, derivation>>, version |-> "main",
   derivation |-> derivation, path |-> path]

Multisig(variant, sorted, blinding, threshold, signers) ==
  [variant |-> variant, sorted |-> sorted, blinding |-> blinding, threshold |-> threshold, signers |-> signers]

\* Two that can be exported and read back, sorted and not, one with a further path, one that
\* is exported and not read back, and one that is refused.
MCMultisigs ==
  { Multisig("P2WSH", FALSE, "none", 2, <<Signer("w1", "d1", "none"), Signer("w2", "d2", "none")>>),
    Multisig("P2WSH", TRUE, "none", 1, <<Signer("w1", "d1", "child"), Signer("w2", "m", "none")>>),
    Multisig("P2SH", TRUE, "key", 1, <<Signer("w1", "d1", "none")>>),
    Multisig("P2WSH", TRUE, "none", 1, <<Signer("w2", "d2", "none"), Signer("w1", "long", "none")>>),
    Multisig("P2SH", TRUE, "none", 1, <<Signer("w1", "d1", "hardened")>>) }

SignerLine(wallet, derivation) ==
  Line("Signer", [fingerprint |-> wallet, key |-> <<wallet, derivation>>, version |-> "other"])

FileHead(name, truncated, policy) ==
  << Line("Name", [name |-> name, truncated |-> truncated]), Line("Policy", policy), Line("Format", "P2WSH") >>

\* One derivation for all signers and a blinding key, one derivation each, and files that
\* are refused: a signer too few, one too many, and one before its derivation; and one with a
\* long derivation, of which the text in the file is short enough, as without its "m/".
MCFiles ==
  << FileHead("n1", TRUE, <<2, 2>>)
      \o << Line("BlindingKey", "key"), DerivationLine("d1"), SignerLine("w1", "d1"), SignerLine("w2", "d1") >>,
    << Line("Sorted", FALSE) >> \o FileHead("n2", FALSE, <<1, 2>>)
      \o << DerivationLine("d2"), SignerLine("w2", "d2"), DerivationLine("d1"), SignerLine("w1", "d1") >>,
    FileHead("n1", FALSE, <<2, 2>>) \o << DerivationLine("d1"), SignerLine("w1", "d1") >>,
    FileHead("n1", FALSE, <<1, 1>>) \o << DerivationLine("d1"), SignerLine("w1", "d1"), SignerLine("w2", "d1") >>,
    FileHead("n1", FALSE, <<1, 1>>) \o << SignerLine("w1", "d1"), DerivationLine("d1") >>,
    FileHead("n1", FALSE, <<1, 1>>) \o << Line("Derivation", "long"), SignerLine("w1", "long") >> >>

MCDescriptors == { [script |-> "s1", valid_for |-> {"w1"}] }

\* A counter that starts at its last value wraps with the first code.
MCUris == { [type |-> "HOTP", counter |-> 0], [type |-> "HOTP", counter |-> CounterMod - 1],
            [type |-> "TOTP", counter |-> 0] }

=============================================================================
