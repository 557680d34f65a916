---------------------------- MODULE MultisigFile ----------------------------
(***************************************************************************)
(* The text file that describes a multisig wallet: how the device writes   *)
(* it (multisig_create_export_file) and how it reads one, its own or of    *)
(* another wallet application (register_multisig_file).                    *)
(*                                                                         *)
(* A file is a sequence of lines, each a field and its value; comments and *)
(* white space are left out.  A signer has the fingerprint of its wallet,  *)
(* the derivation and the version bytes of its xpub, and the further path  *)
(* from it.  The key of an xpub is the wallet and derivation it is of.     *)
(***************************************************************************)
EXTENDS Naturals, Sequences, SequencesExt

CONSTANTS
  Variants,            \* script variants
  MAX_ALLOWED_SIGNERS,
  LongDerivations      \* derivations of which the text fills the buffer of a value, as of 11 long elements

ASSUME SignersAssumption == MAX_ALLOWED_SIGNERS \in Nat \ {0}

\* The data of a signer and of a multisig wallet have these fields.
IsSigner(signer) ==
  signer = [fingerprint |-> signer.fingerprint, key |-> signer.key, version |-> signer.version,
            derivation |-> signer.derivation, path |-> signer.path]

IsMultisig(data) ==
  /\ data = [variant |-> data.variant, sorted |-> data.sorted, blinding |-> data.blinding,
             threshold |-> data.threshold, signers |-> data.signers]
  /\ data.variant \in Variants /\ data.sorted \in BOOLEAN
  /\ data.signers \in Seq(ToSet(data.signers))
  /\ \A i \in DOMAIN data.signers : IsSigner(data.signers[i])

Mandatory == {"Name", "Policy", "Format", "Derivation"}

\* A line, of which the text of the value may be too long for the reader.
Line(field, value) == [field |-> field, value |-> value, long |-> FALSE]
DerivationLine(derivation) ==
  [field |-> "Derivation", value |-> derivation, long |-> derivation \in LongDerivations]

\* The lines of one signer: its derivation, and its fingerprint and xpub.
SignerLines(signer) ==
  << DerivationLine(signer.derivation),
     Line("Signer", [fingerprint |-> signer.fingerprint, key |-> signer.key, version |-> signer.version]) >>

SortedLines(data) == IF data.sorted THEN <<>> ELSE <<Line("Sorted", FALSE)>>

\* A wallet of which a signer has a further path is not exported.
CanExport(data) == \A i \in DOMAIN data.signers : data.signers[i].path = "none"

multisig_create_export_file(name, data) ==
  << Line("Name", [name |-> name, truncated |-> FALSE]),
     Line("Policy", <<data.threshold, Len(data.signers)>>),
     Line("Format", data.variant) >>
  \o SortedLines(data)
  \o (IF data.blinding = "none" THEN <<>> ELSE <<Line("BlindingKey", data.blinding)>>)
  \o FlattenSeq([i \in DOMAIN data.signers |-> SignerLines(data.signers[i])])

-----------------------------------------------------------------------------
(* Reading *)

\* As for a message, sorted would be FALSE by default.
Mutant_unsorted_by_default ==
  [ok |-> TRUE, seen |-> {}, name |-> [name |-> "", truncated |-> FALSE], policy |-> <<0, 0>>, path |-> "m",
   data |-> [variant |-> "GREEN", sorted |-> FALSE, blinding |-> "none", signers |-> <<>>]]

\* What has been read: the fields seen, whether a line was refused, and the values.
NothingRead ==
  [ok |-> TRUE, seen |-> {}, name |-> [name |-> "", truncated |-> FALSE], policy |-> <<0, 0>>, path |-> "m",
   data |-> [variant |-> "GREEN", sorted |-> TRUE, blinding |-> "none", signers |-> <<>>]]

IsPolicy(p) == p[1] > 0 /\ p[1] <= p[2] /\ p[2] <= MAX_ALLOWED_SIGNERS

\* A signer is read with the last derivation, and with the version bytes of the network.
ReadSigner(xpub_version, path, value) ==
  [fingerprint |-> value.fingerprint, key |-> value.key, version |-> xpub_version,
   derivation |-> path, path |-> "none"]

\* A value that does not fit is refused (split_line), and so is one that its field does not admit.
AcceptsLine(state, line) ==
  /\ ~line.long
  /\ CASE line.field = "Derivation" -> line.value # "m"
       [] line.field = "Signer" -> Mandatory \subseteq state.seen /\ Len(state.data.signers) < state.policy[2]
       [] line.field = "Policy" -> "Policy" \notin state.seen /\ IsPolicy(line.value)
       [] line.field = "Format" -> "Format" \notin state.seen /\ line.value \in Variants
       [] line.field = "Sorted" -> "Sorted" \notin state.seen /\ line.value \in BOOLEAN
       [] OTHER -> line.field \in {"Name", "BlindingKey"} \ state.seen

ReadLine(xpub_version, state, line) ==
  LET read == [state EXCEPT !.seen = @ \cup {line.field}] IN
  IF ~state.ok \/ ~AcceptsLine(state, line) THEN [state EXCEPT !.ok = FALSE] ELSE
  CASE line.field = "Name" -> [read EXCEPT !.name = line.value]
    [] line.field = "Policy" -> [read EXCEPT !.policy = line.value]
    [] line.field = "Format" -> [read EXCEPT !.data.variant = line.value]
    [] line.field = "Sorted" -> [read EXCEPT !.data.sorted = line.value]
    [] line.field = "BlindingKey" -> [read EXCEPT !.data.blinding = line.value]
    [] line.field = "Derivation" -> [read EXCEPT !.path = line.value]
    [] line.field = "Signer" ->
         [state EXCEPT !.data.signers = Append(@, ReadSigner(xpub_version, state.path, line.value))]

\* The lines one after the other.
ReadLines(xpub_version, file) ==
  LET state[i \in 0..Len(file)] ==
        IF i = 0 THEN NothingRead ELSE ReadLine(xpub_version, state[i - 1], file[i])
  IN state[Len(file)]

\* The wallet a file describes: ok says whether the file was accepted, and truncated
\* whether the user will be asked about its name.
ReadFile(xpub_version, file) ==
  LET end == ReadLines(xpub_version, file) IN
  [ok |-> /\ end.ok /\ Mandatory \subseteq end.seen
          /\ Len(end.data.signers) = end.policy[2],
   name |-> end.name.name, truncated |-> end.name.truncated,
   data |-> [variant |-> end.data.variant, sorted |-> end.data.sorted, blinding |-> end.data.blinding,
             threshold |-> end.policy[1], signers |-> end.data.signers]]

=============================================================================
