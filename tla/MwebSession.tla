---------------------------- MODULE MwebSession ----------------------------
(***************************************************************************)
(* The MWEB signing session of mweb_atomic_sign.c, as operators on a PSBT. *)
(*                                                                         *)
(* A PSBT is split in two.  `doc` is what the host says and the device     *)
(* never changes: amounts, owners, kernel fields.  `content` says, of each *)
(* part the device writes into (an input, an output, the kernel, the       *)
(* offsets), whether it holds what the host sent ("host"), some of the     *)
(* device's signatures ("partly") or all that the device adds ("ours").    *)
(*                                                                         *)
(* A session holds the totals, what was verified, a snapshot of every part *)
(* and which pegouts were confirmed.  Nothing is written to the PSBT       *)
(* between mweb_session_begin and mweb_session_commit.                     *)
(***************************************************************************)
EXTENDS Naturals, Sequences, Totals

CONSTANTS
  MAX_LITOSHI,  \* MWEB_LTC_MAX_LITOSHI: the supply of coins
  UINT64_MAX,
  None

ASSUME MoneyAssumption ==
  /\ MAX_LITOSHI \in Nat /\ UINT64_MAX \in Nat
  /\ 3 * MAX_LITOSHI <= UINT64_MAX
  /\ None \notin Nat

\* The parts of a PSBT that signing may change.
Parts(doc) ==
  {<<"in", i>> : i \in DOMAIN doc.inputs} \cup {<<"out", j>> : j \in DOMAIN doc.outputs}
    \cup {<<"kernel", k>> : k \in DOMAIN doc.kernels} \cup {<<"offsets", 0>>}

MwebInputs(doc) == {i \in DOMAIN doc.inputs : doc.inputs[i].mweb}
MwebOutputs(doc) == {j \in DOMAIN doc.outputs : doc.outputs[j].mweb}

\* Any input, output or kernel of the extension starts a session.
sign_psbt_has_mweb_component(doc) ==
  doc.kernels # <<>> \/ MwebInputs(doc) # {} \/ MwebOutputs(doc) # {}

-----------------------------------------------------------------------------
(* Amounts *)

atomic_in_money_range(amount) == amount <= MAX_LITOSHI

\* The sums of the first n amounts, taken one at a time: each, and the total so far, must be
\* in range and must not overflow.  None if some check fails.
CheckedSums(amounts) ==
  LET total[n \in 0..Len(amounts)] ==
        IF n = 0 THEN 0
        ELSE IF /\ total[n - 1] # None
                /\ atomic_in_money_range(amounts[n]) /\ total[n - 1] <= UINT64_MAX - amounts[n]
                /\ atomic_in_money_range(total[n - 1] + amounts[n])
             THEN total[n - 1] + amounts[n] ELSE None
  IN total

CheckedTotal(amounts) == CheckedSums(amounts)[Len(amounts)]

Amounts(entries) == [e \in DOMAIN entries |-> entries[e].sat]

\* An entry outside the extension adds nothing.
MwebAmounts(entries) == [e \in DOMAIN entries |-> IF entries[e].mweb THEN entries[e].sat ELSE 0]

atomic_u64_add(a, b) ==
  IF a = None \/ b = None \/ a > UINT64_MAX - b THEN None ELSE a + b

-----------------------------------------------------------------------------
(* Snapshots *)

\* The parts that are copied; running out of memory after any number of inputs and outputs
\* leaves a session with only some of them.
Snapshots(doc) ==
  LET fixed == {<<"kernel", 1>>, <<"offsets", 0>>}
      ins(n) == {<<"in", i>> : i \in 1..n}
      outs(n) == {<<"out", j>> : j \in 1..n}
  IN {fixed \cup ins(n) : n \in 0..Len(doc.inputs)}
       \cup {fixed \cup ins(Len(doc.inputs)) \cup outs(n) : n \in 0..Len(doc.outputs)}

Snapshot(content, parts) == [p \in parts |-> content[p]]

\* What was captured is put back; the rest is left alone.
Restore(content, snapshot) ==
  [p \in DOMAIN content |-> IF p \in DOMAIN snapshot THEN snapshot[p] ELSE content[p]]

Mutant_outputs_not_restored(content, session) ==
  [p \in DOMAIN content |->
     IF p \in DOMAIN session.snapshot /\ p[1] # "out" THEN session.snapshot[p] ELSE content[p]]

\* The PSBT after a session is given up.
mweb_session_abort(content, session) == Restore(content, session.snapshot)

-----------------------------------------------------------------------------
(* mweb_session_begin *)

\* An input is ours when both key origins have our fingerprint, and good when the keys
\* derived from its path reproduce its commitment.  Foreign inputs are refused.
derive_owned_input(input) == input.ours > 0 /\ input.genuine

\* An output needs an amount, an address and consistent extra data; it is built with fresh
\* random keys in the session.
build_mweb_output(output) == output.genuine

\* The feature bits of the kernel agree with the fields it has.
FeaturesConsistent(kernel) == kernel.features

\* A pegout must parse and pay to an address that can be shown.
PegoutSupported(pegout) == pegout.genuine

Mutant_fee_not_counted(doc) ==
  LET kernel == doc.kernels[1]
      in == atomic_u64_add(CheckedTotal(MwebAmounts(doc.inputs)), kernel.pegin)
      out == atomic_u64_add(CheckedTotal(MwebAmounts(doc.outputs)),
                            CheckedTotal(Amounts(kernel.pegouts)))
  IN in # None /\ out # None /\ in = out

\* Sum of inputs + pegin = sum of outputs + fee + pegouts.
Balanced(doc) ==
  LET kernel == doc.kernels[1]
      in == atomic_u64_add(CheckedTotal(MwebAmounts(doc.inputs)), kernel.pegin)
      out == atomic_u64_add(atomic_u64_add(CheckedTotal(MwebAmounts(doc.outputs)), kernel.fee),
                            CheckedTotal(Amounts(kernel.pegouts)))
  IN /\ atomic_in_money_range(kernel.fee) /\ atomic_in_money_range(kernel.pegin)
     /\ in # None /\ out # None /\ in = out

\* Refused before there is a session.
SessionPossible(doc) == doc.network = "litecoin" /\ Len(doc.kernels) = 1

\* What is checked before the kernel is signed in the session.
SessionAccepts(doc) ==
  /\ SessionPossible(doc)
  /\ FeaturesConsistent(doc.kernels[1])
  /\ \A i \in MwebInputs(doc) : derive_owned_input(doc.inputs[i])
  /\ \A j \in MwebOutputs(doc) : build_mweb_output(doc.outputs[j])
  /\ \A p \in DOMAIN doc.kernels[1].pegouts : PegoutSupported(doc.kernels[1].pegouts[p])
  /\ Balanced(doc)

\* The session: total_fee, total_pegin, the values of the outputs it built, the pegouts and
\* which of them are confirmed.
mweb_session_begin(doc, content, parts) ==
  [snapshot |-> Snapshot(content, parts),
   fee |-> doc.kernels[1].fee, pegin |-> doc.kernels[1].pegin,
   values |-> [j \in MwebOutputs(doc) |-> doc.outputs[j].sat],
   pegouts |-> doc.kernels[1].pegouts,
   confirmed |-> {}]

AllSnapshots(doc) == Parts(doc)

-----------------------------------------------------------------------------
(* Queries and commit *)

mweb_session_get_output_value(session, j) == session.values[j]

mweb_session_mark_pegout_confirmed(session, p) ==
  [session EXCEPT !.confirmed = @ \cup {p}]

\* Every pegout must have been shown.
AllPegoutsConfirmed(session) == session.confirmed = DOMAIN session.pegouts

\* The order of the writes: outputs, inputs, then kernel and offsets together.  Entries outside
\* the extension are passed over.
CommitOrder(doc) ==
  [k \in 1..Len(doc.outputs) + Len(doc.inputs) |->
     IF k <= Len(doc.outputs) THEN <<"out", k>> ELSE <<"in", k - Len(doc.outputs)>>]

MwebPart(doc, p) ==
  \/ p[1] = "out" /\ p[2] \in MwebOutputs(doc)
  \/ p[1] = "in" /\ p[2] \in MwebInputs(doc)

WritePart(content, p) == [content EXCEPT ![p] = "ours"]

WriteKernel(content) ==
  [content EXCEPT ![<<"kernel", 1>>] = "ours", ![<<"offsets", 0>>] = "ours"]
============================================================================
