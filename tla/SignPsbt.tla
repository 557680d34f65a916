------------------------------ MODULE SignPsbt ------------------------------
(***************************************************************************)
(* sign_psbt.c: a PSBT is parsed, its inputs read, its change outputs      *)
(* recognised, the rest confirmed by the user, its inputs signed, and the  *)
(* result sent in pieces that the host asks for one by one.  The MWEB part *)
(* of a Litecoin PSBT is signed in a session (module MwebSession) begun    *)
(* before the confirmations and committed after the ordinary signatures.   *)
(*                                                                         *)
(* An input or output carries the wallet its keys belong to and whether    *)
(* its script is `genuine`, the one built from that wallet's keys and its  *)
(* path; scripts and signatures are not built.  Apart from the script, a   *)
(* Green one declares the path of the service's key: it is `other_path` if *)
(* it has the length of the expected path and is not that path.            *)
(***************************************************************************)
EXTENDS MwebSession

CONSTANTS
  Docs,        \* the PSBTs the host may send
  Records,     \* registered multisig and descriptor wallets
  CHUNK_SIZE,  \* PSBT_OUT_CHUNK_SIZE
  Lengths      \* lengths a signed PSBT may have

ASSUME ChunkAssumption == CHUNK_SIZE \in Nat \ {0} /\ Lengths \subseteq Nat \ {0}

\* Inputs, outputs or pegouts, each with its amount.
EntriesOK(entries) ==
  /\ Len(entries) \in Nat /\ DOMAIN entries = 1..Len(entries)
  /\ \A e \in DOMAIN entries : entries[e].sat \in Nat

\* The fields the library reads: those of the extension are not in a Liquid PSBT, and the
\* coins that an ordinary transaction spends exist, so that their sum has 64 bits.
ASSUME DocsAssumption ==
  \A d \in Docs :
    /\ d # None
    /\ EntriesOK(d.inputs) /\ EntriesOK(d.outputs)
    /\ \A i \in DOMAIN d.inputs : d.inputs[i].ours \in Nat
    /\ Len(d.kernels) \in Nat /\ DOMAIN d.kernels = 1..Len(d.kernels)
    /\ \A k \in DOMAIN d.kernels :
         d.kernels[k].fee \in Nat /\ d.kernels[k].pegin \in Nat /\ EntriesOK(d.kernels[k].pegouts)
    /\ d.network = "liquid" => ~sign_psbt_has_mweb_component(d)
    /\ ~sign_psbt_has_mweb_component(d) => Total(Amounts(d.inputs)) <= UINT64_MAX

\* None stands for no session: it is not one that a PSBT may have, whatever is confirmed.
ASSUME NoneAssumption ==
  \A d \in Docs : SessionPossible(d) =>
    \A shown \in SUBSET DOMAIN d.kernels[1].pegouts :
      [mweb_session_begin(d, [p \in Parts(d) |-> "host"], AllSnapshots(d))
         EXCEPT !.confirmed = shown] # None

\* Registered wallets have names of their own.
ASSUME RecordsAssumption == {"single", "green", "green_recovery", None} \cap Records = {}

VARIABLES
  pc,
  doc,               \* the PSBT in work, or None
  content,           \* what its parts hold
  index,             \* of the input or part in work
  input_amount, mweb_input_amount,
  mweb_amounts_incomplete,
  sig_types,         \* inputs to be signed
  signing_flags,
  record,            \* multisig_data or descriptor, or None
  output_info,       \* flags of each output
  session,           \* mweb_session, or None
  confirmed,         \* history: what the user has seen and accepted
  answer,            \* "none", "refused" or "signed"
  reply              \* the pieces sent: total length, offset of the next, its number

vars == <<pc, doc, content, index, input_amount, mweb_input_amount, mweb_amounts_incomplete,
          sig_types, signing_flags, record, output_info, session, confirmed, answer, reply>>

Scan == <<input_amount, mweb_input_amount, mweb_amounts_incomplete, sig_types,
          signing_flags, record>>

Flags == {"SINGLESIG", "GREEN_MULTISIG", "MULTISIG", "CHANGE_ABANDONED", "SINGLE_MULTISIG_RECORD"}

TypeOK ==
  /\ pc \in {"idle", "validate", "inputs", "outputs", "amounts", "begin", "show_outputs", "mweb",
             "pegouts", "pegin", "fee", "sign", "commit", "cleanup", "send", "await", "done",
             "restart"}
  /\ doc # None => /\ content \in [Parts(doc) -> {"host", "partly", "ours"}]
                    /\ sig_types \subseteq DOMAIN doc.inputs
  /\ index \in Nat /\ input_amount \in 0..UINT64_MAX /\ mweb_input_amount \in 0..UINT64_MAX
  /\ mweb_amounts_incomplete \in BOOLEAN
  /\ signing_flags \subseteq Flags
  /\ record \in Records \cup {None}
  /\ answer \in {"none", "refused", "signed"}
  /\ reply.offset <= reply.len

NoReply == [len |-> 0, offset |-> 0, seqnum |-> 0]

Init ==
  /\ pc = "idle" /\ doc = None /\ content = <<>> /\ index = 0
  /\ input_amount = 0 /\ mweb_input_amount = 0 /\ mweb_amounts_incomplete = FALSE
  /\ sig_types = {} /\ signing_flags = {} /\ record = None /\ output_info = <<>>
  /\ session = None /\ confirmed = {} /\ answer = "none" /\ reply = NoReply

for_liquid == doc.network = "liquid"

\* An error: *errmsg and retval are set, and control goes to the cleanup label.
Fail == pc' = "cleanup" /\ answer' = "refused"

-----------------------------------------------------------------------------
(* Reading the PSBT *)

\* deserialise_psbt gives a PSBT or fails.
deserialise_psbt ==
  /\ pc = "idle"
  /\ \/ \E d \in Docs :
          /\ doc' = d
          /\ content' = [p \in Parts(d) |-> "host"]
          /\ pc' = "validate" /\ UNCHANGED answer
     \/ pc' = "done" /\ answer' = "refused" /\ UNCHANGED <<doc, content>>
  /\ UNCHANGED <<index, Scan, output_info, session, confirmed, reply>>

\* The PSBT is of the kind of the network, gives a transaction, and the additional
\* information of a Liquid transaction is well formed.
params_txn_validate ==
  /\ pc = "validate"
  /\ IF doc.valid THEN pc' = "inputs" /\ index' = 1 /\ UNCHANGED answer
                  ELSE Fail /\ UNCHANGED index
  /\ UNCHANGED <<doc, content, Scan, output_info, session, confirmed, reply>>

\* An MWEB input: its amount counts, whoever owns it.  One of ours that is not signed yet
\* must have all its fields.
ReadMwebInput ==
  /\ pc = "inputs" /\ index <= Len(doc.inputs)
  /\ LET input == doc.inputs[index] IN
     /\ input.mweb
     /\ mweb_input_amount' =
          (mweb_input_amount + (IF input.known THEN input.sat ELSE 0)) % (UINT64_MAX + 1)
     /\ mweb_amounts_incomplete' = (mweb_amounts_incomplete \/ ~input.known)
     /\ IF input.ours > 0 /\ ~input.signed /\ ~input.known
        THEN Fail /\ UNCHANGED index
        ELSE index' = index + 1 /\ UNCHANGED <<pc, answer>>
  /\ UNCHANGED <<doc, content, input_amount, sig_types, signing_flags, record, output_info,
                 session, confirmed, reply>>

\* Our key is the recovery key of a 2-of-3 wallet, or the declared path of the service's key
\* differs from the expected one: sodium_memcmp is 0 for equal paths.  The script is not
\* looked at here.
is_green_multisig_signers(x) ==
  x.wallet = "green_recovery" \/ (x.wallet = "green" /\ x.other_path)

KeyFlag(x) ==
  IF x.wallet = "single" THEN "SINGLESIG"
  ELSE IF is_green_multisig_signers(x) THEN "GREEN_MULTISIG" ELSE "MULTISIG"

\* verify_multisig_script_matches, verify_descriptor_script_matches.
ScriptMatches(r, x) == x.wallet = r /\ x.genuine

\* get_suitable_multisig_record, get_suitable_descriptor_record: a registered wallet that
\* generates the script, or None.
SuitableRecord(x) ==
  IF \E r \in Records : ScriptMatches(r, x) THEN CHOOSE r \in Records : ScriptMatches(r, x)
                                            ELSE None

Mutant_record_not_compared(x) ==
  LET flags == signing_flags \cup {KeyFlag(x)} IN
  IF "CHANGE_ABANDONED" \in flags THEN <<flags, record>>
  ELSE IF flags \cap {"SINGLESIG", "GREEN_MULTISIG"} # {}
       THEN <<flags \cup {"CHANGE_ABANDONED"}, record>>
  ELSE IF x.deep \/ "SINGLE_MULTISIG_RECORD" \in flags THEN <<flags, record>>
  ELSE LET found == SuitableRecord(x) IN
       <<flags \cup {IF found = None THEN "CHANGE_ABANDONED" ELSE "SINGLE_MULTISIG_RECORD"}, found>>

\* All inputs we sign must belong to one registered wallet, or change is not looked for.
\* An input whose path is too long to be read is passed over.
TrackRecord(x) ==
  LET flags == signing_flags \cup {KeyFlag(x)} IN
  IF "CHANGE_ABANDONED" \in flags THEN <<flags, record>>
  ELSE IF flags \cap {"SINGLESIG", "GREEN_MULTISIG"} # {}
       THEN <<flags \cup {"CHANGE_ABANDONED"}, record>>
  ELSE IF x.deep THEN <<flags, record>>
  ELSE IF "SINGLE_MULTISIG_RECORD" \in flags
       THEN <<IF ScriptMatches(record, x) THEN flags ELSE flags \cup {"CHANGE_ABANDONED"}, record>>
  ELSE LET found == SuitableRecord(x) IN
       <<flags \cup {IF found = None THEN "CHANGE_ABANDONED" ELSE "SINGLE_MULTISIG_RECORD"}, found>>

\* Any other input needs a UTXO and, if we sign it, a sighash we support.
ReadInput ==
  /\ pc = "inputs" /\ index <= Len(doc.inputs)
  /\ LET input == doc.inputs[index] IN
     /\ ~input.mweb
     /\ \/ ~input.known /\ Fail /\ UNCHANGED <<index, input_amount, sig_types, signing_flags, record>>
        \/ /\ input.known
           /\ input_amount' = IF for_liquid THEN input_amount
                              ELSE (input_amount + input.sat) % (UINT64_MAX + 1)
           /\ \/ /\ input.ours = 0
                 /\ index' = index + 1
                 /\ UNCHANGED <<pc, answer, sig_types, signing_flags, record>>
              \/ /\ input.ours > 0 /\ ~input.sighash
                 /\ Fail /\ UNCHANGED <<index, sig_types, signing_flags, record>>
              \/ /\ input.ours > 0 /\ input.sighash
                 /\ sig_types' = sig_types \cup {index}
                 /\ signing_flags' = TrackRecord(input)[1] /\ record' = TrackRecord(input)[2]
                 /\ index' = index + 1 /\ UNCHANGED <<pc, answer>>
  /\ UNCHANGED <<doc, content, mweb_input_amount, mweb_amounts_incomplete, output_info, session,
                 confirmed, reply>>

InputsRead ==
  /\ pc = "inputs" /\ index = Len(doc.inputs) + 1
  /\ pc' = "outputs"
  /\ UNCHANGED <<doc, content, index, Scan, output_info, session, confirmed, answer, reply>>

-----------------------------------------------------------------------------
(* psbt_update_outputs *)

\* verify_singlesig_script_matches, verify_ga_script_matches: the script of the output is the
\* one built from our key and its path, whatever path is declared for the service's key.
KeyScriptMatches(x) == x.genuine

\* Whether an output is recognised as one of the wallets we are signing for.
Validated(x) ==
  /\ ~x.mweb /\ x.ours > 0 /\ ~x.deep
  /\ \/ x.wallet = "single" /\ "SINGLESIG" \in signing_flags /\ KeyScriptMatches(x)
     \/ /\ x.wallet # "single"
        /\ signing_flags = {"GREEN_MULTISIG", "CHANGE_ABANDONED"}
        /\ is_green_multisig_signers(x)
        /\ x.wallet = "green_recovery" \/ KeyScriptMatches(x)
     \/ /\ x.wallet # "single"
        /\ signing_flags = {"MULTISIG", "SINGLE_MULTISIG_RECORD"}
        /\ ScriptMatches(record, x)

\* Green outputs are always taken for change, others by their path; an unusual path adds
\* a warning.
OutputFlags(x) ==
  (IF x.mweb THEN {"MWEB"} ELSE {})
    \cup (IF Validated(x) THEN {"VALIDATED"} ELSE {})
    \cup (IF Validated(x) /\ (x.change \/ is_green_multisig_signers(x)) THEN {"CHANGE"} ELSE {})
    \cup (IF Validated(x) /\ x.unusual THEN {"message"} ELSE {})

psbt_update_outputs ==
  /\ pc = "outputs"
  /\ output_info' = [j \in DOMAIN doc.outputs |-> OutputFlags(doc.outputs[j])]
  /\ pc' = "amounts"
  /\ UNCHANGED <<doc, content, index, Scan, session, confirmed, answer, reply>>

-----------------------------------------------------------------------------
(* Confirmation *)

total_input_amount == (input_amount + mweb_input_amount) % (UINT64_MAX + 1)
output_amount == Total(Amounts(doc.outputs))

\* Liquid: the commitments and the summaries of assets are checked.  Otherwise the amounts,
\* unless that of a signed MWEB input is gone; outputs that overflow fail a check of the
\* library, and the device restarts.
CheckAmounts ==
  /\ pc = "amounts"
  /\ \/ for_liquid /\ doc.summary /\ pc' = "show_outputs" /\ UNCHANGED answer
     \/ for_liquid /\ ~doc.summary /\ Fail
     \/ ~for_liquid /\ output_amount > UINT64_MAX /\ pc' = "restart" /\ UNCHANGED answer
     \/ /\ ~for_liquid /\ output_amount <= UINT64_MAX
        /\ IF output_amount > total_input_amount /\ ~mweb_amounts_incomplete
           THEN Fail ELSE pc' = "begin" /\ UNCHANGED answer
  /\ UNCHANGED <<doc, content, index, Scan, output_info, session, confirmed, reply>>

\* The session begins, if there is anything for it.  It fails if a check fails or there is
\* no memory; then it is aborted, with the snapshots made so far.
BeginSession ==
  /\ pc = "begin"
  /\ \/ ~sign_psbt_has_mweb_component(doc) /\ pc' = "show_outputs"
        /\ UNCHANGED <<session, content, answer>>
     \/ /\ sign_psbt_has_mweb_component(doc) /\ SessionAccepts(doc)
        /\ session' = mweb_session_begin(doc, content, AllSnapshots(doc))
        /\ pc' = "show_outputs" /\ UNCHANGED <<content, answer>>
     \/ /\ sign_psbt_has_mweb_component(doc) /\ ~SessionPossible(doc)
        /\ Fail /\ UNCHANGED <<session, content>>
     \/ /\ sign_psbt_has_mweb_component(doc) /\ SessionPossible(doc)
        /\ \E parts \in Snapshots(doc) :
             content' = mweb_session_abort(content, [snapshot |-> Snapshot(content, parts)])
        /\ Fail /\ UNCHANGED session
  /\ UNCHANGED <<doc, index, Scan, output_info, confirmed, reply>>

\* Change that was recognised is not shown, unless there is a warning.
display_output(j) ==
  /\ "MWEB" \notin output_info[j]
  /\ "message" \in output_info[j] \/ ~({"VALIDATED", "CHANGE"} \subseteq output_info[j])

\* If all would be hidden, none is - unless some are MWEB outputs, which have their own screen.
Displayed ==
  LET shown == {j \in DOMAIN doc.outputs : display_output(j)} IN
  IF shown = {} /\ \A j \in DOMAIN doc.outputs : "MWEB" \notin output_info[j]
  THEN DOMAIN doc.outputs ELSE shown

Accept(items, next) ==
  \/ confirmed' = confirmed \cup items /\ pc' = next /\ UNCHANGED answer
  \/ Fail /\ UNCHANGED confirmed

\* show_btc_transaction_outputs_activity, show_elements_transaction_outputs_activity, and
\* for a swap the summary of what the wallet gives and gets.
ShowOutputs ==
  /\ pc = "show_outputs"
  /\ Accept(IF for_liquid /\ doc.kind = "swap" THEN {<<"swap", 0, 0>>}
            ELSE {<<"out", j, doc.outputs[j].sat>> : j \in Displayed},
            IF for_liquid THEN "fee" ELSE "mweb")
  /\ index' = 1
  /\ UNCHANGED <<doc, content, Scan, output_info, session, reply>>

\* Each MWEB output, with the value the session verified.
ShowMwebOutput ==
  /\ pc = "mweb" /\ index <= Len(doc.outputs)
  /\ IF doc.network = "litecoin" /\ doc.outputs[index].mweb
     THEN IF session # None
          THEN Accept({<<"out", index, mweb_session_get_output_value(session, index)>>}, "mweb")
          ELSE Fail /\ UNCHANGED confirmed
     ELSE UNCHANGED <<pc, answer, confirmed>>
  /\ index' = index + 1
  /\ UNCHANGED <<doc, content, Scan, output_info, session, reply>>

MwebOutputsShown ==
  /\ pc = "mweb" /\ index = Len(doc.outputs) + 1
  /\ pc' = IF session = None THEN "fee" ELSE "pegouts"
  /\ index' = 1
  /\ UNCHANGED <<doc, content, Scan, output_info, session, confirmed, answer, reply>>

\* Each pegout, which is then marked as confirmed in the session.
ShowPegout ==
  /\ pc = "pegouts" /\ index <= Len(session.pegouts)
  /\ Accept({<<"pegout", index, session.pegouts[index].sat>>}, "pegouts")
  /\ session' = IF pc' = "pegouts" THEN mweb_session_mark_pegout_confirmed(session, index)
                                   ELSE session
  /\ index' = index + 1
  /\ UNCHANGED <<doc, content, Scan, output_info, reply>>

\* The pegin of the kernel, if any.
ShowPegin ==
  /\ pc = "pegouts" /\ index = Len(session.pegouts) + 1
  /\ IF session.pegin > 0 THEN Accept({<<"pegin", 1, session.pegin>>}, "fee")
                          ELSE pc' = "fee" /\ UNCHANGED <<confirmed, answer>>
  /\ UNCHANGED <<doc, content, index, Scan, output_info, session, reply>>

\* show_btc_fee_confirmation_activity asserts that both totals are positive and the fee
\* is not negative.
FeeAsserts == total_input_amount > 0 /\ output_amount > 0 /\ total_input_amount >= output_amount

\* The fee: of the kernel if there is a session, explicit for Liquid (and skipped for a
\* partial transaction without one), otherwise what is left of the inputs.
ShowFee ==
  /\ pc = "fee"
  /\ \/ for_liquid /\ doc.partial /\ doc.fee = 0 /\ pc' = "sign" /\ UNCHANGED <<confirmed, answer>>
     \/ for_liquid /\ ~(doc.partial /\ doc.fee = 0) /\ Accept({<<"fee", 1, doc.fee>>}, "sign")
     \/ ~for_liquid /\ session # None /\ Accept({<<"fee", 1, session.fee>>}, "sign")
     \/ /\ ~for_liquid /\ session = None /\ FeeAsserts
        /\ Accept({<<"fee", 1, total_input_amount - output_amount>>}, "sign")
     \/ /\ ~for_liquid /\ session = None /\ ~FeeAsserts
        /\ pc' = "restart" /\ UNCHANGED <<confirmed, answer>>
  /\ index' = 1
  /\ UNCHANGED <<doc, content, Scan, output_info, session, reply>>

-----------------------------------------------------------------------------
(* Signing *)

\* One input is signed with each of our keys in turn; any signature may fail.
SignInput ==
  /\ pc = "sign" /\ index <= Len(doc.inputs)
  /\ LET p == <<"in", index>>
         last == doc.inputs[index].ours = 1 \/ content[p] = "partly"
     IN IF index \in sig_types
        THEN \/ /\ content' = [content EXCEPT ![p] = IF last THEN "ours" ELSE "partly"]
                /\ index' = IF last THEN index + 1 ELSE index
                /\ UNCHANGED <<pc, answer>>
             \/ Fail /\ UNCHANGED <<content, index>>
        ELSE index' = index + 1 /\ UNCHANGED <<content, pc, answer>>
  /\ UNCHANGED <<doc, Scan, output_info, session, confirmed, reply>>

InputsSigned ==
  /\ pc = "sign" /\ index = Len(doc.inputs) + 1
  /\ index' = 1
  /\ pc' = IF session = None THEN "cleanup" ELSE "commit"
  /\ answer' = IF session = None THEN "signed" ELSE answer
  /\ UNCHANGED <<doc, content, Scan, output_info, session, confirmed, reply>>

\* mweb_session_commit: what it cannot finish it takes back, and the session is gone.
CommitFails ==
  /\ content' = mweb_session_abort(content, session)
  /\ session' = None
  /\ Fail /\ UNCHANGED index

CommitPart ==
  /\ pc = "commit" /\ index \in DOMAIN CommitOrder(doc)
  /\ LET p == CommitOrder(doc)[index] IN
     \/ /\ MwebPart(doc, p) => AllPegoutsConfirmed(session)
        /\ content' = IF MwebPart(doc, p) THEN WritePart(content, p) ELSE content
        /\ index' = index + 1
        /\ UNCHANGED <<session, pc, answer>>
     \/ MwebPart(doc, p) /\ CommitFails
  /\ UNCHANGED <<doc, Scan, output_info, confirmed, reply>>

CommitKernel ==
  /\ pc = "commit" /\ index = Len(doc.outputs) + Len(doc.inputs) + 1
  /\ IF AllPegoutsConfirmed(session)
     THEN /\ content' = WriteKernel(content)
          /\ session' = None
          /\ pc' = "cleanup" /\ answer' = "signed" /\ UNCHANGED index
     ELSE CommitFails
  /\ UNCHANGED <<doc, Scan, output_info, confirmed, reply>>

\* A PSBT without errors is serialised for the reply; if that fails the request is refused
\* too, but what was signed stays in the PSBT.
serialise_psbt ==
  \/ /\ answer = "signed"
     /\ \E n \in Lengths : reply' = [len |-> n, offset |-> 0, seqnum |-> 1]
     /\ pc' = "send" /\ UNCHANGED answer
  \/ pc' = "done" /\ answer' = "refused" /\ UNCHANGED reply

\* The cleanup label: a session that is still open is aborted.
Cleanup ==
  /\ pc = "cleanup"
  /\ content' = IF session = None THEN content ELSE mweb_session_abort(content, session)
  /\ session' = None
  /\ serialise_psbt
  /\ UNCHANGED <<doc, index, Scan, output_info, confirmed>>

-----------------------------------------------------------------------------
(* The reply *)

nmsgs == (reply.len \div CHUNK_SIZE) + 1

chunk_len(rest) == IF rest < CHUNK_SIZE THEN rest ELSE CHUNK_SIZE

\* The next piece is sent.  JADE_ASSERT: there must be something left to send.
SendChunk ==
  /\ pc = "send"
  /\ IF reply.offset >= reply.len
     THEN pc' = "restart" /\ UNCHANGED reply
     ELSE /\ reply' = [reply EXCEPT !.offset = @ + chunk_len(reply.len - @)]
          /\ pc' = IF reply.seqnum < nmsgs THEN "await" ELSE "done"
  /\ UNCHANGED <<doc, content, index, Scan, output_info, session, confirmed, answer>>

\* The host must ask for the piece with the next number of the same request; anything else
\* is refused and ends it.
check_extended_data_fields ==
  /\ pc = "await"
  /\ \/ pc' = "send" /\ reply' = [reply EXCEPT !.seqnum = @ + 1]
     \/ pc' = "done" /\ UNCHANGED reply
  /\ UNCHANGED <<doc, content, index, Scan, output_info, session, confirmed, answer>>

Reset ==
  /\ pc' = "idle" /\ doc' = None /\ content' = <<>> /\ index' = 0
  /\ input_amount' = 0 /\ mweb_input_amount' = 0 /\ mweb_amounts_incomplete' = FALSE
  /\ sig_types' = {} /\ signing_flags' = {} /\ record' = None /\ output_info' = <<>>
  /\ session' = None /\ confirmed' = {} /\ answer' = "none" /\ reply' = NoReply

\* The process ends and frees what it holds; so does a failed assertion, by a restart.
Exit == pc \in {"done", "restart"} /\ Reset

Next ==
  \/ deserialise_psbt \/ params_txn_validate \/ ReadMwebInput \/ ReadInput \/ InputsRead
  \/ psbt_update_outputs \/ CheckAmounts \/ BeginSession
  \/ ShowOutputs \/ ShowMwebOutput \/ MwebOutputsShown \/ ShowPegout \/ ShowPegin \/ ShowFee
  \/ SignInput \/ InputsSigned \/ CommitPart \/ CommitKernel \/ Cleanup
  \/ SendChunk \/ check_extended_data_fields \/ Exit

Spec == Init /\ [][Next]_vars

-----------------------------------------------------------------------------
(* Properties *)

OurInputs == {i \in DOMAIN doc.inputs : ~doc.inputs[i].mweb /\ doc.inputs[i].ours > 0}

\* Every part that signing must fill is the device's, and no other is touched.
Complete ==
  LET wanted == {<<"in", i>> : i \in OurInputs}
                  \cup (IF sign_psbt_has_mweb_component(doc) /\ ~for_liquid
                        THEN {<<"in", i>> : i \in MwebInputs(doc)}
                               \cup {<<"out", j>> : j \in MwebOutputs(doc)}
                               \cup {<<"kernel", 1>>, <<"offsets", 0>>}
                        ELSE {})
  IN content = [p \in Parts(doc) |-> IF p \in wanted THEN "ours" ELSE "host"]

Untouched == \A p \in DOMAIN content : content[p] = "host"

\* Both kinds of keys of a Green wallet.
Family(w) == IF w = "green_recovery" THEN "green" ELSE w

\* Money that stays with the wallet whose coins are spent: the output is of the same wallet as
\* an input we sign, and for a registered wallet as all of them whose path can be read.
\* A Green wallet does not tell its change from other receipts by the path.  (A Green recovery
\* key cannot verify scripts, and the code says so.)
OwnChange(j) ==
  LET x == doc.outputs[j] IN
  /\ ~x.mweb /\ x.ours > 0 /\ (x.genuine \/ x.wallet = "green_recovery")
  /\ x.change \/ Family(x.wallet) = "green"
  /\ \E i \in OurInputs : Family(doc.inputs[i].wallet) = Family(x.wallet)
  /\ x.wallet \in Records =>
       \A i \in OurInputs : doc.inputs[i].wallet = x.wallet \/ doc.inputs[i].deep

\* Everything the transaction does has been accepted by the user, at its amount.
Approved ==
  /\ \/ <<"swap", 0, 0>> \in confirmed
     \/ \A j \in DOMAIN doc.outputs :
          <<"out", j, doc.outputs[j].sat>> \in confirmed \/ OwnChange(j)
  /\ sign_psbt_has_mweb_component(doc) /\ ~for_liquid =>
       Len(doc.kernels) = 1 /\ LET kernel == doc.kernels[1] IN
       /\ \A p \in DOMAIN kernel.pegouts : <<"pegout", p, kernel.pegouts[p].sat>> \in confirmed
       /\ kernel.pegin > 0 => <<"pegin", 1, kernel.pegin>> \in confirmed
       /\ <<"fee", 1, kernel.fee>> \in confirmed
  /\ ~for_liquid /\ ~sign_psbt_has_mweb_component(doc) =>
       <<"fee", 1, Total(Amounts(doc.inputs)) - Total(Amounts(doc.outputs))>> \in confirmed
  /\ for_liquid => <<"fee", 1, doc.fee>> \in confirmed \/ (doc.partial /\ doc.fee = 0)

\* No signature is made, in memory or for the host, before the user has accepted every output
\* that is not the wallet's own change, every pegout, the pegin and the fee, each at the
\* amount that is signed (sign_psbt, psbt_update_outputs, mweb_session_begin).
SignedIsApproved ==
  doc # None => Untouched \/ Approved

\* A kernel is signed only if the amounts it binds really balance, whatever 64-bit sums the
\* device computed on the way (mweb_session_begin).
KernelBalances ==
  doc # None /\ <<"kernel", 1>> \in DOMAIN content /\ content[<<"kernel", 1>>] = "ours" =>
    Total(MwebAmounts(doc.inputs)) + doc.kernels[1].pegin
      = Total(MwebAmounts(doc.outputs)) + doc.kernels[1].fee
          + Total(Amounts(doc.kernels[1].pegouts))

\* What the user and the host may know of the request.
Phase ==
  IF doc = None THEN (IF pc = "done" THEN "refused" ELSE "idle")
  ELSE IF pc \in {"done", "restart"} /\ answer = "refused" THEN "refused"
  ELSE IF pc \in {"send", "await", "done", "restart"} /\ answer = "signed" THEN "signed"
  ELSE IF pc \in {"sign", "commit", "cleanup"} /\ Approved THEN "approved" ELSE "asked"

\* What they may know of the PSBT: "torn" if it is neither signed as a whole nor as it was.
Document ==
  IF doc # None /\ pc \in {"send", "await", "done", "restart"} /\ answer = "signed"
  THEN (IF Complete THEN "signed" ELSE "torn")
  ELSE IF doc # None /\ pc = "done" /\ sign_psbt_has_mweb_component(doc)
  THEN (IF Untouched THEN "host" ELSE IF Complete THEN "signed" ELSE "torn")
  ELSE "host"

Atomic == INSTANCE AtomicSign WITH phase <- Phase, document <- Document

\* A PSBT with an MWEB part is signed as a whole or left as it was, in memory too, and only
\* after approval; one that is refused because it could not be serialised is still signed as a
\* whole in memory.  Any PSBT is given to the host as a whole or not at all (sign_psbt,
\* mweb_session_commit, mweb_session_abort, sign_psbt_process).
SignsAtomically == Atomic!Spec

\* sign_psbt.c:1649: JADE_ASSERT(chunk < bytes + bytes_len) before each piece is sent.
ChunkLeftToSend == pc = "send" => reply.offset < reply.len
============================================================================
