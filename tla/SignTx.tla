------------------------------- MODULE SignTx -------------------------------
(***************************************************************************)
(* sign_tx.c, for sign_tx and sign_liquid_tx: the host sends a transaction *)
(* and then one message per input.  With the anti-exfil (AE) flow each     *)
(* input message is answered by a commitment, and one get_signature per    *)
(* input fetches the signatures; without it the input messages are all     *)
(* answered at the end.                                                    *)
(*                                                                         *)
(* An input is the coin it spends.  What the host says of it may differ;   *)
(* a signature carries what it commits to, so that the network would       *)
(* accept it only if that is true of the coin.  All messages come over the *)
(* connection that sent the request.                                       *)
(***************************************************************************)
EXTENDS Integers, Sequences, FiniteSets, FiniteSetsExt, Totals

CONSTANTS
  Requests,     \* transactions with what the host says of their outputs
  InputMessages(_, _),  \* what the host may say of an input of a request
  Assets,
  UINT64_MAX,
  None

\* A coin is spent by a script of one of these kinds.
SigTypes == {"PRE_SW", "SW_V0", "SW_V1"}
Coins == [type : SigTypes, sat : Nat, asset : Assets]
Outputs == [own : BOOLEAN, sat : Nat, asset : Assets, blinded : BOOLEAN, fee : BOOLEAN]

\* A message about an input: path, type (sig_type), commit (ae_host_commitment), prev (the
\* input_tx: that of the coin, another, or none), sat (satoshi or value_commitment), asset,
\* unblinded (abf, vbf and asset_id that open the commitments), valid (the other fields).
Messages ==
  [path : BOOLEAN, valid : BOOLEAN, type : SigTypes, commit : BOOLEAN,
   prev : {"real", "other", "none"}, sat : Nat, asset : Assets, unblinded : BOOLEAN]

\* The amounts of the given coins or outputs, in the order of the transaction.
Sats(entries, S) == [k \in DOMAIN entries |-> IF k \in S THEN entries[k].sat ELSE 0]
TotalOf(entries, S) == Total(Sats(entries, S))

\* A request is a transaction with a claim about each of its outputs.
ASSUME RequestAssumption ==
  /\ None \notin Requests
  /\ \A r \in Requests :
       /\ r.tx.inputs \in Seq(Coins) /\ r.tx.outputs \in Seq(Outputs)
       /\ DOMAIN r.claims = DOMAIN r.tx.outputs
       /\ {r.tx.liquid, r.use_ae, r.valid, r.swap, r.partial} \subseteq BOOLEAN

\* The coins of the network are fewer than UINT64_MAX.  The summary of the inputs of a Liquid
\* transaction has lines.
ASSUME AmountAssumption ==
  /\ UINT64_MAX \in Nat
  /\ \A r \in Requests :
       /\ ~r.tx.liquid => TotalOf(r.tx.inputs, DOMAIN r.tx.inputs) <= UINT64_MAX
       /\ r.in_sums \in Seq([asset : Assets, value : Nat])

ASSUME MessageAssumption ==
  \A r \in Requests : \A i \in DOMAIN r.tx.inputs : InputMessages(r, i) \subseteq Messages

VARIABLES
  pc,
  request,       \* parameters of the request, or None
  in_sums, out_sums,  \* validated_value of each line of the summaries
  index,         \* of the input in work
  inputs,        \* signing_data->inputs: what the input messages said
  input_amount,
  confirmed,     \* history: the outputs and the fee that the user accepted
  taken,         \* history: the messages taken; an id is an index
  replies,       \* history: the replies sent
  signatures     \* history: the signatures made

vars == <<pc, request, in_sums, out_sums, index, inputs, input_amount, confirmed, taken,
          replies, signatures>>

tx == request.tx
for_liquid == tx.liquid
use_ae_signatures == request.use_ae
Modulo(n) == n % (UINT64_MAX + 1)

\* The fee outputs of a Liquid transaction have no script.
FeeOutputs(t) == IF t.liquid THEN {k \in DOMAIN t.outputs : t.outputs[k].fee} ELSE {}
explicit_fee(t) == TotalOf(t.outputs, FeeOutputs(t))
OutputTotal(t) == TotalOf(t.outputs, DOMAIN t.outputs)
output_amount == OutputTotal(tx)

TypeOK ==
  /\ pc \in {"idle", "outputs", "inputs", "taproot", "amounts", "fee", "refuse", "sign_ec",
             "reply_ec", "sign_ae", "done", "restart"}
  /\ (request = None) = (pc = "idle")
  /\ index \in Nat /\ input_amount \in 0..UINT64_MAX
  /\ \A s \in {in_sums, out_sums} : \A n \in DOMAIN s : s[n] \in 0..UINT64_MAX
  /\ request # None => Len(inputs) <= Len(tx.inputs)
  /\ taken \in Seq({"request", "tx_input", "get_signature", "other"})
  /\ \A n \in DOMAIN replies : replies[n].id \in DOMAIN taken

Init ==
  /\ pc = "idle" /\ request = None /\ in_sums = <<>> /\ out_sums = <<>> /\ index = 0
  /\ inputs = <<>> /\ input_amount = 0 /\ confirmed = None /\ taken = <<>> /\ replies = <<>>
  /\ signatures = {}

Reply(id, kind) == replies' = Append(replies, [id |-> id, kind |-> kind])

\* jade_process_reject_message, and the cleanup label.
Reject(id) == Reply(id, "error") /\ pc' = "done"

-----------------------------------------------------------------------------
(* The request *)

\* params_txn_validate: the transaction is of the kind of the network.  The fee of a
\* Liquid transaction is one output, of the policy asset, and is not zero.
params_txn_validate(r) ==
  /\ r.valid
  /\ Cardinality(FeeOutputs(r.tx)) <= 1
  /\ \A k \in FeeOutputs(r.tx) : r.tx.outputs[k].sat > 0 /\ ~r.tx.outputs[k].blinded

\* What the host says of an output: nothing, that it is the wallet's, or that it is change
\* ("unusual" if the path or the number of blocks gives a warning).
\* The script is built again from the path given and must be the output's.
params_signing_outputs(r) ==
  \A k \in DOMAIN r.claims : r.claims[k] # "none" => r.tx.outputs[k].own

\* Output flags VALIDATED and CHANGE.
Validated(r, k) == r.claims[k] # "none"
Change(r, k) == r.claims[k] \in {"change", "unusual"}

\* validate_additional_info.
validate_additional_info(r) ==
  r.swap =>
    /\ r.in_sums # <<>> /\ r.out_sums # <<>>
    /\ IF r.partial
       THEN /\ Len(r.tx.inputs) = 1 /\ Len(r.tx.outputs) = 1
            /\ Len(r.in_sums) = 1 /\ Len(r.out_sums) = 1
            /\ r.in_sums[1].asset # r.out_sums[1].asset
       ELSE Len(r.tx.inputs) >= 2 /\ Len(r.tx.outputs) >= 2

\* A wallet's own output must be unblinded.
update_elements_outputs(r) ==
  \A k \in DOMAIN r.tx.outputs :
    r.tx.outputs[k].blinded /\ r.unblind[k] = "none" => ~Validated(r, k)

\* All outputs of a payment are shown, so they are unblinded and have an address.
AllUnblinded(r) ==
  r.swap \/ \A k \in DOMAIN r.tx.outputs : r.tx.outputs[k].blinded => r.unblind[k] = "full"

\* asset_summary_update: the value is added to the first line of the asset, if there is one.
asset_summary_update(lines, sums, asset, value) ==
  LET n == {m \in DOMAIN lines : lines[m].asset = asset} IN
  IF n = {} THEN sums ELSE [sums EXCEPT ![Min(n)] = Modulo(@ + value)]

Of(r, S, asset) == TotalOf(r.tx.outputs, {k \in S : r.tx.outputs[k].asset = asset})

\* validate_elements_outputs: change is taken from the summary of the inputs, the wallet's
\* other outputs make the summary of the outputs.
ChangeSums(r) ==
  LET change == {k \in DOMAIN r.tx.outputs : Change(r, k)} IN
  [n \in DOMAIN r.in_sums |->
     IF \E m \in 1..(n - 1) : r.in_sums[m].asset = r.in_sums[n].asset THEN 0
     ELSE Modulo(UINT64_MAX + 1 - Modulo(Of(r, change, r.in_sums[n].asset)))]

ReceivedSums(r) ==
  LET own == {k \in DOMAIN r.tx.outputs : Validated(r, k) /\ ~Change(r, k)} IN
  [n \in DOMAIN r.out_sums |->
     IF \E m \in 1..(n - 1) : r.out_sums[m].asset = r.out_sums[n].asset THEN 0
     ELSE Modulo(Of(r, own, r.out_sums[n].asset))]

RequestValid(r) ==
  /\ params_txn_validate(r) /\ params_signing_outputs(r)
  /\ r.tx.liquid => validate_additional_info(r) /\ update_elements_outputs(r) /\ AllUnblinded(r)

sign_tx ==
  /\ pc = "idle"
  /\ \E r \in Requests :
       /\ request' = r
       /\ taken' = <<"request">>
       /\ \/ /\ RequestValid(r)
             /\ in_sums' = (IF r.tx.liquid THEN ChangeSums(r) ELSE <<>>)
             /\ out_sums' = (IF r.tx.liquid THEN ReceivedSums(r) ELSE <<>>)
             /\ pc' = "outputs" /\ UNCHANGED replies
          \/ /\ ~RequestValid(r)
             /\ Reject(1) /\ UNCHANGED <<in_sums, out_sums>>
  /\ UNCHANGED <<index, inputs, input_amount, confirmed, signatures>>

\* Outputs that are shown: not the validated change without a warning, nor the fee of a Liquid transaction;
\* all of them, if that would leave none.  The summary of a swap is shown instead.
Displayed ==
  LET shown == {k \in DOMAIN tx.outputs : k \notin FeeOutputs(tx) /\ request.claims[k] # "change"} IN
  IF for_liquid /\ request.swap THEN {}
  ELSE IF shown = {} THEN DOMAIN tx.outputs ELSE shown

\* The user accepts the outputs, and the host is told to send the inputs.
ConfirmOutputs ==
  /\ pc = "outputs"
  /\ \/ /\ confirmed' = [outputs |-> Displayed, fee |-> None]
        /\ Reply(1, "ok")
        /\ pc' = "inputs" /\ index' = 1
     \/ Reject(1) /\ UNCHANGED <<index, confirmed>>
  /\ UNCHANGED <<request, in_sums, out_sums, inputs, input_amount, taken, signatures>>

-----------------------------------------------------------------------------
(* The inputs *)

\* params_tx_input_signing_data and sighash_is_supported.
params_tx_input_signing_data(m) ==
  /\ m.valid
  /\ m.commit => use_ae_signatures /\ m.type # "SW_V1"

\* The amounts of a swap can only be verified for segwit inputs.
SummaryInput(m) == for_liquid /\ in_sums # <<>> /\ m.path

\* params_commitment_data: what the host says of the amount opens the commitments.
Opened(m) == SummaryInput(m) /\ m.unblinded

SummaryPossible(m) == SummaryInput(m) => m.type # "PRE_SW"

\* Mutant: any segwit input may do without its previous transaction.
Mutant_any_number_of_inputs(i, m) ==
  \/ for_liquid
  \/ m.prev = "real"
  \/ m.prev = "none" /\ m.type = "SW_V0"

\* The amount is that of the previous transaction, which must have the txid of the input;
\* a single segwit input may do without.
AmountKnown(i, m) ==
  \/ for_liquid
  \/ m.prev = "real"
  \/ m.prev = "none" /\ m.type = "SW_V0" /\ Len(tx.inputs) = 1

Amount(i, m) == IF ~for_liquid /\ m.prev = "real" THEN tx.inputs[i].sat ELSE m.sat

\* Taproot needs the AE flow; its hash waits for all the inputs.
HashPossible(m) == m.path /\ m.type = "SW_V1" => use_ae_signatures

Accepted(i, m) ==
  /\ m.path => params_tx_input_signing_data(m) /\ SummaryPossible(m)
  /\ AmountKnown(i, m)
  /\ HashPossible(m)

\* made_ae_commitment.
CommitmentReply(m) == IF m.path /\ m.commit THEN "commitment" ELSE "empty"

\* An input message.  The hash of an ordinary input and the signer's commitment are made
\* here, and may fail.  The next step waits for the last input.
tx_input ==
  /\ pc = "inputs" /\ index <= Len(tx.inputs)
  /\ taken' = Append(taken, "tx_input")
  /\ \E m \in InputMessages(request, index) :
       \/ /\ Accepted(index, m)
          /\ inputs' = Append(inputs, [m EXCEPT !.sat = Amount(index, m)])
          /\ input_amount' =
               (IF for_liquid THEN input_amount ELSE Modulo(input_amount + Amount(index, m)))
          /\ in_sums' = (IF Opened(m)
                         THEN asset_summary_update(request.in_sums, in_sums, m.asset, m.sat)
                         ELSE in_sums)
          /\ IF use_ae_signatures THEN Reply(Len(taken'), CommitmentReply(m))
                                  ELSE UNCHANGED replies
          /\ index' = index + 1
          /\ pc' = IF index < Len(tx.inputs) THEN "inputs" ELSE "taproot"
       \/ /\ ~Accepted(index, m) \/ m.path
          /\ Reject(Len(taken'))
          /\ UNCHANGED <<inputs, input_amount, in_sums, index>>
  /\ UNCHANGED <<request, out_sums, confirmed, signatures>>

UnexpectedMessage(expected) ==
  \E method \in {"tx_input", "get_signature", "other"} \ {expected} :
    taken' = Append(taken, method)

\* Any other message ends the request.
not_tx_input ==
  /\ pc = "inputs"
  /\ UnexpectedMessage("tx_input")
  /\ Reject(Len(taken'))
  /\ UNCHANGED <<request, in_sums, out_sums, index, inputs, input_amount, confirmed, signatures>>

\* The connection is lost while a message is awaited.  There is then no message to answer:
\* the refusal asserts, and the device restarts.
LostConnection ==
  /\ pc \in {"inputs", "refuse", "sign_ae"}
  /\ pc' = "restart"
  /\ UNCHANGED <<request, in_sums, out_sums, index, inputs, input_amount, confirmed, taken,
                 replies, signatures>>

-----------------------------------------------------------------------------
(* The fee *)

Scope == <<request, in_sums, out_sums, index, inputs, input_amount, taken, signatures>>

Taproot == {i \in DOMAIN inputs : inputs[i].path /\ inputs[i].type = "SW_V1"}

\* The hashes of taproot inputs.  Those of a Liquid transaction need what the host may have left out.
TaprootHashes ==
  /\ pc = "taproot"
  /\ pc' \in {"amounts"} \cup {s \in {"refuse"} : Taproot # {}}
  /\ UNCHANGED <<Scope, confirmed, replies>>

\* Mutant: the AE flow answers the last input message a second time.
Mutant_refuse_last_message == Reject(Len(taken))

\* An error that is not about the last input message: the AE flow awaits the message to
\* answer, the other flow answers the last input message.
RefuseLater ==
  IF use_ae_signatures THEN pc' = "refuse" /\ UNCHANGED replies ELSE Reject(Len(taken))

\* Mutant: only the summary of the outputs is compared.
Mutant_inputs_not_validated ==
  \A n \in DOMAIN out_sums : out_sums[n] = request.out_sums[n].value

\* asset_summary_validate.
asset_summary_validate ==
  /\ \A n \in DOMAIN in_sums : in_sums[n] = request.in_sums[n].value
  /\ \A n \in DOMAIN out_sums : out_sums[n] = request.out_sums[n].value

AmountsValid == IF for_liquid THEN asset_summary_validate ELSE output_amount <= input_amount

\* libwally does not add up outputs beyond a uint64_t, which the code asserts that it does.
TotalOverflows == ~for_liquid /\ output_amount > UINT64_MAX

CheckAmounts ==
  /\ pc = "amounts"
  /\ \/ TotalOverflows /\ pc' = "restart" /\ UNCHANGED replies
     \/ ~TotalOverflows /\ AmountsValid /\ pc' = "fee" /\ UNCHANGED replies
     \/ ~TotalOverflows /\ ~AmountsValid /\ RefuseLater
  /\ UNCHANGED <<Scope, confirmed>>

\* A partial transaction without fee needs no confirmation.
FeeShown == ~(for_liquid /\ request.partial /\ explicit_fee(tx) = 0)
Fee == IF for_liquid THEN explicit_fee(tx) ELSE input_amount - output_amount
StartSigning == IF use_ae_signatures THEN "sign_ae" ELSE "sign_ec"

\* show_btc_fee_confirmation_activity asserts that the totals are not zero.
ConfirmFee ==
  /\ pc = "fee"
  /\ IF ~for_liquid /\ (input_amount = 0 \/ output_amount = 0)
     THEN pc' = "restart" /\ UNCHANGED <<index, confirmed, replies>>
     ELSE \/ /\ confirmed' = [confirmed EXCEPT !.fee = IF FeeShown THEN Fee ELSE None]
             /\ pc' = StartSigning /\ index' = 1
             /\ UNCHANGED replies
          \/ /\ FeeShown
             /\ RefuseLater /\ UNCHANGED <<index, confirmed>>
  /\ UNCHANGED <<request, in_sums, out_sums, inputs, input_amount, taken, signatures>>

\* The message that the refusal answers, whatever it is.
Refuse ==
  /\ pc = "refuse"
  /\ UnexpectedMessage(None)
  /\ Reject(Len(taken'))
  /\ UNCHANGED <<request, in_sums, out_sums, index, inputs, input_amount, confirmed, signatures>>

-----------------------------------------------------------------------------
(* The signatures *)

\* wallet_sign_tx_input_hash.  Before segwit a signature commits to no amount, with
\* segwit to that of its input, with taproot to all.
Signature(i, entropy) ==
  [input |-> i, type |-> inputs[i].type, entropy |-> entropy,
   commits |-> CASE inputs[i].type = "PRE_SW" -> [j \in {} |-> <<>>]
                 [] inputs[i].type = "SW_V0" -> [j \in {i} |-> <<inputs[j].sat, inputs[j].asset>>]
                 [] OTHER -> [j \in DOMAIN inputs |-> <<inputs[j].sat, inputs[j].asset>>]]

\* The other flow makes all the signatures before it sends the first.
SignEc ==
  /\ pc = "sign_ec" /\ index <= Len(inputs)
  /\ \/ /\ signatures' = IF inputs[index].path
                         THEN signatures \cup {Signature(index, FALSE)} ELSE signatures
        /\ index' = index + 1
        /\ UNCHANGED <<pc, replies>>
     \/ /\ inputs[index].path
        /\ Reject(index + 1)
        /\ UNCHANGED <<index, signatures>>
  /\ UNCHANGED <<request, in_sums, out_sums, inputs, input_amount, confirmed, taken>>

AllSigned ==
  /\ pc = "sign_ec" /\ index > Len(inputs)
  /\ pc' = "reply_ec" /\ index' = 1
  /\ UNCHANGED <<request, in_sums, out_sums, inputs, input_amount, confirmed, taken, replies,
                 signatures>>

SignatureReply(i) == IF inputs[i].path THEN "signature" ELSE "empty"

\* The replies answer the input messages, by the ids kept of them.
send_ec_signature_replies ==
  /\ pc = "reply_ec"
  /\ Reply(index + 1, SignatureReply(index))
  /\ index' = index + 1
  /\ pc' = IF index < Len(inputs) THEN pc ELSE "done"
  /\ UNCHANGED <<request, in_sums, out_sums, inputs, input_amount, confirmed, taken, signatures>>

\* Mutant: entropy is used if there is any.
Mutant_entropy_not_required(i, entropy) == TRUE

\* The host must have sent both a commitment and entropy for this input, or neither.
EntropyExpected(i, entropy) == inputs[i].path => inputs[i].commit = entropy

\* One get_signature for each input.  Signing may fail.
get_signature ==
  /\ pc = "sign_ae"
  /\ taken' = Append(taken, "get_signature")
  /\ \E entropy \in BOOLEAN :
       \/ /\ EntropyExpected(index, entropy)
          /\ signatures' = IF inputs[index].path
                           THEN signatures \cup {Signature(index, entropy)} ELSE signatures
          /\ Reply(Len(taken'), SignatureReply(index))
          /\ index' = index + 1
          /\ pc' = IF index < Len(inputs) THEN pc ELSE "done"
       \/ /\ inputs[index].path
          /\ Reject(Len(taken'))
          /\ UNCHANGED <<index, signatures>>
  /\ UNCHANGED <<request, in_sums, out_sums, inputs, input_amount, confirmed>>

not_get_signature ==
  /\ pc = "sign_ae"
  /\ UnexpectedMessage("get_signature")
  /\ Reject(Len(taken'))
  /\ UNCHANGED <<request, in_sums, out_sums, index, inputs, input_amount, confirmed, signatures>>

\* The dashboard waits for another request.
Finished == pc \in {"done", "restart"} /\ UNCHANGED vars

Next ==
  \/ sign_tx \/ ConfirmOutputs \/ tx_input \/ not_tx_input \/ LostConnection
  \/ TaprootHashes \/ CheckAmounts \/ ConfirmFee \/ Refuse
  \/ SignEc \/ AllSigned \/ send_ec_signature_replies \/ get_signature \/ not_get_signature
  \/ Finished

Spec == Init /\ [][Next]_vars

-----------------------------------------------------------------------------
(* Properties *)

\* The network accepts a signature of the type of the coin that commits to the truth.
Spendable(s) ==
  /\ s.type = tx.inputs[s.input].type
  /\ \A j \in DOMAIN s.commits : s.commits[j] = <<tx.inputs[j].sat, tx.inputs[j].asset>>

\* The fee that the user accepted is what the coins exceed the outputs by.
FeeApproved ==
  ~for_liquid => confirmed.fee = TotalOf(tx.inputs, DOMAIN tx.inputs) - output_amount

\* An output of a payment was shown, or is the wallet's, or is the fee that was shown.
OutputsApproved ==
  ~(for_liquid /\ request.swap) => \A k \in DOMAIN tx.outputs :
    \/ k \in confirmed.outputs
    \/ tx.outputs[k].own
    \/ k \in FeeOutputs(tx) /\ confirmed.fee = tx.outputs[k].sat

\* A signature that the network accepts exists only once the user has accepted the
\* transaction as it is: the outputs that were not shown return to the wallet, and
\* the fee shown is the fee paid, although the amounts come from the host.
SpendsAsApproved == (\E s \in signatures : Spendable(s)) => FeeApproved /\ OutputsApproved

\* What the summary says of an asset.
Values(lines, asset) ==
  [n \in DOMAIN lines |-> IF lines[n].asset = asset THEN lines[n].value ELSE 0]

\* The summary of a swap that the user accepted is true of what is signed, for every asset
\* listed, once all the signatures exist and are good: the wallet gives the inputs whose
\* amounts the host opened, less the change.  The inputs come after the user has accepted.
SwapAsApproved ==
  /\ signatures # {} /\ for_liquid /\ request.swap
  /\ \A i \in DOMAIN inputs :
       inputs[i].path => \E s \in signatures : s.input = i /\ Spendable(s)
  =>
    \A asset \in {request.in_sums[n].asset : n \in DOMAIN request.in_sums} :
      LET given == {i \in DOMAIN inputs :
                      inputs[i].path /\ inputs[i].unblinded /\ inputs[i].asset = asset}
          change == {k \in DOMAIN tx.outputs : Change(request, k)}
      IN Modulo(Total(Values(request.in_sums, asset)) + Of(request, change, asset))
         = Modulo(TotalOf(tx.inputs, given))

\* Messages are answered in their order, each once.  Only the flow without AE leaves some
\* unanswered, when it fails: then one input message is refused, and none is answered with
\* a signature.
AnsweredOnce ==
  LET ids == [n \in DOMAIN replies |-> replies[n].id]
      failed == \E n \in DOMAIN replies : replies[n].kind = "error"
  IN
  /\ \A m, n \in DOMAIN ids : m < n => ids[m] < ids[n]
  /\ pc = "done" =>
       \/ ids = [n \in DOMAIN taken |-> n]
       \/ /\ ~use_ae_signatures /\ failed
          /\ \A n \in DOMAIN replies : replies[n].kind # "signature"

\* A signature contains entropy of the host exactly if the host had been given the
\* commitment to that signature before: the reply to the message of the same input.
CommittedFirst ==
  \A s \in signatures :
    use_ae_signatures =>
      (s.entropy = \E n \in DOMAIN replies :
                     replies[n] = [id |-> s.input + 1, kind |-> "commitment"])

=============================================================================
