-------------------------- MODULE SignPsbtProofs --------------------------
(***************************************************************************)
(* Proofs about SignPsbt, for any PSBTs, with any numbers of inputs,       *)
(* outputs and pegouts, any amounts and any registered wallets.            *)
(*                                                                         *)
(* TrackInv, AmountInv and InfoInv say what is known of the inputs read so *)
(* far, and so that an output which is not shown is change.  SessionInv    *)
(* and ContentInv say what the session and the PSBT in memory hold at each *)
(* place of the code, ConfirmInv what the user has accepted.  Sums over    *)
(* inputs and outputs need induction, which is done here with sets.        *)
(***************************************************************************)
EXTENDS SignPsbt, WellFoundedInduction, TLAPS

\* A PSBT as the host sent it.
Clean(d) == [p \in Parts(d) |-> "host"]

\* There is something for a session to sign.
HasMweb == sign_psbt_has_mweb_component(doc)

\* Before and while the user is asked.
Reading == {"validate", "inputs", "outputs", "amounts", "begin"}
Showing == {"show_outputs", "mweb", "pegouts", "fee"}

\* There is a PSBT whenever there is a request, and its parts are those of the PSBT.
DocInv ==
  /\ pc = "idle" => doc = None
  /\ doc = None => pc \in {"idle", "done"} /\ session = None
  /\ doc # None => doc \in Docs /\ DOMAIN content = Parts(doc)

\* What has been decided at each place of the code.
AnswerInv ==
  /\ answer \in {"none", "refused", "signed"}
  /\ pc \in {"idle", "sign", "commit"} \cup Reading \cup Showing => answer = "none"
  /\ pc \in {"cleanup", "done"} => answer # "none"
  /\ pc \in {"send", "await"} => answer = "signed"
  /\ pc = "restart" => answer # "refused"
  /\ doc = None /\ pc = "done" => answer = "refused"

\* The session of a PSBT, with the pegouts that have been confirmed.
SessionOf(d, shown) ==
  [snapshot |-> Clean(d), fee |-> d.kernels[1].fee, pegin |-> d.kernels[1].pegin,
   values |-> [j \in MwebOutputs(d) |-> d.outputs[j].sat],
   pegouts |-> d.kernels[1].pegouts, confirmed |-> shown]

\* The session is that of the PSBT, which passed all its checks.
SessionIs(s) ==
  /\ SessionAccepts(doc) /\ HasMweb
  /\ \E shown \in SUBSET DOMAIN doc.kernels[1].pegouts : s = SessionOf(doc, shown)

\* While the user is asked and inputs are signed there is a session just for PSBTs that need one.
SessionInv ==
  /\ session # None => SessionIs(session) /\ pc \in Showing \cup {"sign", "commit", "cleanup"}
  /\ pc \in Showing \cup {"sign", "commit"} => (session = None <=> ~HasMweb)
  /\ pc \in {"pegouts", "commit"} => session # None
  /\ pc = "pegouts" => index \in Nat \ {0}
  /\ pc \in {"begin", "mweb"} => ~for_liquid
  /\ answer = "signed" => session = None

\* The inputs to be signed among those before the n-th.
Found(n) == {i \in OurInputs : i < n}

\* What the flags and the record say of the inputs before the n-th: which kinds of wallets were
\* found, and that a single registered wallet is that of all of them.
ScanIs(n) ==
  /\ sig_types = Found(n)
  /\ "SINGLESIG" \in signing_flags => \E i \in Found(n) : doc.inputs[i].wallet = "single"
  /\ "GREEN_MULTISIG" \in signing_flags =>
       \E i \in Found(n) : is_green_multisig_signers(doc.inputs[i])
  /\ "SINGLE_MULTISIG_RECORD" \in signing_flags =>
       record \in Records /\ \E i \in Found(n) : ScriptMatches(record, doc.inputs[i])
  /\ {"SINGLESIG", "GREEN_MULTISIG"} \cap signing_flags # {} => "CHANGE_ABANDONED" \in signing_flags
  /\ "CHANGE_ABANDONED" \notin signing_flags =>
       \A i \in Found(n) :
         \/ doc.inputs[i].deep
         \/ "SINGLE_MULTISIG_RECORD" \in signing_flags /\ ScriptMatches(record, doc.inputs[i])

\* The amounts of the inputs before the n-th have been added, without an overflow.
AmountIs(n) ==
  ~for_liquid /\ ~HasMweb =>
    input_amount = Sums(Amounts(doc.inputs))[n - 1] /\ mweb_input_amount = 0

\* After all inputs have been read, until they are signed.
Scanned == {"outputs", "amounts", "begin", "sign"} \cup Showing

\* The flags, the record and the inputs to be signed are those found so far.
TrackInv ==
  /\ pc = "inputs" => index \in 1..Len(doc.inputs) + 1 /\ ScanIs(index)
  /\ pc \in Scanned => ScanIs(Len(doc.inputs) + 1)
  /\ pc \in {"idle", "validate"} => sig_types = {} /\ signing_flags = {}

\* The amount of the inputs is that of the inputs read so far.
AmountInv ==
  /\ pc = "inputs" => AmountIs(index)
  /\ pc \in Scanned => AmountIs(Len(doc.inputs) + 1)
  /\ pc \in {"idle", "validate"} => input_amount = 0 /\ mweb_input_amount = 0

\* Until the outputs are shown, their flags are those that the wallets found justify.
InfoInv ==
  pc \in {"amounts", "begin", "show_outputs"} =>
    output_info = [j \in DOMAIN doc.outputs |-> OutputFlags(doc.outputs[j])]

\* The parts that ordinary signatures go into.
SignedInputs == {<<"in", i>> : i \in OurInputs}

\* A PSBT in which the device has written just some parts.
Ours(parts) == [p \in Parts(doc) |-> IF p \in parts THEN "ours" ELSE "host"]

\* The inputs before the n-th are signed, the n-th may be signed in part, no other part is
\* touched.
SignState(n) ==
  /\ content \in [Parts(doc) -> {"host", "partly", "ours"}]
  /\ \A i \in OurInputs : i < n => content[<<"in", i>>] = "ours"
  /\ \A p \in Parts(doc) :
       content[p] # "host" => \E i \in OurInputs : p = <<"in", i>> /\ i <= n

\* The parts that a commit has written before its n-th.
Written(n) == {p \in {CommitOrder(doc)[k] : k \in 1..n - 1} : MwebPart(doc, p)}

\* What the PSBT in memory holds at each place of the code.
ContentInv ==
  doc # None =>
    /\ pc \in Reading \cup Showing \/ (pc = "restart" /\ answer = "none") => content = Clean(doc)
    /\ pc = "sign" => index \in 1..Len(doc.inputs) + 1 /\ SignState(index)
    /\ pc = "commit" =>
         /\ index \in 1..Len(doc.outputs) + Len(doc.inputs) + 1
         /\ content = Ours(SignedInputs \cup Written(index))
    /\ answer = "signed" => Complete
    /\ pc = "cleanup" /\ answer = "refused" /\ session = None /\ HasMweb => content = Clean(doc)
    /\ pc = "done" /\ answer = "refused" /\ HasMweb => content = Clean(doc) \/ Complete

\* A kernel is signed only in a PSBT that passed the checks of the session.
KernelInv ==
  doc # None /\ <<"kernel", 1>> \in Parts(doc) /\ content[<<"kernel", 1>>] = "ours" =>
    SessionAccepts(doc)

\* An output the user has accepted, or need not.
Seen(j) == <<"out", j, doc.outputs[j].sat>> \in confirmed \/ OwnChange(j)
OutputsSeen == <<"swap", 0, 0>> \in confirmed \/ \A j \in DOMAIN doc.outputs : Seen(j)
\* The pegouts before the n-th, and the pegin.
PegoutsSeen(n) ==
  \A p \in DOMAIN doc.kernels[1].pegouts : p < n =>
    <<"pegout", p, doc.kernels[1].pegouts[p].sat>> \in confirmed
PeginSeen == doc.kernels[1].pegin > 0 => <<"pegin", 1, doc.kernels[1].pegin>> \in confirmed

\* What the user has accepted at each place of the code.
ConfirmInv ==
  /\ pc = "mweb" => /\ index \in 1..Len(doc.outputs) + 1
                    /\ \A j \in DOMAIN doc.outputs : Seen(j) \/ (doc.outputs[j].mweb /\ j >= index)
  /\ pc \in {"pegouts", "fee"} => OutputsSeen
  /\ pc = "pegouts" => index \in 1..Len(doc.kernels[1].pegouts) + 1 /\ PegoutsSeen(index)
  /\ pc = "fee" /\ session # None => PegoutsSeen(Len(doc.kernels[1].pegouts) + 1) /\ PeginSeen
  /\ pc \in {"sign", "commit"} \/ answer = "signed" => Approved
  /\ doc # None => content = Clean(doc) \/ Approved

-----------------------------------------------------------------------------
(* Induction and sums *)

\* Every set of numbers has a least one.
LEMMA Least ==
  ASSUME NEW T, T \subseteq Nat, T # {}
  PROVE  \E x \in T : \A y \in T : x <= y
<1> DEFINE R == {ss \in Nat \X Nat : ss[1] < ss[2]}
<1>1. R = OpToRel(<, Nat)
  BY DEF OpToRel
<1>2. IsWellFoundedOn(R, Nat)
  BY NatLessThanWellFounded, <1>1
<1>3. \E x \in T : \A y \in T : ~(<<y, x>> \in R)
  <2> HIDE DEF R
  <2> QED BY <1>2, WFMin
<1>4. ASSUME NEW x \in Nat, NEW y \in Nat, y < x
      PROVE  <<y, x>> \in R
  <2>1. <<y, x>> \in Nat \X Nat /\ <<y, x>>[1] = y /\ <<y, x>>[2] = x
    OBVIOUS
  <2> QED BY <1>4, <2>1, Zenon
<1>5. \E x \in T : \A y \in T : ~(y < x)
  <2> HIDE DEF R
  <2> QED BY <1>3, <1>4, Zenon
<1> QED BY <1>5, SMT

\* Induction over 0..N, for sets: the provers cannot instantiate it for operators.
LEMMA Induction ==
  ASSUME NEW T, NEW N \in Nat, 0 \in T, \A n \in 1..N : n - 1 \in T => n \in T
  PROVE  \A n \in 0..N : n \in T
<1> DEFINE U == {n \in 0..N : n \notin T}
<1> SUFFICES ASSUME U # {} PROVE FALSE
  OBVIOUS
<1>1. U \subseteq Nat
  OBVIOUS
<1>2. PICK x \in U : \A y \in U : x <= y
  <2> HIDE DEF U
  <2> QED BY <1>1, Least
<1>3. x \in 1..N /\ x - 1 \in 0..N /\ ~(x <= x - 1)
  OBVIOUS
<1>4. x - 1 \in T
  BY <1>2, <1>3
<1> QED BY <1>3, <1>4

\* The equation of Sums, for a function g over the first m amounts.
IsSums(g, a, m) ==
  g = [n \in 0..m |-> IF n = 0 THEN 0 ELSE g[n - 1] + a[n]]

\* Such a function exists, so Sums satisfies its definition, and sums are numbers.
LEMMA SumsDef ==
  ASSUME NEW a, Len(a) \in Nat, \A i \in 1..Len(a) : a[i] \in Nat
  PROVE  /\ Sums(a) \in [0..Len(a) -> Nat]
         /\ Sums(a)[0] = 0
         /\ \A n \in 1..Len(a) : Sums(a)[n] = Sums(a)[n - 1] + a[n]
<1> DEFINE N == Len(a)
           T == {m \in 0..N : \E g \in [0..m -> Nat] : IsSums(g, a, m)}
<1> HIDE DEF N
<1>0. N \in Nat /\ \A i \in 1..N : a[i] \in Nat
  BY DEF N
<1>1. 0 \in T
  <2>1. [n \in 0..0 |-> 0] \in [0..0 -> Nat]
    OBVIOUS
  <2>2. IsSums([n \in 0..0 |-> 0], a, 0)
    BY DEF IsSums
  <2> QED BY <2>1, <2>2, <1>0
<1>2. ASSUME NEW m \in 1..N, m - 1 \in T PROVE m \in T
  <2>1. PICK g \in [0..(m - 1) -> Nat] : IsSums(g, a, m - 1)
    BY <1>2
  <2> DEFINE h == [n \in 0..m |-> IF n = m THEN g[m - 1] + a[m] ELSE g[n]]
  <2>2. h \in [0..m -> Nat]
    BY <1>0
  <2>3. ASSUME NEW n \in 0..m PROVE h[n] = IF n = 0 THEN 0 ELSE h[n - 1] + a[n]
    BY <2>1, <1>0 DEF IsSums
  <2>4. IsSums(h, a, m)
    BY <2>3, <2>2 DEF IsSums
  <2>5. \E f \in [0..m -> Nat] : IsSums(f, a, m)
    <3> HIDE DEF h
    <3> QED BY <2>2, <2>4, Zenon
  <2> QED BY <2>5, <1>0
<1>3. N \in T
  <2> HIDE DEF T
  <2>1. \A m \in 0..N : m \in T
    BY <1>0, <1>1, <1>2, Induction
  <2> QED BY <2>1, <1>0
<1>4. PICK g \in [0..N -> Nat] : IsSums(g, a, N)
  BY <1>3
<1>5. IsSums(Sums(a), a, N)
  BY <1>4 DEF Sums, IsSums, N
<1>6. Sums(a) = [n \in 0..N |-> IF n = 0 THEN 0 ELSE Sums(a)[n - 1] + a[n]]
  BY <1>5 DEF IsSums
<1>. DEFINE S == Sums(a)
     V == {m \in 0..N : S[m] \in Nat}
<1> HIDE DEF S
<1>7. S = [n \in 0..N |-> IF n = 0 THEN 0 ELSE S[n - 1] + a[n]]
  BY <1>6 DEF S
<1>8. 0 \in V
  BY <1>7, <1>0
<1>9. ASSUME NEW m \in 1..N, m - 1 \in V PROVE m \in V
  <2>1. m \in 0..N /\ m - 1 \in 0..N /\ m # 0 /\ S[m - 1] \in Nat /\ a[m] \in Nat
    BY <1>0, <1>9
  <2>2. S[m] = S[m - 1] + a[m]
    BY <2>1, <1>7
  <2> QED BY <2>1, <2>2
<1>10. \A m \in 0..N : m \in V
  <2> HIDE DEF V
  <2> QED BY <1>0, <1>8, <1>9, Induction
<1>11. S \in [0..N -> Nat]
  BY <1>10, <1>7
<1>12. S[0] = 0
  BY <1>7, <1>0
<1>13. ASSUME NEW n \in 1..N PROVE S[n] = S[n - 1] + a[n]
  <2>1. n \in 0..N /\ n # 0
    BY <1>0
  <2> QED BY <1>7, <2>1
<1> QED BY <1>11, <1>12, <1>13, Zenon DEF S, N

\* A sum of some of the amounts is not greater than that of all.
LEMMA SumsBelowTotal ==
  ASSUME NEW a, Len(a) \in Nat, \A i \in 1..Len(a) : a[i] \in Nat
  PROVE  \A n \in 0..Len(a) : Sums(a)[n] \in Nat /\ Sums(a)[n] <= Total(a)
<1> DEFINE N == Len(a)
           S == Sums(a)
           T == {k \in 0..N : S[N - k] <= S[N]}
<1>1. /\ N \in Nat /\ S \in [0..N -> Nat]
      /\ \A n \in 1..N : S[n] = S[n - 1] + a[n] /\ a[n] \in Nat
  BY SumsDef
<1> HIDE DEF N, S
<1>2. 0 \in T
  BY <1>1
<1>3. ASSUME NEW k \in 1..N, k - 1 \in T PROVE k \in T
  <2> DEFINE m == N - k
  <2>1. m \in 0..N /\ m + 1 \in 1..N /\ N - (k - 1) = m + 1 /\ k \in 0..N
    BY <1>1
  <2>2. S[m + 1] <= S[N]
    BY <1>3, <2>1
  <2>3. S[m + 1] = S[(m + 1) - 1] + a[m + 1] /\ a[m + 1] \in Nat /\ (m + 1) - 1 = m
    BY <1>1, <2>1
  <2>4. S[m] \in Nat /\ S[N] \in Nat /\ S[m + 1] \in Nat
    BY <1>1, <2>1
  <2>5. S[m] <= S[N]
    <3> HIDE DEF m
    <3> QED BY <2>2, <2>3, <2>4
  <2> QED BY <2>1, <2>5
<1>4. \A k \in 0..N : k \in T
  <2> HIDE DEF T
  <2> QED BY <1>1, <1>2, <1>3, Induction
<1>5. ASSUME NEW n \in 0..N PROVE S[n] \in Nat /\ S[n] <= S[N]
  <2>1. N - n \in T /\ N - (N - n) = n
    <3>1. N - n \in 0..N /\ N - (N - n) = n
      BY <1>1
    <3> HIDE DEF T
    <3> QED BY <1>4, <3>1
  <2> QED BY <2>1, <1>1
<1> QED BY <1>5 DEF N, S, Total

\* A number below the modulus is not changed.
LEMMA ModSmall ==
  ASSUME NEW M \in Nat \ {0}, NEW x \in Nat, x < M
  PROVE  x % M = x
<1> DEFINE q == x \div M
<1>1. q \in Int /\ x = M * q + (x % M) /\ x % M \in Int /\ 0 <= x % M /\ x % M < M
  BY SMT
<1> HIDE DEF q
<1>2. q > -1 /\ q < 1
  BY <1>1, SMT
<1>3. q = 0
  BY <1>1, <1>2, SMT
<1> QED BY <1>1, <1>3, SMT

\* Amounts keeps the length and gives numbers.
LEMMA AmountsAreNat ==
  ASSUME NEW entries, EntriesOK(entries)
  PROVE  /\ Len(Amounts(entries)) = Len(entries)
         /\ \A i \in 1..Len(entries) :
              Amounts(entries)[i] = entries[i].sat /\ Amounts(entries)[i] \in Nat
  BY DEF EntriesOK, Amounts

\* One amount more of a total with limits.
CheckedNext(t, x) ==
  IF t # None /\ atomic_in_money_range(x) /\ t <= UINT64_MAX - x /\ atomic_in_money_range(t + x)
  THEN t + x ELSE None

\* The equation of CheckedSums, for a function g over the first m amounts.
IsChecked(g, a, m) ==
  g = [n \in 0..m |-> IF n = 0 THEN 0 ELSE CheckedNext(g[n - 1], a[n])]

\* Such a function exists, so CheckedSums satisfies its definition.
LEMMA CheckedDef ==
  ASSUME NEW a, Len(a) \in Nat
  PROVE  /\ CheckedSums(a)[0] = 0
         /\ \A n \in 1..Len(a) : CheckedSums(a)[n] = CheckedNext(CheckedSums(a)[n - 1], a[n])
<1> DEFINE N == Len(a)
           T == {m \in 0..N : \E g : IsChecked(g, a, m)}
<1> HIDE DEF N
<1>0. N \in Nat
  BY DEF N
<1>1. 0 \in T
  <2>1. IsChecked([n \in 0..0 |-> 0], a, 0)
    BY DEF IsChecked
  <2> QED BY <2>1, <1>0
<1>2. ASSUME NEW m \in 1..N, m - 1 \in T PROVE m \in T
  <2>1. PICK g : IsChecked(g, a, m - 1)
    BY <1>2
  <2> DEFINE h == [n \in 0..m |-> IF n = m THEN CheckedNext(g[m - 1], a[m]) ELSE g[n]]
  <2>2. ASSUME NEW n \in 0..m PROVE h[n] = IF n = 0 THEN 0 ELSE CheckedNext(h[n - 1], a[n])
    <3>1. CASE n = m
      <4>1. m \in 0..m /\ m - 1 \in 0..m /\ m # 0 /\ m - 1 # m
        BY <1>0
      <4> QED BY <3>1, <4>1
    <3>2. CASE n # m
      <4>1. n \in 0..(m - 1) /\ (n # 0 => n - 1 \in 0..m /\ n - 1 # m)
        BY <1>0, <3>2
      <4>2. g[n] = IF n = 0 THEN 0 ELSE CheckedNext(g[n - 1], a[n])
        BY <2>1, <4>1 DEF IsChecked
      <4> QED BY <3>2, <4>1, <4>2
    <3> QED BY <3>1, <3>2
  <2>3. IsChecked(h, a, m)
    BY <2>2 DEF IsChecked
  <2>4. \E f : IsChecked(f, a, m)
    <3> HIDE DEF h
    <3> QED BY <2>3
  <2> QED BY <2>4, <1>0
<1>3. N \in T
  <2> HIDE DEF T
  <2>1. \A m \in 0..N : m \in T
    BY <1>0, <1>1, <1>2, Induction
  <2> QED BY <2>1, <1>0
<1>4. PICK g : IsChecked(g, a, N)
  BY <1>3
<1>5. IsChecked(CheckedSums(a), a, N)
  BY <1>4 DEF CheckedSums, IsChecked, CheckedNext, N
<1>6. \A n \in 0..N :
        CheckedSums(a)[n] = IF n = 0 THEN 0 ELSE CheckedNext(CheckedSums(a)[n - 1], a[n])
  BY <1>5 DEF IsChecked
<1>7. 0 \in 0..N /\ \A n \in 1..N : n \in 0..N /\ n # 0
  BY <1>0
<1> QED BY <1>6, <1>7, Zenon DEF N

\* A total that passed the limits is the true one.
LEMMA CheckedIsTotal ==
  ASSUME NEW a, Len(a) \in Nat, \A i \in 1..Len(a) : a[i] \in Nat, CheckedTotal(a) # None
  PROVE  CheckedTotal(a) = Total(a) /\ Total(a) \in Nat
<1> DEFINE N == Len(a)
           S == Sums(a)
           C == CheckedSums(a)
           T == {n \in 0..N : C[n] = None \/ C[n] = S[n]}
<1>1. /\ N \in Nat /\ S \in [0..N -> Nat] /\ S[0] = 0
      /\ \A n \in 1..N : S[n] = S[n - 1] + a[n] /\ a[n] \in Nat
  BY SumsDef
<1>2. C[0] = 0 /\ \A n \in 1..N : C[n] = CheckedNext(C[n - 1], a[n])
  BY CheckedDef
<1> HIDE DEF N, S, C
<1>3. 0 \in T
  BY <1>1, <1>2
<1>4. ASSUME NEW n \in 1..N, n - 1 \in T PROVE n \in T
  <2>1. n \in 0..N /\ C[n] = CheckedNext(C[n - 1], a[n]) /\ S[n] = S[n - 1] + a[n]
    BY <1>1, <1>2
  <2>2. C[n - 1] = None => C[n] = None
    BY <2>1 DEF CheckedNext
  <2>3. C[n - 1] = S[n - 1] => C[n] = None \/ C[n] = S[n]
    BY <2>1 DEF CheckedNext
  <2> QED BY <1>4, <2>1, <2>2, <2>3
<1>5. \A n \in 0..N : n \in T
  <2> HIDE DEF T
  <2> QED BY <1>1, <1>3, <1>4, Induction
<1>6. N \in T
  <2> HIDE DEF T
  <2> QED BY <1>1, <1>5
<1>7. C[N] # None /\ S[N] \in Nat
  BY <1>1 DEF C, N, CheckedTotal
<1> QED BY <1>6, <1>7 DEF C, N, S, Total, CheckedTotal

\* MwebAmounts keeps the length and gives numbers.
LEMMA MwebAmountsAreNat ==
  ASSUME NEW entries, EntriesOK(entries)
  PROVE  /\ Len(MwebAmounts(entries)) = Len(entries)
         /\ \A i \in 1..Len(entries) : MwebAmounts(entries)[i] \in Nat
  BY DEF EntriesOK, MwebAmounts

\* An addition that did not overflow is the true one.
LEMMA AddIsSum ==
  ASSUME NEW a, NEW b, atomic_u64_add(a, b) # None
  PROVE  a # None /\ b # None /\ atomic_u64_add(a, b) = a + b
  BY DEF atomic_u64_add

\* The true sums of a PSBT that passed the checks of a session balance.
LEMMA AcceptedBalances ==
  ASSUME NEW d \in Docs, SessionAccepts(d)
  PROVE  Total(MwebAmounts(d.inputs)) + d.kernels[1].pegin
           = Total(MwebAmounts(d.outputs)) + d.kernels[1].fee + Total(Amounts(d.kernels[1].pegouts))
<1> DEFINE k == d.kernels[1]
           ins == CheckedTotal(MwebAmounts(d.inputs))
           outs == CheckedTotal(MwebAmounts(d.outputs))
           pegs == CheckedTotal(Amounts(k.pegouts))
<1>1. EntriesOK(d.inputs) /\ EntriesOK(d.outputs) /\ EntriesOK(k.pegouts)
  <2>1. 1 \in DOMAIN d.kernels
    <3>1. Len(d.kernels) = 1
      BY DEF SessionAccepts, SessionPossible
    <3> QED BY <3>1, DocsAssumption
  <2> QED BY <2>1, DocsAssumption
<1>2. /\ atomic_u64_add(ins, k.pegin) # None
      /\ atomic_u64_add(atomic_u64_add(outs, k.fee), pegs) # None
      /\ atomic_u64_add(ins, k.pegin) = atomic_u64_add(atomic_u64_add(outs, k.fee), pegs)
  BY Zenon DEF SessionAccepts, Balanced
<1> HIDE DEF ins, outs, pegs
<1>3. ins # None /\ atomic_u64_add(ins, k.pegin) = ins + k.pegin
  BY <1>2, AddIsSum
<1>4. /\ pegs # None /\ atomic_u64_add(outs, k.fee) # None
      /\ atomic_u64_add(atomic_u64_add(outs, k.fee), pegs) = atomic_u64_add(outs, k.fee) + pegs
  BY <1>2, AddIsSum
<1>5. outs # None /\ atomic_u64_add(outs, k.fee) = outs + k.fee
  BY <1>4, AddIsSum
<1>6. ins = Total(MwebAmounts(d.inputs))
  BY <1>1, <1>3, MwebAmountsAreNat, CheckedIsTotal DEF ins, EntriesOK
<1>7. outs = Total(MwebAmounts(d.outputs))
  BY <1>1, <1>5, MwebAmountsAreNat, CheckedIsTotal DEF outs, EntriesOK
<1>8. pegs = Total(Amounts(k.pegouts))
  BY <1>1, <1>4, AmountsAreNat, CheckedIsTotal DEF pegs, EntriesOK
<1> QED BY <1>2, <1>3, <1>4, <1>5, <1>6, <1>7, <1>8

-----------------------------------------------------------------------------
(* The request and the session *)

\* The inputs and outputs of a PSBT are sequences.
LEMMA DocFacts ==
  ASSUME NEW d \in Docs
  PROVE  /\ DOMAIN d.inputs = 1..Len(d.inputs) /\ Len(d.inputs) \in Nat
         /\ DOMAIN d.outputs = 1..Len(d.outputs) /\ Len(d.outputs) \in Nat
         /\ d # None
  BY DocsAssumption DEF EntriesOK

\* The pegouts of a PSBT with a session are a sequence.
LEMMA KernelFacts ==
  ASSUME NEW d \in Docs, SessionAccepts(d)
  PROVE  /\ Len(d.kernels[1].pegouts) \in Nat
         /\ DOMAIN d.kernels[1].pegouts = 1..Len(d.kernels[1].pegouts)
<1>1. Len(d.kernels) = 1
  BY DEF SessionAccepts, SessionPossible
<1>2. 1 \in DOMAIN d.kernels
  BY <1>1, DocsAssumption
<1> QED BY <1>2, DocsAssumption DEF EntriesOK

\* Every step keeps DocInv and AnswerInv.
LEMMA DocStep == ASSUME DocInv, AnswerInv, [Next]_vars PROVE (DocInv /\ AnswerInv)'
<1>0. None \notin Docs BY DocsAssumption
<1> USE <1>0 DEF Scan
<1>1. CASE deserialise_psbt
  <2>1. DocInv'
    BY <1>1, SMTT(20) DEF deserialise_psbt, DocInv
  <2>2. AnswerInv'
    BY <1>1, SMTT(20) DEF deserialise_psbt, DocInv, AnswerInv, Reading, Showing
  <2> QED BY <2>1, <2>2
<1>2. CASE params_txn_validate
  <2>1. DocInv'
    BY <1>2, SMTT(20) DEF params_txn_validate, Fail, DocInv
  <2>2. AnswerInv'
    BY <1>2, SMTT(20) DEF params_txn_validate, Fail, DocInv, AnswerInv, Reading, Showing
  <2> QED BY <2>1, <2>2
<1>3. CASE ReadMwebInput
  <2>1. DocInv'
    BY <1>3, SMTT(20) DEF ReadMwebInput, Fail, DocInv
  <2>2. AnswerInv'
    BY <1>3, SMTT(20) DEF ReadMwebInput, Fail, DocInv, AnswerInv, Reading, Showing
  <2> QED BY <2>1, <2>2
<1>4. CASE ReadInput
  <2>1. DocInv'
    BY <1>4, SMTT(20) DEF ReadInput, Fail, DocInv
  <2>2. AnswerInv'
    BY <1>4, SMTT(20) DEF ReadInput, Fail, DocInv, AnswerInv, Reading, Showing
  <2> QED BY <2>1, <2>2
<1>5. CASE InputsRead
  <2>1. DocInv'
    BY <1>5, SMTT(20) DEF InputsRead, DocInv
  <2>2. AnswerInv'
    BY <1>5, SMTT(20) DEF InputsRead, DocInv, AnswerInv, Reading, Showing
  <2> QED BY <2>1, <2>2
<1>6. CASE psbt_update_outputs
  <2>1. DocInv'
    BY <1>6, SMTT(20) DEF psbt_update_outputs, DocInv
  <2>2. AnswerInv'
    BY <1>6, SMTT(20) DEF psbt_update_outputs, DocInv, AnswerInv, Reading, Showing
  <2> QED BY <2>1, <2>2
<1>7. CASE CheckAmounts
  <2>1. DocInv'
    BY <1>7, SMTT(20) DEF CheckAmounts, Fail, DocInv
  <2>2. AnswerInv'
    BY <1>7, SMTT(20) DEF CheckAmounts, Fail, DocInv, AnswerInv, Reading, Showing
  <2> QED BY <2>1, <2>2
<1>8. CASE BeginSession
  <2>1. DocInv'
    BY <1>8, SMTT(20) DEF BeginSession, Fail, mweb_session_abort, Restore, DocInv
  <2>2. AnswerInv'
    BY <1>8, SMTT(20) DEF
      BeginSession, Fail, mweb_session_abort, Restore, DocInv, AnswerInv, Reading, Showing
  <2> QED BY <2>1, <2>2
<1>9. CASE ShowOutputs
  <2>1. DocInv'
    BY <1>9, SMTT(20) DEF ShowOutputs, Accept, Fail, DocInv
  <2>2. AnswerInv'
    BY <1>9, SMTT(20) DEF ShowOutputs, Accept, Fail, DocInv, AnswerInv, Reading, Showing
  <2> QED BY <2>1, <2>2
<1>10. CASE ShowMwebOutput
  <2>1. DocInv'
    BY <1>10, SMTT(20) DEF ShowMwebOutput, Accept, Fail, DocInv
  <2>2. AnswerInv'
    BY <1>10, SMTT(20) DEF ShowMwebOutput, Accept, Fail, DocInv, AnswerInv, Reading, Showing
  <2> QED BY <2>1, <2>2
<1>11. CASE MwebOutputsShown
  <2>1. DocInv'
    BY <1>11, SMTT(20) DEF MwebOutputsShown, DocInv
  <2>2. AnswerInv'
    BY <1>11, SMTT(20) DEF MwebOutputsShown, DocInv, AnswerInv, Reading, Showing
  <2> QED BY <2>1, <2>2
<1>12. CASE ShowPegout
  <2>1. DocInv'
    BY <1>12, SMTT(20) DEF ShowPegout, Accept, Fail, DocInv
  <2>2. AnswerInv'
    BY <1>12, SMTT(20) DEF ShowPegout, Accept, Fail, DocInv, AnswerInv, Reading, Showing
  <2> QED BY <2>1, <2>2
<1>13. CASE ShowPegin
  <2>1. DocInv'
    BY <1>13, SMTT(20) DEF ShowPegin, Accept, Fail, DocInv
  <2>2. AnswerInv'
    BY <1>13, SMTT(20) DEF ShowPegin, Accept, Fail, DocInv, AnswerInv, Reading, Showing
  <2> QED BY <2>1, <2>2
<1>14. CASE ShowFee
  <2>1. DocInv'
    BY <1>14, SMTT(20) DEF ShowFee, Accept, Fail, DocInv
  <2>2. AnswerInv'
    BY <1>14, SMTT(20) DEF ShowFee, Accept, Fail, DocInv, AnswerInv, Reading, Showing
  <2> QED BY <2>1, <2>2
<1>15. CASE SignInput
  <2>1. DocInv'
    BY <1>15, SMTT(20) DEF SignInput, Fail, DocInv
  <2>2. AnswerInv'
    BY <1>15, SMTT(20) DEF SignInput, Fail, DocInv, AnswerInv, Reading, Showing
  <2> QED BY <2>1, <2>2
<1>16. CASE InputsSigned
  <2>1. DocInv'
    BY <1>16, SMTT(20) DEF InputsSigned, DocInv
  <2>2. AnswerInv'
    BY <1>16, SMTT(20) DEF InputsSigned, DocInv, AnswerInv, Reading, Showing
  <2> QED BY <2>1, <2>2
<1>17. CASE CommitPart
  <2>1. DocInv'
    BY <1>17, SMTT(20) DEF
      CommitPart, CommitFails, Fail, mweb_session_abort, Restore, WritePart, DocInv
  <2>2. AnswerInv'
    BY <1>17, SMTT(20) DEF
      CommitPart, CommitFails, Fail, mweb_session_abort, Restore, WritePart, DocInv,
      AnswerInv, Reading, Showing
  <2> QED BY <2>1, <2>2
<1>18. CASE CommitKernel
  <2>1. DOMAIN content' = DOMAIN content
    BY <1>18, Zenon DEF CommitKernel, CommitFails, mweb_session_abort, Restore, WriteKernel
  <2>2. doc' = doc /\ pc' = "cleanup" /\ pc # "idle" /\ answer' \in {"refused", "signed"}
    BY <1>18 DEF CommitKernel, CommitFails, Fail
  <2>3. doc # None
    BY <1>18 DEF CommitKernel, DocInv
  <2>4. DocInv'
    BY <2>1, <2>2, <2>3 DEF DocInv
  <2>5. AnswerInv'
    BY <2>2, <2>3 DEF AnswerInv, Reading, Showing
  <2> QED BY <2>4, <2>5
<1>19. CASE Cleanup
  <2>1. DocInv'
    BY <1>19, SMTT(20) DEF Cleanup, serialise_psbt, mweb_session_abort, Restore, DocInv
  <2>2. AnswerInv'
    BY <1>19, SMTT(20) DEF
      Cleanup, serialise_psbt, mweb_session_abort, Restore, DocInv, AnswerInv, Reading, Showing
  <2> QED BY <2>1, <2>2
<1>20. CASE SendChunk
  <2>1. DocInv'
    BY <1>20, SMTT(20) DEF SendChunk, DocInv
  <2>2. AnswerInv'
    BY <1>20, SMTT(20) DEF SendChunk, DocInv, AnswerInv, Reading, Showing
  <2> QED BY <2>1, <2>2
<1>21. CASE check_extended_data_fields
  <2>1. DocInv'
    BY <1>21, SMTT(20) DEF check_extended_data_fields, DocInv
  <2>2. AnswerInv'
    BY <1>21, SMTT(20) DEF check_extended_data_fields, DocInv, AnswerInv, Reading, Showing
  <2> QED BY <2>1, <2>2
<1>22. CASE Exit
  <2>1. DocInv'
    BY <1>22, SMTT(20) DEF Exit, Reset, DocInv
  <2>2. AnswerInv'
    BY <1>22, SMTT(20) DEF Exit, Reset, DocInv, AnswerInv, Reading, Showing
  <2> QED BY <2>1, <2>2
<1>23. CASE UNCHANGED vars
  BY <1>23 DEF vars, AnswerInv, DocInv, Reading, Showing
<1> QED
  BY <1>1, <1>2, <1>3, <1>4, <1>5, <1>6, <1>7, <1>8, <1>9, <1>10, <1>11, <1>12,
     <1>13, <1>14, <1>15, <1>16, <1>17, <1>18, <1>19, <1>20, <1>21, <1>22, <1>23 DEF Next

\* Marking a pegout leaves the session of the PSBT.
LEMMA SessionUpdate ==
  ASSUME NEW a, NEW b, NEW c, NEW d, NEW e, NEW f, NEW g
  PROVE  [[snapshot |-> a, fee |-> b, pegin |-> c, values |-> d, pegouts |-> e, confirmed |-> f]
            EXCEPT !.confirmed = g]
         = [snapshot |-> a, fee |-> b, pegin |-> c, values |-> d, pegouts |-> e, confirmed |-> g]
  OBVIOUS

\* The session of a PSBT is not None.
LEMMA SessionExists ==
  ASSUME NEW d \in Docs, SessionPossible(d), NEW shown \in SUBSET DOMAIN d.kernels[1].pegouts
  PROVE  SessionOf(d, shown) # None
<1>1. [mweb_session_begin(d, [p \in Parts(d) |-> "host"], AllSnapshots(d))
         EXCEPT !.confirmed = shown] = SessionOf(d, shown)
  <2> DEFINE v == [j \in MwebOutputs(d) |-> d.outputs[j].sat]
  <2>1. mweb_session_begin(d, [p \in Parts(d) |-> "host"], AllSnapshots(d))
        = [snapshot |-> Clean(d), fee |-> d.kernels[1].fee, pegin |-> d.kernels[1].pegin,
           values |-> v, pegouts |-> d.kernels[1].pegouts, confirmed |-> {}]
    BY Zenon DEF mweb_session_begin, AllSnapshots, Snapshot, Clean
  <2>2. SessionOf(d, shown)
        = [snapshot |-> Clean(d), fee |-> d.kernels[1].fee, pegin |-> d.kernels[1].pegin,
           values |-> v, pegouts |-> d.kernels[1].pegouts, confirmed |-> shown]
    BY DEF SessionOf
  <2> HIDE DEF v
  <2> QED BY <2>1, <2>2, SessionUpdate
<1> QED BY <1>1, NoneAssumption

\* Every step keeps SessionInv.
LEMMA SessionStep ==
  ASSUME DocInv, AnswerInv, ContentInv, SessionInv, [Next]_vars PROVE SessionInv'
<1> USE DEF Scan
<1>1. CASE deserialise_psbt
  <2>1. SessionInv'
    BY <1>1, SMTT(20) DEF
      deserialise_psbt, SessionInv, DocInv, AnswerInv, SessionIs, HasMweb, Showing, Reading,
      for_liquid
  <2> QED BY <2>1
<1>2. CASE params_txn_validate
  <2>1. SessionInv'
    BY <1>2, SMTT(20) DEF
      params_txn_validate, Fail, SessionInv, DocInv, AnswerInv, SessionIs, HasMweb, Showing,
      Reading, for_liquid
  <2> QED BY <2>1
<1>3. CASE ReadMwebInput
  <2>1. SessionInv'
    BY <1>3, SMTT(20) DEF
      ReadMwebInput, Fail, SessionInv, DocInv, AnswerInv, SessionIs, HasMweb, Showing,
      Reading, for_liquid
  <2> QED BY <2>1
<1>4. CASE ReadInput
  <2>1. SessionInv'
    BY <1>4, SMTT(20) DEF
      ReadInput, Fail, SessionInv, DocInv, AnswerInv, SessionIs, HasMweb, Showing, Reading,
      for_liquid
  <2> QED BY <2>1
<1>5. CASE InputsRead
  <2>1. SessionInv'
    BY <1>5, SMTT(20) DEF
      InputsRead, SessionInv, DocInv, AnswerInv, SessionIs, HasMweb, Showing, Reading,
      for_liquid
  <2> QED BY <2>1
<1>6. CASE psbt_update_outputs
  <2>1. SessionInv'
    BY <1>6, SMTT(20) DEF
      psbt_update_outputs, SessionInv, DocInv, AnswerInv, SessionIs, HasMweb, Showing,
      Reading, for_liquid
  <2> QED BY <2>1
<1>7. CASE CheckAmounts
  <2>1. doc \in Docs /\ session = None
    BY <1>7 DEF CheckAmounts, DocInv, SessionInv, Showing
  <2>2. for_liquid => ~HasMweb
    BY <2>1, DocsAssumption DEF for_liquid, HasMweb
  <2>3. doc' = doc /\ session' = session /\ pc' \in {"show_outputs", "cleanup", "restart", "begin"}
    BY <1>7 DEF CheckAmounts, Fail
  <2>4. pc' = "show_outputs" => for_liquid
    BY <1>7 DEF CheckAmounts, Fail
  <2>5. pc' = "begin" => ~for_liquid
    BY <1>7 DEF CheckAmounts, Fail
  <2>6. answer' # "signed"
    BY <1>7 DEF CheckAmounts, Fail, AnswerInv, Reading
  <2> QED
    BY <2>1, <2>2, <2>3, <2>4, <2>5, <2>6 DEF SessionInv, HasMweb, for_liquid, Showing
<1>8. CASE BeginSession
  <2>1. doc \in Docs /\ doc' = doc /\ content = Clean(doc) /\ answer' # "signed" /\ session = None
    BY <1>8 DEF BeginSession, DocInv, ContentInv, Reading, AnswerInv, Fail, SessionInv, Showing
  <2>2. CASE pc' = "show_outputs" /\ ~HasMweb /\ session' = session
    BY <2>1, <2>2 DEF SessionInv, HasMweb, Showing
  <2>3. CASE /\ pc' = "show_outputs" /\ HasMweb /\ SessionAccepts(doc)
             /\ session' = mweb_session_begin(doc, content, AllSnapshots(doc))
    <3>1. session' = SessionOf(doc, {})
      BY <2>1, <2>3 DEF mweb_session_begin, AllSnapshots, Snapshot, SessionOf, Clean
    <3>2. SessionOf(doc, {}) # None
      BY <2>1, <2>3, SessionExists DEF SessionAccepts
    <3>3. SessionIs(session)'
      BY <2>1, <2>3, <3>1, Zenon DEF SessionIs, HasMweb
    <3> QED
      BY <2>1, <2>3, <3>1, <3>2, <3>3 DEF SessionInv, HasMweb, Showing
  <2>4. CASE pc' = "cleanup" /\ session' = session
    BY <2>1, <2>4 DEF SessionInv, Showing
  <2> QED
    BY <1>8, <2>1, <2>2, <2>3, <2>4, Zenon DEF BeginSession, Fail, HasMweb
<1>9. CASE ShowOutputs
  <2>1. SessionInv'
    BY <1>9, SMTT(20) DEF
      ShowOutputs, Accept, Fail, SessionInv, DocInv, AnswerInv, SessionIs, HasMweb, Showing,
      Reading, for_liquid
  <2> QED BY <2>1
<1>10. CASE ShowMwebOutput
  <2>1. SessionInv'
    BY <1>10, SMTT(20) DEF
      ShowMwebOutput, Accept, Fail, SessionInv, DocInv, AnswerInv, SessionIs, HasMweb,
      Showing, Reading, for_liquid
  <2> QED BY <2>1
<1>11. CASE MwebOutputsShown
  <2>1. SessionInv'
    BY <1>11, SMTT(20) DEF
      MwebOutputsShown, SessionInv, DocInv, AnswerInv, SessionIs, HasMweb, Showing, Reading,
      for_liquid
  <2> QED BY <2>1
<1>12. CASE ShowPegout
  <2>1. doc \in Docs /\ doc' = doc /\ SessionIs(session) /\ answer' # "signed" /\ pc = "pegouts"
    BY <1>12 DEF ShowPegout, DocInv, SessionInv, AnswerInv, Accept, Fail, Showing
  <2>2. PICK shown \in SUBSET DOMAIN doc.kernels[1].pegouts : session = SessionOf(doc, shown)
    BY <2>1 DEF SessionIs
  <2>3. session.pegouts = doc.kernels[1].pegouts /\ session.confirmed = shown
    BY <2>2 DEF SessionOf
  <2>4. SessionPossible(doc) /\ EntriesOK(doc.kernels[1].pegouts)
    BY <2>1, DocsAssumption DEF SessionIs, SessionAccepts, SessionPossible
  <2>5. index \in DOMAIN doc.kernels[1].pegouts /\ index' = index + 1 /\ index \in Nat
    BY <1>12, <2>3, <2>4 DEF ShowPegout, SessionInv, EntriesOK
  <2>6. shown \cup {index} \in SUBSET DOMAIN doc.kernels[1].pegouts
    BY <2>5
  <2>7. mweb_session_mark_pegout_confirmed(session, index) = SessionOf(doc, shown \cup {index})
    <3> DEFINE v == [j \in MwebOutputs(doc) |-> doc.outputs[j].sat]
    <3>1. \A c : SessionOf(doc, c)
          = [snapshot |-> Clean(doc), fee |-> doc.kernels[1].fee, pegin |-> doc.kernels[1].pegin,
             values |-> v, pegouts |-> doc.kernels[1].pegouts, confirmed |-> c]
      BY DEF SessionOf
    <3>2. mweb_session_mark_pegout_confirmed(session, index)
          = [session EXCEPT !.confirmed = shown \cup {index}]
      BY <2>3 DEF mweb_session_mark_pegout_confirmed
    <3> DEFINE r == [snapshot |-> Clean(doc), fee |-> doc.kernels[1].fee,
                     pegin |-> doc.kernels[1].pegin, values |-> v,
                     pegouts |-> doc.kernels[1].pegouts, confirmed |-> shown]
    <3>3. session = r
      BY <2>2, <3>1
    <3>4. [r EXCEPT !.confirmed = shown \cup {index}]
          = [snapshot |-> Clean(doc), fee |-> doc.kernels[1].fee, pegin |-> doc.kernels[1].pegin,
             values |-> v, pegouts |-> doc.kernels[1].pegouts, confirmed |-> shown \cup {index}]
      <4> HIDE DEF v
      <4> QED BY SessionUpdate
    <3>5. SessionOf(doc, shown \cup {index}) = [r EXCEPT !.confirmed = shown \cup {index}]
      <4> HIDE DEF v, r
      <4> QED BY <3>1, <3>4, Zenon
    <3> HIDE DEF r
    <3> QED BY <3>2, <3>3, <3>5, Zenon
  <2>8. session' \in {session, SessionOf(doc, shown \cup {index})}
    BY <1>12, <2>7, Zenon DEF ShowPegout
  <2>9. SessionIs(session)' /\ session' # None
    BY <2>1, <2>2, <2>4, <2>6, <2>8, SessionExists DEF SessionIs, HasMweb
  <2>10. pc' \in {"pegouts", "cleanup"}
    BY <1>12 DEF ShowPegout, Accept, Fail
  <2> QED
    BY <2>1, <2>5, <2>9, <2>10 DEF SessionInv, SessionIs, HasMweb, Showing
<1>13. CASE ShowPegin
  <2>1. SessionInv'
    BY <1>13, SMTT(20) DEF
      ShowPegin, Accept, Fail, SessionInv, DocInv, AnswerInv, SessionIs, HasMweb, Showing,
      Reading, for_liquid
  <2> QED BY <2>1
<1>14. CASE ShowFee
  <2>1. SessionInv'
    BY <1>14, SMTT(20) DEF
      ShowFee, Accept, Fail, SessionInv, DocInv, AnswerInv, SessionIs, HasMweb, Showing,
      Reading, for_liquid
  <2> QED BY <2>1
<1>15. CASE SignInput
  <2>1. SessionInv'
    BY <1>15, SMTT(20) DEF
      SignInput, Fail, SessionInv, DocInv, AnswerInv, SessionIs, HasMweb, Showing, Reading,
      for_liquid
  <2> QED BY <2>1
<1>16. CASE InputsSigned
  <2>1. SessionInv'
    BY <1>16, SMTT(20) DEF
      InputsSigned, SessionInv, DocInv, AnswerInv, SessionIs, HasMweb, Showing, Reading,
      for_liquid
  <2> QED BY <2>1
<1>17. CASE CommitPart
  <2>1. SessionInv'
    BY <1>17, SMTT(20) DEF
      CommitPart, CommitFails, Fail, SessionInv, DocInv, AnswerInv, SessionIs, HasMweb,
      Showing, Reading, for_liquid
  <2> QED BY <2>1
<1>18. CASE CommitKernel
  <2>1. session' = None /\ pc' = "cleanup"
    BY <1>18 DEF CommitKernel, CommitFails, Fail
  <2> QED BY <2>1 DEF SessionInv, Showing
<1>19. CASE Cleanup
  <2>1. SessionInv'
    BY <1>19, SMTT(20) DEF
      Cleanup, serialise_psbt, SessionInv, DocInv, AnswerInv, SessionIs, HasMweb, Showing, Reading,
      for_liquid
  <2> QED BY <2>1
<1>20. CASE SendChunk
  <2>1. SessionInv'
    BY <1>20, SMTT(20) DEF
      SendChunk, SessionInv, DocInv, AnswerInv, SessionIs, HasMweb, Showing, Reading,
      for_liquid
  <2> QED BY <2>1
<1>21. CASE check_extended_data_fields
  <2>1. SessionInv'
    BY <1>21, SMTT(20) DEF
      check_extended_data_fields, SessionInv, DocInv, AnswerInv, SessionIs, HasMweb,
      Showing, Reading, for_liquid
  <2> QED BY <2>1
<1>22. CASE Exit
  <2>1. SessionInv'
    BY <1>22, SMTT(20) DEF
      Exit, Reset, SessionInv, DocInv, AnswerInv, SessionIs, HasMweb, Showing, Reading,
      for_liquid
  <2> QED BY <2>1
<1>23. CASE UNCHANGED vars
  BY <1>23 DEF
    vars, AnswerInv, DocInv, HasMweb, Reading, SessionInv, SessionIs, Showing, for_liquid
<1> QED
  BY <1>1, <1>2, <1>3, <1>4, <1>5, <1>6, <1>7, <1>8, <1>9, <1>10, <1>11, <1>12,
     <1>13, <1>14, <1>15, <1>16, <1>17, <1>18, <1>19, <1>20, <1>21, <1>22, <1>23 DEF Next

-----------------------------------------------------------------------------
(* Reading the PSBT *)

\* What was found depends on the PSBT, the flags and the record only.
LEMMA ScanFrame ==
  ASSUME UNCHANGED <<doc, sig_types, signing_flags, record>>
  PROVE  \A n \in Nat : ScanIs(n)' <=> ScanIs(n)
  BY DEF ScanIs, Found, OurInputs, is_green_multisig_signers, ScriptMatches

\* One input more.
LEMMA FoundNext ==
  ASSUME doc \in Docs, doc' = doc, index \in Nat, index' = index + 1
  PROVE  Found(index)' = IF index \in OurInputs THEN Found(index) \cup {index} ELSE Found(index)
<1>1. DOMAIN doc.inputs = 1..Len(doc.inputs) /\ Len(doc.inputs) \in Nat
  BY DocsAssumption DEF EntriesOK
<1>2. OurInputs' = OurInputs /\ OurInputs \subseteq Nat
  BY <1>1 DEF OurInputs
<1>3. \A i \in OurInputs : i < index' <=> i < index \/ i = index
  BY <1>2
<1>4. Found(index)' = {i \in OurInputs : i < index'}
  BY <1>2 DEF Found
<1> QED BY <1>3, <1>4, Zenon DEF Found

\* An input that is not signed changes nothing of what was found.
LEMMA SkipStep ==
  ASSUME doc \in Docs, doc' = doc, index \in Nat, index' = index + 1,
         index \notin OurInputs, ScanIs(index),
         UNCHANGED <<sig_types, signing_flags, record>>
  PROVE  ScanIs(index)'
<1>1. Found(index)' = Found(index)
  BY FoundNext
<1> QED BY <1>1 DEF ScanIs, is_green_multisig_signers, ScriptMatches

\* TrackRecord keeps what the flags and the record say, one input further.
LEMMA TrackStep ==
  ASSUME doc \in Docs, doc' = doc, index \in Nat, index' = index + 1,
         index \in OurInputs, ScanIs(index),
         sig_types' = sig_types \cup {index},
         signing_flags' = TrackRecord(doc.inputs[index])[1],
         record' = TrackRecord(doc.inputs[index])[2]
  PROVE  ScanIs(index)'
<1> DEFINE x == doc.inputs[index]
           F == signing_flags \cup {KeyFlag(x)}
           CA == "CHANGE_ABANDONED"
           SMR == "SINGLE_MULTISIG_RECORD"
           found == SuitableRecord(x)
<1>1. Found(index)' = Found(index) \cup {index}
  BY FoundNext
<1>3. /\ KeyFlag(x) \in {"SINGLESIG", "GREEN_MULTISIG", "MULTISIG"}
      /\ KeyFlag(x) = "SINGLESIG" => x.wallet = "single"
      /\ KeyFlag(x) = "GREEN_MULTISIG" => is_green_multisig_signers(x)
  BY DEF KeyFlag
<1>4. found = None \/ (found \in Records /\ ScriptMatches(found, x))
  BY DEF SuitableRecord
<1>5. \/ signing_flags' = F /\ record' = record /\ CA \in F
      \/ signing_flags' = F \cup {CA} /\ record' = record
      \/ /\ signing_flags' = F /\ record' = record /\ x.deep
         /\ F \cap {"SINGLESIG", "GREEN_MULTISIG"} = {}
      \/ /\ signing_flags' = F /\ record' = record /\ SMR \in F /\ ScriptMatches(record, x)
         /\ F \cap {"SINGLESIG", "GREEN_MULTISIG"} = {}
      \/ signing_flags' = F \cup {CA} /\ record' = found /\ SMR \notin F
      \/ /\ signing_flags' = F \cup {SMR} /\ record' = found /\ found # None /\ SMR \notin F
         /\ F \cap {"SINGLESIG", "GREEN_MULTISIG"} = {} /\ CA \notin F
  <2>1. CASE CA \in F
    BY <2>1, Zenon DEF TrackRecord
  <2>2. CASE CA \notin F /\ F \cap {"SINGLESIG", "GREEN_MULTISIG"} # {}
    BY <2>2, Zenon DEF TrackRecord
  <2>3. CASE CA \notin F /\ F \cap {"SINGLESIG", "GREEN_MULTISIG"} = {} /\ x.deep
    BY <2>3, Zenon DEF TrackRecord
  <2>4. CASE /\ CA \notin F /\ F \cap {"SINGLESIG", "GREEN_MULTISIG"} = {} /\ ~x.deep
             /\ SMR \in F
    BY <2>4, Zenon DEF TrackRecord
  <2>5. CASE /\ CA \notin F /\ F \cap {"SINGLESIG", "GREEN_MULTISIG"} = {} /\ ~x.deep
             /\ SMR \notin F
    BY <2>5, Zenon DEF TrackRecord
  <2> QED BY <2>1, <2>2, <2>3, <2>4, <2>5
<1> HIDE DEF found, x, F
<1>6. x = doc.inputs[index] /\ F = signing_flags \cup {KeyFlag(x)}
  BY DEF x, F
<1>7. sig_types' = Found(index) \cup {index}
  BY DEF ScanIs
<1>8. \A f \in {"SINGLESIG", "GREEN_MULTISIG"} : f \in signing_flags' => f \in F
  BY <1>5
<1> DEFINE S == Found(index) \cup {index}
<1>9. "SINGLESIG" \in signing_flags' => \E i \in S : doc.inputs[i].wallet = "single"
  BY <1>3, <1>6, <1>8 DEF ScanIs
<1>10. "GREEN_MULTISIG" \in signing_flags' =>
         \E i \in S : is_green_multisig_signers(doc.inputs[i])
  BY <1>3, <1>6, <1>8 DEF ScanIs
<1>11. SMR \in signing_flags' =>
         record' \in Records /\ \E i \in S : ScriptMatches(record', doc.inputs[i])
  BY <1>3, <1>4, <1>5, <1>6 DEF ScanIs
<1>12. {"SINGLESIG", "GREEN_MULTISIG"} \cap signing_flags' # {} => CA \in signing_flags'
  BY <1>5
<1>13. CA \notin signing_flags' =>
         \A i \in S : \/ doc.inputs[i].deep
                      \/ SMR \in signing_flags' /\ ScriptMatches(record', doc.inputs[i])
  BY <1>3, <1>4, <1>5, <1>6 DEF ScanIs
<1> QED
  BY <1>1, <1>7, <1>9, <1>10, <1>11, <1>12, <1>13 DEF
    ScanIs, is_green_multisig_signers, ScriptMatches

\* A step that leaves the flags and the record alone.
LEMMA TrackFrame ==
  ASSUME DocInv, TrackInv, UNCHANGED <<doc, Scan>>, pc' \notin {"inputs", "idle", "validate"},
         pc' \in Scanned => pc \in Scanned
  PROVE  TrackInv'
<1>1. CASE pc' \in Scanned
  <2>1. doc \in Docs /\ ScanIs(Len(doc.inputs) + 1)
    BY <1>1 DEF DocInv, TrackInv, Scanned, Showing
  <2>2. Len(doc.inputs) + 1 \in Nat /\ Len(doc.inputs)' = Len(doc.inputs)
    BY <2>1, DocsAssumption DEF EntriesOK
  <2>3. \A n \in Nat : ScanIs(n)' <=> ScanIs(n)
    BY ScanFrame DEF Scan
  <2>4. ScanIs(Len(doc.inputs) + 1)'
    BY <2>1, <2>2, <2>3 DEF ScanIs, Found, OurInputs, is_green_multisig_signers, ScriptMatches, Scan
  <2> QED BY <1>1, <2>4 DEF TrackInv, Scanned
<1>2. CASE pc' \notin Scanned
  BY <1>2 DEF TrackInv
<1> QED BY <1>1, <1>2

\* Every step keeps TrackInv.
LEMMA TrackStepInv ==
  ASSUME DocInv, TrackInv, [Next]_vars PROVE TrackInv'
<1> USE DEF Scan
<1>1. CASE deserialise_psbt
  <2>1. TrackInv'
    BY <1>1, SMTT(20) DEF deserialise_psbt, TrackInv, DocInv, Scanned, Showing
  <2> QED BY <2>1
<1>2. CASE params_txn_validate
  <2>1. doc \in Docs /\ doc' = doc /\ pc' \in {"inputs", "cleanup"}
    BY <1>2 DEF params_txn_validate, Fail, DocInv
  <2>2. CASE pc' = "cleanup"
    BY <2>2 DEF TrackInv, Scanned, Showing
  <2>3. CASE pc' = "inputs"
    <3>1. index' = 1 /\ sig_types' = {} /\ signing_flags' = {}
      BY <1>2, <2>3 DEF params_txn_validate, Fail, TrackInv, Scan
    <3>2. DOMAIN doc.inputs = 1..Len(doc.inputs) /\ Len(doc.inputs) \in Nat
      BY <2>1, DocsAssumption DEF EntriesOK
    <3>3. Found(index)' = {}
      BY <2>1, <3>1, <3>2 DEF Found, OurInputs
    <3>4. ScanIs(index)'
      BY <3>1, <3>3 DEF ScanIs
    <3> QED BY <2>1, <2>3, <3>1, <3>2, <3>4 DEF TrackInv, Scanned, Showing
  <2> QED BY <2>1, <2>2, <2>3
<1>3. CASE ReadMwebInput
  <2>1. doc \in Docs /\ doc' = doc /\ pc = "inputs" /\ pc' \in {"inputs", "cleanup"}
    BY <1>3 DEF ReadMwebInput, Fail, DocInv
  <2>2. DOMAIN doc.inputs = 1..Len(doc.inputs) /\ Len(doc.inputs) \in Nat
    BY <2>1, DocsAssumption DEF EntriesOK
  <2>3. index \in DOMAIN doc.inputs /\ index \in Nat /\ ScanIs(index)
    BY <1>3, <2>1, <2>2 DEF ReadMwebInput, TrackInv
  <2>4. CASE pc' = "cleanup"
    BY <2>4 DEF TrackInv, Scanned, Showing
  <2>5. CASE pc' = "inputs"
    <3>1. index' = index + 1
      BY <1>3, <2>1, <2>5 DEF ReadMwebInput, Fail
    <3>2. ScanIs(index)'
      <4>1. index \notin OurInputs /\ UNCHANGED <<sig_types, signing_flags, record>>
        BY <1>3 DEF ReadMwebInput, OurInputs
      <4> QED BY <2>1, <2>3, <3>1, <4>1, SkipStep
    <3> QED BY <2>1, <2>2, <2>3, <2>5, <3>1, <3>2 DEF TrackInv, Scanned, Showing
  <2> QED BY <2>1, <2>4, <2>5
<1>4. CASE ReadInput
  <2>1. doc \in Docs /\ doc' = doc /\ pc = "inputs" /\ pc' \in {"inputs", "cleanup"}
    BY <1>4 DEF ReadInput, Fail, DocInv
  <2>2. DOMAIN doc.inputs = 1..Len(doc.inputs) /\ Len(doc.inputs) \in Nat
    BY <2>1, DocsAssumption DEF EntriesOK
  <2>3. index \in DOMAIN doc.inputs /\ index \in Nat /\ ScanIs(index)
    BY <1>4, <2>1, <2>2 DEF ReadInput, TrackInv
  <2>4. CASE pc' = "cleanup"
    BY <2>4 DEF TrackInv, Scanned, Showing
  <2>5. CASE pc' = "inputs"
    <3>1. index' = index + 1
      BY <1>4, <2>1, <2>5 DEF ReadInput, Fail
    <3>2. ScanIs(index)'
      <4>1. ~doc.inputs[index].mweb /\ doc.inputs[index].ours \in Nat
        BY <1>4, <2>1, <2>3, DocsAssumption DEF ReadInput
      <4>2. CASE doc.inputs[index].ours = 0 /\ UNCHANGED <<sig_types, signing_flags, record>>
        <5>1. index \notin OurInputs
          BY <4>2 DEF OurInputs
        <5> QED BY <2>1, <2>3, <3>1, <4>2, <5>1, SkipStep
      <4>3. CASE /\ doc.inputs[index].ours > 0
                 /\ sig_types' = sig_types \cup {index}
                 /\ signing_flags' = TrackRecord(doc.inputs[index])[1]
                 /\ record' = TrackRecord(doc.inputs[index])[2]
        <5>1. index \in OurInputs
          BY <2>3, <4>1, <4>3 DEF OurInputs
        <5> QED BY <2>1, <2>3, <3>1, <4>3, <5>1, TrackStep
      <4> QED BY <1>4, <2>1, <2>5, <4>2, <4>3 DEF ReadInput, Fail
    <3> QED BY <2>1, <2>2, <2>3, <2>5, <3>1, <3>2 DEF TrackInv, Scanned, Showing
  <2> QED BY <2>1, <2>4, <2>5
<1>5. CASE InputsRead
  <2>1. doc \in Docs /\ doc' = doc /\ pc = "inputs" /\ pc' = "outputs" /\ ScanIs(index)
    BY <1>5 DEF InputsRead, DocInv, TrackInv
  <2>2. Len(doc.inputs) \in Nat /\ index = Len(doc.inputs) + 1 /\ index' = index
    BY <1>5, <2>1, DocsAssumption DEF InputsRead, EntriesOK
  <2>3. UNCHANGED <<sig_types, signing_flags, record>>
    BY <1>5 DEF InputsRead, Scan
  <2>4. ScanIs(Len(doc.inputs) + 1)'
    BY <2>1, <2>2, <2>3 DEF ScanIs, Found, OurInputs, is_green_multisig_signers, ScriptMatches
  <2> QED BY <2>1, <2>4 DEF TrackInv, Scanned, Showing
<1>6. CASE psbt_update_outputs
  <2>1. UNCHANGED <<doc, Scan>> /\ pc' \notin {"inputs", "idle", "validate"}
    BY <1>6 DEF psbt_update_outputs
  <2>2. pc' \in Scanned => pc \in Scanned
    BY <1>6 DEF psbt_update_outputs, Scanned, Showing
  <2> QED BY <2>1, <2>2, TrackFrame
<1>7. CASE CheckAmounts
  <2>1. UNCHANGED <<doc, Scan>> /\ pc' \notin {"inputs", "idle", "validate"}
    BY <1>7 DEF CheckAmounts, Fail
  <2>2. pc' \in Scanned => pc \in Scanned
    BY <1>7 DEF CheckAmounts, Fail, Scanned, Showing
  <2> QED BY <2>1, <2>2, TrackFrame
<1>8. CASE BeginSession
  <2>1. UNCHANGED <<doc, Scan>> /\ pc' \notin {"inputs", "idle", "validate"}
    BY <1>8 DEF BeginSession, Fail
  <2>2. pc' \in Scanned => pc \in Scanned
    BY <1>8 DEF BeginSession, Fail, Scanned, Showing
  <2> QED BY <2>1, <2>2, TrackFrame
<1>9. CASE ShowOutputs
  <2>1. UNCHANGED <<doc, Scan>> /\ pc' \notin {"inputs", "idle", "validate"}
    BY <1>9 DEF ShowOutputs, Accept, Fail
  <2>2. pc' \in Scanned => pc \in Scanned
    BY <1>9 DEF ShowOutputs, Accept, Fail, Scanned, Showing
  <2> QED BY <2>1, <2>2, TrackFrame
<1>10. CASE ShowMwebOutput
  <2>1. UNCHANGED <<doc, Scan>> /\ pc' \notin {"inputs", "idle", "validate"}
    BY <1>10 DEF ShowMwebOutput, Accept, Fail
  <2>2. pc' \in Scanned => pc \in Scanned
    BY <1>10 DEF ShowMwebOutput, Accept, Fail, Scanned, Showing
  <2> QED BY <2>1, <2>2, TrackFrame
<1>11. CASE MwebOutputsShown
  <2>1. UNCHANGED <<doc, Scan>> /\ pc' \notin {"inputs", "idle", "validate"}
    BY <1>11 DEF MwebOutputsShown
  <2>2. pc' \in Scanned => pc \in Scanned
    BY <1>11 DEF MwebOutputsShown, Scanned, Showing
  <2> QED BY <2>1, <2>2, TrackFrame
<1>12. CASE ShowPegout
  <2>1. UNCHANGED <<doc, Scan>> /\ pc' \notin {"inputs", "idle", "validate"}
    BY <1>12 DEF ShowPegout, Accept, Fail
  <2>2. pc' \in Scanned => pc \in Scanned
    BY <1>12 DEF ShowPegout, Accept, Fail, Scanned, Showing
  <2> QED BY <2>1, <2>2, TrackFrame
<1>13. CASE ShowPegin
  <2>1. UNCHANGED <<doc, Scan>> /\ pc' \notin {"inputs", "idle", "validate"}
    BY <1>13 DEF ShowPegin, Accept, Fail
  <2>2. pc' \in Scanned => pc \in Scanned
    BY <1>13 DEF ShowPegin, Accept, Fail, Scanned, Showing
  <2> QED BY <2>1, <2>2, TrackFrame
<1>14. CASE ShowFee
  <2>1. UNCHANGED <<doc, Scan>> /\ pc' \notin {"inputs", "idle", "validate"}
    BY <1>14 DEF ShowFee, Accept, Fail
  <2>2. pc' \in Scanned => pc \in Scanned
    BY <1>14 DEF ShowFee, Accept, Fail, Scanned, Showing
  <2> QED BY <2>1, <2>2, TrackFrame
<1>15. CASE SignInput
  <2>1. UNCHANGED <<doc, Scan>> /\ pc' \notin {"inputs", "idle", "validate"}
    BY <1>15 DEF SignInput, Fail
  <2>2. pc' \in Scanned => pc \in Scanned
    BY <1>15 DEF SignInput, Fail, Scanned, Showing
  <2> QED BY <2>1, <2>2, TrackFrame
<1>16. CASE InputsSigned
  <2>1. UNCHANGED <<doc, Scan>> /\ pc' \notin {"inputs", "idle", "validate"}
    BY <1>16 DEF InputsSigned
  <2>2. pc' \in Scanned => pc \in Scanned
    BY <1>16 DEF InputsSigned, Scanned, Showing
  <2> QED BY <2>1, <2>2, TrackFrame
<1>17. CASE CommitPart
  <2>1. UNCHANGED <<doc, Scan>> /\ pc' \notin {"inputs", "idle", "validate"}
    BY <1>17 DEF CommitPart, CommitFails, Fail
  <2>2. pc' \in Scanned => pc \in Scanned
    BY <1>17 DEF CommitPart, CommitFails, Fail, Scanned, Showing
  <2> QED BY <2>1, <2>2, TrackFrame
<1>18. CASE CommitKernel
  <2>1. UNCHANGED <<doc, Scan>> /\ pc' \notin {"inputs", "idle", "validate"}
    BY <1>18 DEF CommitKernel, CommitFails, Fail
  <2>2. pc' \in Scanned => pc \in Scanned
    BY <1>18 DEF CommitKernel, CommitFails, Fail, Scanned, Showing
  <2> QED BY <2>1, <2>2, TrackFrame
<1>19. CASE Cleanup
  <2>1. UNCHANGED <<doc, Scan>> /\ pc' \notin {"inputs", "idle", "validate"}
    BY <1>19 DEF Cleanup, serialise_psbt
  <2>2. pc' \in Scanned => pc \in Scanned
    BY <1>19 DEF Cleanup, serialise_psbt, Scanned, Showing
  <2> QED BY <2>1, <2>2, TrackFrame
<1>20. CASE SendChunk
  <2>1. UNCHANGED <<doc, Scan>> /\ pc' \notin {"inputs", "idle", "validate"}
    BY <1>20 DEF SendChunk
  <2>2. pc' \in Scanned => pc \in Scanned
    BY <1>20 DEF SendChunk, Scanned, Showing
  <2> QED BY <2>1, <2>2, TrackFrame
<1>21. CASE check_extended_data_fields
  <2>1. UNCHANGED <<doc, Scan>> /\ pc' \notin {"inputs", "idle", "validate"}
    BY <1>21 DEF check_extended_data_fields
  <2>2. pc' \in Scanned => pc \in Scanned
    BY <1>21 DEF check_extended_data_fields, Scanned, Showing
  <2> QED BY <2>1, <2>2, TrackFrame
<1>22. CASE Exit
  <2>1. TrackInv'
    BY <1>22, SMTT(20) DEF Exit, Reset, TrackInv, DocInv, Scanned, Showing
  <2> QED BY <2>1
<1>23. CASE UNCHANGED vars
  BY <1>23 DEF
    vars, TrackInv, DocInv, Scanned, Showing, ScanIs, Found, OurInputs,
    is_green_multisig_signers, ScriptMatches
<1> QED
  BY <1>1, <1>2, <1>3, <1>4, <1>5, <1>6, <1>7, <1>8, <1>9, <1>10, <1>11, <1>12,
     <1>13, <1>14, <1>15, <1>16, <1>17, <1>18, <1>19, <1>20, <1>21, <1>22, <1>23 DEF Next

\* A step that leaves the amounts alone.
LEMMA AmountFrame ==
  ASSUME DocInv, AmountInv, UNCHANGED <<doc, Scan>>, pc' \notin {"inputs", "idle", "validate"},
         pc' \in Scanned => pc \in Scanned
  PROVE  AmountInv'
  BY DEF AmountInv, AmountIs, HasMweb, for_liquid, Scan

\* One input more of a PSBT without MWEB entries, within 64 bits.
LEMMA ReadAmount ==
  ASSUME doc \in Docs, ~HasMweb, NEW n \in 1..Len(doc.inputs)
  PROVE  /\ ~doc.inputs[n].mweb /\ doc.inputs[n].sat \in Nat
         /\ Sums(Amounts(doc.inputs))[n - 1] \in Nat
         /\ Sums(Amounts(doc.inputs))[n] = Sums(Amounts(doc.inputs))[n - 1] + doc.inputs[n].sat
         /\ Sums(Amounts(doc.inputs))[n] <= UINT64_MAX
<1> DEFINE a == Amounts(doc.inputs)
           N == Len(doc.inputs)
<1>1. EntriesOK(doc.inputs) /\ Total(a) <= UINT64_MAX
  BY DocsAssumption DEF HasMweb
<1>2. N \in Nat /\ DOMAIN doc.inputs = 1..N /\ doc.inputs[n].sat \in Nat
  BY <1>1 DEF EntriesOK
<1>3. Len(a) = N /\ \A i \in 1..N : a[i] = doc.inputs[i].sat /\ a[i] \in Nat
  BY <1>1, AmountsAreNat
<1>4. ~doc.inputs[n].mweb
  BY <1>2 DEF HasMweb, sign_psbt_has_mweb_component, MwebInputs
<1> HIDE DEF a, N
<1>5. n \in 1..N /\ n \in 0..N /\ n - 1 \in 0..N /\ UINT64_MAX \in Nat
  BY <1>2, MoneyAssumption DEF N
<1>6. Sums(a) \in [0..N -> Nat] /\ Sums(a)[n] = Sums(a)[n - 1] + a[n]
  BY <1>2, <1>3, <1>5, SumsDef
<1>7. Sums(a)[n] <= Total(a)
  BY <1>2, <1>3, <1>5, SumsBelowTotal
<1>8. Total(a) \in Nat
  <2>1. N \in 0..N
    BY <1>2
  <2> QED BY <1>3, <1>6, <2>1 DEF Total
<1>9. Sums(a)[n] \in Nat /\ Sums(a)[n - 1] \in Nat
  BY <1>5, <1>6
<1>10. Sums(a)[n] <= UINT64_MAX
  BY <1>1, <1>5, <1>7, <1>8, <1>9
<1>11. a[n] = doc.inputs[n].sat
  BY <1>3, <1>5
<1> QED BY <1>2, <1>4, <1>6, <1>9, <1>10, <1>11 DEF a

\* Every step keeps AmountInv.
LEMMA AmountStep ==
  ASSUME DocInv, TrackInv, AmountInv, [Next]_vars PROVE AmountInv'
<1> USE DEF Scan
<1>1. CASE deserialise_psbt
  <2>1. AmountInv'
    BY <1>1, SMTT(20) DEF deserialise_psbt, AmountInv, DocInv, Scanned, Showing
  <2> QED BY <2>1
<1>2. CASE params_txn_validate
  <2>1. doc \in Docs /\ doc' = doc /\ pc' \in {"inputs", "cleanup"}
    BY <1>2 DEF params_txn_validate, Fail, DocInv
  <2>2. CASE pc' = "cleanup"
    BY <2>2 DEF AmountInv, Scanned, Showing
  <2>3. CASE pc' = "inputs"
    <3>1. index' = 1 /\ input_amount' = 0 /\ mweb_input_amount' = 0
      BY <1>2, <2>3 DEF params_txn_validate, Fail, AmountInv, Scan
    <3>2. Sums(Amounts(doc.inputs))[0] = 0
      BY <2>1, DocsAssumption, AmountsAreNat, SumsDef DEF EntriesOK
    <3>3. AmountIs(index)'
      BY <2>1, <3>1, <3>2 DEF AmountIs
    <3> QED BY <2>3, <3>3 DEF AmountInv, Scanned, Showing
  <2> QED BY <2>1, <2>2, <2>3
<1>3. CASE ReadMwebInput
  <2>1. doc \in Docs /\ doc' = doc /\ pc' \in {"inputs", "cleanup"}
    BY <1>3 DEF ReadMwebInput, Fail, DocInv
  <2>2. Len(doc.inputs) \in Nat
    BY <2>1, DocsAssumption DEF EntriesOK
  <2>3. index \in 1..Len(doc.inputs) /\ doc.inputs[index].mweb
    BY <1>3, <2>2 DEF ReadMwebInput, TrackInv
  <2>4. HasMweb
    BY <2>1, <2>3, ReadAmount
  <2> QED BY <2>1, <2>4 DEF AmountInv, AmountIs, HasMweb, Scanned, Showing
<1>4. CASE ReadInput
  <2>1. doc \in Docs /\ doc' = doc /\ pc = "inputs" /\ pc' \in {"inputs", "cleanup"}
    BY <1>4 DEF ReadInput, Fail, DocInv
  <2>2. Len(doc.inputs) \in Nat
    BY <2>1, DocsAssumption DEF EntriesOK
  <2>3. index \in 1..Len(doc.inputs) /\ AmountIs(index)
    BY <1>4, <2>1, <2>2 DEF ReadInput, TrackInv, AmountInv
  <2>4. CASE pc' = "cleanup"
    BY <2>4 DEF AmountInv, Scanned, Showing
  <2>5. CASE pc' = "inputs"
    <3>1. index' = index + 1 /\ mweb_input_amount' = mweb_input_amount
      BY <1>4, <2>1, <2>5 DEF ReadInput, Fail
    <3>2. ASSUME ~for_liquid, ~HasMweb
          PROVE  input_amount' = Sums(Amounts(doc.inputs))[index] /\ mweb_input_amount' = 0
      <4> DEFINE s == Sums(Amounts(doc.inputs))
      <4>1. /\ doc.inputs[index].sat \in Nat /\ s[index - 1] \in Nat
            /\ s[index] = s[index - 1] + doc.inputs[index].sat /\ s[index] <= UINT64_MAX
        BY <2>1, <2>3, <3>2, ReadAmount
      <4>2. input_amount = s[index - 1] /\ mweb_input_amount = 0
        BY <2>3, <3>2 DEF AmountIs
      <4>3. input_amount' = (input_amount + doc.inputs[index].sat) % (UINT64_MAX + 1)
        BY <1>4, <2>1, <2>5, <3>2 DEF ReadInput, Fail
      <4> HIDE DEF s
      <4>4. (input_amount + doc.inputs[index].sat) % (UINT64_MAX + 1)
            = input_amount + doc.inputs[index].sat
        <5>1. /\ UINT64_MAX + 1 \in Nat \ {0} /\ input_amount + doc.inputs[index].sat \in Nat
              /\ input_amount + doc.inputs[index].sat < UINT64_MAX + 1
          BY <4>1, <4>2, MoneyAssumption
        <5> QED BY <5>1, ModSmall
      <4>5. input_amount' = s[index]
        BY <4>1, <4>2, <4>3, <4>4
      <4> QED BY <3>1, <4>2, <4>5 DEF s
    <3>3. AmountIs(index)'
      BY <2>1, <2>3, <3>1, <3>2 DEF AmountIs, HasMweb, for_liquid
    <3> QED BY <2>5, <3>3 DEF AmountInv, Scanned, Showing
  <2> QED BY <2>1, <2>4, <2>5
<1>5. CASE InputsRead
  <2>1. pc = "inputs" /\ pc' = "outputs" /\ AmountIs(index) /\ index = Len(doc.inputs) + 1
    BY <1>5 DEF InputsRead, DocInv, AmountInv
  <2>2. UNCHANGED <<doc, input_amount, mweb_input_amount>>
    BY <1>5 DEF InputsRead, Scan
  <2>4. AmountIs(Len(doc.inputs) + 1)'
    BY <2>1, <2>2 DEF AmountIs, HasMweb, for_liquid
  <2> QED BY <2>1, <2>4 DEF AmountInv, Scanned, Showing
<1>6. CASE psbt_update_outputs
  <2>1. UNCHANGED <<doc, Scan>> /\ pc' \notin {"inputs", "idle", "validate"}
    BY <1>6 DEF psbt_update_outputs
  <2>2. pc' \in Scanned => pc \in Scanned
    BY <1>6 DEF psbt_update_outputs, Scanned, Showing
  <2> QED BY <2>1, <2>2, AmountFrame
<1>7. CASE CheckAmounts
  <2>1. UNCHANGED <<doc, Scan>> /\ pc' \notin {"inputs", "idle", "validate"}
    BY <1>7 DEF CheckAmounts, Fail
  <2>2. pc' \in Scanned => pc \in Scanned
    BY <1>7 DEF CheckAmounts, Fail, Scanned, Showing
  <2> QED BY <2>1, <2>2, AmountFrame
<1>8. CASE BeginSession
  <2>1. UNCHANGED <<doc, Scan>> /\ pc' \notin {"inputs", "idle", "validate"}
    BY <1>8 DEF BeginSession, Fail
  <2>2. pc' \in Scanned => pc \in Scanned
    BY <1>8 DEF BeginSession, Fail, Scanned, Showing
  <2> QED BY <2>1, <2>2, AmountFrame
<1>9. CASE ShowOutputs
  <2>1. UNCHANGED <<doc, Scan>> /\ pc' \notin {"inputs", "idle", "validate"}
    BY <1>9 DEF ShowOutputs, Accept, Fail
  <2>2. pc' \in Scanned => pc \in Scanned
    BY <1>9 DEF ShowOutputs, Accept, Fail, Scanned, Showing
  <2> QED BY <2>1, <2>2, AmountFrame
<1>10. CASE ShowMwebOutput
  <2>1. UNCHANGED <<doc, Scan>> /\ pc' \notin {"inputs", "idle", "validate"}
    BY <1>10 DEF ShowMwebOutput, Accept, Fail
  <2>2. pc' \in Scanned => pc \in Scanned
    BY <1>10 DEF ShowMwebOutput, Accept, Fail, Scanned, Showing
  <2> QED BY <2>1, <2>2, AmountFrame
<1>11. CASE MwebOutputsShown
  <2>1. UNCHANGED <<doc, Scan>> /\ pc' \notin {"inputs", "idle", "validate"}
    BY <1>11 DEF MwebOutputsShown
  <2>2. pc' \in Scanned => pc \in Scanned
    BY <1>11 DEF MwebOutputsShown, Scanned, Showing
  <2> QED BY <2>1, <2>2, AmountFrame
<1>12. CASE ShowPegout
  <2>1. UNCHANGED <<doc, Scan>> /\ pc' \notin {"inputs", "idle", "validate"}
    BY <1>12 DEF ShowPegout, Accept, Fail
  <2>2. pc' \in Scanned => pc \in Scanned
    BY <1>12 DEF ShowPegout, Accept, Fail, Scanned, Showing
  <2> QED BY <2>1, <2>2, AmountFrame
<1>13. CASE ShowPegin
  <2>1. UNCHANGED <<doc, Scan>> /\ pc' \notin {"inputs", "idle", "validate"}
    BY <1>13 DEF ShowPegin, Accept, Fail
  <2>2. pc' \in Scanned => pc \in Scanned
    BY <1>13 DEF ShowPegin, Accept, Fail, Scanned, Showing
  <2> QED BY <2>1, <2>2, AmountFrame
<1>14. CASE ShowFee
  <2>1. UNCHANGED <<doc, Scan>> /\ pc' \notin {"inputs", "idle", "validate"}
    BY <1>14 DEF ShowFee, Accept, Fail
  <2>2. pc' \in Scanned => pc \in Scanned
    BY <1>14 DEF ShowFee, Accept, Fail, Scanned, Showing
  <2> QED BY <2>1, <2>2, AmountFrame
<1>15. CASE SignInput
  <2>1. UNCHANGED <<doc, Scan>> /\ pc' \notin {"inputs", "idle", "validate"}
    BY <1>15 DEF SignInput, Fail
  <2>2. pc' \in Scanned => pc \in Scanned
    BY <1>15 DEF SignInput, Fail, Scanned, Showing
  <2> QED BY <2>1, <2>2, AmountFrame
<1>16. CASE InputsSigned
  <2>1. UNCHANGED <<doc, Scan>> /\ pc' \notin {"inputs", "idle", "validate"}
    BY <1>16 DEF InputsSigned
  <2>2. pc' \in Scanned => pc \in Scanned
    BY <1>16 DEF InputsSigned, Scanned, Showing
  <2> QED BY <2>1, <2>2, AmountFrame
<1>17. CASE CommitPart
  <2>1. UNCHANGED <<doc, Scan>> /\ pc' \notin {"inputs", "idle", "validate"}
    BY <1>17 DEF CommitPart, CommitFails, Fail
  <2>2. pc' \in Scanned => pc \in Scanned
    BY <1>17 DEF CommitPart, CommitFails, Fail, Scanned, Showing
  <2> QED BY <2>1, <2>2, AmountFrame
<1>18. CASE CommitKernel
  <2>1. UNCHANGED <<doc, Scan>> /\ pc' \notin {"inputs", "idle", "validate"}
    BY <1>18 DEF CommitKernel, CommitFails, Fail
  <2>2. pc' \in Scanned => pc \in Scanned
    BY <1>18 DEF CommitKernel, CommitFails, Fail, Scanned, Showing
  <2> QED BY <2>1, <2>2, AmountFrame
<1>19. CASE Cleanup
  <2>1. UNCHANGED <<doc, Scan>> /\ pc' \notin {"inputs", "idle", "validate"}
    BY <1>19 DEF Cleanup, serialise_psbt
  <2>2. pc' \in Scanned => pc \in Scanned
    BY <1>19 DEF Cleanup, serialise_psbt, Scanned, Showing
  <2> QED BY <2>1, <2>2, AmountFrame
<1>20. CASE SendChunk
  <2>1. UNCHANGED <<doc, Scan>> /\ pc' \notin {"inputs", "idle", "validate"}
    BY <1>20 DEF SendChunk
  <2>2. pc' \in Scanned => pc \in Scanned
    BY <1>20 DEF SendChunk, Scanned, Showing
  <2> QED BY <2>1, <2>2, AmountFrame
<1>21. CASE check_extended_data_fields
  <2>1. UNCHANGED <<doc, Scan>> /\ pc' \notin {"inputs", "idle", "validate"}
    BY <1>21 DEF check_extended_data_fields
  <2>2. pc' \in Scanned => pc \in Scanned
    BY <1>21 DEF check_extended_data_fields, Scanned, Showing
  <2> QED BY <2>1, <2>2, AmountFrame
<1>22. CASE Exit
  <2>1. AmountInv'
    BY <1>22, SMTT(20) DEF Exit, Reset, AmountInv, DocInv, Scanned, Showing
  <2> QED BY <2>1
<1>23. CASE UNCHANGED vars
  BY <1>23 DEF vars, AmountInv, AmountIs, HasMweb, for_liquid
<1> QED
  BY <1>1, <1>2, <1>3, <1>4, <1>5, <1>6, <1>7, <1>8, <1>9, <1>10, <1>11, <1>12,
     <1>13, <1>14, <1>15, <1>16, <1>17, <1>18, <1>19, <1>20, <1>21, <1>22, <1>23 DEF Next

\* Every step keeps InfoInv.
LEMMA InfoStep ==
  ASSUME InfoInv, [Next]_vars PROVE InfoInv'
<1> USE DEF Scan
<1>1. CASE deserialise_psbt
  <2>1. InfoInv'
    BY <1>1, SMTT(20) DEF deserialise_psbt, InfoInv, OutputFlags, Validated
  <2> QED BY <2>1
<1>2. CASE params_txn_validate
  <2>1. InfoInv'
    BY <1>2, SMTT(20) DEF params_txn_validate, Fail, InfoInv, OutputFlags, Validated
  <2> QED BY <2>1
<1>3. CASE ReadMwebInput
  <2>1. InfoInv'
    BY <1>3, SMTT(20) DEF ReadMwebInput, Fail, InfoInv, OutputFlags, Validated
  <2> QED BY <2>1
<1>4. CASE ReadInput
  <2>1. InfoInv'
    BY <1>4, SMTT(20) DEF ReadInput, Fail, InfoInv, OutputFlags, Validated
  <2> QED BY <2>1
<1>5. CASE InputsRead
  <2>1. InfoInv'
    BY <1>5, SMTT(20) DEF InputsRead, InfoInv, OutputFlags, Validated
  <2> QED BY <2>1
<1>6. CASE psbt_update_outputs
  <2>1. InfoInv'
    BY <1>6, SMTT(20) DEF psbt_update_outputs, InfoInv, OutputFlags, Validated
  <2> QED BY <2>1
<1>7. CASE CheckAmounts
  <2>1. InfoInv'
    BY <1>7, SMTT(20) DEF CheckAmounts, Fail, InfoInv, OutputFlags, Validated
  <2> QED BY <2>1
<1>8. CASE BeginSession
  <2>1. InfoInv'
    BY <1>8, SMTT(20) DEF BeginSession, Fail, InfoInv, OutputFlags, Validated
  <2> QED BY <2>1
<1>9. CASE ShowOutputs
  <2>1. InfoInv'
    BY <1>9, SMTT(20) DEF ShowOutputs, Accept, Fail, InfoInv, OutputFlags, Validated
  <2> QED BY <2>1
<1>10. CASE ShowMwebOutput
  <2>1. InfoInv'
    BY <1>10, SMTT(20) DEF ShowMwebOutput, Accept, Fail, InfoInv, OutputFlags, Validated
  <2> QED BY <2>1
<1>11. CASE MwebOutputsShown
  <2>1. InfoInv'
    BY <1>11, SMTT(20) DEF MwebOutputsShown, InfoInv, OutputFlags, Validated
  <2> QED BY <2>1
<1>12. CASE ShowPegout
  <2>1. InfoInv'
    BY <1>12, SMTT(20) DEF ShowPegout, Accept, Fail, InfoInv, OutputFlags, Validated
  <2> QED BY <2>1
<1>13. CASE ShowPegin
  <2>1. InfoInv'
    BY <1>13, SMTT(20) DEF ShowPegin, Accept, Fail, InfoInv, OutputFlags, Validated
  <2> QED BY <2>1
<1>14. CASE ShowFee
  <2>1. InfoInv'
    BY <1>14, SMTT(20) DEF ShowFee, Accept, Fail, InfoInv, OutputFlags, Validated
  <2> QED BY <2>1
<1>15. CASE SignInput
  <2>1. InfoInv'
    BY <1>15, SMTT(20) DEF SignInput, Fail, InfoInv, OutputFlags, Validated
  <2> QED BY <2>1
<1>16. CASE InputsSigned
  <2>1. InfoInv'
    BY <1>16, SMTT(20) DEF InputsSigned, InfoInv, OutputFlags, Validated
  <2> QED BY <2>1
<1>17. CASE CommitPart
  <2>1. InfoInv'
    BY <1>17, SMTT(20) DEF CommitPart, CommitFails, Fail, InfoInv, OutputFlags, Validated
  <2> QED BY <2>1
<1>18. CASE CommitKernel
  <2>1. pc' = "cleanup"
    BY <1>18 DEF CommitKernel, CommitFails, Fail
  <2> QED BY <2>1 DEF InfoInv
<1>19. CASE Cleanup
  <2>1. InfoInv'
    BY <1>19, SMTT(20) DEF Cleanup, serialise_psbt, InfoInv, OutputFlags, Validated
  <2> QED BY <2>1
<1>20. CASE SendChunk
  <2>1. InfoInv'
    BY <1>20, SMTT(20) DEF SendChunk, InfoInv, OutputFlags, Validated
  <2> QED BY <2>1
<1>21. CASE check_extended_data_fields
  <2>1. InfoInv'
    BY <1>21, SMTT(20) DEF check_extended_data_fields, InfoInv, OutputFlags, Validated
  <2> QED BY <2>1
<1>22. CASE Exit
  <2>1. InfoInv'
    BY <1>22, SMTT(20) DEF Exit, Reset, InfoInv, OutputFlags, Validated
  <2> QED BY <2>1
<1>23. CASE UNCHANGED vars
  BY <1>23 DEF vars, InfoInv, OutputFlags, Validated
<1> QED
  BY <1>1, <1>2, <1>3, <1>4, <1>5, <1>6, <1>7, <1>8, <1>9, <1>10, <1>11, <1>12,
     <1>13, <1>14, <1>15, <1>16, <1>17, <1>18, <1>19, <1>20, <1>21, <1>22, <1>23 DEF Next

-----------------------------------------------------------------------------
(* Signing *)

\* mweb_session_abort gives the PSBT back as the host sent it.
LEMMA AbortRestores ==
  ASSUME DOMAIN content = Parts(doc), SessionIs(session)
  PROVE  mweb_session_abort(content, session) = Clean(doc)
<1>1. session.snapshot = Clean(doc)
  BY DEF SessionIs, SessionOf
<1> QED BY <1>1 DEF mweb_session_abort, Restore, Clean

\* Beginning a session leaves the PSBT alone, even when it fails.
LEMMA BeginKeeps ==
  ASSUME BeginSession, content = Clean(doc)
  PROVE  content' = content
<1>1. \A parts :
        mweb_session_abort(Clean(doc), [snapshot |-> Snapshot(Clean(doc), parts)]) = Clean(doc)
  BY Zenon DEF mweb_session_abort, Restore, Snapshot, Clean
<1> QED BY <1>1, Zenon DEF BeginSession

\* The part written at one place of the commit.
LEMMA PartAt ==
  ASSUME NEW d \in Docs, NEW k \in DOMAIN CommitOrder(d)
  PROVE  /\ k \in 1..Len(d.outputs) + Len(d.inputs)
         /\ k <= Len(d.outputs) => CommitOrder(d)[k] = <<"out", k>> /\ k \in DOMAIN d.outputs
         /\ k > Len(d.outputs) =>
              /\ CommitOrder(d)[k] = <<"in", k - Len(d.outputs)>>
              /\ k - Len(d.outputs) \in DOMAIN d.inputs
         /\ CommitOrder(d)[k] \in Parts(d)
<1> DEFINE O == Len(d.outputs)
           I == Len(d.inputs)
<1>1. /\ O \in Nat /\ I \in Nat /\ DOMAIN d.outputs = 1..O /\ DOMAIN d.inputs = 1..I
      /\ k \in 1..(O + I)
      /\ CommitOrder(d)[k] = IF k <= O THEN <<"out", k>> ELSE <<"in", k - O>>
  BY DocFacts DEF CommitOrder
<1>2. k <= O => k \in DOMAIN d.outputs
  <2> HIDE DEF O, I
  <2> QED BY <1>1
<1>3. k > O => k - O \in DOMAIN d.inputs
  <2> HIDE DEF O, I
  <2> QED BY <1>1
<1>4. k <= O \/ k > O
  BY <1>1
<1>5. (k <= O => <<"out", k>> \in Parts(d)) /\ (k > O => <<"in", k - O>> \in Parts(d))
  BY <1>2, <1>3, Zenon DEF Parts
<1>6. k > O => CommitOrder(d)[k] = <<"in", k - O>>
  <2> HIDE DEF O, I
  <2> QED BY <1>1
<1>7. k <= O => CommitOrder(d)[k] = <<"out", k>>
  BY <1>1, Zenon
<1>8. CommitOrder(d)[k] \in Parts(d)
  BY <1>4, <1>5, <1>6, <1>7, Zenon
<1> QED BY <1>1, <1>2, <1>3, <1>6, <1>7, <1>8, Zenon

\* One part more.
LEMMA WrittenNext ==
  ASSUME doc \in Docs, index \in DOMAIN CommitOrder(doc)
  PROVE  Written(index + 1) = IF MwebPart(doc, CommitOrder(doc)[index])
                              THEN Written(index) \cup {CommitOrder(doc)[index]} ELSE Written(index)
<1>1. index \in 1..Len(doc.outputs) + Len(doc.inputs)
  BY PartAt
<1>2. 1..((index + 1) - 1) = (1..index - 1) \cup {index}
  BY <1>1, DocFacts
<1> QED BY <1>2, Zenon DEF Written

\* The places of inputs and outputs in the order of the commit.
LEMMA Places ==
  ASSUME NEW O \in Nat, NEW I \in Nat, NEW n, n = O + I + 1
  PROVE  /\ \A i \in 1..I : i + O \in 1..n - 1 /\ i + O > O /\ (i + O) - O = i
         /\ \A j \in 1..O : j \in 1..n - 1 /\ j <= O
  OBVIOUS

\* At the end of the commit all MWEB inputs and outputs are written.
LEMMA AllWritten ==
  ASSUME doc \in Docs, index = Len(doc.outputs) + Len(doc.inputs) + 1
  PROVE  Written(index) = {<<"in", i>> : i \in MwebInputs(doc)}
                            \cup {<<"out", j>> : j \in MwebOutputs(doc)}
<1> DEFINE O == Len(doc.outputs)
           I == Len(doc.inputs)
           A == {<<"in", i>> : i \in MwebInputs(doc)}
           B == {<<"out", j>> : j \in MwebOutputs(doc)}
<1>0. O \in Nat /\ I \in Nat /\ index = O + I + 1 /\ index - 1 = O + I
      /\ DOMAIN CommitOrder(doc) = 1..index - 1
  BY DocFacts DEF CommitOrder
<1>1. ASSUME NEW i \in MwebInputs(doc) PROVE <<"in", i>> \in Written(index)
  <2>1. i \in 1..I
    BY DocFacts DEF MwebInputs
  <2>2. i + O \in 1..index - 1 /\ i + O > O /\ (i + O) - O = i
    <3> HIDE DEF O, I
    <3> QED BY <1>0, <2>1, Places
  <2>3. CommitOrder(doc)[i + O] = <<"in", i>>
    BY <1>0, <2>2, PartAt
  <2>4. MwebPart(doc, <<"in", i>>)
    BY DEF MwebPart
  <2> HIDE DEF O
  <2> QED BY <2>2, <2>3, <2>4, Zenon DEF Written
<1>2. ASSUME NEW j \in MwebOutputs(doc) PROVE <<"out", j>> \in Written(index)
  <2>1. j \in 1..O
    BY DocFacts DEF MwebOutputs
  <2>2. j \in 1..index - 1 /\ j <= O
    <3> HIDE DEF O, I
    <3> QED BY <1>0, <2>1, Places
  <2>3. CommitOrder(doc)[j] = <<"out", j>>
    BY <1>0, <2>2, PartAt
  <2>4. MwebPart(doc, <<"out", j>>)
    BY DEF MwebPart
  <2> HIDE DEF O
  <2> QED BY <2>2, <2>3, <2>4, Zenon DEF Written
<1>3. ASSUME NEW p \in Written(index) PROVE p \in A \cup B
  <2>1. PICK k \in 1..index - 1 : p = CommitOrder(doc)[k] /\ MwebPart(doc, p)
    BY Zenon DEF Written
  <2>2. CASE k <= O
    <3>1. p = <<"out", k>>
      BY <1>0, <2>1, <2>2, PartAt
    <3>2. k \in MwebOutputs(doc)
      BY <2>1, <3>1 DEF MwebPart
    <3> QED BY <3>1, <3>2
  <2>3. CASE k > O
    <3>1. p = <<"in", k - O>>
      BY <1>0, <2>1, <2>3, PartAt
    <3>2. k - O \in MwebInputs(doc)
      BY <2>1, <3>1 DEF MwebPart
    <3> QED BY <3>1, <3>2
  <2> QED BY <1>0, <2>2, <2>3
<1>4. ASSUME NEW p \in A \cup B PROVE p \in Written(index)
  BY <1>1, <1>2, Zenon
<1> QED
  <2> HIDE DEF A, B
  <2>1. Written(index) = A \cup B
    BY <1>3, <1>4
  <2> QED BY <2>1 DEF A, B

\* Writing one part.
LEMMA OursWrite ==
  ASSUME NEW X, NEW p \in Parts(doc)
  PROVE  WritePart(Ours(X), p) = Ours(X \cup {p})
  BY DEF WritePart, Ours

\* Nothing is signed before the first input.
LEMMA SignStart ==
  ASSUME doc \in Docs, content = Clean(doc)
  PROVE  SignState(1)
<1>1. \A i \in OurInputs : ~(i < 1)
  BY DocFacts DEF OurInputs
<1>2. /\ content \in [Parts(doc) -> {"host", "partly", "ours"}]
      /\ \A p \in Parts(doc) : content[p] = "host"
  BY DEF Clean
<1> QED BY <1>1, <1>2 DEF SignState

\* After the last input just the inputs of the wallet are signed.
LEMMA SignEnd ==
  ASSUME doc \in Docs, SignState(Len(doc.inputs) + 1)
  PROVE  content = Ours(SignedInputs)
<1>1. \A i \in OurInputs : content[<<"in", i>>] = "ours"
  <2>1. \A i \in OurInputs : i < Len(doc.inputs) + 1
    BY DocFacts DEF OurInputs
  <2> QED BY <2>1 DEF SignState
<1>2. \A p \in Parts(doc) : p \in SignedInputs => content[p] = "ours"
  BY <1>1 DEF SignedInputs
<1>3. \A p \in Parts(doc) : p \notin SignedInputs => content[p] = "host"
  BY DEF SignState, SignedInputs
<1> QED BY <1>2, <1>3 DEF SignState, Ours

\* The first and the next place of a commit.
LEMMA FirstPlace ==
  ASSUME NEW a \in Nat, NEW b \in Nat
  PROVE  /\ 1 \in 1..a + b + 1
         /\ \A k \in 1..a + b : k + 1 \in 1..a + b + 1
  OBVIOUS

\* A step that does not touch the PSBT leaves it complete.
LEMMA CompleteFrame ==
  ASSUME UNCHANGED <<doc, content>>, Complete PROVE Complete'
  BY DEF Complete, OurInputs, for_liquid

\* A step that reads or asks, and does not sign.
LEMMA AskFrame ==
  ASSUME ContentInv, doc \in Docs, doc' = doc, pc \in Reading \cup Showing,
         content = Clean(doc) => content' = content,
         pc' \in Reading \cup Showing \cup {"cleanup", "restart"}, answer' # "signed"
  PROVE  ContentInv'
<1>1. content' = Clean(doc)'
  BY DocFacts DEF ContentInv
<1> QED BY <1>1 DEF ContentInv, Reading, Showing

\* Every step keeps ContentInv.
LEMMA ContentStep ==
  ASSUME DocInv, AnswerInv, SessionInv, TrackInv, ContentInv, [Next]_vars PROVE ContentInv'
<1> USE DEF Scan
<1>1. CASE deserialise_psbt
  <2>1. /\ pc' \in {"validate", "done"} /\ answer' # "signed"
        /\ pc' = "validate" => content' = Clean(doc)'
        /\ pc' = "done" => doc' = doc /\ doc = None
    BY <1>1 DEF deserialise_psbt, Clean, DocInv, AnswerInv
  <2> QED BY <2>1 DEF ContentInv, Reading, Showing
<1>2. CASE params_txn_validate
  <2>1. doc \in Docs /\ UNCHANGED <<doc, content>>
    BY <1>2 DEF params_txn_validate, Fail, DocInv
  <2>2. /\ pc \in Reading \cup Showing /\ answer' # "signed"
        /\ pc' \in Reading \cup Showing \cup {"cleanup", "restart"}
    BY <1>2 DEF params_txn_validate, Fail, AnswerInv, Reading, Showing
  <2> QED BY <2>1, <2>2, AskFrame
<1>3. CASE ReadMwebInput
  <2>1. doc \in Docs /\ UNCHANGED <<doc, content>>
    BY <1>3 DEF ReadMwebInput, Fail, DocInv
  <2>2. /\ pc \in Reading \cup Showing /\ answer' # "signed"
        /\ pc' \in Reading \cup Showing \cup {"cleanup", "restart"}
    BY <1>3 DEF ReadMwebInput, Fail, AnswerInv, Reading, Showing
  <2> QED BY <2>1, <2>2, AskFrame
<1>4. CASE ReadInput
  <2>1. doc \in Docs /\ UNCHANGED <<doc, content>>
    BY <1>4 DEF ReadInput, Fail, DocInv
  <2>2. /\ pc \in Reading \cup Showing /\ answer' # "signed"
        /\ pc' \in Reading \cup Showing \cup {"cleanup", "restart"}
    BY <1>4 DEF ReadInput, Fail, AnswerInv, Reading, Showing
  <2> QED BY <2>1, <2>2, AskFrame
<1>5. CASE InputsRead
  <2>1. doc \in Docs /\ UNCHANGED <<doc, content>>
    BY <1>5 DEF InputsRead, DocInv
  <2>2. /\ pc \in Reading \cup Showing /\ answer' # "signed"
        /\ pc' \in Reading \cup Showing \cup {"cleanup", "restart"}
    BY <1>5 DEF InputsRead, AnswerInv, Reading, Showing
  <2> QED BY <2>1, <2>2, AskFrame
<1>6. CASE psbt_update_outputs
  <2>1. doc \in Docs /\ UNCHANGED <<doc, content>>
    BY <1>6 DEF psbt_update_outputs, DocInv
  <2>2. /\ pc \in Reading \cup Showing /\ answer' # "signed"
        /\ pc' \in Reading \cup Showing \cup {"cleanup", "restart"}
    BY <1>6 DEF psbt_update_outputs, AnswerInv, Reading, Showing
  <2> QED BY <2>1, <2>2, AskFrame
<1>7. CASE CheckAmounts
  <2>1. doc \in Docs /\ UNCHANGED <<doc, content>>
    BY <1>7 DEF CheckAmounts, Fail, DocInv
  <2>2. /\ pc \in Reading \cup Showing /\ answer' # "signed"
        /\ pc' \in Reading \cup Showing \cup {"cleanup", "restart"}
    BY <1>7 DEF CheckAmounts, Fail, AnswerInv, Reading, Showing
  <2> QED BY <2>1, <2>2, AskFrame
<1>8. CASE BeginSession
  <2>1. doc \in Docs /\ doc' = doc
    BY <1>8 DEF BeginSession, DocInv
  <2>2. /\ pc \in Reading \cup Showing /\ answer' # "signed"
        /\ pc' \in Reading \cup Showing \cup {"cleanup", "restart"}
    BY <1>8 DEF BeginSession, Fail, AnswerInv, Reading, Showing
  <2>3. content = Clean(doc) => content' = content
    BY <1>8, BeginKeeps
  <2> QED BY <2>1, <2>2, <2>3, AskFrame
<1>9. CASE ShowOutputs
  <2>1. doc \in Docs /\ UNCHANGED <<doc, content>>
    BY <1>9 DEF ShowOutputs, Accept, Fail, DocInv
  <2>2. /\ pc \in Reading \cup Showing /\ answer' # "signed"
        /\ pc' \in Reading \cup Showing \cup {"cleanup", "restart"}
    BY <1>9 DEF ShowOutputs, Accept, Fail, AnswerInv, Reading, Showing
  <2> QED BY <2>1, <2>2, AskFrame
<1>10. CASE ShowMwebOutput
  <2>1. doc \in Docs /\ UNCHANGED <<doc, content>>
    BY <1>10 DEF ShowMwebOutput, Accept, Fail, DocInv
  <2>2. /\ pc \in Reading \cup Showing /\ answer' # "signed"
        /\ pc' \in Reading \cup Showing \cup {"cleanup", "restart"}
    BY <1>10 DEF ShowMwebOutput, Accept, Fail, AnswerInv, Reading, Showing
  <2> QED BY <2>1, <2>2, AskFrame
<1>11. CASE MwebOutputsShown
  <2>1. doc \in Docs /\ UNCHANGED <<doc, content>>
    BY <1>11 DEF MwebOutputsShown, DocInv
  <2>2. /\ pc \in Reading \cup Showing /\ answer' # "signed"
        /\ pc' \in Reading \cup Showing \cup {"cleanup", "restart"}
    BY <1>11 DEF MwebOutputsShown, AnswerInv, Reading, Showing
  <2> QED BY <2>1, <2>2, AskFrame
<1>12. CASE ShowPegout
  <2>1. doc \in Docs /\ UNCHANGED <<doc, content>>
    BY <1>12 DEF ShowPegout, Accept, Fail, DocInv
  <2>2. /\ pc \in Reading \cup Showing /\ answer' # "signed"
        /\ pc' \in Reading \cup Showing \cup {"cleanup", "restart"}
    BY <1>12 DEF ShowPegout, Accept, Fail, AnswerInv, Reading, Showing
  <2> QED BY <2>1, <2>2, AskFrame
<1>13. CASE ShowPegin
  <2>1. doc \in Docs /\ UNCHANGED <<doc, content>>
    BY <1>13 DEF ShowPegin, Accept, Fail, DocInv
  <2>2. /\ pc \in Reading \cup Showing /\ answer' # "signed"
        /\ pc' \in Reading \cup Showing \cup {"cleanup", "restart"}
    BY <1>13 DEF ShowPegin, Accept, Fail, AnswerInv, Reading, Showing
  <2> QED BY <2>1, <2>2, AskFrame
<1>14. CASE ShowFee
  <2>1. doc \in Docs /\ UNCHANGED <<doc, content>> /\ index' = 1 /\ pc = "fee"
    BY <1>14 DEF ShowFee, DocInv
  <2>2. answer' # "signed" /\ pc' \in {"sign", "cleanup", "restart"}
    BY <1>14 DEF ShowFee, Accept, Fail, AnswerInv, Showing
  <2>3. content = Clean(doc)
    BY <2>1, DocFacts DEF ContentInv, Showing
  <2>4. CASE pc' = "sign"
    <3>1. SignState(1)
      BY <2>1, <2>3, SignStart
    <3>2. SignState(index)'
      BY <2>1, <3>1 DEF SignState, OurInputs
    <3>3. 1 \in 1..Len(doc.inputs) + 1
      BY <2>1, DocFacts
    <3> QED BY <2>1, <2>2, <2>4, <3>2, <3>3 DEF ContentInv, Reading, Showing
  <2>5. CASE pc' # "sign"
    BY <2>1, <2>2, <2>3, <2>5 DEF ContentInv, Reading, Showing
  <2> QED BY <2>4, <2>5
<1>15. CASE SignInput
  <2> DEFINE p == <<"in", index>>
  <2>1. /\ doc \in Docs /\ doc' = doc /\ session' = session /\ answer' # "signed"
        /\ pc' \in {"sign", "cleanup"} /\ pc = "sign"
    BY <1>15 DEF SignInput, Fail, DocInv, AnswerInv
  <2>2. /\ index \in 1..Len(doc.inputs) /\ SignState(index) /\ sig_types = OurInputs
        /\ OurInputs \subseteq Nat /\ Len(doc.inputs) \in Nat
    <3>1. index \in 1..Len(doc.inputs) + 1 /\ SignState(index) /\ index <= Len(doc.inputs)
      BY <1>15, <2>1, DocFacts DEF SignInput, ContentInv
    <3>2. OurInputs \subseteq 1..Len(doc.inputs) /\ Len(doc.inputs) \in Nat
      BY <2>1, DocFacts DEF OurInputs
    <3>3. sig_types = Found(Len(doc.inputs) + 1)
      BY <2>1 DEF TrackInv, Scanned, ScanIs
    <3>4. Found(Len(doc.inputs) + 1) = OurInputs
      <4>1. \A i \in OurInputs : i < Len(doc.inputs) + 1
        BY <3>2
      <4> QED BY <4>1, Zenon DEF Found
    <3> QED BY <3>1, <3>2, <3>3, <3>4
  <2>3. CASE pc' = "cleanup"
    <3>1. content' = content
      BY <1>15, <2>1, <2>3 DEF SignInput, Fail
    <3>2. session' = None => ~HasMweb'
      BY <2>1 DEF SessionInv, HasMweb
    <3> QED BY <2>1, <2>3, <3>1, <3>2 DEF ContentInv, Reading, Showing
  <2>4. CASE pc' = "sign"
    <3>1. index' \in 1..Len(doc.inputs) + 1 /\ SignState(index)'
      <4>1. OurInputs' = OurInputs /\ Parts(doc)' = Parts(doc)
        BY <2>1 DEF OurInputs
      <4>2. CASE index \in sig_types
        <5> PICK v \in {"ours", "partly"} :
                 /\ content' = [content EXCEPT ![p] = v]
                 /\ index' = IF v = "ours" THEN index + 1 ELSE index
          BY <1>15, <2>1, <2>4, <4>2 DEF SignInput, Fail
        <5>1. p \in Parts(doc)
          BY <2>2, <4>2, Zenon DEF Parts, OurInputs
        <5>2. content' \in [Parts(doc) -> {"host", "partly", "ours"}]
          BY <5>1, <2>2 DEF SignState
        <5>3. /\ content'[p] = v
              /\ \A q \in Parts(doc) : q # p => content'[q] = content[q]
          BY <5>1, <2>2 DEF SignState
        <5>4. ASSUME NEW i \in OurInputs, i < index' PROVE content'[<<"in", i>>] = "ours"
          <6>1. <<"in", i>> \in Parts(doc)
            BY Zenon DEF Parts, OurInputs
          <6>2. CASE i < index
            <7>1. content[<<"in", i>>] = "ours"
              BY <2>2, <6>2 DEF SignState
            <7>2. <<"in", i>> # p
              BY <2>2, <6>2
            <7> QED BY <5>3, <6>1, <7>1, <7>2
          <6>3. CASE i = index
            BY <2>2, <5>3, <5>4, <6>3
          <6> QED BY <2>2, <5>4, <6>2, <6>3
        <5>5. ASSUME NEW q \in Parts(doc), content'[q] # "host"
              PROVE  \E i \in OurInputs : q = <<"in", i>> /\ i <= index'
          <6>1. CASE q = p
            BY <2>2, <4>2, <6>1
          <6>2. CASE q # p
            <7>1. PICK i \in OurInputs : q = <<"in", i>> /\ i <= index
              BY <2>2, <5>3, <5>5, <6>2 DEF SignState
            <7>2. i <= index'
              BY <2>2, <7>1
            <7> QED BY <7>1, <7>2
          <6> QED BY <6>1, <6>2
        <5>6. index' \in 1..Len(doc.inputs) + 1
          BY <2>2
        <5> QED BY <4>1, <5>2, <5>4, <5>5, <5>6 DEF SignState
      <4>3. CASE index \notin sig_types
        <5>1. content' = content /\ index' = index + 1
          BY <1>15, <4>3 DEF SignInput
        <5>2. \A i \in OurInputs : (i < index' => i < index) /\ (i <= index => i <= index')
          BY <2>2, <4>3, <5>1
        <5>3. index' \in 1..Len(doc.inputs) + 1
          BY <2>2, <5>1
        <5> QED BY <2>2, <4>1, <5>1, <5>2, <5>3 DEF SignState
      <4> QED BY <4>2, <4>3
    <3> QED BY <2>1, <2>4, <3>1 DEF ContentInv, Reading, Showing
  <2> QED BY <2>1, <2>3, <2>4
<1>16. CASE InputsSigned
  <2>1. /\ doc \in Docs /\ UNCHANGED <<doc, content, session>> /\ pc = "sign" /\ index' = 1
        /\ index = Len(doc.inputs) + 1 /\ answer = "none"
    BY <1>16 DEF InputsSigned, DocInv, AnswerInv
  <2>2. content = Ours(SignedInputs)
    BY <2>1, SignEnd, DocFacts DEF ContentInv
  <2>3. session = None <=> ~HasMweb
    BY <2>1 DEF SessionInv
  <2>4. CASE session = None
    <3>1. pc' = "cleanup" /\ answer' = "signed"
      BY <1>16, <2>4 DEF InputsSigned
    <3>2. Complete
      BY <2>2, <2>3, <2>4 DEF Complete, Ours, SignedInputs, HasMweb
    <3>3. Complete'
      BY <2>1, <3>2, CompleteFrame
    <3> QED BY <3>1, <3>3 DEF ContentInv, Reading, Showing
  <2>5. CASE session # None
    <3>1. pc' = "commit" /\ answer' = "none"
      BY <1>16, <2>1, <2>5 DEF InputsSigned
    <3>2. Written(1) = {}
      BY DEF Written
    <3>3. content = Ours(SignedInputs \cup Written(1))
      BY <2>2, <3>2
    <3>4. content' = Ours(SignedInputs \cup Written(index))'
      BY <2>1, <3>3 DEF Ours, SignedInputs, Written, OurInputs
    <3>5. index' \in 1..Len(doc'.outputs) + Len(doc'.inputs) + 1
      BY <2>1, DocFacts, FirstPlace, Zenon
    <3> QED BY <2>1, <3>1, <3>4, <3>5 DEF ContentInv, Reading, Showing
  <2> QED BY <2>4, <2>5
<1>17. CASE CommitPart
  <2> DEFINE p == CommitOrder(doc)[index]
  <2>1. /\ doc \in Docs /\ doc' = doc /\ pc = "commit" /\ answer = "none" /\ session # None
        /\ index \in DOMAIN CommitOrder(doc)
    BY <1>17 DEF CommitPart, DocInv, AnswerInv, SessionInv
  <2>2. content = Ours(SignedInputs \cup Written(index)) /\ p \in Parts(doc)
    BY <2>1, DocFacts, PartAt DEF ContentInv
  <2>3. CASE CommitFails
    <3>1. content' = Clean(doc)
      BY <2>1, <2>3, AbortRestores DEF CommitFails, SessionInv, DocInv
    <3>2. pc' = "cleanup" /\ answer' = "refused"
      BY <2>3 DEF CommitFails, Fail
    <3> QED BY <2>1, <3>1, <3>2 DEF ContentInv, Reading, Showing
  <2>4. CASE ~CommitFails
    <3>1. /\ content' = IF MwebPart(doc, p) THEN WritePart(content, p) ELSE content
          /\ index' = index + 1 /\ UNCHANGED <<session, pc, answer>>
      BY <1>17, <2>4, Zenon DEF CommitPart
    <3>2. content' = Ours(SignedInputs \cup Written(index + 1))
      <4>1. CASE MwebPart(doc, p)
        <5>1. Written(index + 1) = Written(index) \cup {p}
          BY <2>1, <4>1, WrittenNext
        <5>2. content' = Ours((SignedInputs \cup Written(index)) \cup {p})
          BY <2>2, <3>1, <4>1, OursWrite
        <5>3. (SignedInputs \cup Written(index)) \cup {p} = SignedInputs \cup Written(index + 1)
          BY <5>1
        <5> QED BY <5>2, <5>3
      <4>2. CASE ~MwebPart(doc, p)
        <5>1. Written(index + 1) = Written(index)
          BY <2>1, <4>2, WrittenNext
        <5> QED BY <2>2, <3>1, <4>2, <5>1
      <4> QED BY <4>1, <4>2
    <3>3. Ours(SignedInputs \cup Written(index))' = Ours(SignedInputs \cup Written(index + 1))
      BY <2>1, <3>1 DEF Ours, SignedInputs, Written, OurInputs
    <3>4. index' \in 1..Len(doc'.outputs) + Len(doc'.inputs) + 1
      <4>1. index \in 1..Len(doc.outputs) + Len(doc.inputs)
        BY <2>1, PartAt
      <4> QED BY <2>1, <3>1, <4>1, DocFacts, FirstPlace, Zenon
    <3> QED BY <2>1, <3>1, <3>2, <3>3, <3>4 DEF ContentInv, Reading, Showing
  <2> QED BY <2>3, <2>4
<1>18. CASE CommitKernel
  <2>1. /\ doc \in Docs /\ doc' = doc /\ pc = "commit" /\ session # None
        /\ index = Len(doc.outputs) + Len(doc.inputs) + 1
    BY <1>18 DEF CommitKernel, DocInv, SessionInv
  <2>2. content = Ours(SignedInputs \cup Written(index)) /\ SessionIs(session)
    BY <2>1, DocFacts DEF ContentInv, SessionInv
  <2>3. CASE CommitFails
    <3>1. content' = Clean(doc)
      BY <2>1, <2>3, AbortRestores DEF CommitFails, SessionInv, DocInv
    <3>2. pc' = "cleanup" /\ answer' = "refused"
      BY <2>3 DEF CommitFails, Fail
    <3> QED BY <2>1, <3>1, <3>2 DEF ContentInv, Reading, Showing
  <2>4. CASE ~CommitFails
    <3> DEFINE k == <<"kernel", 1>>
               o == <<"offsets", 0>>
    <3>1. content' = WriteKernel(content) /\ pc' = "cleanup" /\ answer' = "signed"
      BY <1>18, <2>4, Zenon DEF CommitKernel
    <3>2. k \in Parts(doc) /\ o \in Parts(doc)
      <4>1. 1 \in DOMAIN doc.kernels
        <5>1. Len(doc.kernels) = 1
          BY <2>2 DEF SessionIs, SessionAccepts, SessionPossible
        <5> QED BY <2>1, <5>1, DocsAssumption
      <4> QED BY <4>1, Zenon DEF Parts
    <3>3. content' = [q \in Parts(doc) |->
                        IF q \in SignedInputs \cup Written(index) \cup {k, o}
                        THEN "ours" ELSE "host"]
      <4>1. WriteKernel(content) = WritePart(WritePart(content, k), o)
        BY <2>2, <3>2, Zenon DEF WriteKernel, WritePart, Ours
      <4>2. WritePart(content, k) = Ours((SignedInputs \cup Written(index)) \cup {k})
        BY <2>2, <3>2, OursWrite
      <4>3. WritePart(WritePart(content, k), o)
            = Ours(((SignedInputs \cup Written(index)) \cup {k}) \cup {o})
        <5> HIDE DEF k, o
        <5> QED BY <3>2, <4>2, OursWrite
      <4>4. ((SignedInputs \cup Written(index)) \cup {k}) \cup {o}
            = SignedInputs \cup Written(index) \cup {k, o}
        <5> HIDE DEF k, o
        <5> QED OBVIOUS
      <4> QED BY <3>1, <4>1, <4>3, <4>4, Zenon DEF Ours
    <3>4. HasMweb /\ ~for_liquid
      BY <2>1, <2>2, DocsAssumption DEF SessionIs, HasMweb, for_liquid
    <3>5. SignedInputs \cup Written(index) \cup {k, o}
          = {<<"in", i>> : i \in OurInputs}
              \cup ({<<"in", i>> : i \in MwebInputs(doc)}
                     \cup {<<"out", j>> : j \in MwebOutputs(doc)}
                     \cup {k, o})
      <4>1. Written(index) = {<<"in", i>> : i \in MwebInputs(doc)}
                               \cup {<<"out", j>> : j \in MwebOutputs(doc)}
        BY <2>1, AllWritten
      <4> QED BY <4>1, Zenon DEF SignedInputs
    <3>6. Complete'
      <4> DEFINE W == {<<"in", i>> : i \in OurInputs}
              \cup (IF sign_psbt_has_mweb_component(doc) /\ ~for_liquid
                     THEN {<<"in", i>> : i \in MwebInputs(doc)}
                            \cup {<<"out", j>> : j \in MwebOutputs(doc)} \cup {k, o}
                     ELSE {})
      <4>1. W = SignedInputs \cup Written(index) \cup {k, o}
        BY <3>4, <3>5, Zenon DEF HasMweb
      <4>2. content' = [q \in Parts(doc) |-> IF q \in W THEN "ours" ELSE "host"]
        <5> HIDE DEF W
        <5> QED BY <3>3, <4>1, Zenon
      <4> QED BY <2>1, <4>2, Zenon DEF Complete, OurInputs, for_liquid
    <3> QED BY <3>1, <3>6 DEF ContentInv, Reading, Showing
  <2> QED BY <2>3, <2>4
<1>19. CASE Cleanup
  <2>1. doc \in Docs /\ doc' = doc /\ pc = "cleanup" /\ session' = None
    BY <1>19 DEF Cleanup, serialise_psbt, DocInv
  <2>2. CASE answer = "signed"
    <3>1. content' = content /\ Complete /\ pc' \in {"send", "done"}
      BY <1>19, <2>1, <2>2, DocFacts DEF Cleanup, serialise_psbt, ContentInv, SessionInv
    <3>2. Complete'
      BY <2>1, <3>1, CompleteFrame
    <3> QED BY <2>1, <3>1, <3>2 DEF ContentInv, Reading, Showing
  <2>3. CASE answer # "signed"
    <3>1. pc' = "done" /\ answer' # "signed"
      BY <1>19, <2>3 DEF Cleanup, serialise_psbt
    <3>2. HasMweb => content' = Clean(doc)
      <4>1. CASE session = None
        <5>1. answer = "refused"
          BY <2>1, <2>3 DEF AnswerInv
        <5> QED BY <1>19, <2>1, <4>1, <5>1, DocFacts DEF Cleanup, serialise_psbt, ContentInv
      <4>2. CASE session # None
        BY <1>19, <2>1, <4>2, AbortRestores, DocFacts DEF Cleanup, serialise_psbt, SessionInv, DocInv
      <4> QED BY <4>1, <4>2
    <3> QED BY <2>1, <3>1, <3>2 DEF ContentInv, HasMweb, Reading, Showing
  <2> QED BY <2>2, <2>3
<1>20. CASE SendChunk
  <2>1. doc \in Docs /\ UNCHANGED <<doc, content, answer>> /\ answer = "signed"
    BY <1>20 DEF SendChunk, DocInv, AnswerInv
  <2>2. pc' \in {"restart", "await", "done", "send"}
    BY <1>20 DEF SendChunk
  <2>3. Complete'
    BY <2>1, CompleteFrame, DocFacts DEF ContentInv
  <2> QED BY <2>1, <2>2, <2>3 DEF ContentInv, Reading, Showing
<1>21. CASE check_extended_data_fields
  <2>1. doc \in Docs /\ UNCHANGED <<doc, content, answer>> /\ answer = "signed"
    BY <1>21 DEF check_extended_data_fields, DocInv, AnswerInv
  <2>2. pc' \in {"restart", "await", "done", "send"}
    BY <1>21 DEF check_extended_data_fields
  <2>3. Complete'
    BY <2>1, CompleteFrame, DocFacts DEF ContentInv
  <2> QED BY <2>1, <2>2, <2>3 DEF ContentInv, Reading, Showing
<1>22. CASE Exit
  <2>1. ContentInv'
    BY <1>22, SMTT(20) DEF Exit, Reset, ContentInv, DocInv, Reading, Showing
  <2> QED BY <2>1
<1>23. CASE UNCHANGED vars
  <2>1. UNCHANGED <<doc, content, pc, answer, session, index>>
    BY <1>23 DEF vars
  <2>2. CASE doc = None
    BY <2>1, <2>2 DEF ContentInv
  <2>3. CASE doc # None
    <3>1. Complete => Complete'
      BY <2>1, CompleteFrame
    <3>2. SignState(index) => SignState(index)'
      BY <2>1 DEF SignState, OurInputs
    <3>3. Ours(SignedInputs \cup Written(index))' = Ours(SignedInputs \cup Written(index))
      BY <2>1 DEF Ours, SignedInputs, Written, OurInputs
    <3>4. Clean(doc)' = Clean(doc) /\ HasMweb' = HasMweb
      BY <2>1 DEF HasMweb
    <3>5. (Len(doc.inputs) = Len(doc.inputs)') /\ (Len(doc.outputs) = Len(doc.outputs)')
      BY <2>1
    <3> QED BY <2>1, <2>3, <3>1, <3>2, <3>3, <3>4, <3>5, ZenonT(60) DEF ContentInv
  <2> QED BY <2>2, <2>3
<1> QED
  BY <1>1, <1>2, <1>3, <1>4, <1>5, <1>6, <1>7, <1>8, <1>9, <1>10, <1>11, <1>12,
     <1>13, <1>14, <1>15, <1>16, <1>17, <1>18, <1>19, <1>20, <1>21, <1>22, <1>23 DEF Next

\* A step that leaves the PSBT alone, or gives it back.
LEMMA KernelFrame ==
  ASSUME KernelInv, doc' = doc, content' = content \/ content' = Clean(doc)
  PROVE  KernelInv'
  BY DEF KernelInv, Clean

\* Every step keeps KernelInv.
LEMMA KernelStep ==
  ASSUME DocInv, SessionInv, ContentInv, KernelInv, [Next]_vars PROVE KernelInv'
<1> USE DEF Scan
<1>1. CASE deserialise_psbt
  <2>1. content' = Clean(doc)' \/ doc' = None
    BY <1>1 DEF deserialise_psbt, Clean, DocInv
  <2> QED BY <2>1 DEF KernelInv, Clean
<1>2. CASE params_txn_validate
  <2>1. UNCHANGED <<doc, content>>
    BY <1>2 DEF params_txn_validate
  <2> QED BY <2>1, KernelFrame
<1>3. CASE ReadMwebInput
  <2>1. UNCHANGED <<doc, content>>
    BY <1>3 DEF ReadMwebInput
  <2> QED BY <2>1, KernelFrame
<1>4. CASE ReadInput
  <2>1. UNCHANGED <<doc, content>>
    BY <1>4 DEF ReadInput
  <2> QED BY <2>1, KernelFrame
<1>5. CASE InputsRead
  <2>1. UNCHANGED <<doc, content>>
    BY <1>5 DEF InputsRead
  <2> QED BY <2>1, KernelFrame
<1>6. CASE psbt_update_outputs
  <2>1. UNCHANGED <<doc, content>>
    BY <1>6 DEF psbt_update_outputs
  <2> QED BY <2>1, KernelFrame
<1>7. CASE CheckAmounts
  <2>1. UNCHANGED <<doc, content>>
    BY <1>7 DEF CheckAmounts
  <2> QED BY <2>1, KernelFrame
<1>8. CASE BeginSession
  <2>1. doc' = doc /\ content = Clean(doc)
    BY <1>8, DocFacts DEF BeginSession, ContentInv, DocInv, Reading
  <2> QED BY <1>8, <2>1, BeginKeeps, KernelFrame
<1>9. CASE ShowOutputs
  <2>1. UNCHANGED <<doc, content>>
    BY <1>9 DEF ShowOutputs
  <2> QED BY <2>1, KernelFrame
<1>10. CASE ShowMwebOutput
  <2>1. UNCHANGED <<doc, content>>
    BY <1>10 DEF ShowMwebOutput
  <2> QED BY <2>1, KernelFrame
<1>11. CASE MwebOutputsShown
  <2>1. UNCHANGED <<doc, content>>
    BY <1>11 DEF MwebOutputsShown
  <2> QED BY <2>1, KernelFrame
<1>12. CASE ShowPegout
  <2>1. UNCHANGED <<doc, content>>
    BY <1>12 DEF ShowPegout
  <2> QED BY <2>1, KernelFrame
<1>13. CASE ShowPegin
  <2>1. UNCHANGED <<doc, content>>
    BY <1>13 DEF ShowPegin
  <2> QED BY <2>1, KernelFrame
<1>14. CASE ShowFee
  <2>1. UNCHANGED <<doc, content>>
    BY <1>14 DEF ShowFee
  <2> QED BY <2>1, KernelFrame
<1>15. CASE SignInput
  <2>1. doc' = doc /\ doc \in Docs /\ pc = "sign"
    BY <1>15 DEF SignInput, DocInv
  <2>2. content \in [Parts(doc) -> {"host", "partly", "ours"}]
    BY <2>1, DocFacts DEF ContentInv, SignState
  <2>3. \A v : [content EXCEPT ![<<"in", index>>] = v][<<"kernel", 1>>] = content[<<"kernel", 1>>]
               \/ <<"kernel", 1>> \notin Parts(doc)
    BY <2>2
  <2>4. content'[<<"kernel", 1>>] = content[<<"kernel", 1>>] \/ <<"kernel", 1>> \notin Parts(doc)
    BY <1>15, <2>3, Zenon DEF SignInput
  <2> QED BY <2>1, <2>4 DEF KernelInv
<1>16. CASE InputsSigned
  <2>1. UNCHANGED <<doc, content>>
    BY <1>16 DEF InputsSigned
  <2> QED BY <2>1, KernelFrame
<1>17. CASE CommitPart
  <2>1. doc' = doc /\ SessionAccepts(doc)
    BY <1>17 DEF CommitPart, SessionInv, SessionIs
  <2> QED BY <2>1 DEF KernelInv
<1>18. CASE CommitKernel
  <2>1. doc' = doc /\ SessionAccepts(doc)
    BY <1>18 DEF CommitKernel, SessionInv, SessionIs
  <2> QED BY <2>1 DEF KernelInv
<1>19. CASE Cleanup
  <2>1. doc' = doc /\ DOMAIN content = Parts(doc)
    BY <1>19 DEF Cleanup, serialise_psbt, DocInv
  <2>2. content' = content \/ content' = Clean(doc)
    BY <1>19, <2>1, AbortRestores DEF Cleanup, serialise_psbt, SessionInv
  <2> QED BY <2>1, <2>2, KernelFrame
<1>20. CASE SendChunk
  <2>1. UNCHANGED <<doc, content>>
    BY <1>20 DEF SendChunk
  <2> QED BY <2>1, KernelFrame
<1>21. CASE check_extended_data_fields
  <2>1. UNCHANGED <<doc, content>>
    BY <1>21 DEF check_extended_data_fields
  <2> QED BY <2>1, KernelFrame
<1>22. CASE Exit
  BY <1>22 DEF Exit, Reset, KernelInv
<1>23. CASE UNCHANGED vars
  <2>1. UNCHANGED <<doc, content>>
    BY <1>23 DEF vars
  <2> QED BY <2>1, KernelFrame
<1> QED
  BY <1>1, <1>2, <1>3, <1>4, <1>5, <1>6, <1>7, <1>8, <1>9, <1>10, <1>11, <1>12,
     <1>13, <1>14, <1>15, <1>16, <1>17, <1>18, <1>19, <1>20, <1>21, <1>22, <1>23 DEF Next

-----------------------------------------------------------------------------
(* Asking the user *)

\* What is change depends on the PSBT only.
LEMMA OwnChangeFrame ==
  ASSUME doc' = doc
  PROVE  \A j : OwnChange(j)' <=> OwnChange(j)
  BY Zenon DEF OwnChange, OurInputs

\* What was approved stays approved.
LEMMA ApprovedFrame ==
  ASSUME doc' = doc, confirmed \subseteq confirmed', Approved
  PROVE  Approved'
<1>1. \A c : c \in confirmed => c \in confirmed'
  OBVIOUS
<1> QED BY <1>1, OwnChangeFrame, ZenonT(60) DEF Approved, for_liquid

\* A step after the user has agreed.
LEMMA AgreedStep ==
  ASSUME Approved, doc' = doc, confirmed' = confirmed, pc' \notin {"mweb", "pegouts", "fee"}
  PROVE  ConfirmInv'
  BY ApprovedFrame DEF ConfirmInv

\* A step that neither asks nor signs.
LEMMA QuietStep ==
  ASSUME ConfirmInv, doc' = doc, confirmed' = confirmed,
         content' = content \/ content' = Clean(doc),
         pc' \notin {"mweb", "pegouts", "fee", "sign", "commit"},
         answer' = "signed" => answer = "signed"
  PROVE  ConfirmInv'
<1>1. doc # None => content' = Clean(doc)' \/ Approved'
  BY ApprovedFrame DEF ConfirmInv
<1>2. answer' = "signed" => Approved'
  BY ApprovedFrame DEF ConfirmInv
<1> QED BY <1>1, <1>2 DEF ConfirmInv

\* A step that asks, or gives up: nothing has been signed yet.
LEMMA AskedStep ==
  ASSUME doc' = doc, content' = Clean(doc), answer' # "signed",
         pc' \in {"mweb", "pegouts", "fee", "cleanup", "restart"},
         pc' = "mweb" => /\ index' \in 1..Len(doc.outputs) + 1
                         /\ \A j \in DOMAIN doc.outputs :
                              Seen(j)' \/ (doc.outputs[j].mweb /\ j >= index'),
         pc' \in {"pegouts", "fee"} => OutputsSeen',
         pc' = "pegouts" => index' \in 1..Len(doc.kernels[1].pegouts) + 1 /\ PegoutsSeen(index)',
         pc' = "fee" /\ session' # None =>
           PegoutsSeen(Len(doc.kernels[1].pegouts) + 1)' /\ PeginSeen'
  PROVE  ConfirmInv'
<1>1. content' = Clean(doc)'
  OBVIOUS
<1>2. /\ Len(doc.kernels[1].pegouts)' = Len(doc.kernels[1].pegouts)
      /\ Len(doc.outputs)' = Len(doc.outputs)
  OBVIOUS
<1>3. pc' = "mweb" => /\ index' \in 1..Len(doc.outputs)' + 1
                      /\ \A j \in DOMAIN doc'.outputs :
                           Seen(j)' \/ (doc'.outputs[j].mweb /\ j >= index')
  BY <1>2
<1> QED BY <1>1, <1>2, <1>3, ZenonT(60) DEF ConfirmInv

\* What was seen stays seen.
LEMMA SeenFrame ==
  ASSUME doc' = doc, confirmed \subseteq confirmed'
  PROVE  /\ \A j : Seen(j) => Seen(j)'
         /\ OutputsSeen => OutputsSeen'
<1>1. \A j : Seen(j) => Seen(j)'
  BY OwnChangeFrame DEF Seen
<1> QED BY <1>1 DEF OutputsSeen

\* An output that is not shown is change of the wallet whose coins are spent.
LEMMA HiddenIsChange ==
  ASSUME doc \in Docs, InfoInv, TrackInv, pc = "show_outputs",
         NEW j \in DOMAIN doc.outputs, j \notin Displayed, ~doc.outputs[j].mweb
  PROVE  OwnChange(j)
<1> DEFINE x == doc.outputs[j]
<1>1. ~display_output(j)
  BY DEF Displayed
<1>2. output_info[j] = OutputFlags(x)
  BY DEF InfoInv
<1>3. {"VALIDATED", "CHANGE"} \subseteq OutputFlags(x)
  <2>1. "MWEB" \notin OutputFlags(x)
    BY DEF OutputFlags
  <2> QED BY <1>1, <1>2, <2>1 DEF display_output
<1>4. Validated(x) /\ (x.change \/ is_green_multisig_signers(x))
  BY <1>3, Zenon DEF OutputFlags
<1>5. ScanIs(Len(doc.inputs) + 1)
  BY DEF TrackInv, Scanned, Showing
<1>6. Found(Len(doc.inputs) + 1) = OurInputs
  <2>1. OurInputs \subseteq 1..Len(doc.inputs) /\ Len(doc.inputs) \in Nat
    BY DocFacts DEF OurInputs
  <2>2. \A i \in OurInputs : i < Len(doc.inputs) + 1
    BY <2>1
  <2> QED BY <2>2, Zenon DEF Found
<1>7. ~x.mweb /\ x.ours > 0
  BY <1>4 DEF Validated
<1>8. CASE x.wallet = "single" /\ "SINGLESIG" \in signing_flags /\ KeyScriptMatches(x)
  <2>1. x.genuine /\ x.change
    BY <1>4, <1>8 DEF KeyScriptMatches, is_green_multisig_signers
  <2>2. \E i \in OurInputs : doc.inputs[i].wallet = "single"
    BY <1>5, <1>6, <1>8, Zenon DEF ScanIs
  <2>3. x.wallet \notin Records
    BY <1>8, RecordsAssumption
  <2> QED BY <1>7, <1>8, <2>1, <2>2, <2>3, Zenon DEF OwnChange, Family
<1>9. CASE /\ signing_flags = {"GREEN_MULTISIG", "CHANGE_ABANDONED"}
           /\ is_green_multisig_signers(x)
           /\ x.wallet = "green_recovery" \/ KeyScriptMatches(x)
  <2>1. /\ x.wallet \in {"green", "green_recovery"}
        /\ x.genuine \/ x.wallet = "green_recovery"
    BY <1>9 DEF KeyScriptMatches, is_green_multisig_signers
  <2>2. "GREEN_MULTISIG" \in signing_flags
    BY <1>9
  <2>3. PICK i \in OurInputs : is_green_multisig_signers(doc.inputs[i])
    BY <1>5, <1>6, <2>2, Zenon DEF ScanIs
  <2>4. Family(doc.inputs[i].wallet) = Family(x.wallet)
    BY <2>1, <2>3 DEF Family, is_green_multisig_signers
  <2>5. x.wallet \notin Records
    BY <2>1, RecordsAssumption
  <2>6. Family(x.wallet) = "green"
    BY <2>1 DEF Family
  <2> QED BY <1>7, <2>1, <2>4, <2>5, <2>6, Zenon DEF OwnChange
<1>10. CASE /\ signing_flags = {"MULTISIG", "SINGLE_MULTISIG_RECORD"}
            /\ ScriptMatches(record, x)
  <2>1. "SINGLE_MULTISIG_RECORD" \in signing_flags /\ "CHANGE_ABANDONED" \notin signing_flags
    BY <1>10
  <2>2. record \in Records /\ \E i \in OurInputs : ScriptMatches(record, doc.inputs[i])
    BY <1>5, <1>6, <2>1, Zenon DEF ScanIs
  <2>3. x.wallet = record /\ x.genuine
    BY <1>10 DEF ScriptMatches
  <2>4. x.change
    BY <1>4, <2>2, <2>3, RecordsAssumption DEF is_green_multisig_signers
  <2>5. \E i \in OurInputs : Family(doc.inputs[i].wallet) = Family(x.wallet)
    BY <2>2, <2>3, Zenon DEF ScriptMatches
  <2>6. \A i \in OurInputs : doc.inputs[i].wallet = x.wallet \/ doc.inputs[i].deep
    <3>1. \A i \in OurInputs : doc.inputs[i].deep \/ ScriptMatches(record, doc.inputs[i])
      BY <1>5, <1>6, <2>1, Zenon DEF ScanIs
    <3> QED BY <2>3, <3>1, Zenon DEF ScriptMatches
  <2> QED BY <1>7, <2>3, <2>4, <2>5, <2>6, Zenon DEF OwnChange
<1> QED BY <1>4, <1>8, <1>9, <1>10, Zenon DEF Validated

\* The amount of the inputs that the fee is computed from is the true one.
LEMMA InputsCounted ==
  ASSUME doc \in Docs, AmountInv, pc = "fee", ~for_liquid, ~HasMweb
  PROVE  total_input_amount = Total(Amounts(doc.inputs))
<1> DEFINE N == Len(doc.inputs)
           t == Total(Amounts(doc.inputs))
<1>1. EntriesOK(doc.inputs) /\ t <= UINT64_MAX /\ UINT64_MAX \in Nat
  BY DocsAssumption, MoneyAssumption DEF HasMweb
<1>2. N \in Nat /\ Len(Amounts(doc.inputs)) = N /\ \A i \in 1..N : Amounts(doc.inputs)[i] \in Nat
  BY <1>1, AmountsAreNat DEF EntriesOK
<1>3. t \in Nat /\ t = Sums(Amounts(doc.inputs))[N]
  <2>1. Sums(Amounts(doc.inputs)) \in [0..N -> Nat]
    BY <1>2, SumsDef
  <2>2. N \in 0..N
    BY <1>2
  <2> QED BY <1>2, <2>1, <2>2 DEF Total
<1>4. (N + 1) - 1 = N
  BY <1>2
<1>5. input_amount = t /\ mweb_input_amount = 0
  BY <1>3, <1>4 DEF AmountInv, AmountIs, Scanned, Showing
<1> HIDE DEF t
<1>6. t % (UINT64_MAX + 1) = t
  BY <1>1, <1>3, ModSmall
<1> QED BY <1>3, <1>5, <1>6 DEF total_input_amount, t

\* Every step keeps ConfirmInv.
LEMMA ConfirmStep ==
  ASSUME DocInv, AnswerInv, SessionInv, TrackInv, AmountInv, InfoInv, ContentInv, ConfirmInv,
         [Next]_vars
  PROVE  ConfirmInv'
<1> USE DEF Scan
<1>1. CASE deserialise_psbt
  <2>1. pc' \in {"validate", "done"} /\ answer' # "signed"
    BY <1>1 DEF deserialise_psbt, AnswerInv
  <2>2. content' = Clean(doc)' \/ doc' = None
    BY <1>1 DEF deserialise_psbt, Clean, DocInv
  <2> QED BY <2>1, <2>2 DEF ConfirmInv
<1>2. CASE params_txn_validate
  <2>1. UNCHANGED <<doc, content, confirmed>>
    BY <1>2 DEF params_txn_validate
  <2>2. /\ pc' \notin {"mweb", "pegouts", "fee", "sign", "commit"}
        /\ answer' = "signed" => answer = "signed"
    BY <1>2 DEF params_txn_validate, Fail
  <2> QED BY <2>1, <2>2, QuietStep
<1>3. CASE ReadMwebInput
  <2>1. UNCHANGED <<doc, content, confirmed>>
    BY <1>3 DEF ReadMwebInput
  <2>2. /\ pc' \notin {"mweb", "pegouts", "fee", "sign", "commit"}
        /\ answer' = "signed" => answer = "signed"
    BY <1>3 DEF ReadMwebInput, Fail
  <2> QED BY <2>1, <2>2, QuietStep
<1>4. CASE ReadInput
  <2>1. UNCHANGED <<doc, content, confirmed>>
    BY <1>4 DEF ReadInput
  <2>2. /\ pc' \notin {"mweb", "pegouts", "fee", "sign", "commit"}
        /\ answer' = "signed" => answer = "signed"
    BY <1>4 DEF ReadInput, Fail
  <2> QED BY <2>1, <2>2, QuietStep
<1>5. CASE InputsRead
  <2>1. UNCHANGED <<doc, content, confirmed>>
    BY <1>5 DEF InputsRead
  <2>2. /\ pc' \notin {"mweb", "pegouts", "fee", "sign", "commit"}
        /\ answer' = "signed" => answer = "signed"
    BY <1>5 DEF InputsRead
  <2> QED BY <2>1, <2>2, QuietStep
<1>6. CASE psbt_update_outputs
  <2>1. UNCHANGED <<doc, content, confirmed>>
    BY <1>6 DEF psbt_update_outputs
  <2>2. /\ pc' \notin {"mweb", "pegouts", "fee", "sign", "commit"}
        /\ answer' = "signed" => answer = "signed"
    BY <1>6 DEF psbt_update_outputs
  <2> QED BY <2>1, <2>2, QuietStep
<1>7. CASE CheckAmounts
  <2>1. UNCHANGED <<doc, content, confirmed>>
    BY <1>7 DEF CheckAmounts
  <2>2. /\ pc' \notin {"mweb", "pegouts", "fee", "sign", "commit"}
        /\ answer' = "signed" => answer = "signed"
    BY <1>7 DEF CheckAmounts, Fail
  <2> QED BY <2>1, <2>2, QuietStep
<1>8. CASE BeginSession
  <2>1. doc' = doc /\ confirmed' = confirmed /\ content = Clean(doc)
    BY <1>8, DocFacts DEF BeginSession, ContentInv, DocInv, Reading
  <2>2. /\ pc' \notin {"mweb", "pegouts", "fee", "sign", "commit"}
        /\ answer' = "signed" => answer = "signed"
    BY <1>8 DEF BeginSession, Fail
  <2> QED BY <1>8, <2>1, <2>2, BeginKeeps, QuietStep
<1>9. CASE ShowOutputs
  <2>1. doc \in Docs /\ UNCHANGED <<doc, content>> /\ answer' # "signed" /\ pc = "show_outputs"
    <3>1. UNCHANGED <<doc, content>> /\ pc = "show_outputs"
      BY <1>9 DEF ShowOutputs
    <3>2. answer' # "signed"
      BY <1>9, <3>1 DEF ShowOutputs, Accept, Fail, AnswerInv, Showing
    <3> QED BY <3>1, <3>2 DEF DocInv
  <2>2. content' = Clean(doc)
    BY <2>1, DocFacts DEF ContentInv, Showing
  <2>3. CASE pc' = "cleanup"
    BY <2>1, <2>2, <2>3, AskedStep
  <2>4. CASE pc' # "cleanup"
    <3> DEFINE shown == IF for_liquid /\ doc.kind = "swap" THEN {<<"swap", 0, 0>>}
                        ELSE {<<"out", j, doc.outputs[j].sat>> : j \in Displayed}
    <3>1. /\ confirmed' = confirmed \cup shown /\ index' = 1 /\ session' = session
          /\ pc' = IF for_liquid THEN "fee" ELSE "mweb"
      BY <1>9, <2>4, Zenon DEF ShowOutputs, Accept, Fail
    <3>2. ASSUME ~(for_liquid /\ doc.kind = "swap"), NEW j \in DOMAIN doc.outputs
          PROVE  Seen(j)' \/ doc.outputs[j].mweb
      <4>1. CASE j \in Displayed
        <5>1. <<"out", j, doc.outputs[j].sat>> \in confirmed'
          BY <3>1, <3>2, <4>1, Zenon
        <5> QED BY <2>1, <5>1 DEF Seen
      <4>2. CASE j \notin Displayed
        <5>1. OwnChange(j) \/ doc.outputs[j].mweb
          BY <2>1, <4>2, HiddenIsChange
        <5> QED BY <2>1, <5>1, OwnChangeFrame DEF Seen
      <4> QED BY <4>1, <4>2
    <3>3. CASE for_liquid
      <4>1. ~HasMweb /\ session = None
        BY <2>1, <3>3, DocsAssumption DEF SessionInv, SessionIs, HasMweb, for_liquid
      <4>2. \A j \in DOMAIN doc.outputs : ~doc.outputs[j].mweb
        BY <4>1 DEF HasMweb, sign_psbt_has_mweb_component, MwebOutputs
      <4>3. OutputsSeen'
        <5>1. CASE doc.kind = "swap"
          <6>1. <<"swap", 0, 0>> \in confirmed'
            BY <3>1, <3>3, <5>1, Zenon
          <6> QED BY <6>1 DEF OutputsSeen
        <5>2. CASE doc.kind # "swap"
          <6>1. \A j \in DOMAIN doc.outputs : Seen(j)'
            BY <3>2, <4>2, <5>2
          <6> QED BY <2>1, <6>1 DEF OutputsSeen
        <5> QED BY <5>1, <5>2
      <4>4. pc' = "fee" /\ session' = None
        BY <3>1, <3>3, <4>1
      <4> QED BY <2>1, <2>2, <4>3, <4>4, AskedStep
    <3>4. CASE ~for_liquid
      <4>1. 1 \in 1..Len(doc.outputs) + 1 /\ \A j \in DOMAIN doc.outputs : j >= 1
        BY <2>1, DocFacts
      <4>2. \A j \in DOMAIN doc.outputs : Seen(j)' \/ (doc.outputs[j].mweb /\ j >= index')
        BY <3>1, <3>2, <3>4, <4>1
      <4>3. pc' = "mweb" /\ index' \in 1..Len(doc.outputs) + 1
        BY <3>1, <3>4, <4>1
      <4> QED BY <2>1, <2>2, <4>2, <4>3, AskedStep
    <3> QED BY <3>3, <3>4
  <2> QED BY <2>3, <2>4
<1>10. CASE ShowMwebOutput
  <2>1. doc \in Docs /\ UNCHANGED <<doc, content>> /\ answer' # "signed" /\ pc = "mweb"
    <3>1. UNCHANGED <<doc, content>> /\ pc = "mweb"
      BY <1>10 DEF ShowMwebOutput
    <3>2. answer' # "signed"
      BY <1>10, <3>1 DEF ShowMwebOutput, Accept, Fail, AnswerInv, Showing
    <3> QED BY <3>1, <3>2 DEF DocInv
  <2>2. content' = Clean(doc)
    BY <2>1, DocFacts DEF ContentInv, Showing
  <2>3. CASE pc' = "cleanup"
    BY <2>1, <2>2, <2>3, AskedStep
  <2>4. CASE pc' # "cleanup"
    <3>1. /\ Len(doc.outputs) \in Nat /\ index \in 1..Len(doc.outputs)
          /\ DOMAIN doc.outputs = 1..Len(doc.outputs)
          /\ \A j \in DOMAIN doc.outputs : Seen(j) \/ (doc.outputs[j].mweb /\ j >= index)
      <4>1. index \in 1..Len(doc.outputs) + 1 /\ index <= Len(doc.outputs)
        BY <1>10, <2>1 DEF ShowMwebOutput, ConfirmInv
      <4>2. Len(doc.outputs) \in Nat /\ DOMAIN doc.outputs = 1..Len(doc.outputs)
        BY <2>1, DocFacts
      <4>3. \A j \in DOMAIN doc.outputs : Seen(j) \/ (doc.outputs[j].mweb /\ j >= index)
        BY <2>1 DEF ConfirmInv
      <4> QED BY <4>1, <4>2, <4>3
    <3>2. index' = index + 1 /\ confirmed \subseteq confirmed' /\ pc' = "mweb"
      BY <1>10, <2>1, <2>4 DEF ShowMwebOutput, Accept, Fail
    <3>3. Seen(index)' \/ Seen(index) \/ doc.outputs[index].mweb
      BY <3>1
    <3>4. doc.outputs[index].mweb => <<"out", index, doc.outputs[index].sat>> \in confirmed'
      <4> HAVE doc.outputs[index].mweb
      <4>1. index \in MwebOutputs(doc) /\ HasMweb
        BY <3>1 DEF MwebOutputs, HasMweb, sign_psbt_has_mweb_component
      <4>2. session # None
        BY <2>1, <4>1 DEF SessionInv, Showing
      <4>3. /\ doc.network = "litecoin"
            /\ mweb_session_get_output_value(session, index) = doc.outputs[index].sat
        BY <4>1, <4>2 DEF SessionInv, SessionIs, SessionAccepts, SessionPossible, SessionOf,
          mweb_session_get_output_value
      <4>4. confirmed' =
              confirmed \cup {<<"out", index, mweb_session_get_output_value(session, index)>>}
        BY <1>10, <2>4, <4>2, <4>3, Zenon DEF ShowMwebOutput, Accept, Fail
      <4> QED BY <4>3, <4>4
    <3>5. ASSUME NEW j \in DOMAIN doc.outputs
          PROVE  Seen(j)' \/ (doc.outputs[j].mweb /\ j >= index')
      <4>1. CASE Seen(j)
        BY <2>1, <3>2, <4>1, SeenFrame
      <4>2. CASE doc.outputs[j].mweb /\ j = index
        <5>1. <<"out", j, doc.outputs[j].sat>> \in confirmed'
          BY <3>4, <4>2
        <5> QED BY <2>1, <5>1 DEF Seen
      <4>3. CASE doc.outputs[j].mweb /\ j > index
        BY <3>1, <3>2, <4>3
      <4> QED BY <3>1, <4>1, <4>2, <4>3
    <3>6. index' \in 1..Len(doc.outputs) + 1
      BY <3>1, <3>2
    <3> QED BY <2>1, <2>2, <3>2, <3>5, <3>6, AskedStep
  <2> QED BY <2>3, <2>4
<1>11. CASE MwebOutputsShown
  <2>1. doc \in Docs /\ UNCHANGED <<doc, content>> /\ answer' # "signed" /\ pc = "mweb"
    <3>1. UNCHANGED <<doc, content>> /\ pc = "mweb"
      BY <1>11 DEF MwebOutputsShown
    <3>2. answer' # "signed"
      BY <1>11, <3>1 DEF MwebOutputsShown, AnswerInv, Showing
    <3> QED BY <3>1, <3>2 DEF DocInv
  <2>2. content' = Clean(doc)
    BY <2>1, DocFacts DEF ContentInv, Showing
  <2>3. \A j \in DOMAIN doc.outputs : Seen(j)
    <3>1. index = Len(doc.outputs) + 1 /\ \A j \in DOMAIN doc.outputs : j < Len(doc.outputs) + 1
      BY <1>11, <2>1, DocFacts DEF MwebOutputsShown
    <3>2. \A j \in DOMAIN doc.outputs : Seen(j) \/ (doc.outputs[j].mweb /\ j >= index)
      BY <2>1 DEF ConfirmInv
    <3>3. \A j \in DOMAIN doc.outputs : ~(j >= index)
      BY <2>1, <3>1, DocFacts
    <3> QED BY <3>2, <3>3, Zenon
  <2>4. /\ confirmed' = confirmed /\ session' = session /\ index' = 1
        /\ pc' = IF session = None THEN "fee" ELSE "pegouts"
    BY <1>11 DEF MwebOutputsShown
  <2>5. OutputsSeen'
    BY <2>1, <2>3, <2>4, SeenFrame DEF OutputsSeen
  <2>6. CASE session = None
    BY <2>1, <2>2, <2>4, <2>5, <2>6, AskedStep
  <2>7. CASE session # None
    <3>1. /\ Len(doc.kernels[1].pegouts) \in Nat
          /\ DOMAIN doc.kernels[1].pegouts = 1..Len(doc.kernels[1].pegouts)
      BY <2>1, <2>7, KernelFacts DEF SessionInv, SessionIs
    <3>2. /\ 1 \in 1..Len(doc.kernels[1].pegouts) + 1
          /\ \A p \in DOMAIN doc.kernels[1].pegouts : ~(p < 1)
      BY <3>1
    <3>3. PegoutsSeen(index)'
      BY <2>1, <2>4, <3>2 DEF PegoutsSeen
    <3> QED BY <2>1, <2>2, <2>4, <2>5, <2>7, <3>2, <3>3, AskedStep
  <2> QED BY <2>6, <2>7
<1>12. CASE ShowPegout
  <2>1. doc \in Docs /\ UNCHANGED <<doc, content>> /\ answer' # "signed" /\ pc = "pegouts"
    <3>1. UNCHANGED <<doc, content>> /\ pc = "pegouts"
      BY <1>12 DEF ShowPegout
    <3>2. answer' # "signed"
      BY <1>12, <3>1 DEF ShowPegout, Accept, Fail, AnswerInv, Showing
    <3> QED BY <3>1, <3>2 DEF DocInv
  <2>2. content' = Clean(doc)
    BY <2>1, DocFacts DEF ContentInv, Showing
  <2>3. CASE pc' = "cleanup"
    BY <2>1, <2>2, <2>3, AskedStep
  <2>4. CASE pc' # "cleanup"
    <3> DEFINE N == Len(doc.kernels[1].pegouts)
    <3>1. session # None /\ SessionIs(session)
      BY <2>1 DEF SessionInv
    <3>2. session.pegouts = doc.kernels[1].pegouts
      BY <3>1 DEF SessionIs, SessionOf
    <3>3. N \in Nat /\ DOMAIN doc.kernels[1].pegouts = 1..N
      BY <2>1, <3>1, KernelFacts DEF SessionIs
    <3>4. index \in 1..N + 1 /\ index <= N /\ PegoutsSeen(index) /\ OutputsSeen
      BY <1>12, <2>1, <3>2 DEF ShowPegout, ConfirmInv
    <3>5. /\ confirmed' = confirmed \cup {<<"pegout", index, doc.kernels[1].pegouts[index].sat>>}
          /\ pc' = "pegouts" /\ index' = index + 1
      BY <1>12, <2>4, <3>2, Zenon DEF ShowPegout, Accept, Fail
    <3>6. OutputsSeen'
      BY <2>1, <3>4, <3>5, SeenFrame
    <3>7. PegoutsSeen(index)'
      <4>1. ASSUME NEW p \in DOMAIN doc.kernels[1].pegouts, p < index'
            PROVE  <<"pegout", p, doc.kernels[1].pegouts[p].sat>> \in confirmed'
        <5> HIDE DEF N
        <5>1. CASE p < index
          BY <3>4, <3>5, <5>1 DEF PegoutsSeen
        <5>2. CASE p = index
          BY <3>5, <5>2
        <5>3. p < index \/ p = index
          BY <3>3, <3>4, <3>5, <4>1
        <5> QED BY <5>1, <5>2, <5>3
      <4> QED BY <2>1, <4>1 DEF PegoutsSeen
    <3>8. index' \in 1..N + 1
      <4> HIDE DEF N
      <4> QED BY <3>3, <3>4, <3>5
    <3> QED BY <2>1, <2>2, <3>5, <3>6, <3>7, <3>8, AskedStep
  <2> QED BY <2>3, <2>4
<1>13. CASE ShowPegin
  <2>1. doc \in Docs /\ UNCHANGED <<doc, content>> /\ answer' # "signed" /\ pc = "pegouts"
    <3>1. UNCHANGED <<doc, content>> /\ pc = "pegouts"
      BY <1>13 DEF ShowPegin
    <3>2. answer' # "signed"
      BY <1>13, <3>1 DEF ShowPegin, Accept, Fail, AnswerInv, Showing
    <3> QED BY <3>1, <3>2 DEF DocInv
  <2>2. content' = Clean(doc)
    BY <2>1, DocFacts DEF ContentInv, Showing
  <2>3. CASE pc' = "cleanup"
    BY <2>1, <2>2, <2>3, AskedStep
  <2>4. CASE pc' # "cleanup"
    <3> DEFINE N == Len(doc.kernels[1].pegouts)
    <3>1. session # None /\ SessionIs(session)
      BY <2>1 DEF SessionInv
    <3>2. session.pegouts = doc.kernels[1].pegouts /\ session.pegin = doc.kernels[1].pegin
      BY <3>1 DEF SessionIs, SessionOf
    <3>3. index = N + 1 /\ PegoutsSeen(N + 1) /\ OutputsSeen
      BY <1>13, <2>1, <3>2 DEF ShowPegin, ConfirmInv
    <3>4. /\ confirmed \subseteq confirmed' /\ pc' = "fee"
          /\ doc.kernels[1].pegin > 0 => <<"pegin", 1, doc.kernels[1].pegin>> \in confirmed'
      BY <1>13, <2>4, <3>2 DEF ShowPegin, Accept, Fail
    <3>5. OutputsSeen'
      BY <2>1, <3>3, <3>4, SeenFrame
    <3>6. PegoutsSeen(N + 1)'
      BY <2>1, <3>3, <3>4 DEF PegoutsSeen
    <3>7. PeginSeen'
      BY <2>1, <3>4 DEF PeginSeen
    <3> QED BY <2>1, <2>2, <3>4, <3>5, <3>6, <3>7, AskedStep
  <2> QED BY <2>3, <2>4
<1>14. CASE ShowFee
  <2>1. doc \in Docs /\ UNCHANGED <<doc, content>> /\ answer' # "signed" /\ pc = "fee"
    <3>1. UNCHANGED <<doc, content>> /\ pc = "fee"
      BY <1>14 DEF ShowFee
    <3>2. answer' # "signed"
      BY <1>14, <3>1 DEF ShowFee, Accept, Fail, AnswerInv, Showing
    <3> QED BY <3>1, <3>2 DEF DocInv
  <2>2. content' = Clean(doc)
    BY <2>1, DocFacts DEF ContentInv, Showing
  <2>3. CASE pc' \in {"cleanup", "restart"}
    BY <2>1, <2>2, <2>3, AskedStep
  <2>4. CASE pc' \notin {"cleanup", "restart"}
    <3>1. pc' = "sign" /\ OutputsSeen /\ confirmed \subseteq confirmed'
      BY <1>14, <2>1, <2>4 DEF ShowFee, Accept, Fail, ConfirmInv
    <3>2. OutputsSeen'
      BY <2>1, <3>1, SeenFrame
    <3>3. session = None <=> ~HasMweb
      BY <2>1 DEF SessionInv, Showing
    <3>4. CASE for_liquid
      <4>1. ~HasMweb
        BY <2>1, <3>4, DocsAssumption DEF HasMweb, for_liquid
      <4>2. <<"fee", 1, doc.fee>> \in confirmed' \/ (doc.partial /\ doc.fee = 0)
        BY <1>14, <2>4, <3>4 DEF ShowFee, Accept, Fail
      <4>3. Approved'
        BY <2>1, <3>2, <3>4, <4>1, <4>2, Zenon DEF Approved, OutputsSeen, Seen, HasMweb, for_liquid
      <4> QED BY <3>1, <4>3 DEF ConfirmInv
    <3>5. CASE ~for_liquid /\ session # None
      <4>1. SessionIs(session) /\ HasMweb
        BY <3>3, <3>5 DEF SessionInv
      <4>2. session.fee = doc.kernels[1].fee /\ Len(doc.kernels) = 1
        BY <4>1 DEF SessionIs, SessionOf, SessionAccepts, SessionPossible
      <4>3. <<"fee", 1, doc.kernels[1].fee>> \in confirmed'
        BY <1>14, <2>4, <3>5, <4>2 DEF ShowFee, Accept, Fail
      <4>4. \A p \in DOMAIN doc.kernels[1].pegouts :
              <<"pegout", p, doc.kernels[1].pegouts[p].sat>> \in confirmed'
        <5>1. PegoutsSeen(Len(doc.kernels[1].pegouts) + 1)
          BY <2>1, <3>5 DEF ConfirmInv
        <5>2. \A p \in DOMAIN doc.kernels[1].pegouts : p < Len(doc.kernels[1].pegouts) + 1
          BY <2>1, <4>1, KernelFacts DEF SessionIs
        <5> QED BY <3>1, <5>1, <5>2 DEF PegoutsSeen
      <4>5. doc.kernels[1].pegin > 0 => <<"pegin", 1, doc.kernels[1].pegin>> \in confirmed'
        BY <2>1, <3>1, <3>5 DEF ConfirmInv, PeginSeen
      <4>6. Approved'
        BY <2>1, <3>2, <3>5, <4>1, <4>2, <4>3, <4>4, <4>5, Zenon DEF
          Approved, OutputsSeen, Seen, HasMweb, for_liquid
      <4> QED BY <3>1, <4>6 DEF ConfirmInv
    <3>6. CASE ~for_liquid /\ session = None
      <4> DEFINE ins == Total(Amounts(doc.inputs))
                 outs == Total(Amounts(doc.outputs))
      <4>1. ~HasMweb
        BY <3>3, <3>6
      <4>2. total_input_amount = ins
        BY <2>1, <3>6, <4>1, InputsCounted
      <4>3. <<"fee", 1, ins - outs>> \in confirmed'
        <5>1. <<"fee", 1, total_input_amount - output_amount>> \in confirmed'
          BY <1>14, <2>4, <3>6 DEF ShowFee, Accept, Fail
        <5> QED BY <4>2, <5>1 DEF output_amount
      <4>4. Approved'
        BY <2>1, <3>2, <3>6, <4>1, <4>3, Zenon DEF Approved, OutputsSeen, Seen, HasMweb, for_liquid
      <4> QED BY <3>1, <4>4 DEF ConfirmInv
    <3> QED BY <3>4, <3>5, <3>6
  <2> QED BY <2>3, <2>4
<1>15. CASE SignInput
  <2>1. UNCHANGED <<doc, confirmed>> /\ pc' \in {"sign", "commit", "cleanup"}
    BY <1>15 DEF SignInput, Fail
  <2>2. Approved
    BY <1>15 DEF SignInput, ConfirmInv
  <2> QED BY <2>1, <2>2, AgreedStep
<1>16. CASE InputsSigned
  <2>1. UNCHANGED <<doc, confirmed>> /\ pc' \in {"sign", "commit", "cleanup"}
    BY <1>16 DEF InputsSigned
  <2>2. Approved
    BY <1>16 DEF InputsSigned, ConfirmInv
  <2> QED BY <2>1, <2>2, AgreedStep
<1>17. CASE CommitPart
  <2>1. UNCHANGED <<doc, confirmed>> /\ pc' \in {"sign", "commit", "cleanup"}
    BY <1>17 DEF CommitPart, CommitFails, Fail
  <2>2. Approved
    BY <1>17 DEF CommitPart, ConfirmInv
  <2> QED BY <2>1, <2>2, AgreedStep
<1>18. CASE CommitKernel
  <2>1. UNCHANGED <<doc, confirmed>> /\ pc' \in {"sign", "commit", "cleanup"}
    BY <1>18 DEF CommitKernel, CommitFails, Fail
  <2>2. Approved
    BY <1>18 DEF CommitKernel, ConfirmInv
  <2> QED BY <2>1, <2>2, AgreedStep
<1>19. CASE Cleanup
  <2>1. doc' = doc /\ confirmed' = confirmed /\ DOMAIN content = Parts(doc)
    BY <1>19 DEF Cleanup, serialise_psbt, DocInv
  <2>2. content' = content \/ content' = Clean(doc)
    BY <1>19, <2>1, AbortRestores DEF Cleanup, serialise_psbt, SessionInv
  <2>3. /\ pc' \notin {"mweb", "pegouts", "fee", "sign", "commit"}
        /\ answer' = "signed" => answer = "signed"
    BY <1>19 DEF Cleanup, serialise_psbt
  <2> QED BY <2>1, <2>2, <2>3, QuietStep
<1>20. CASE SendChunk
  <2>1. UNCHANGED <<doc, content, confirmed>>
    BY <1>20 DEF SendChunk
  <2>2. /\ pc' \notin {"mweb", "pegouts", "fee", "sign", "commit"}
        /\ answer' = "signed" => answer = "signed"
    BY <1>20 DEF SendChunk
  <2> QED BY <2>1, <2>2, QuietStep
<1>21. CASE check_extended_data_fields
  <2>1. UNCHANGED <<doc, content, confirmed>>
    BY <1>21 DEF check_extended_data_fields
  <2>2. /\ pc' \notin {"mweb", "pegouts", "fee", "sign", "commit"}
        /\ answer' = "signed" => answer = "signed"
    BY <1>21 DEF check_extended_data_fields
  <2> QED BY <2>1, <2>2, QuietStep
<1>22. CASE Exit
  BY <1>22 DEF Exit, Reset, ConfirmInv
<1>23. CASE UNCHANGED vars
  <2>1. UNCHANGED <<pc, doc, content, index, session, confirmed, answer>>
    BY <1>23 DEF vars
  <2>2. Approved => Approved'
    BY <2>1, ApprovedFrame
  <2>3. (\A j : Seen(j) => Seen(j)') /\ (OutputsSeen => OutputsSeen')
    BY <2>1, SeenFrame
  <2>4. \A n : PegoutsSeen(n) <=> PegoutsSeen(n)'
    BY <2>1 DEF PegoutsSeen
  <2>5. PeginSeen <=> PeginSeen'
    BY <2>1 DEF PeginSeen
  <2>6. Clean(doc)' = Clean(doc)
    BY <2>1
  <2> QED BY <2>1, <2>2, <2>3, <2>4, <2>5, <2>6, ZenonT(60) DEF ConfirmInv
<1> QED
  BY <1>1, <1>2, <1>3, <1>4, <1>5, <1>6, <1>7, <1>8, <1>9, <1>10, <1>11, <1>12,
     <1>13, <1>14, <1>15, <1>16, <1>17, <1>18, <1>19, <1>20, <1>21, <1>22, <1>23 DEF Next

-----------------------------------------------------------------------------
(* The invariant and what follows from it *)

\* Every conjunct rests on others, so they are proved together.
IInv ==
  /\ DocInv /\ AnswerInv /\ SessionInv /\ TrackInv /\ AmountInv /\ InfoInv
  /\ ContentInv /\ KernelInv /\ ConfirmInv

\* The device starts without a request.
LEMMA InitInv == Init => IInv
<1> SUFFICES ASSUME Init PROVE IInv
  OBVIOUS
<1>1. DocInv /\ AnswerInv /\ InfoInv /\ ContentInv /\ KernelInv
  BY DEF Init, DocInv, AnswerInv, Reading, Showing, InfoInv, ContentInv, KernelInv
<1>2. SessionInv /\ TrackInv /\ AmountInv /\ ConfirmInv
  BY DEF Init, SessionInv, TrackInv, AmountInv, ConfirmInv, Scanned, Showing
<1> QED BY <1>1, <1>2 DEF IInv

\* Every step keeps the invariant.
LEMMA StepInv == IInv /\ [Next]_vars => IInv'
<1> SUFFICES ASSUME IInv, [Next]_vars PROVE IInv'
  OBVIOUS
<1> USE DEF IInv
<1>1. (DocInv /\ AnswerInv)'
  BY DocStep
<1>2. SessionInv'
  BY SessionStep
<1>3. TrackInv'
  BY TrackStepInv
<1>4. AmountInv'
  BY AmountStep
<1>5. InfoInv'
  BY InfoStep
<1>6. ContentInv'
  BY ContentStep
<1>7. KernelInv'
  BY KernelStep
<1>8. ConfirmInv'
  BY ConfirmStep
<1> QED BY <1>1, <1>2, <1>3, <1>4, <1>5, <1>6, <1>7, <1>8

\* The invariant holds in every state.
THEOREM SignPsbtInvariant == Spec => []IInv
<1>1. Init => IInv
  BY InitInv
<1>2. IInv /\ [Next]_vars => IInv'
  BY StepInv
<1> QED BY <1>1, <1>2, PTL DEF Spec

\* A PSBT in which nothing was written is as the host sent it.
LEMMA CleanIsUntouched ==
  ASSUME content = Clean(doc)
  PROVE  Untouched
  BY DEF Clean, Untouched

\* sign_psbt writes no signature, in memory or for the host, before the user has accepted every
\* output that is not the wallet's own change, every pegout, the pegin and the fee.
THEOREM SigningIsApproved == Spec => []SignedIsApproved
<1>1. IInv => SignedIsApproved
  BY CleanIsUntouched DEF IInv, ConfirmInv, SignedIsApproved
<1> QED BY <1>1, SignPsbtInvariant, PTL

\* mweb_session_commit signs a kernel only if the true sums of what it binds balance, although
\* the device adds with 64 bits.
THEOREM KernelsBalance == Spec => []KernelBalances
<1>1. ASSUME IInv PROVE KernelBalances
  <2> SUFFICES ASSUME doc # None, <<"kernel", 1>> \in DOMAIN content,
                      content[<<"kernel", 1>>] = "ours"
               PROVE  Total(MwebAmounts(doc.inputs)) + doc.kernels[1].pegin
                        = Total(MwebAmounts(doc.outputs)) + doc.kernels[1].fee
                            + Total(Amounts(doc.kernels[1].pegouts))
    BY Zenon DEF KernelBalances
  <2>1. doc \in Docs /\ SessionAccepts(doc)
    BY <1>1 DEF IInv, DocInv, KernelInv
  <2> QED BY <2>1, AcceptedBalances
<1> QED BY <1>1, SignPsbtInvariant, PTL

-----------------------------------------------------------------------------
(* The refinement *)

\* What the abstract state is at each place of the code.
PhaseFacts ==
  /\ doc = None /\ pc = "idle" => Phase = "idle" /\ Document = "host"
  /\ doc = None /\ pc = "done" => Phase = "refused" /\ Document = "host"
  /\ doc # None /\ (pc \in Reading \cup Showing \/ (pc = "restart" /\ answer = "none")) =>
       Phase = "asked" /\ Document = "host"
  /\ doc # None /\ pc \in {"sign", "commit", "cleanup"} =>
       Document = "host" /\ Phase = IF Approved THEN "approved" ELSE "asked"
  /\ doc # None /\ pc \in {"send", "await", "done", "restart"} /\ answer = "signed" /\ Complete =>
       Phase = "signed" /\ Document = "signed"
  /\ doc # None /\ pc = "done" /\ answer = "refused" /\ (HasMweb => content = Clean(doc)) =>
       Phase = "refused" /\ Document = "host"
  /\ doc # None /\ pc = "done" /\ answer = "refused" /\ HasMweb /\ ~for_liquid /\ Complete =>
       Phase = "refused" /\ Document = "signed"

\* The offsets of a PSBT with an MWEB part are signed if it is signed as a whole.
LEMMA CompleteIsTouched == Complete /\ HasMweb /\ ~for_liquid => ~Untouched
<1> SUFFICES ASSUME Complete, HasMweb, ~for_liquid PROVE ~Untouched
  OBVIOUS
<1> DEFINE o == <<"offsets", 0>>
           W == {<<"in", i>> : i \in OurInputs}
                  \cup ({<<"in", i>> : i \in MwebInputs(doc)}
                          \cup {<<"out", j>> : j \in MwebOutputs(doc)} \cup {<<"kernel", 1>>, o})
<1>1. content = [p \in Parts(doc) |-> IF p \in W THEN "ours" ELSE "host"]
  BY DEF Complete, HasMweb
<1>2. o \in Parts(doc) /\ o \in W
  BY DEF Parts
<1>3. content[o] = "ours" /\ o \in DOMAIN content
  <2> HIDE DEF W, o
  <2> QED BY <1>1, <1>2
<1> HIDE DEF o
<1> QED BY <1>3 DEF Untouched

\* The abstract state before and after a step.
LEMMA PhaseNow == PhaseFacts /\ PhaseFacts'
<1>1. PhaseFacts
  BY CleanIsUntouched, CompleteIsTouched DEF
    PhaseFacts, Phase, Document, Reading, Showing, HasMweb
<1>2. content' = Clean(doc)' => Untouched'
  BY DEF Clean, Untouched
<1>3. Complete' /\ HasMweb' /\ ~for_liquid' => ~Untouched'
  BY CompleteIsTouched, PTL
<1>4. PhaseFacts'
  BY <1>2, <1>3 DEF PhaseFacts, Phase, Document, Reading, Showing, HasMweb
<1> QED BY <1>1, <1>4

\* A step in which the user and the host learn nothing, or the user agrees.
LEMMA AbstractAsk ==
  ASSUME doc # None, doc' # None, pc \in Reading \cup Showing,
         pc' \in Reading \cup Showing \cup {"sign", "cleanup", "restart"},
         pc' = "restart" => answer' = "none"
  PROVE  [Atomic!Next]_(Atomic!vars)
<1>1. Phase = "asked" /\ Document = "host"
  BY PhaseNow DEF PhaseFacts
<1>2. Phase' \in {"asked", "approved"} /\ Document' = "host"
  BY PhaseNow DEF PhaseFacts
<1> HIDE DEF Phase, Document
<1> QED BY <1>1, <1>2 DEF Atomic!Next, Atomic!vars, Atomic!Approve

\* A step of the signing, after the user has agreed.
LEMMA AbstractSign ==
  ASSUME ConfirmInv, doc # None, UNCHANGED <<doc, confirmed>>, pc \in {"sign", "commit"},
         pc' \in {"sign", "commit", "cleanup"}
  PROVE  [Atomic!Next]_(Atomic!vars)
<1>1. Approved
  BY DEF ConfirmInv
<1>2. Approved'
  BY <1>1, ApprovedFrame
<1>3. Phase = "approved" /\ Document = "host"
  BY <1>1, PhaseNow DEF PhaseFacts
<1>4. Phase' = "approved" /\ Document' = "host"
  BY <1>2, PhaseNow DEF PhaseFacts
<1> QED BY <1>3, <1>4 DEF Atomic!vars

\* Every step of sign_psbt is one of AtomicSign, or none.
LEMMA AbstractStep ==
  ASSUME IInv, IInv', [Next]_vars PROVE [Atomic!Next]_(Atomic!vars)
<1> USE DEF Scan, IInv
<1>1. CASE deserialise_psbt
  <2>1. Phase = "idle" /\ Document = "host"
    BY <1>1, PhaseNow DEF deserialise_psbt, DocInv, PhaseFacts
  <2>2. Phase' \in {"asked", "refused"} /\ Document' = "host"
    <3>1. CASE doc' # None /\ pc' = "validate"
      BY <3>1, PhaseNow DEF PhaseFacts, Reading
    <3>2. CASE doc' = None /\ pc' = "done"
      BY <3>2, PhaseNow DEF PhaseFacts
    <3> QED BY <1>1, <3>1, <3>2, DocsAssumption DEF deserialise_psbt, DocInv
  <2> QED BY <2>1, <2>2 DEF Atomic!Next, Atomic!Ask
<1>2. CASE params_txn_validate
  <2>1. doc # None /\ doc' = doc
    BY <1>2 DEF params_txn_validate, DocInv
  <2>2. /\ pc \in Reading \cup Showing
        /\ pc' \in Reading \cup Showing \cup {"sign", "cleanup", "restart"}
        /\ pc' = "restart" => answer' = "none"
    BY <1>2 DEF params_txn_validate, Fail, AnswerInv, Reading, Showing
  <2> QED BY <2>1, <2>2, AbstractAsk
<1>3. CASE ReadMwebInput
  <2>1. doc # None /\ doc' = doc
    BY <1>3 DEF ReadMwebInput, DocInv
  <2>2. /\ pc \in Reading \cup Showing
        /\ pc' \in Reading \cup Showing \cup {"sign", "cleanup", "restart"}
        /\ pc' = "restart" => answer' = "none"
    BY <1>3 DEF ReadMwebInput, Fail, AnswerInv, Reading, Showing
  <2> QED BY <2>1, <2>2, AbstractAsk
<1>4. CASE ReadInput
  <2>1. doc # None /\ doc' = doc
    BY <1>4 DEF ReadInput, DocInv
  <2>2. /\ pc \in Reading \cup Showing
        /\ pc' \in Reading \cup Showing \cup {"sign", "cleanup", "restart"}
        /\ pc' = "restart" => answer' = "none"
    BY <1>4 DEF ReadInput, Fail, AnswerInv, Reading, Showing
  <2> QED BY <2>1, <2>2, AbstractAsk
<1>5. CASE InputsRead
  <2>1. doc # None /\ doc' = doc
    BY <1>5 DEF InputsRead, DocInv
  <2>2. /\ pc \in Reading \cup Showing
        /\ pc' \in Reading \cup Showing \cup {"sign", "cleanup", "restart"}
        /\ pc' = "restart" => answer' = "none"
    BY <1>5 DEF InputsRead, AnswerInv, Reading, Showing
  <2> QED BY <2>1, <2>2, AbstractAsk
<1>6. CASE psbt_update_outputs
  <2>1. doc # None /\ doc' = doc
    BY <1>6 DEF psbt_update_outputs, DocInv
  <2>2. /\ pc \in Reading \cup Showing
        /\ pc' \in Reading \cup Showing \cup {"sign", "cleanup", "restart"}
        /\ pc' = "restart" => answer' = "none"
    BY <1>6 DEF psbt_update_outputs, AnswerInv, Reading, Showing
  <2> QED BY <2>1, <2>2, AbstractAsk
<1>7. CASE CheckAmounts
  <2>1. doc # None /\ doc' = doc
    BY <1>7 DEF CheckAmounts, DocInv
  <2>2. /\ pc \in Reading \cup Showing
        /\ pc' \in Reading \cup Showing \cup {"sign", "cleanup", "restart"}
        /\ pc' = "restart" => answer' = "none"
    BY <1>7 DEF CheckAmounts, Fail, AnswerInv, Reading, Showing
  <2> QED BY <2>1, <2>2, AbstractAsk
<1>8. CASE BeginSession
  <2>1. doc # None /\ doc' = doc
    BY <1>8 DEF BeginSession, DocInv
  <2>2. /\ pc \in Reading \cup Showing
        /\ pc' \in Reading \cup Showing \cup {"sign", "cleanup", "restart"}
        /\ pc' = "restart" => answer' = "none"
    BY <1>8 DEF BeginSession, Fail, AnswerInv, Reading, Showing
  <2> QED BY <2>1, <2>2, AbstractAsk
<1>9. CASE ShowOutputs
  <2>1. doc # None /\ doc' = doc
    BY <1>9 DEF ShowOutputs, DocInv
  <2>2. /\ pc \in Reading \cup Showing
        /\ pc' \in Reading \cup Showing \cup {"sign", "cleanup", "restart"}
        /\ pc' = "restart" => answer' = "none"
    BY <1>9 DEF ShowOutputs, Accept, Fail, AnswerInv, Reading, Showing
  <2> QED BY <2>1, <2>2, AbstractAsk
<1>10. CASE ShowMwebOutput
  <2>1. doc # None /\ doc' = doc
    BY <1>10 DEF ShowMwebOutput, DocInv
  <2>2. /\ pc \in Reading \cup Showing
        /\ pc' \in Reading \cup Showing \cup {"sign", "cleanup", "restart"}
        /\ pc' = "restart" => answer' = "none"
    BY <1>10 DEF ShowMwebOutput, Accept, Fail, AnswerInv, Reading, Showing
  <2> QED BY <2>1, <2>2, AbstractAsk
<1>11. CASE MwebOutputsShown
  <2>1. doc # None /\ doc' = doc
    BY <1>11 DEF MwebOutputsShown, DocInv
  <2>2. /\ pc \in Reading \cup Showing
        /\ pc' \in Reading \cup Showing \cup {"sign", "cleanup", "restart"}
        /\ pc' = "restart" => answer' = "none"
    BY <1>11 DEF MwebOutputsShown, AnswerInv, Reading, Showing
  <2> QED BY <2>1, <2>2, AbstractAsk
<1>12. CASE ShowPegout
  <2>1. doc # None /\ doc' = doc
    BY <1>12 DEF ShowPegout, DocInv
  <2>2. /\ pc \in Reading \cup Showing
        /\ pc' \in Reading \cup Showing \cup {"sign", "cleanup", "restart"}
        /\ pc' = "restart" => answer' = "none"
    BY <1>12 DEF ShowPegout, Accept, Fail, AnswerInv, Reading, Showing
  <2> QED BY <2>1, <2>2, AbstractAsk
<1>13. CASE ShowPegin
  <2>1. doc # None /\ doc' = doc
    BY <1>13 DEF ShowPegin, DocInv
  <2>2. /\ pc \in Reading \cup Showing
        /\ pc' \in Reading \cup Showing \cup {"sign", "cleanup", "restart"}
        /\ pc' = "restart" => answer' = "none"
    BY <1>13 DEF ShowPegin, Accept, Fail, AnswerInv, Reading, Showing
  <2> QED BY <2>1, <2>2, AbstractAsk
<1>14. CASE ShowFee
  <2>1. doc # None /\ doc' = doc
    BY <1>14 DEF ShowFee, DocInv
  <2>2. /\ pc \in Reading \cup Showing
        /\ pc' \in Reading \cup Showing \cup {"sign", "cleanup", "restart"}
        /\ pc' = "restart" => answer' = "none"
    BY <1>14 DEF ShowFee, Accept, Fail, AnswerInv, Reading, Showing
  <2> QED BY <2>1, <2>2, AbstractAsk
<1>15. CASE SignInput
  <2>1. /\ doc # None /\ UNCHANGED <<doc, confirmed>> /\ pc \in {"sign", "commit"}
        /\ pc' \in {"sign", "commit", "cleanup"}
    BY <1>15 DEF SignInput, Fail, DocInv
  <2> QED BY <2>1, AbstractSign
<1>16. CASE InputsSigned
  <2>1. /\ doc # None /\ UNCHANGED <<doc, confirmed>> /\ pc \in {"sign", "commit"}
        /\ pc' \in {"sign", "commit", "cleanup"}
    BY <1>16 DEF InputsSigned, DocInv
  <2> QED BY <2>1, AbstractSign
<1>17. CASE CommitPart
  <2>1. /\ doc # None /\ UNCHANGED <<doc, confirmed>> /\ pc \in {"sign", "commit"}
        /\ pc' \in {"sign", "commit", "cleanup"}
    BY <1>17 DEF CommitPart, CommitFails, Fail, DocInv
  <2> QED BY <2>1, AbstractSign
<1>18. CASE CommitKernel
  <2>1. /\ doc # None /\ UNCHANGED <<doc, confirmed>> /\ pc \in {"sign", "commit"}
        /\ pc' \in {"sign", "commit", "cleanup"}
    BY <1>18 DEF CommitKernel, CommitFails, Fail, DocInv
  <2> QED BY <2>1, AbstractSign
<1>19. CASE Cleanup
  <2>1. doc \in Docs /\ doc # None /\ doc' = doc /\ pc = "cleanup"
    BY <1>19 DEF Cleanup, serialise_psbt, DocInv
  <2>2. CASE answer = "signed"
    <3>1. Phase = "approved" /\ Document = "host"
      BY <2>1, <2>2, PhaseNow DEF ConfirmInv, PhaseFacts
    <3>2. content' = content /\ Complete
      BY <1>19, <2>1, <2>2, DocFacts DEF Cleanup, serialise_psbt, ContentInv, SessionInv
    <3>3. Complete'
      BY <2>1, <3>2, CompleteFrame
    <3>4. CASE pc' = "send" /\ answer' = "signed"
      <4>1. Phase' = "signed" /\ Document' = "signed"
        BY <2>1, <3>3, <3>4, PhaseNow DEF PhaseFacts
      <4> QED BY <3>1, <4>1 DEF Atomic!Next, Atomic!Sign
    <3>5. CASE pc' = "done" /\ answer' = "refused" /\ HasMweb
      <4>1. HasMweb' /\ ~for_liquid'
        BY <2>1, <3>5, DocsAssumption DEF HasMweb, for_liquid
      <4>2. Phase' = "refused" /\ Document' = "signed"
        BY <2>1, <3>3, <3>5, <4>1, PhaseNow DEF PhaseFacts
      <4> QED BY <3>1, <4>2 DEF Atomic!Next, Atomic!Withhold
    <3>6. CASE pc' = "done" /\ answer' = "refused" /\ ~HasMweb
      <4>1. ~HasMweb'
        BY <2>1, <3>6 DEF HasMweb
      <4>2. Phase' = "refused" /\ Document' = "host"
        BY <2>1, <3>6, <4>1, PhaseNow DEF PhaseFacts
      <4> QED BY <3>1, <4>2 DEF Atomic!Next, Atomic!Refuse
    <3> QED BY <1>19, <2>2, <3>4, <3>5, <3>6 DEF Cleanup, serialise_psbt
  <2>3. CASE answer # "signed"
    <3>1. Phase \in {"asked", "approved"} /\ Document = "host"
      BY <2>1, PhaseNow DEF PhaseFacts
    <3>2. pc' = "done" /\ answer' = "refused"
      BY <1>19, <2>1, <2>3 DEF Cleanup, serialise_psbt
    <3>3. HasMweb' => content' = Clean(doc)'
      <4>1. CASE session = None
        <5>1. answer = "refused"
          BY <2>1, <2>3 DEF AnswerInv
        <5> QED BY <1>19, <2>1, <4>1, <5>1, DocFacts DEF Cleanup, serialise_psbt, ContentInv, HasMweb
      <4>2. CASE session # None
        BY <1>19, <2>1, <4>2, AbortRestores, DocFacts DEF Cleanup, serialise_psbt, SessionInv, DocInv
      <4> QED BY <4>1, <4>2
    <3>4. Phase' = "refused" /\ Document' = "host"
      BY <2>1, <3>2, <3>3, PhaseNow DEF PhaseFacts
    <3> QED BY <3>1, <3>4 DEF Atomic!Next, Atomic!Refuse
  <2> QED BY <2>2, <2>3
<1>20. CASE SendChunk
  <2>1. /\ doc # None /\ doc' = doc /\ pc \in {"send", "await"} /\ answer = "signed"
        /\ answer' = answer /\ pc' \in {"send", "await", "done", "restart"}
    BY <1>20 DEF SendChunk, DocInv, AnswerInv
  <2>2. Complete /\ Complete'
    BY <2>1 DEF ContentInv
  <2> QED BY <2>1, <2>2, PhaseNow DEF PhaseFacts, Atomic!vars
<1>21. CASE check_extended_data_fields
  <2>1. /\ doc # None /\ doc' = doc /\ pc \in {"send", "await"} /\ answer = "signed"
        /\ answer' = answer /\ pc' \in {"send", "await", "done", "restart"}
    BY <1>21 DEF check_extended_data_fields, DocInv, AnswerInv
  <2>2. Complete /\ Complete'
    BY <2>1 DEF ContentInv
  <2> QED BY <2>1, <2>2, PhaseNow DEF PhaseFacts, Atomic!vars
<1>22. CASE Exit
  <2>1. Phase' = "idle" /\ Document' = "host"
    BY <1>22, PhaseNow DEF Exit, Reset, PhaseFacts
  <2> QED BY <2>1 DEF Atomic!Next, Atomic!End
<1>23. CASE UNCHANGED vars
  <2>1. Phase' = Phase /\ Document' = Document
    <3>1. UNCHANGED <<pc, doc, content, confirmed, answer>>
      BY <1>23 DEF vars
    <3>2. Approved' <=> Approved
      BY <3>1 DEF Approved, OwnChange, OurInputs, for_liquid
    <3>3. (Complete' <=> Complete) /\ (Untouched' <=> Untouched)
      BY <3>1 DEF Complete, Untouched, OurInputs, for_liquid
    <3> QED BY <3>1, <3>2, <3>3 DEF Phase, Document
  <2> QED BY <2>1 DEF Atomic!vars
<1> QED
  BY <1>1, <1>2, <1>3, <1>4, <1>5, <1>6, <1>7, <1>8, <1>9, <1>10, <1>11, <1>12,
     <1>13, <1>14, <1>15, <1>16, <1>17, <1>18, <1>19, <1>20, <1>21, <1>22, <1>23 DEF Next

\* sign_psbt implements AtomicSign: what the user and the host may know of a PSBT goes from asked
\* to approved to signed as a whole, or to refused: as it was, or signed as a whole but kept back.
THEOREM PsbtIsAtomic == Spec => SignsAtomically
<1>1. Init => Atomic!Init
  <2> SUFFICES ASSUME Init PROVE Atomic!Init
    OBVIOUS
  <2>1. doc = None /\ pc = "idle"
    BY DEF Init
  <2>2. Phase = "idle" /\ Document = "host"
    BY <2>1 DEF Phase, Document
  <2> QED BY <2>2 DEF Atomic!Init
<1>2. IInv /\ IInv' /\ [Next]_vars => [Atomic!Next]_(Atomic!vars)
  BY AbstractStep
<1>3. Spec => Atomic!Spec
  BY <1>1, <1>2, SignPsbtInvariant, PTL DEF Spec, Atomic!Spec
<1> QED BY <1>3 DEF SignsAtomically
============================================================================
