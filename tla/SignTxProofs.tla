--------------------------- MODULE SignTxProofs ---------------------------
(***************************************************************************)
(* Proofs about SignTx, for any transactions, any number of inputs and     *)
(* whatever the host says of them.                                         *)
(*                                                                         *)
(* PhaseInv counts: at each place of the code it says how many messages    *)
(* were taken and which input is in work.  AeInv and EcInv say which of    *)
(* them were answered, and by what, in the two flows; SignatureInv ties a  *)
(* signature to the message about its input, and ConfirmedInv ties what    *)
(* is signed to what was shown.                                            *)
(*                                                                         *)
(* AmountInv is about money: InputsInv and SumInv compare what the host    *)
(* said of the inputs with the coins, SummaryInv compares the lines of a   *)
(* swap with the messages taken, LookedInv says that no signature comes    *)
(* before the check of the amounts, and CommitInv what a signature commits *)
(* to.  Sums are over sequences of any length, by the induction of         *)
(* LEMMA Induction.                                                        *)
(***************************************************************************)
EXTENDS SignTx, FiniteSetTheorems, WellFoundedInduction, TLAPS

Kinds == {"ok", "error", "commitment", "empty", "signature"}
Methods == {"request", "tx_input", "get_signature", "other"}

Shape ==
  /\ request \in Requests \cup {None}
  /\ request = None <=> pc = "idle"
  /\ index \in Nat
  /\ inputs \in Seq(Messages)
  /\ taken \in Seq(Methods)
  /\ replies \in Seq([id : Nat, kind : Kinds])

\* How many messages were taken, and which input is in work.
PhaseInv ==
  /\ pc = "idle" => taken = <<>>
  /\ pc \in {"idle", "outputs"} => inputs = <<>> /\ replies = <<>>
  /\ pc = "outputs" => Len(taken) = 1
  /\ pc = "inputs" => index = Len(inputs) + 1 /\ Len(taken) = index
  /\ pc \in {"taproot", "amounts", "fee", "refuse", "sign_ec", "reply_ec"} =>
       Len(inputs) > 0 /\ Len(taken) = Len(inputs) + 1
  /\ pc \in {"sign_ec", "reply_ec"} => ~use_ae_signatures
  /\ pc = "sign_ec" => index > 0
  /\ pc = "reply_ec" => index \in 1..Len(inputs)
  /\ pc = "sign_ae" =>
       /\ use_ae_signatures
       /\ index \in 1..Len(inputs) /\ Len(taken) = Len(inputs) + index

\* The n-th reply answers the n-th message.
InOrder == \A n \in DOMAIN replies : replies[n].id = n

\* The AE flow answers every message before it awaits another; the reply to a message about
\* an input is the commitment, if the host asked for one.
AeInv ==
  request # None /\ use_ae_signatures =>
    /\ InOrder
    /\ pc # "outputs" => Len(replies) = Len(taken)
    /\ \A i \in DOMAIN inputs :
         i + 1 \in DOMAIN replies /\ replies[i + 1].kind = CommitmentReply(inputs[i])

\* The other flow answers the messages about inputs once all signatures exist.
EcInv ==
  request # None /\ ~use_ae_signatures =>
    /\ pc # "done" => InOrder
    /\ pc \notin {"outputs", "done", "restart"} =>
         Len(replies) = IF pc = "reply_ec" THEN index ELSE 1
    /\ pc \notin {"reply_ec", "done"} => \A n \in DOMAIN replies : replies[n].kind # "signature"

\* A signature is for an input of the wallet, with the entropy that its message announced.
SignatureInv ==
  /\ pc \notin {"sign_ec", "reply_ec", "sign_ae", "done", "restart"} => signatures = {}
  /\ \A s \in signatures :
       /\ s.input \in DOMAIN inputs /\ inputs[s.input].path
       /\ use_ae_signatures => s.entropy = inputs[s.input].commit

\* The outputs shown are those of this request, and then the fee is.
ConfirmedInv ==
  /\ pc \notin {"idle", "done"} => RequestValid(request)
  /\ pc \notin {"idle", "outputs", "done"} =>
       confirmed = [outputs |-> Displayed, fee |-> confirmed.fee]
  /\ pc \in {"sign_ec", "reply_ec", "sign_ae"} =>
       confirmed.fee = IF FeeShown THEN Fee ELSE None

\* What is signed was shown, or returns to the wallet.
SignedOutputsApproved == signatures # {} => OutputsApproved

SignTxInv ==
  /\ Shape /\ PhaseInv /\ AeInv /\ EcInv /\ SignatureInv /\ ConfirmedInv
  /\ AnsweredOnce /\ SignedOutputsApproved


-----------------------------------------------------------------------------
(* Sums *)

\* Every set of numbers has a least one.
LEMMA Least ==
  ASSUME NEW T, T \subseteq Nat, T # {}
  PROVE  \E x \in T : \A y \in T : x <= y
<1> DEFINE R == {ss \in Nat \X Nat : ss[1] < ss[2]}
<1>1. R = OpToRel(<, Nat)
  BY DEF OpToRel
<1>2. IsWellFoundedOn(R, Nat)
  BY NatLessThanWellFounded, <1>1
<1>3. \E x \in T : \A y \in T : ~(<<y, x>> \in R)
  <2> HIDE DEF R
  <2> QED BY <1>2, WFMin
<1>4. ASSUME NEW x \in Nat, NEW y \in Nat, y < x
      PROVE  <<y, x>> \in R
  <2>1. <<y, x>> \in Nat \X Nat /\ <<y, x>>[1] = y /\ <<y, x>>[2] = x
    OBVIOUS
  <2> QED BY <1>4, <2>1, Zenon
<1>5. \E x \in T : \A y \in T : ~(y < x)
  <2> HIDE DEF R
  <2> QED BY <1>3, <1>4, Zenon
<1> QED BY <1>5, SMT

\* Induction over 0..N, for sets: the provers cannot instantiate it for operators.
LEMMA Induction ==
  ASSUME NEW T, NEW N \in Nat, 0 \in T, \A n \in 1..N : n - 1 \in T => n \in T
  PROVE  \A n \in 0..N : n \in T
<1> DEFINE U == {n \in 0..N : n \notin T}
<1> SUFFICES ASSUME U # {} PROVE FALSE
  OBVIOUS
<1>1. U \subseteq Nat
  OBVIOUS
<1>2. PICK x \in U : \A y \in U : x <= y
  <2> HIDE DEF U
  <2> QED BY <1>1, Least
<1>3. x \in 1..N /\ x - 1 \in 0..N /\ ~(x <= x - 1)
  OBVIOUS
<1>4. x - 1 \in T
  BY <1>2, <1>3
<1> QED BY <1>3, <1>4

\* The equation of Sums, for a function g over the first m amounts.
IsSums(g, a, m) ==
  g = [n \in 0..m |-> IF n = 0 THEN 0 ELSE g[n - 1] + a[n]]

\* Such a function exists, so Sums satisfies its definition, and sums are numbers.
LEMMA SumsDef ==
  ASSUME NEW a, Len(a) \in Nat, \A i \in 1..Len(a) : a[i] \in Nat
  PROVE  /\ Sums(a) \in [0..Len(a) -> Nat]
         /\ Sums(a)[0] = 0
         /\ \A n \in 1..Len(a) : Sums(a)[n] = Sums(a)[n - 1] + a[n]
<1> DEFINE N == Len(a)
           T == {m \in 0..N : \E g \in [0..m -> Nat] : IsSums(g, a, m)}
<1> HIDE DEF N
<1>0. N \in Nat /\ \A i \in 1..N : a[i] \in Nat
  BY DEF N
<1>1. 0 \in T
  <2>1. [n \in 0..0 |-> 0] \in [0..0 -> Nat]
    OBVIOUS
  <2>2. IsSums([n \in 0..0 |-> 0], a, 0)
    BY DEF IsSums
  <2> QED BY <2>1, <2>2, <1>0
<1>2. ASSUME NEW m \in 1..N, m - 1 \in T PROVE m \in T
  <2>1. PICK g \in [0..(m - 1) -> Nat] : IsSums(g, a, m - 1)
    BY <1>2
  <2> DEFINE h == [n \in 0..m |-> IF n = m THEN g[m - 1] + a[m] ELSE g[n]]
  <2>2. h \in [0..m -> Nat]
    BY <1>0
  <2>3. ASSUME NEW n \in 0..m PROVE h[n] = IF n = 0 THEN 0 ELSE h[n - 1] + a[n]
    BY <2>1, <1>0 DEF IsSums
  <2>4. IsSums(h, a, m)
    BY <2>3, <2>2 DEF IsSums
  <2>5. \E f \in [0..m -> Nat] : IsSums(f, a, m)
    <3> HIDE DEF h
    <3> QED BY <2>2, <2>4, Zenon
  <2> QED BY <2>5, <1>0
<1>3. N \in T
  <2> HIDE DEF T
  <2>1. \A m \in 0..N : m \in T
    BY <1>0, <1>1, <1>2, Induction
  <2> QED BY <2>1, <1>0
<1>4. PICK g \in [0..N -> Nat] : IsSums(g, a, N)
  BY <1>3
<1>5. IsSums(Sums(a), a, N)
  BY <1>4 DEF Sums, IsSums, N
<1>6. Sums(a) = [n \in 0..N |-> IF n = 0 THEN 0 ELSE Sums(a)[n - 1] + a[n]]
  BY <1>5 DEF IsSums
<1>. DEFINE S == Sums(a)
     V == {m \in 0..N : S[m] \in Nat}
<1> HIDE DEF S
<1>7. S = [n \in 0..N |-> IF n = 0 THEN 0 ELSE S[n - 1] + a[n]]
  BY <1>6 DEF S
<1>8. 0 \in V
  BY <1>7, <1>0
<1>9. ASSUME NEW m \in 1..N, m - 1 \in V PROVE m \in V
  <2>1. m \in 0..N /\ m - 1 \in 0..N /\ m # 0 /\ S[m - 1] \in Nat /\ a[m] \in Nat
    BY <1>0, <1>9
  <2>2. S[m] = S[m - 1] + a[m]
    BY <2>1, <1>7
  <2> QED BY <2>1, <2>2
<1>10. \A m \in 0..N : m \in V
  <2> HIDE DEF V
  <2> QED BY <1>0, <1>8, <1>9, Induction
<1>11. S \in [0..N -> Nat]
  BY <1>10, <1>7
<1>12. S[0] = 0
  BY <1>7, <1>0
<1>13. ASSUME NEW n \in 1..N PROVE S[n] = S[n - 1] + a[n]
  <2>1. n \in 0..N /\ n # 0
    BY <1>0
  <2> QED BY <1>7, <2>1
<1> QED BY <1>11, <1>12, <1>13, Zenon DEF S, N

\* The quotient and the remainder of a number, as SMT has them.
LEMMA Division ==
  ASSUME NEW M \in Nat \ {0}, NEW a \in Nat
  PROVE  /\ a \div M \in Nat /\ a % M \in Nat /\ a % M < M /\ a = M * (a \div M) + (a % M)
<1>1. a \div M \in Int /\ a = M * (a \div M) + (a % M) /\ a % M \in Int /\ 0 <= a % M /\ a % M < M
  BY SMT
<1> DEFINE q == a \div M
           r == a % M
<1>2. q \in Int /\ a = M * q + r /\ r \in Int /\ 0 <= r /\ r < M
  BY <1>1
<1> HIDE DEF q, r
<1>3. q > -1
  BY <1>2, SMT
<1>4. q \in Nat /\ r \in Nat
  BY <1>2, <1>3
<1>5. r < M /\ a = M * q + r
  BY <1>2
<1> QED BY <1>4, <1>5, Zenon DEF q, r

\* They are the only ones.
LEMMA Quotient ==
  ASSUME NEW M \in Nat \ {0}, NEW a \in Nat, NEW q \in Nat, NEW r \in Nat, r < M, a = M * q + r
  PROVE  a \div M = q /\ a % M = r
<1> DEFINE p == a \div M
           s == a % M
<1>1. p \in Nat /\ s \in Nat /\ s < M /\ a = M * p + s
  BY Division
<1> HIDE DEF p, s
<1>2. M * (p - q) = r - s
  BY <1>1
<1> DEFINE d == p - q
<1>3. d \in Int /\ M * d < M /\ M * d > -M /\ p = q + d
  BY <1>1, <1>2
<1> HIDE DEF d
<1>4. d < 1 /\ d > -1
  BY <1>3, SMT
<1>5. d = 0
  BY <1>3, <1>4
<1>6. p = q
  BY <1>3, <1>5, <1>1
<1>7. M * q \in Int
  OBVIOUS
<1>8. s = r
  BY <1>1, <1>6, <1>7
<1> QED BY <1>6, <1>8 DEF p, s

\* Amounts that begin in the same way have the same first sums.
LEMMA SumsAgree ==
  ASSUME NEW a, Len(a) \in Nat, \A i \in 1..Len(a) : a[i] \in Nat,
         NEW b, Len(b) \in Nat, \A i \in 1..Len(b) : b[i] \in Nat,
         NEW m \in Nat, m <= Len(a), m <= Len(b), \A i \in 1..m : a[i] = b[i]
  PROVE  Sums(a)[m] = Sums(b)[m]
<1> DEFINE A == Sums(a)
           B == Sums(b)
           T == {n \in 0..m : A[n] = B[n]}
<1>1. A[0] = 0 /\ \A n \in 1..Len(a) : A[n] = A[n - 1] + a[n]
  BY SumsDef
<1>2. B[0] = 0 /\ \A n \in 1..Len(b) : B[n] = B[n - 1] + b[n]
  BY SumsDef
<1> HIDE DEF A, B
<1>3. 0 \in T
  BY <1>1, <1>2
<1>4. ASSUME NEW n \in 1..m, n - 1 \in T PROVE n \in T
  <2>1. n \in 1..Len(a) /\ n \in 1..Len(b) /\ n \in 0..m
    OBVIOUS
  <2>2. A[n] = A[n - 1] + a[n] /\ B[n] = B[n - 1] + b[n] /\ a[n] = b[n] /\ A[n - 1] = B[n - 1]
    BY <1>1, <1>2, <1>4, <2>1
  <2> QED BY <2>1, <2>2
<1>5. \A n \in 0..m : n \in T
  <2> HIDE DEF T
  <2> QED BY <1>3, <1>4, Induction
<1> QED BY <1>5 DEF A, B

\* The total of amounts of which only one is not zero.
LEMMA TotalOfOne ==
  ASSUME NEW a, Len(a) \in Nat, NEW k \in 1..Len(a), a[k] \in Nat,
         \A i \in 1..Len(a) : i # k => a[i] = 0
  PROVE  Total(a) = a[k]
<1> DEFINE N == Len(a)
           S == Sums(a)
           T == {n \in 0..N : S[n] = IF k <= n THEN a[k] ELSE 0}
<1>1. S[0] = 0 /\ \A n \in 1..N : S[n] = S[n - 1] + a[n]
  BY SumsDef
<1>2. N \in Nat /\ k \in 1..N /\ \A i \in 1..N : i # k => a[i] = 0
  OBVIOUS
<1> HIDE DEF S, N
<1>3. 0 \in T
  BY <1>1, <1>2
<1>4. ASSUME NEW n \in 1..N, n - 1 \in T PROVE n \in T
  <2>1. S[n] = S[n - 1] + a[n] /\ n \in 0..N /\ S[n - 1] = IF k <= n - 1 THEN a[k] ELSE 0
    BY <1>1, <1>2, <1>4
  <2>2. CASE n = k
    BY <1>2, <2>1, <2>2
  <2>3. CASE n # k
    <3>1. a[n] = 0
      BY <1>2, <2>3
    <3> QED BY <1>2, <2>1, <2>3, <3>1
  <2> QED BY <2>2, <2>3
<1>5. \A n \in 0..N : n \in T
  <2> HIDE DEF T
  <2> QED BY <1>2, <1>3, <1>4, Induction
<1> QED BY <1>2, <1>5 DEF S, N, Total

\* The amounts of some of the entries.
LEMMA SatsFacts ==
  ASSUME NEW e, Len(e) \in Nat, DOMAIN e = 1..Len(e), \A i \in 1..Len(e) : e[i].sat \in Nat, NEW S
  PROVE  /\ Len(Sats(e, S)) = Len(e)
         /\ \A i \in 1..Len(e) : /\ Sats(e, S)[i] = (IF i \in S THEN e[i].sat ELSE 0)
                                 /\ Sats(e, S)[i] \in Nat
<1> DEFINE N == Len(e)
           v(i) == IF i \in S THEN e[i].sat ELSE 0
<1>1. Sats(e, S) = [i \in 1..N |-> v(i)]
  BY Zenon DEF Sats
<1>2. N \in Nat /\ \A i \in 1..N : v(i) \in Nat
  OBVIOUS
<1> DEFINE f == [i \in 1..N |-> v(i)]
<1> HIDE DEF N, v
<1>3. f \in Seq(Nat) /\ Len(f) = N /\ \A i \in 1..N : f[i] = v(i)
  BY <1>2
<1> HIDE DEF f
<1> QED BY <1>1, <1>2, <1>3, Zenon DEF N, v, f

\* The total of entries to which one is added.
LEMMA TotalAppended ==
  ASSUME NEW E, NEW e \in Seq(E), NEW x \in E, \A y \in E : y.sat \in Nat, NEW S, NEW R,
         \A i \in 1..Len(e) : i \in S <=> i \in R
  PROVE  /\ TotalOf(e, S) \in Nat
         /\ TotalOf(Append(e, x), R) = TotalOf(e, S) + (IF Len(e) + 1 \in R THEN x.sat ELSE 0)
<1> DEFINE g == Append(e, x)
           a == Sats(e, S)
           b == Sats(g, R)
           N == Len(e)
<1>1. /\ N \in Nat /\ DOMAIN e = 1..N /\ \A i \in 1..N : e[i].sat \in Nat
      /\ Len(g) = N + 1 /\ DOMAIN g = 1..(N + 1)
      /\ \A i \in 1..N : g[i] = e[i]
      /\ g[N + 1] = x /\ x.sat \in Nat
  OBVIOUS
<1> HIDE DEF g, N
<1>2. \A i \in 1..(N + 1) : g[i].sat \in Nat
  BY <1>1
<1>3. /\ Len(a) = N
      /\ \A i \in 1..N : a[i] = (IF i \in S THEN e[i].sat ELSE 0) /\ a[i] \in Nat
  <2>1. Len(e) = N
    BY DEF N
  <2> QED BY <1>1, <2>1, SatsFacts, Zenon
<1>4. /\ Len(b) = N + 1
      /\ \A i \in 1..(N + 1) : b[i] = (IF i \in R THEN g[i].sat ELSE 0) /\ b[i] \in Nat
  <2>1. Len(g) \in Nat /\ Len(g) = N + 1 /\ DOMAIN g = 1..(N + 1)
    BY <1>1
  <2> QED BY <1>2, <2>1, SatsFacts
<1> HIDE DEF a, b
<1>5. \A i \in 1..N : a[i] = b[i]
  BY <1>1, <1>3, <1>4 DEF N
<1>6. /\ Len(a) \in Nat /\ \A i \in 1..Len(a) : a[i] \in Nat
      /\ Len(b) \in Nat /\ \A i \in 1..Len(b) : b[i] \in Nat
      /\ N <= Len(a) /\ N <= Len(b)
  BY <1>1, <1>3, <1>4
<1>7. Sums(a)[N] = Sums(b)[N] /\ Sums(a)[N] \in Nat
  <2>1. Sums(a)[N] = Sums(b)[N]
    BY <1>1, <1>5, <1>6, SumsAgree, Zenon
  <2>2. Sums(a) \in [0..Len(a) -> Nat]
    BY <1>6, SumsDef, Zenon
  <2> QED BY <1>1, <1>3, <2>1, <2>2
<1>8. Sums(b)[N + 1] = Sums(b)[N] + b[N + 1]
  <2>1. \A n \in 1..Len(b) : Sums(b)[n] = Sums(b)[n - 1] + b[n]
    BY <1>6, SumsDef, Zenon
  <2>2. N + 1 \in 1..Len(b) /\ (N + 1) - 1 = N
    BY <1>1, <1>4
  <2> QED BY <2>1, <2>2
<1>9. b[N + 1] = IF N + 1 \in R THEN x.sat ELSE 0
  BY <1>1, <1>4
<1>10. TotalOf(e, S) = Sums(a)[N] /\ TotalOf(Append(e, x), R) = Sums(b)[N + 1]
  BY <1>3, <1>4, Zenon DEF TotalOf, Total, a, b, g
<1> QED BY <1>7, <1>8, <1>9, <1>10 DEF N

\* Sums of uint64_t.
LEMMA ModuloFacts ==
  ASSUME NEW a \in Nat, NEW t \in Nat
  PROVE  /\ Modulo(a) \in 0..UINT64_MAX
         /\ Modulo(Modulo(a) + t) = Modulo(a + t)
         /\ a <= UINT64_MAX => Modulo(a) = a
         /\ Modulo(UINT64_MAX + 1) = 0
<1> DEFINE M == UINT64_MAX + 1
           q == a \div M
           r == a % M
           x == r + t
           u == x \div M
           v == x % M
<1>0. M \in Nat \ {0} /\ UINT64_MAX \in Nat /\ M = UINT64_MAX + 1
  BY AmountAssumption
<1> HIDE DEF M
<1>1. q \in Nat /\ r \in Nat /\ r < M /\ a = M * q + r
  BY <1>0, Division
<1>2. x \in Nat /\ x = r + t
  BY <1>1
<1>3. u \in Nat /\ v \in Nat /\ v < M /\ x = M * u + v
  <2> HIDE DEF x
  <2> QED BY <1>0, <1>2, Division
<1>4. a < M => a % M = a
  <2>1. a = M * 0 + a
    BY <1>0
  <2> QED BY <1>0, <2>1, Quotient
<1>5. M % M = 0
  <2>1. M = M * 1 + 0
    BY <1>0
  <2> QED BY <1>0, <2>1, Quotient
<1> HIDE DEF q, r, x, u, v
<1>6. a + t = M * (q + u) + v /\ q + u \in Nat /\ a + t \in Nat
  BY <1>0, <1>1, <1>2, <1>3, SMT
<1>7. (a + t) % M = v
  <2> DEFINE b == a + t
             w == q + u
  <2>1. b \in Nat /\ w \in Nat /\ b = M * w + v
    BY <1>6
  <2> HIDE DEF b, w
  <2>2. b % M = v
    BY <1>0, <1>3, <2>1, Quotient
  <2> QED BY <2>2 DEF b
<1>8. (r + t) % M = v
  BY <1>2 DEF v
<1>9. r \in 0..UINT64_MAX /\ (a <= UINT64_MAX => a < M)
  BY <1>0, <1>1
<1>10. Modulo(a) = r /\ Modulo(a + t) = (a + t) % M /\ Modulo(Modulo(a) + t) = (r + t) % M
      /\ Modulo(UINT64_MAX + 1) = M % M
  BY Zenon DEF Modulo, r, M
<1> QED BY <1>4, <1>5, <1>7, <1>8, <1>9, <1>10 DEF r

-----------------------------------------------------------------------------
\* A reply is added to the ones before.
LEMMA Replied ==
  ASSUME NEW id \in Nat, NEW kind \in Kinds, replies \in Seq([id : Nat, kind : Kinds]),
         Reply(id, kind)
  PROVE  /\ replies' \in Seq([id : Nat, kind : Kinds])
         /\ Len(replies') = Len(replies) + 1
         /\ DOMAIN replies' = 1..(Len(replies) + 1)
         /\ replies'[Len(replies) + 1].id = id /\ replies'[Len(replies) + 1].kind = kind
         /\ \A n \in DOMAIN replies : n \in DOMAIN replies' /\ replies'[n] = replies[n]
  BY SMT DEF Reply

\* The request in work is one of the requests.
LEMMA RequestOK ==
  ASSUME Shape, pc # "idle"
  PROVE  /\ request \in Requests /\ request # None
         /\ tx.inputs \in Seq(Coins) /\ use_ae_signatures \in BOOLEAN
  BY RequestAssumption, Zenon DEF Shape, tx, use_ae_signatures

\* A message of the host is kept with the amount that counts.
LEMMA MessageKept ==
  ASSUME Shape, pc = "inputs", index \in 1..Len(tx.inputs),
         NEW m \in InputMessages(request, index)
  PROVE  m \in Messages /\ [m EXCEPT !.sat = Amount(index, m)] \in Messages
<1>1. request \in Requests /\ tx.inputs \in Seq(Coins)
  BY RequestOK
<1>2. index \in DOMAIN tx.inputs
  BY <1>1, SMT
<1>3. m \in Messages
  BY <1>1, <1>2, MessageAssumption, Zenon DEF tx
<1>4. tx.inputs[index] \in Coins
  BY <1>1, <1>2, SMT
<1>5. Amount(index, m) \in Nat
  BY <1>3, <1>4, SMT DEF Amount, Coins, Messages
<1> QED BY <1>3, <1>5, SMT DEF Messages

\* What a round of signing changes.
LEMMA SignEcEffect ==
  ASSUME Shape, PhaseInv, SignEc
  PROVE  /\ pc = "sign_ec" /\ index \in 1..Len(inputs) /\ request # None /\ ~use_ae_signatures
         /\ UNCHANGED <<request, inputs, confirmed, taken>>
         /\ \/ /\ pc' = pc /\ replies' = replies /\ index' = index + 1
               /\ \/ signatures' = signatures
                  \/ inputs[index].path /\ signatures' = signatures \cup {Signature(index, FALSE)}
            \/ /\ pc' = "done" /\ Reply(index + 1, "error")
               /\ index' = index /\ signatures' = signatures
<1>1. /\ pc = "sign_ec" /\ index <= Len(inputs)
      /\ UNCHANGED <<request, inputs, confirmed, taken>>
  BY Zenon DEF SignEc
<1>2. index \in 1..Len(inputs) /\ request # None /\ ~use_ae_signatures
  BY <1>1, SMT DEF Shape, PhaseInv
<1>3. \/ /\ pc' = pc /\ replies' = replies /\ index' = index + 1
         /\ \/ signatures' = signatures
            \/ inputs[index].path /\ signatures' = signatures \cup {Signature(index, FALSE)}
      \/ /\ pc' = "done" /\ Reply(index + 1, "error")
         /\ index' = index /\ signatures' = signatures
  BY Zenon DEF SignEc, Reject
<1> QED BY <1>1, <1>2, <1>3

\* What a get_signature message changes.
LEMMA GetSignatureEffect ==
  ASSUME Shape, PhaseInv, get_signature
  PROVE  /\ pc = "sign_ae" /\ index \in 1..Len(inputs) /\ request # None /\ use_ae_signatures
         /\ UNCHANGED <<request, inputs, confirmed>>
         /\ taken' = Append(taken, "get_signature")
         /\ \/ /\ Reply(Len(taken'), SignatureReply(index)) /\ index' = index + 1
               /\ pc' = IF index < Len(inputs) THEN "sign_ae" ELSE "done"
               /\ \/ signatures' = signatures
                  \/ /\ inputs[index].path
                     /\ signatures' = signatures \cup {Signature(index, inputs[index].commit)}
            \/ /\ pc' = "done" /\ Reply(Len(taken'), "error")
               /\ index' = index /\ signatures' = signatures
<1>1. /\ pc = "sign_ae" /\ taken' = Append(taken, "get_signature")
      /\ UNCHANGED <<request, inputs, confirmed>>
  BY Zenon DEF get_signature
<1>2. index \in 1..Len(inputs) /\ request # None /\ use_ae_signatures
  BY <1>1, SMT DEF Shape, PhaseInv
<1>3. ASSUME NEW entropy \in BOOLEAN, EntropyExpected(index, entropy), inputs[index].path
      PROVE  entropy = inputs[index].commit
  BY <1>3, Zenon DEF EntropyExpected
<1>4. \/ /\ Reply(Len(taken'), SignatureReply(index)) /\ index' = index + 1
         /\ pc' = IF index < Len(inputs) THEN "sign_ae" ELSE "done"
         /\ \/ signatures' = signatures
            \/ /\ inputs[index].path
               /\ signatures' = signatures \cup {Signature(index, inputs[index].commit)}
      \/ /\ pc' = "done" /\ Reply(Len(taken'), "error")
         /\ index' = index /\ signatures' = signatures
  <2>1. PICK entropy \in BOOLEAN :
          \/ /\ EntropyExpected(index, entropy)
             /\ signatures' = IF inputs[index].path
                              THEN signatures \cup {Signature(index, entropy)} ELSE signatures
             /\ Reply(Len(taken'), SignatureReply(index))
             /\ index' = index + 1
             /\ pc' = IF index < Len(inputs) THEN pc ELSE "done"
          \/ /\ pc' = "done" /\ Reply(Len(taken'), "error")
             /\ index' = index /\ signatures' = signatures
    BY Zenon DEF get_signature, Reject
  <2>2. CASE inputs[index].path
    <3>1. EntropyExpected(index, entropy) => entropy = inputs[index].commit
      BY <1>3, <2>2
    <3> QED BY <1>1, <2>1, <2>2, <3>1, Zenon
  <2>3. CASE ~inputs[index].path
    BY <1>1, <2>1, <2>3, Zenon
  <2> QED BY <2>2, <2>3
<1> QED BY <1>1, <1>2, <1>4

\* In the AE flow the reply to a message leaves those before as they are.
LEMMA AnswerKept ==
  ASSUME Shape, AeInv, request # None, pc # "outputs", UNCHANGED <<request, inputs>>,
         Len(taken') = Len(taken) + 1, NEW kind \in Kinds, Reply(Len(taken'), kind)
  PROVE  AeInv'
<1> SUFFICES ASSUME use_ae_signatures' PROVE AeInv'
  BY DEF AeInv
<1>1. use_ae_signatures
  BY DEF use_ae_signatures
<1>2. /\ InOrder /\ Len(replies) = Len(taken) /\ Len(replies) \in Nat
      /\ \A i \in DOMAIN inputs :
           i + 1 \in DOMAIN replies /\ replies[i + 1].kind = CommitmentReply(inputs[i])
  BY <1>1, SMT DEF AeInv, Shape
<1>3. Len(taken') \in Nat /\ Len(taken) \in Nat
  BY SMT DEF Shape
<1>4. /\ Len(replies') = Len(replies) + 1 /\ DOMAIN replies' = 1..(Len(replies) + 1)
      /\ replies'[Len(replies) + 1].id = Len(taken')
      /\ \A n \in DOMAIN replies : n \in DOMAIN replies' /\ replies'[n] = replies[n]
  BY <1>3, Replied DEF Shape
<1>5. DOMAIN replies = 1..Len(replies)
  BY SMT DEF Shape
<1>6. ASSUME NEW n \in DOMAIN replies' PROVE replies'[n].id = n
  <2>1. CASE n \in DOMAIN replies
    BY <1>2, <1>4, <2>1, Zenon DEF InOrder
  <2>2. CASE n \notin DOMAIN replies
    BY <1>2, <1>4, <1>5, <2>2, SMT
  <2> QED BY <2>1, <2>2
<1>7. InOrder'
  BY <1>6, Zenon DEF InOrder
<1>8. Len(replies') = Len(taken')
  BY <1>2, <1>4
<1>9. (\A i \in DOMAIN inputs :
         i + 1 \in DOMAIN replies /\ replies[i + 1].kind = CommitmentReply(inputs[i]))'
  BY <1>2, <1>4, Zenon DEF CommitmentReply
<1> QED BY <1>7, <1>8, <1>9 DEF AeInv

\* The variables keep their types.
LEMMA ShapeStep == SignTxInv /\ Next => Shape'
<1> SUFFICES ASSUME SignTxInv /\ Next PROVE Shape'
  OBVIOUS
<1> USE RequestAssumption DEF SignTxInv
<1>1. CASE sign_tx
  <2>1. PICK r \in Requests : request' = r
    BY <1>1, Zenon DEF sign_tx
  <2>2. request' \in Requests /\ request' # None
    BY <2>1, Zenon
  <2>3. taken' \in Seq(Methods)
    <3>1. taken' = <<"request">>
      BY <1>1, Zenon DEF sign_tx
    <3> QED BY <3>1, SMT DEF Methods
  <2>4. /\ index' = index /\ inputs' = inputs
        /\ \/ pc' = "outputs" /\ replies' = replies
           \/ pc' = "done" /\ Reply(1, "error")
    BY <1>1, Zenon DEF sign_tx, Reject
  <2>5. replies' \in Seq([id : Nat, kind : Kinds])
    <3>1. "error" \in Kinds /\ 1 \in Nat
      BY SMT DEF Kinds
    <3> QED BY <2>4, <3>1, Replied DEF Shape
  <2>6. pc' # "idle"
    BY <2>4, SMT
  <2> QED BY <2>2, <2>3, <2>4, <2>5, <2>6, Zenon DEF Shape
<1>2. CASE ConfirmOutputs
  <2>1. /\ UNCHANGED <<request, inputs, taken>> /\ pc = "outputs"
        /\ \/ Reply(1, "ok") /\ pc' = "inputs" /\ index' = 1
           \/ Reply(1, "error") /\ pc' = "done" /\ index' = index
    BY <1>2, Zenon DEF ConfirmOutputs, Reject
  <2>2. "error" \in Kinds /\ "ok" \in Kinds /\ 1 \in Nat
    BY SMT DEF Kinds
  <2>3. replies' \in Seq([id : Nat, kind : Kinds])
    BY <2>1, <2>2, Replied DEF Shape
  <2> QED BY <2>1, <2>3, SMT DEF Shape
<1>3. CASE tx_input
  <2>1. /\ UNCHANGED request /\ pc = "inputs" /\ index <= Len(tx.inputs)
        /\ taken' = Append(taken, "tx_input")
    BY <1>3, Zenon DEF tx_input
  <2>2. index \in 1..Len(tx.inputs) /\ taken' \in Seq(Methods) /\ Len(taken') \in Nat
    BY <2>1, RequestOK, SMT DEF Shape, PhaseInv, Methods
  <2>3. PICK m \in InputMessages(request, index) :
          \/ /\ inputs' = Append(inputs, [m EXCEPT !.sat = Amount(index, m)])
             /\ \/ Reply(Len(taken'), CommitmentReply(m))
                \/ replies' = replies
             /\ index' = index + 1
             /\ pc' = IF index < Len(tx.inputs) THEN "inputs" ELSE "taproot"
          \/ Reply(Len(taken'), "error") /\ pc' = "done" /\ inputs' = inputs /\ index' = index
    BY <1>3, Zenon DEF tx_input, Reject
  <2>4. "error" \in Kinds /\ CommitmentReply(m) \in Kinds
    BY Zenon DEF Kinds, CommitmentReply
  <2>5. replies' \in Seq([id : Nat, kind : Kinds])
    BY <2>2, <2>3, <2>4, Replied DEF Shape
  <2>6. [m EXCEPT !.sat = Amount(index, m)] \in Messages
    BY <2>1, <2>2, MessageKept DEF Shape
  <2>7. inputs' \in Seq(Messages) /\ index' \in Nat
    <3> DEFINE kept == [m EXCEPT !.sat = Amount(index, m)]
    <3>1. kept \in Messages /\ inputs \in Seq(Messages) /\ index \in Nat
      BY <2>6 DEF Shape
    <3>2. inputs' \in {inputs, Append(inputs, kept)} /\ index' \in {index, index + 1}
      BY <2>3, Zenon
    <3> HIDE DEF kept
    <3> QED BY <3>1, <3>2, SMT
  <2>8. pc' # "idle"
    BY <2>3, SMT
  <2> QED BY <2>1, <2>2, <2>5, <2>7, <2>8, SMT DEF Shape
<1>4. CASE not_tx_input
  BY <1>4, SMTT(20) DEF
    not_tx_input, Reject, Reply, UnexpectedMessage, Shape, PhaseInv, Kinds, Methods,
    SignatureReply, CommitmentReply
<1>5. CASE LostConnection
  BY <1>5, SMTT(20) DEF
    LostConnection, Shape, PhaseInv, Kinds, Methods, SignatureReply, CommitmentReply
<1>6. CASE TaprootHashes
  BY <1>6, SMTT(20) DEF
    TaprootHashes, Scope, Shape, PhaseInv, Kinds, Methods, SignatureReply, CommitmentReply
<1>7. CASE CheckAmounts
  <2>1. /\ UNCHANGED <<request, index, inputs, taken>> /\ pc = "amounts"
        /\ \/ pc' \in {"fee", "refuse", "restart"} /\ replies' = replies
           \/ Reply(Len(taken), "error") /\ pc' = "done"
    BY <1>7, Zenon DEF CheckAmounts, Scope, RefuseLater, Reject
  <2>2. "error" \in Kinds /\ Len(taken) \in Nat
    BY SMT DEF Kinds, Shape
  <2>3. replies' \in Seq([id : Nat, kind : Kinds])
    BY <2>1, <2>2, Replied DEF Shape
  <2> QED BY <2>1, <2>3, SMT DEF Shape
<1>8. CASE ConfirmFee
  <2>1. /\ UNCHANGED <<request, inputs, taken>> /\ pc = "fee"
        /\ \/ pc' \in {"restart", "refuse", StartSigning} /\ replies' = replies
           \/ Reply(Len(taken), "error") /\ pc' = "done"
        /\ index' \in {1, index}
    BY <1>8, Zenon DEF ConfirmFee, RefuseLater, Reject
  <2>2. "error" \in Kinds /\ Len(taken) \in Nat
    BY SMT DEF Kinds, Shape
  <2>3. replies' \in Seq([id : Nat, kind : Kinds])
    BY <2>1, <2>2, Replied DEF Shape
  <2>4. StartSigning \in {"sign_ae", "sign_ec"}
    BY Zenon DEF StartSigning
  <2> QED BY <2>1, <2>3, <2>4, SMT DEF Shape
<1>9. CASE Refuse
  BY <1>9, SMTT(20) DEF
    Refuse, Reject, Reply, UnexpectedMessage, Shape, PhaseInv, Kinds, Methods,
    SignatureReply, CommitmentReply
<1>10. CASE SignEc
  <2>1. "error" \in Kinds /\ index + 1 \in Nat
    BY SMT DEF Kinds, Shape
  <2>2. replies' \in Seq([id : Nat, kind : Kinds])
    BY <1>10, <2>1, SignEcEffect, Replied DEF Shape
  <2>3. /\ request' = request /\ inputs' = inputs /\ taken' = taken
        /\ index' \in {index, index + 1} /\ pc' # "idle" /\ pc = "sign_ec"
    BY <1>10, SignEcEffect
  <2> QED BY <2>1, <2>2, <2>3, SMT DEF Shape
<1>11. CASE AllSigned
  BY <1>11, SMTT(20) DEF
    AllSigned, Shape, PhaseInv, Kinds, Methods, SignatureReply, CommitmentReply
<1>12. CASE send_ec_signature_replies
  BY <1>12, SMTT(20) DEF
    send_ec_signature_replies, Reply, Shape, PhaseInv, Kinds, Methods, SignatureReply,
    CommitmentReply
<1>13. CASE get_signature
  <2>1. /\ request' = request /\ inputs' = inputs /\ taken' = Append(taken, "get_signature")
        /\ index' \in {index, index + 1} /\ pc' # "idle" /\ pc = "sign_ae"
        /\ Reply(Len(taken'), SignatureReply(index)) \/ Reply(Len(taken'), "error")
    BY <1>13, GetSignatureEffect
  <2>2. taken' \in Seq(Methods) /\ Len(taken') \in Nat
    BY <2>1, SMT DEF Shape, Methods
  <2>3. "error" \in Kinds /\ SignatureReply(index) \in Kinds
    BY Zenon DEF Kinds, SignatureReply
  <2>4. replies' \in Seq([id : Nat, kind : Kinds])
    BY <2>1, <2>2, <2>3, Replied DEF Shape
  <2> QED BY <2>1, <2>2, <2>4, SMT DEF Shape
<1>14. CASE not_get_signature
  BY <1>14, SMTT(20) DEF
    not_get_signature, Reject, Reply, UnexpectedMessage, Shape, PhaseInv, Kinds, Methods,
    SignatureReply, CommitmentReply
<1>15. CASE Finished
  BY <1>15, SMTT(20) DEF
    Finished, vars, Shape, PhaseInv, Kinds, Methods, SignatureReply, CommitmentReply
<1> QED BY <1>1, <1>2, <1>3, <1>4, <1>5, <1>6, <1>7, <1>8, <1>9, <1>10, <1>11,
          <1>12, <1>13, <1>14, <1>15 DEF Next

\* At each place the messages taken are counted.
LEMMA PhaseStep == SignTxInv /\ Next => PhaseInv'
<1> SUFFICES ASSUME SignTxInv /\ Next PROVE PhaseInv'
  OBVIOUS
<1> USE RequestAssumption DEF SignTxInv
<1>1. CASE sign_tx
  BY <1>1, SMTT(20) DEF sign_tx, Reject, Reply, PhaseInv, Shape, use_ae_signatures, tx
<1>2. CASE ConfirmOutputs
  BY <1>2, SMTT(20) DEF
    ConfirmOutputs, Reject, Reply, PhaseInv, Shape, use_ae_signatures, tx
<1>3. CASE tx_input
  BY <1>3, SMTT(20) DEF
    tx_input, Reject, Reply, UnexpectedMessage, PhaseInv, Shape, use_ae_signatures, tx
<1>4. CASE not_tx_input
  BY <1>4, SMTT(20) DEF
    not_tx_input, Reject, Reply, UnexpectedMessage, PhaseInv, Shape, use_ae_signatures, tx
<1>5. CASE LostConnection
  BY <1>5, SMTT(20) DEF LostConnection, PhaseInv, Shape, use_ae_signatures, tx
<1>6. CASE TaprootHashes
  BY <1>6, SMTT(20) DEF TaprootHashes, Scope, PhaseInv, Shape, use_ae_signatures, tx
<1>7. CASE CheckAmounts
  BY <1>7, SMTT(20) DEF
    CheckAmounts, Scope, RefuseLater, Reject, Reply, PhaseInv, Shape, use_ae_signatures,
    tx
<1>8. CASE ConfirmFee
  BY <1>8, SMTT(20) DEF
    ConfirmFee, StartSigning, RefuseLater, Reject, Reply, PhaseInv, Shape,
    use_ae_signatures, tx
<1>9. CASE Refuse
  BY <1>9, SMTT(20) DEF
    Refuse, Reject, Reply, UnexpectedMessage, PhaseInv, Shape, use_ae_signatures, tx
<1>10. CASE SignEc
  <2>1. /\ pc = "sign_ec" /\ index \in 1..Len(inputs) /\ ~use_ae_signatures
        /\ request' = request /\ inputs' = inputs /\ taken' = taken
        /\ \/ index' = index + 1 /\ pc' = "sign_ec"
           \/ pc' = "done"
    BY <1>10, SignEcEffect, Zenon
  <2>2. Len(inputs) > 0 /\ Len(taken) = Len(inputs) + 1
    BY <2>1 DEF PhaseInv
  <2>3. ~use_ae_signatures'
    BY <2>1 DEF use_ae_signatures
  <2>4. CASE pc' = "done"
    BY <2>4, SMT DEF PhaseInv
  <2>5. CASE index' = index + 1 /\ pc' = "sign_ec"
    BY <2>1, <2>2, <2>3, <2>5, SMT DEF PhaseInv
  <2> QED BY <2>1, <2>4, <2>5
<1>11. CASE AllSigned
  BY <1>11, SMTT(20) DEF AllSigned, PhaseInv, Shape, use_ae_signatures, tx
<1>12. CASE send_ec_signature_replies
  BY <1>12, SMTT(20) DEF
    send_ec_signature_replies, Reply, PhaseInv, Shape, use_ae_signatures, tx
<1>13. CASE get_signature
  <2>1. Len(taken') = Len(taken) + 1
    BY <1>13, GetSignatureEffect, SMT DEF Shape
  <2>2. /\ pc = "sign_ae" /\ index \in 1..Len(inputs) /\ use_ae_signatures
        /\ request' = request /\ inputs' = inputs
        /\ \/ index' = index + 1 /\ pc' = IF index < Len(inputs) THEN "sign_ae" ELSE "done"
           \/ pc' = "done"
    BY <1>13, GetSignatureEffect
  <2>3. Len(taken) = Len(inputs) + index
    BY <2>2 DEF PhaseInv
  <2>4. use_ae_signatures'
    BY <2>2 DEF use_ae_signatures
  <2>5. Len(inputs) \in Nat /\ index \in Nat
    BY SMT DEF Shape
  <2>6. CASE pc' = "done"
    BY <2>6, SMT DEF PhaseInv
  <2>7. CASE index' = index + 1 /\ pc' = "sign_ae" /\ index < Len(inputs)
    BY <2>1, <2>2, <2>3, <2>4, <2>5, <2>7, SMT DEF PhaseInv
  <2> QED BY <2>2, <2>6, <2>7, Zenon
<1>14. CASE not_get_signature
  BY <1>14, SMTT(20) DEF
    not_get_signature, Reject, Reply, UnexpectedMessage, PhaseInv, Shape,
    use_ae_signatures, tx
<1>15. CASE Finished
  BY <1>15, SMTT(20) DEF Finished, vars, PhaseInv, Shape, use_ae_signatures, tx
<1> QED BY <1>1, <1>2, <1>3, <1>4, <1>5, <1>6, <1>7, <1>8, <1>9, <1>10, <1>11,
          <1>12, <1>13, <1>14, <1>15 DEF Next

\* The AE flow answers each message as it takes it.
LEMMA AeStep == SignTxInv /\ Next => AeInv'
<1> SUFFICES ASSUME SignTxInv /\ Next PROVE AeInv'
  OBVIOUS
<1> USE RequestAssumption DEF SignTxInv
<1>1. CASE sign_tx
  BY <1>1, SMTT(20) DEF
    sign_tx, Reject, Reply, AeInv, InOrder, PhaseInv, Shape, use_ae_signatures, tx
<1>2. CASE ConfirmOutputs
  <2>1. /\ UNCHANGED <<request, inputs, taken>> /\ pc = "outputs"
        /\ \/ Reply(1, "ok") /\ pc' = "inputs"
           \/ Reply(1, "error") /\ pc' = "done"
    BY <1>2, Zenon DEF ConfirmOutputs, Reject
  <2>2. "error" \in Kinds /\ "ok" \in Kinds /\ 1 \in Nat
    BY SMT DEF Kinds
  <2>3. /\ Len(replies') = Len(replies) + 1 /\ DOMAIN replies' = 1..(Len(replies) + 1)
        /\ replies'[Len(replies) + 1].id = 1
    BY <2>1, <2>2, Replied DEF Shape
  <2>4. replies = <<>> /\ inputs = <<>> /\ Len(taken) = 1
    BY <2>1 DEF PhaseInv
  <2> QED BY <2>1, <2>3, <2>4, SMT DEF AeInv, InOrder
<1>3. CASE tx_input
  <2> SUFFICES ASSUME use_ae_signatures' PROVE AeInv'
    BY DEF AeInv
  <2>1. /\ UNCHANGED request /\ pc = "inputs" /\ index <= Len(tx.inputs)
        /\ taken' = Append(taken, "tx_input")
    BY <1>3, Zenon DEF tx_input
  <2>2. /\ index \in 1..Len(tx.inputs) /\ Len(taken') = Len(taken) + 1
        /\ Len(taken) \in Nat /\ Len(taken') \in Nat
        /\ index = Len(inputs) + 1 /\ Len(taken) = index
    BY <2>1, RequestOK, SMT DEF Shape, PhaseInv, Methods
  <2>3. use_ae_signatures /\ request # None
    BY <2>1, RequestOK DEF use_ae_signatures, Shape
  <2>4. /\ InOrder /\ Len(replies) = Len(taken) /\ Len(replies) \in Nat
        /\ \A i \in DOMAIN inputs :
             i + 1 \in DOMAIN replies /\ replies[i + 1].kind = CommitmentReply(inputs[i])
    BY <2>1, <2>3, SMT DEF AeInv, Shape
  <2>5. PICK m \in InputMessages(request, index) :
          \/ /\ inputs' = Append(inputs, [m EXCEPT !.sat = Amount(index, m)])
             /\ Reply(Len(taken'), CommitmentReply(m))
             /\ pc' = IF index < Len(tx.inputs) THEN "inputs" ELSE "taproot"
          \/ Reply(Len(taken'), "error") /\ pc' = "done" /\ inputs' = inputs
    BY <1>3, <2>3, Zenon DEF tx_input, Reject
  <2>6. "error" \in Kinds /\ CommitmentReply(m) \in Kinds
    BY Zenon DEF Kinds, CommitmentReply
  <2>7. m \in Messages /\ [m EXCEPT !.sat = Amount(index, m)] \in Messages
    BY <2>1, <2>2, MessageKept DEF Shape
  <2>8. PICK kind \in {"error", CommitmentReply(m)} :
          /\ Reply(Len(taken'), kind)
          /\ \/ kind = CommitmentReply(m)
                  /\ inputs' = Append(inputs, [m EXCEPT !.sat = Amount(index, m)])
             \/ inputs' = inputs
    BY <2>5, Zenon
  <2>9. /\ Len(replies') = Len(replies) + 1 /\ DOMAIN replies' = 1..(Len(replies) + 1)
        /\ replies'[Len(replies) + 1].id = Len(taken') /\ replies'[Len(replies) + 1].kind = kind
        /\ \A n \in DOMAIN replies : n \in DOMAIN replies' /\ replies'[n] = replies[n]
    BY <2>2, <2>6, <2>8, Replied DEF Shape
  <2>10. InOrder' /\ Len(replies') = Len(taken')
    BY <2>2, <2>4, <2>9, SMT DEF InOrder, Shape
  <2>11. CommitmentReply(m) = CommitmentReply([m EXCEPT !.sat = Amount(index, m)])
    <3> DEFINE k == [m EXCEPT !.sat = Amount(index, m)]
    <3>1. k.path = m.path /\ k.commit = m.commit
      BY <2>7, SMT DEF Messages
    <3> QED BY <3>1, Zenon DEF CommitmentReply
  <2>12. ASSUME NEW i \in DOMAIN inputs'
         PROVE  i + 1 \in DOMAIN replies' /\ replies'[i + 1].kind = CommitmentReply(inputs'[i])
    <3>1. CASE i \in DOMAIN inputs /\ inputs'[i] = inputs[i]
      <4>1. i + 1 \in DOMAIN replies /\ replies[i + 1].kind = CommitmentReply(inputs[i])
        BY <2>4, <3>1
      <4> QED BY <2>9, <3>1, <4>1, Zenon
    <3>2. CASE ~(i \in DOMAIN inputs /\ inputs'[i] = inputs[i])
      <4> DEFINE kept == [m EXCEPT !.sat = Amount(index, m)]
      <4>1. kept \in Messages
        BY <2>7
      <4>2. inputs' # inputs
        BY <3>2, <2>12
      <4>3. kind = CommitmentReply(m) /\ inputs' = Append(inputs, kept)
        BY <2>8, <4>2
      <4> HIDE DEF kept
      <4>4. i = Len(inputs) + 1 /\ inputs'[i] = kept
        <5>1. inputs \in Seq(Messages)
          BY DEF Shape
        <5>2. /\ DOMAIN inputs' = 1..(Len(inputs) + 1) /\ DOMAIN inputs = 1..Len(inputs)
              /\ Len(inputs) \in Nat
              /\ \A j \in 1..Len(inputs) : inputs'[j] = inputs[j]
              /\ inputs'[Len(inputs) + 1] = kept
          BY <4>1, <4>3, <5>1, SMT
        <5>3. i \in DOMAIN inputs'
          BY <2>12
        <5>4. i \notin 1..Len(inputs)
          BY <3>2, <5>2, Zenon
        <5>5. i = Len(inputs) + 1
          BY <5>2, <5>3, <5>4, SMT
        <5> QED BY <5>2, <5>5
      <4>5. i + 1 \in DOMAIN replies' /\ replies'[i + 1].kind = kind
        BY <2>2, <2>4, <2>9, <4>4, SMT
      <4>6. kind = CommitmentReply(kept)
        BY <2>11, <4>3 DEF kept
      <4> QED BY <4>4, <4>5, <4>6, Zenon
    <3> QED BY <3>1, <3>2
  <2>13. (\A i \in DOMAIN inputs :
           i + 1 \in DOMAIN replies /\ replies[i + 1].kind = CommitmentReply(inputs[i]))'
    BY <2>12, Zenon DEF CommitmentReply
  <2> QED BY <2>10, <2>13 DEF AeInv
<1>4. CASE not_tx_input
  BY <1>4, SMTT(20) DEF
    not_tx_input, Reject, Reply, UnexpectedMessage, AeInv, InOrder, PhaseInv, Shape,
    use_ae_signatures, tx
<1>5. CASE LostConnection
  BY <1>5, SMTT(20) DEF
    LostConnection, AeInv, InOrder, PhaseInv, Shape, use_ae_signatures, tx
<1>6. CASE TaprootHashes
  BY <1>6, SMTT(20) DEF
    TaprootHashes, Scope, AeInv, InOrder, PhaseInv, Shape, use_ae_signatures, tx
<1>7. CASE CheckAmounts
  BY <1>7, SMTT(20) DEF
    CheckAmounts, Scope, RefuseLater, Reject, Reply, AeInv, InOrder, PhaseInv, Shape,
    use_ae_signatures, tx
<1>8. CASE ConfirmFee
  BY <1>8, SMTT(20) DEF
    ConfirmFee, StartSigning, RefuseLater, Reject, Reply, AeInv, InOrder, PhaseInv, Shape,
    use_ae_signatures, tx
<1>9. CASE Refuse
  BY <1>9, SMTT(20) DEF
    Refuse, Reject, Reply, UnexpectedMessage, AeInv, InOrder, PhaseInv, Shape,
    use_ae_signatures, tx
<1>10. CASE SignEc
  BY <1>10, SMTT(20) DEF
    SignEc, Reject, Reply, AeInv, InOrder, PhaseInv, Shape, use_ae_signatures, tx
<1>11. CASE AllSigned
  BY <1>11, SMTT(20) DEF AllSigned, AeInv, InOrder, PhaseInv, Shape, use_ae_signatures, tx
<1>12. CASE send_ec_signature_replies
  BY <1>12, SMTT(20) DEF
    send_ec_signature_replies, Reply, AeInv, InOrder, PhaseInv, Shape, use_ae_signatures,
    tx
<1>13. CASE get_signature
  <2>1. PICK kind \in {"error", SignatureReply(index)} : Reply(Len(taken'), kind)
    BY <1>13, GetSignatureEffect, Zenon
  <2>2. "error" \in Kinds /\ SignatureReply(index) \in Kinds
    BY Zenon DEF Kinds, SignatureReply
  <2>3. /\ Len(taken') = Len(taken) + 1 /\ Len(taken) \in Nat /\ Len(taken') \in Nat
        /\ Len(replies) \in Nat
    BY <1>13, GetSignatureEffect, SMT DEF Shape
  <2> QED BY <1>13, <2>1, <2>2, <2>3, AnswerKept, GetSignatureEffect
<1>14. CASE not_get_signature
  <2>1. /\ pc = "sign_ae" /\ Reply(Len(taken'), "error")
        /\ UNCHANGED <<request, inputs>>
    BY <1>14, Zenon DEF not_get_signature, Reject
  <2>2. PICK method \in {"tx_input", "other"} : taken' = Append(taken, method)
    BY <1>14, Zenon DEF not_get_signature, UnexpectedMessage
  <2>3. /\ Len(taken') = Len(taken) + 1 /\ Len(taken) \in Nat /\ Len(taken') \in Nat
        /\ Len(replies) \in Nat /\ request # None
    BY <2>1, <2>2, SMT DEF Shape
  <2>4. "error" \in Kinds
    BY DEF Kinds
  <2> QED BY <2>1, <2>3, <2>4, AnswerKept
<1>15. CASE Finished
  BY <1>15, SMTT(20) DEF
    Finished, vars, AeInv, InOrder, PhaseInv, Shape, use_ae_signatures, tx
<1> QED BY <1>1, <1>2, <1>3, <1>4, <1>5, <1>6, <1>7, <1>8, <1>9, <1>10, <1>11,
          <1>12, <1>13, <1>14, <1>15 DEF Next

\* The other flow answers no message about an input before all are signed.
LEMMA EcStep == SignTxInv /\ Next => EcInv'
<1> SUFFICES ASSUME SignTxInv /\ Next PROVE EcInv'
  OBVIOUS
<1> USE RequestAssumption DEF SignTxInv
<1>1. CASE sign_tx
  BY <1>1, SMTT(20) DEF
    sign_tx, Reject, Reply, EcInv, InOrder, PhaseInv, Shape, use_ae_signatures, tx
<1>2. CASE ConfirmOutputs
  BY <1>2, SMTT(20) DEF
    ConfirmOutputs, Reject, Reply, EcInv, InOrder, PhaseInv, Shape, use_ae_signatures, tx
<1>3. CASE tx_input
  BY <1>3, SMTT(20) DEF
    tx_input, Reject, Reply, UnexpectedMessage, EcInv, InOrder, PhaseInv, Shape,
    use_ae_signatures, tx
<1>4. CASE not_tx_input
  BY <1>4, SMTT(20) DEF
    not_tx_input, Reject, Reply, UnexpectedMessage, EcInv, InOrder, PhaseInv, Shape,
    use_ae_signatures, tx
<1>5. CASE LostConnection
  BY <1>5, SMTT(20) DEF
    LostConnection, EcInv, InOrder, PhaseInv, Shape, use_ae_signatures, tx
<1>6. CASE TaprootHashes
  BY <1>6, SMTT(20) DEF
    TaprootHashes, Scope, EcInv, InOrder, PhaseInv, Shape, use_ae_signatures, tx
<1>7. CASE CheckAmounts
  BY <1>7, SMTT(20) DEF
    CheckAmounts, Scope, RefuseLater, Reject, Reply, EcInv, InOrder, PhaseInv, Shape,
    use_ae_signatures, tx
<1>8. CASE ConfirmFee
  BY <1>8, SMTT(20) DEF
    ConfirmFee, StartSigning, RefuseLater, Reject, Reply, EcInv, InOrder, PhaseInv, Shape,
    use_ae_signatures, tx
<1>9. CASE Refuse
  BY <1>9, SMTT(20) DEF
    Refuse, Reject, Reply, UnexpectedMessage, EcInv, InOrder, PhaseInv, Shape,
    use_ae_signatures, tx
<1>10. CASE SignEc
  <2>1. /\ pc = "sign_ec" /\ request' = request /\ request # None /\ ~use_ae_signatures
        /\ \/ pc' = pc /\ replies' = replies
           \/ pc' = "done"
    BY <1>10, SignEcEffect
  <2> QED BY <2>1, SMT DEF EcInv, InOrder, use_ae_signatures
<1>11. CASE AllSigned
  BY <1>11, SMTT(20) DEF AllSigned, EcInv, InOrder, PhaseInv, Shape, use_ae_signatures, tx
<1>12. CASE send_ec_signature_replies
  BY <1>12, SMTT(20) DEF
    send_ec_signature_replies, Reply, EcInv, InOrder, PhaseInv, Shape, use_ae_signatures,
    tx
<1>13. CASE get_signature
  BY <1>13, SMTT(20) DEF
    get_signature, Reject, Reply, EcInv, InOrder, PhaseInv, Shape, use_ae_signatures, tx
<1>14. CASE not_get_signature
  BY <1>14, SMTT(20) DEF
    not_get_signature, Reject, Reply, UnexpectedMessage, EcInv, InOrder, PhaseInv, Shape,
    use_ae_signatures, tx
<1>15. CASE Finished
  BY <1>15, SMTT(20) DEF
    Finished, vars, EcInv, InOrder, PhaseInv, Shape, use_ae_signatures, tx
<1> QED BY <1>1, <1>2, <1>3, <1>4, <1>5, <1>6, <1>7, <1>8, <1>9, <1>10, <1>11,
          <1>12, <1>13, <1>14, <1>15 DEF Next

\* Signatures are for inputs of the wallet.
LEMMA SignatureStep == SignTxInv /\ Next => SignatureInv'
<1> SUFFICES ASSUME SignTxInv /\ Next PROVE SignatureInv'
  OBVIOUS
<1> USE RequestAssumption DEF SignTxInv
<1>1. CASE sign_tx
  BY <1>1, SMTT(20) DEF
    sign_tx, Reject, Reply, SignatureInv, PhaseInv, Shape, use_ae_signatures, tx
<1>2. CASE ConfirmOutputs
  BY <1>2, SMTT(20) DEF
    ConfirmOutputs, Reject, Reply, SignatureInv, PhaseInv, Shape, use_ae_signatures, tx
<1>3. CASE tx_input
  BY <1>3, SMTT(20) DEF
    tx_input, Reject, Reply, UnexpectedMessage, SignatureInv, PhaseInv, Shape,
    use_ae_signatures, tx
<1>4. CASE not_tx_input
  BY <1>4, SMTT(20) DEF
    not_tx_input, Reject, Reply, UnexpectedMessage, SignatureInv, PhaseInv, Shape,
    use_ae_signatures, tx
<1>5. CASE LostConnection
  BY <1>5, SMTT(20) DEF
    LostConnection, SignatureInv, PhaseInv, Shape, use_ae_signatures, tx
<1>6. CASE TaprootHashes
  BY <1>6, SMTT(20) DEF
    TaprootHashes, Scope, SignatureInv, PhaseInv, Shape, use_ae_signatures, tx
<1>7. CASE CheckAmounts
  BY <1>7, SMTT(20) DEF
    CheckAmounts, Scope, RefuseLater, Reject, Reply, SignatureInv, PhaseInv, Shape,
    use_ae_signatures, tx
<1>8. CASE ConfirmFee
  BY <1>8, SMTT(20) DEF
    ConfirmFee, StartSigning, RefuseLater, Reject, Reply, SignatureInv, PhaseInv, Shape,
    use_ae_signatures, tx
<1>9. CASE Refuse
  BY <1>9, SMTT(20) DEF
    Refuse, Reject, Reply, UnexpectedMessage, SignatureInv, PhaseInv, Shape,
    use_ae_signatures, tx
<1>10. CASE SignEc
  <2>1. /\ pc = "sign_ec" /\ ~use_ae_signatures /\ index \in DOMAIN inputs
        /\ UNCHANGED <<request, inputs>> /\ pc' \in {"sign_ec", "done"}
    <3>1. /\ pc = "sign_ec" /\ ~use_ae_signatures /\ index \in 1..Len(inputs)
          /\ UNCHANGED <<request, inputs>> /\ pc' \in {"sign_ec", "done"}
      BY <1>10, SignEcEffect, Zenon
    <3>2. DOMAIN inputs = 1..Len(inputs)
      BY SMT DEF Shape
    <3> QED BY <3>1, <3>2
  <2>2. ~use_ae_signatures'
    BY <2>1 DEF use_ae_signatures
  <2>3. \/ signatures' = signatures
        \/ inputs[index].path /\ signatures' = signatures \cup {Signature(index, FALSE)}
    BY <1>10, SignEcEffect
  <2>4. Signature(index, FALSE).input = index
    BY DEF Signature
  <2>5. \A s \in signatures' : s.input \in DOMAIN inputs /\ inputs[s.input].path
    BY <2>1, <2>3, <2>4, Zenon DEF SignatureInv
  <2> QED BY <2>1, <2>2, <2>5, Zenon DEF SignatureInv
<1>11. CASE AllSigned
  BY <1>11, SMTT(20) DEF AllSigned, SignatureInv, PhaseInv, Shape, use_ae_signatures, tx
<1>12. CASE send_ec_signature_replies
  BY <1>12, SMTT(20) DEF
    send_ec_signature_replies, Reply, SignatureInv, PhaseInv, Shape, use_ae_signatures, tx
<1>13. CASE get_signature
  <2>1. /\ pc = "sign_ae" /\ use_ae_signatures /\ index \in DOMAIN inputs
        /\ UNCHANGED <<request, inputs>> /\ pc' \in {"sign_ae", "done"}
    BY <1>13, GetSignatureEffect, SMT DEF Shape
  <2> DEFINE new == Signature(index, inputs[index].commit)
  <2>2. \/ signatures' = signatures
        \/ inputs[index].path /\ signatures' = signatures \cup {new}
    BY <1>13, GetSignatureEffect
  <2>3. new.input = index /\ new.entropy = inputs[index].commit
    BY DEF Signature
  <2>4. \A s \in signatures : /\ s.input \in DOMAIN inputs /\ inputs[s.input].path
                              /\ s.entropy = inputs[s.input].commit
    BY <2>1 DEF SignatureInv
  <2> HIDE DEF new
  <2>5. \A s \in signatures' : /\ s.input \in DOMAIN inputs /\ inputs[s.input].path
                               /\ s.entropy = inputs[s.input].commit
    BY <2>1, <2>2, <2>3, <2>4, Zenon
  <2> QED BY <2>1, <2>5, Zenon DEF SignatureInv
<1>14. CASE not_get_signature
  BY <1>14, SMTT(20) DEF
    not_get_signature, Reject, Reply, UnexpectedMessage, SignatureInv, PhaseInv, Shape,
    use_ae_signatures, tx
<1>15. CASE Finished
  BY <1>15, SMTT(20) DEF
    Finished, vars, SignatureInv, PhaseInv, Shape, use_ae_signatures, tx
<1> QED BY <1>1, <1>2, <1>3, <1>4, <1>5, <1>6, <1>7, <1>8, <1>9, <1>10, <1>11,
          <1>12, <1>13, <1>14, <1>15 DEF Next

-----------------------------------------------------------------------------
\* The places where signatures are made or sent.
Signing == {"sign_ec", "reply_ec", "sign_ae"}

\* What was shown is not changed by a step that leaves the request alone.
LEMMA ConfirmedKept ==
  ASSUME ConfirmedInv, pc \notin {"idle", "done", "outputs"}, UNCHANGED <<request, confirmed>>,
         pc' \notin Signing \/ (pc \in Signing /\ input_amount' = input_amount)
  PROVE  ConfirmedInv'
<1>1. RequestValid(request)'
  BY Zenon DEF ConfirmedInv
<1>2. Displayed' = Displayed
  BY Zenon DEF Displayed, for_liquid, tx
<1>3. confirmed' = [outputs |-> Displayed', fee |-> confirmed'.fee]
  BY <1>2, Zenon DEF ConfirmedInv
<1>4. pc' \in Signing => confirmed'.fee = (IF FeeShown THEN Fee ELSE None)'
  <2> SUFFICES ASSUME pc' \in Signing PROVE confirmed'.fee = (IF FeeShown THEN Fee ELSE None)'
    OBVIOUS
  <2>1. confirmed.fee = IF FeeShown THEN Fee ELSE None
    BY DEF ConfirmedInv, Signing
  <2>2. FeeShown' <=> FeeShown
    BY DEF FeeShown, for_liquid, tx
  <2>3. Fee' = Fee
    BY DEF Fee, for_liquid, tx, output_amount
  <2> QED BY <2>1, <2>2, <2>3, Zenon
<1> QED BY <1>1, <1>3, <1>4, Zenon DEF ConfirmedInv, Signing

\* The fee of a transaction with one fee output is the amount of that output.
LEMMA FeeOfOne ==
  ASSUME NEW t, t.outputs \in Seq(Outputs), NEW k \in DOMAIN t.outputs, FeeOutputs(t) = {k}
  PROVE  explicit_fee(t) = t.outputs[k].sat
<1> DEFINE e == t.outputs
           a == Sats(e, {k})
<1>1. Len(e) \in Nat /\ DOMAIN e = 1..Len(e) /\ \A i \in 1..Len(e) : e[i].sat \in Nat
  <2>1. e \in Seq(Outputs) /\ \A x \in Outputs : x.sat \in Nat
    BY DEF Outputs
  <2> HIDE DEF e
  <2> QED BY <2>1
<1> HIDE DEF e
<1>2. /\ Len(a) = Len(e)
      /\ \A i \in 1..Len(e) : a[i] = (IF i \in {k} THEN e[i].sat ELSE 0) /\ a[i] \in Nat
  BY <1>1, SatsFacts
<1> HIDE DEF a
<1>3. k \in 1..Len(a) /\ a[k] = e[k].sat /\ a[k] \in Nat
  BY <1>1, <1>2 DEF e
<1>4. Total(a) = a[k]
  BY <1>1, <1>2, <1>3, TotalOfOne
<1> QED BY <1>3, <1>4, Zenon DEF explicit_fee, TotalOf, a, e

\* A valid request has one fee output, or none.
LEMMA OneFeeOutput ==
  ASSUME NEW r \in Requests, RequestValid(r), NEW k \in FeeOutputs(r.tx)
  PROVE  FeeOutputs(r.tx) = {k} /\ r.tx.outputs[k].sat \in Nat \ {0} /\ r.tx.liquid
<1>1. r.tx.outputs \in Seq(Outputs)
  BY RequestAssumption
<1>2. r.tx.liquid /\ FeeOutputs(r.tx) \subseteq DOMAIN r.tx.outputs
  BY Zenon DEF FeeOutputs
<1>3. DOMAIN r.tx.outputs = 1..Len(r.tx.outputs) /\ Len(r.tx.outputs) \in Nat
  BY <1>1, SMT
<1>4. IsFiniteSet(FeeOutputs(r.tx))
  <2>1. IsFiniteSet(1..Len(r.tx.outputs))
    <3>1. 1 \in Int /\ Len(r.tx.outputs) \in Int
      BY <1>3, SMT
    <3> QED BY <3>1, FS_Interval
  <2>2. FeeOutputs(r.tx) \in SUBSET (1..Len(r.tx.outputs))
    BY <1>2, <1>3, Zenon
  <2> QED BY <2>1, <2>2, FS_Subset
<1>5. Cardinality(FeeOutputs(r.tx)) <= 1
  BY DEF RequestValid, params_txn_validate
<1>6. FeeOutputs(r.tx) = {k}
  <2>1. IsFiniteSet({k}) /\ Cardinality({k}) = 1
    BY FS_Singleton
  <2>2. {k} \in SUBSET FeeOutputs(r.tx)
    BY Zenon
  <2>3. /\ 1 <= Cardinality(FeeOutputs(r.tx))
        /\ Cardinality(FeeOutputs(r.tx)) = 1 => FeeOutputs(r.tx) = {k}
    BY <1>4, <2>1, <2>2, FS_Subset, Zenon
  <2>4. Cardinality(FeeOutputs(r.tx)) \in Nat
    BY <1>4, FS_CardinalityType
  <2> QED BY <1>5, <2>3, <2>4, SMT
<1>7. r.tx.outputs[k].sat > 0
  BY DEF RequestValid, params_txn_validate
<1>8. r.tx.outputs[k] \in Outputs
  BY <1>1, <1>2, <1>3, SMT
<1>9. r.tx.outputs[k].sat \in Nat
  BY <1>8 DEF Outputs
<1> QED BY <1>2, <1>6, <1>7, <1>9, SMT

\* When signing starts, all outputs of a payment have been approved.
LEMMA ApprovedWhenSigning ==
  ASSUME Shape, ConfirmedInv, pc \in Signing
  PROVE  OutputsApproved
<1>1. request \in Requests
  BY RequestOK DEF Signing
<1>2. RequestValid(request) /\ confirmed = [outputs |-> Displayed, fee |-> confirmed.fee]
  BY DEF ConfirmedInv, Signing
<1>3. confirmed.fee = IF FeeShown THEN Fee ELSE None
  BY DEF ConfirmedInv, Signing
<1>4. confirmed.outputs = Displayed
  BY <1>2
<1> SUFFICES ASSUME ~(for_liquid /\ request.swap), NEW k \in DOMAIN tx.outputs,
                    k \notin Displayed
             PROVE  \/ tx.outputs[k].own
                    \/ k \in FeeOutputs(tx) /\ confirmed.fee = tx.outputs[k].sat
  BY <1>4, Zenon DEF OutputsApproved
<1>5. k \in FeeOutputs(tx) \/ request.claims[k] = "change"
  BY Zenon DEF Displayed
<1>6. CASE request.claims[k] = "change"
  <2>1. k \in DOMAIN request.claims
    BY <1>1, RequestAssumption DEF tx
  <2>2. "change" # "none"
    OBVIOUS
  <2> QED BY <1>2, <1>6, <2>1, <2>2 DEF RequestValid, params_signing_outputs, tx
<1>7. CASE k \in FeeOutputs(tx)
  <2>1. FeeOutputs(tx) = {k} /\ tx.outputs[k].sat \in Nat \ {0} /\ for_liquid
    BY <1>1, <1>2, <1>7, OneFeeOutput DEF tx, for_liquid
  <2>2. explicit_fee(tx) = tx.outputs[k].sat
    <3>1. tx.outputs \in Seq(Outputs)
      BY <1>1, RequestAssumption DEF tx
    <3> QED BY <2>1, <3>1, FeeOfOne
  <2>3. FeeShown
    BY <2>1, <2>2, SMT DEF FeeShown
  <2>4. confirmed.fee = explicit_fee(tx)
    BY <1>3, <2>1, <2>3 DEF Fee
  <2> QED BY <1>7, <2>2, <2>4
<1> QED BY <1>5, <1>6, <1>7

\* What is shown is what was asked for.
LEMMA ConfirmedStep == SignTxInv /\ Next => ConfirmedInv'
<1> SUFFICES ASSUME SignTxInv /\ Next PROVE ConfirmedInv'
  OBVIOUS
<1> USE RequestAssumption DEF SignTxInv
<1>1. CASE sign_tx
  <2>1. PICK r \in Requests :
          /\ request' = r
          /\ \/ RequestValid(r) /\ pc' = "outputs"
             \/ pc' = "done"
    BY <1>1, Zenon DEF sign_tx, Reject
  <2>2. CASE pc' = "done"
    BY <2>2, SMT DEF ConfirmedInv
  <2>3. CASE pc' = "outputs" /\ RequestValid(r)
    <3>1. RequestValid(request)'
      BY <2>1, <2>3, Zenon
    <3> QED BY <2>3, <3>1, SMT DEF ConfirmedInv
  <2> QED BY <2>1, <2>2, <2>3
<1>2. CASE ConfirmOutputs
  <2>1. /\ pc = "outputs" /\ request' = request
        /\ \/ confirmed' = [outputs |-> Displayed, fee |-> None] /\ pc' = "inputs"
           \/ pc' = "done"
    BY <1>2, Zenon DEF ConfirmOutputs, Reject
  <2>2. RequestValid(request)'
    BY <2>1, Zenon DEF ConfirmedInv
  <2>3. Displayed' = Displayed
    BY <2>1, Zenon DEF Displayed, for_liquid, tx
  <2>4. pc' = "inputs" => confirmed' = [outputs |-> Displayed', fee |-> confirmed'.fee]
    BY <2>1, <2>3, SMT
  <2> QED BY <2>1, <2>2, <2>4, SMT DEF ConfirmedInv
<1>3. CASE tx_input
  <2>1. pc = "inputs" /\ UNCHANGED <<request, confirmed>>
    BY <1>3, Zenon DEF tx_input
  <2>2. \/ pc' = "done"
        \/ pc' = IF index < Len(tx.inputs) THEN "inputs" ELSE "taproot"
    BY <1>3, Zenon DEF tx_input, Reject
  <2> QED BY <2>1, <2>2, ConfirmedKept, SMT DEF Signing
<1>4. CASE not_tx_input
  <2>1. /\ pc = "inputs" /\ UNCHANGED <<request, confirmed>>
        /\ pc' \in {"done"}
    BY <1>4, Zenon DEF not_tx_input, Reject
  <2> QED BY <2>1, ConfirmedKept, SMT DEF Signing
<1>5. CASE LostConnection
  <2>1. /\ pc \in {"inputs", "refuse", "sign_ae"} /\ UNCHANGED <<request, confirmed>>
        /\ pc' = "restart"
    BY <1>5, Zenon DEF LostConnection
  <2> QED BY <2>1, ConfirmedKept, SMT DEF Signing
<1>6. CASE TaprootHashes
  <2>1. /\ pc = "taproot" /\ UNCHANGED <<request, confirmed>>
        /\ pc' \in {"amounts", "refuse"}
    BY <1>6, Zenon DEF TaprootHashes, Scope
  <2> QED BY <2>1, ConfirmedKept, SMT DEF Signing
<1>7. CASE CheckAmounts
  <2>1. /\ pc = "amounts" /\ UNCHANGED <<request, confirmed>>
        /\ pc' \in {"fee", "refuse", "done", "restart"}
    BY <1>7, Zenon DEF CheckAmounts, Scope, RefuseLater, Reject
  <2> QED BY <2>1, ConfirmedKept, SMT DEF Signing
<1>8. CASE ConfirmFee
  <2>1. /\ pc = "fee" /\ request' = request /\ input_amount' = input_amount
        /\ \/ pc' \in {"restart", "refuse", "done"} /\ confirmed' = confirmed
           \/ /\ confirmed' = [confirmed EXCEPT !.fee = IF FeeShown THEN Fee ELSE None]
              /\ pc' = StartSigning
    BY <1>8, Zenon DEF ConfirmFee, RefuseLater, Reject
  <2>2. CASE pc' \in {"restart", "refuse", "done"} /\ confirmed' = confirmed
    BY <2>1, <2>2, ConfirmedKept, SMT DEF Signing
  <2>3. CASE /\ confirmed' = [confirmed EXCEPT !.fee = IF FeeShown THEN Fee ELSE None]
             /\ pc' = StartSigning
    <3> DEFINE fee == IF FeeShown THEN Fee ELSE None
    <3>1. confirmed = [outputs |-> Displayed, fee |-> confirmed.fee]
      BY <2>1 DEF ConfirmedInv
    <3>2. confirmed' = [confirmed EXCEPT !.fee = fee]
      BY <2>3
    <3>3. confirmed' = [outputs |-> Displayed, fee |-> fee] /\ confirmed'.fee = fee
      <4> HIDE DEF fee
      <4> QED BY <3>1, <3>2, SMT
    <3>4. Displayed' = Displayed
      BY <2>1, Zenon DEF Displayed, for_liquid, tx
    <3>5. FeeShown' <=> FeeShown
      BY <2>1 DEF FeeShown, for_liquid, tx
    <3>6. Fee' = Fee
      BY <2>1 DEF Fee, for_liquid, tx, output_amount
    <3>7. RequestValid(request)'
      BY <2>1, Zenon DEF ConfirmedInv
    <3>8. confirmed' = [outputs |-> Displayed', fee |-> confirmed'.fee]
      BY <3>3, <3>4, Zenon
    <3>9. confirmed'.fee = (IF FeeShown THEN Fee ELSE None)'
      BY <3>3, <3>5, <3>6, Zenon
    <3> QED BY <3>7, <3>8, <3>9, Zenon DEF ConfirmedInv
  <2> QED BY <2>1, <2>2, <2>3
<1>9. CASE Refuse
  <2>1. /\ pc = "refuse" /\ UNCHANGED <<request, confirmed>>
        /\ pc' \in {"done"}
    BY <1>9, Zenon DEF Refuse, Reject
  <2> QED BY <2>1, ConfirmedKept, SMT DEF Signing
<1>10. CASE SignEc
  <2>1. /\ pc = "sign_ec" /\ UNCHANGED <<request, confirmed, input_amount>>
    BY <1>10, Zenon DEF SignEc
  <2> QED BY <2>1, ConfirmedKept, SMT DEF Signing
<1>11. CASE AllSigned
  <2>1. /\ pc = "sign_ec" /\ UNCHANGED <<request, confirmed, input_amount>>
    BY <1>11, Zenon DEF AllSigned
  <2> QED BY <2>1, ConfirmedKept, SMT DEF Signing
<1>12. CASE send_ec_signature_replies
  <2>1. /\ pc = "reply_ec" /\ UNCHANGED <<request, confirmed, input_amount>>
    BY <1>12, Zenon DEF send_ec_signature_replies
  <2> QED BY <2>1, ConfirmedKept, SMT DEF Signing
<1>13. CASE get_signature
  <2>1. /\ pc = "sign_ae" /\ UNCHANGED <<request, confirmed, input_amount>>
    BY <1>13, Zenon DEF get_signature
  <2> QED BY <2>1, ConfirmedKept, SMT DEF Signing
<1>14. CASE not_get_signature
  <2>1. /\ pc = "sign_ae" /\ UNCHANGED <<request, confirmed, input_amount>>
    BY <1>14, Zenon DEF not_get_signature
  <2> QED BY <2>1, ConfirmedKept, SMT DEF Signing
<1>15. CASE Finished
  <2>1. /\ pc \in {"done", "restart"} /\ pc' = pc /\ UNCHANGED <<request, confirmed>>
    BY <1>15, Zenon DEF Finished, vars
  <2>2. CASE pc = "done"
    BY <2>1, <2>2, SMT DEF ConfirmedInv
  <2>3. CASE pc = "restart"
    BY <2>1, <2>3, ConfirmedKept, SMT DEF Signing
  <2> QED BY <2>1, <2>2, <2>3
<1> QED BY <1>1, <1>2, <1>3, <1>4, <1>5, <1>6, <1>7, <1>8, <1>9, <1>10, <1>11,
          <1>12, <1>13, <1>14, <1>15 DEF Next

\* The approval of the outputs is about the request and what was confirmed.
LEMMA OutputsKept ==
  ASSUME UNCHANGED <<request, confirmed>>,
         OutputsApproved \/ (SignedOutputsApproved /\ signatures' = signatures)
  PROVE  SignedOutputsApproved'
  BY Zenon DEF SignedOutputsApproved, OutputsApproved, for_liquid, tx

\* No signature exists before the outputs are approved.
LEMMA SignedOutputsStep == SignTxInv /\ Next => SignedOutputsApproved'
<1> SUFFICES ASSUME SignTxInv /\ Next PROVE SignedOutputsApproved'
  OBVIOUS
<1> USE RequestAssumption DEF SignTxInv
<1>1. CASE sign_tx
  <2>1. pc \in {"idle"} /\ signatures' = signatures
    BY <1>1, Zenon DEF sign_tx
  <2>2. signatures = {}
    BY <2>1, SMT DEF SignatureInv
  <2> QED BY <2>1, <2>2 DEF SignedOutputsApproved
<1>2. CASE ConfirmOutputs
  <2>1. pc \in {"outputs"} /\ signatures' = signatures
    BY <1>2, Zenon DEF ConfirmOutputs
  <2>2. signatures = {}
    BY <2>1, SMT DEF SignatureInv
  <2> QED BY <2>1, <2>2 DEF SignedOutputsApproved
<1>3. CASE tx_input
  <2>1. pc \in {"inputs"} /\ signatures' = signatures
    BY <1>3, Zenon DEF tx_input
  <2>2. signatures = {}
    BY <2>1, SMT DEF SignatureInv
  <2> QED BY <2>1, <2>2 DEF SignedOutputsApproved
<1>4. CASE not_tx_input
  <2>1. pc \in {"inputs"} /\ signatures' = signatures
    BY <1>4, Zenon DEF not_tx_input
  <2>2. signatures = {}
    BY <2>1, SMT DEF SignatureInv
  <2> QED BY <2>1, <2>2 DEF SignedOutputsApproved
<1>5. CASE LostConnection
  <2>1. UNCHANGED <<request, confirmed, signatures>>
    BY <1>5, Zenon DEF LostConnection
  <2> QED BY <2>1, OutputsKept
<1>6. CASE TaprootHashes
  <2>1. UNCHANGED <<request, confirmed, signatures>>
    BY <1>6, Zenon DEF TaprootHashes, Scope
  <2> QED BY <2>1, OutputsKept
<1>7. CASE CheckAmounts
  <2>1. UNCHANGED <<request, confirmed, signatures>>
    BY <1>7, Zenon DEF CheckAmounts, Scope
  <2> QED BY <2>1, OutputsKept
<1>8. CASE ConfirmFee
  <2>1. pc \in {"fee"} /\ signatures' = signatures
    BY <1>8, Zenon DEF ConfirmFee
  <2>2. signatures = {}
    BY <2>1, SMT DEF SignatureInv
  <2> QED BY <2>1, <2>2 DEF SignedOutputsApproved
<1>9. CASE Refuse
  <2>1. pc \in {"refuse"} /\ signatures' = signatures
    BY <1>9, Zenon DEF Refuse
  <2>2. signatures = {}
    BY <2>1, SMT DEF SignatureInv
  <2> QED BY <2>1, <2>2 DEF SignedOutputsApproved
<1>10. CASE SignEc
  <2>1. OutputsApproved
    BY <1>10, ApprovedWhenSigning DEF SignEc, Signing
  <2>2. UNCHANGED <<request, confirmed>>
    BY <1>10, Zenon DEF SignEc
  <2> QED BY <2>1, <2>2, OutputsKept
<1>11. CASE AllSigned
  <2>1. UNCHANGED <<request, confirmed, signatures>>
    BY <1>11, Zenon DEF AllSigned
  <2> QED BY <2>1, OutputsKept
<1>12. CASE send_ec_signature_replies
  <2>1. UNCHANGED <<request, confirmed, signatures>>
    BY <1>12, Zenon DEF send_ec_signature_replies
  <2> QED BY <2>1, OutputsKept
<1>13. CASE get_signature
  <2>1. OutputsApproved
    BY <1>13, ApprovedWhenSigning DEF get_signature, Signing
  <2>2. UNCHANGED <<request, confirmed>>
    BY <1>13, Zenon DEF get_signature
  <2> QED BY <2>1, <2>2, OutputsKept
<1>14. CASE not_get_signature
  <2>1. UNCHANGED <<request, confirmed, signatures>>
    BY <1>14, Zenon DEF not_get_signature
  <2> QED BY <2>1, OutputsKept
<1>15. CASE Finished
  <2>1. UNCHANGED <<request, confirmed, signatures>>
    BY <1>15, Zenon DEF Finished, vars
  <2> QED BY <2>1, OutputsKept
<1> QED BY <1>1, <1>2, <1>3, <1>4, <1>5, <1>6, <1>7, <1>8, <1>9, <1>10, <1>11,
          <1>12, <1>13, <1>14, <1>15 DEF Next

-----------------------------------------------------------------------------
\* At the end each message has a reply.
Complete == pc = "done" => Len(replies) = Len(taken)

\* Replies that are in order, and complete at the end, answer each message once.
LEMMA InOrderAnswers == Shape /\ InOrder /\ Complete => AnsweredOnce
<1> SUFFICES ASSUME Shape, InOrder, Complete PROVE AnsweredOnce
  OBVIOUS
<1> DEFINE ids == [n \in DOMAIN replies |-> replies[n].id]
<1>1. ids = [n \in DOMAIN replies |-> n]
  BY Zenon DEF InOrder
<1>2. \A m, n \in DOMAIN ids : m < n => ids[m] < ids[n]
  BY <1>1, Zenon
<1>3. DOMAIN replies = 1..Len(replies) /\ DOMAIN taken = 1..Len(taken)
  BY SMT DEF Shape
<1>4. pc = "done" => ids = [n \in DOMAIN taken |-> n]
  BY <1>1, <1>3, Zenon DEF Complete
<1> QED BY <1>2, <1>4, Zenon DEF AnsweredOnce

\* The flow without AE that fails refuses one message, the last.
LEMMA FailedEnd ==
  ASSUME Shape, InOrder, ~use_ae_signatures',
         \A n \in DOMAIN replies : replies[n].kind # "signature",
         NEW id \in Nat, id > Len(replies), Reply(id, "error")
  PROVE  AnsweredOnce'
<1>1. "error" \in Kinds
  BY DEF Kinds
<1>2. /\ DOMAIN replies' = 1..(Len(replies) + 1)
      /\ replies'[Len(replies) + 1].id = id /\ replies'[Len(replies) + 1].kind = "error"
      /\ \A n \in DOMAIN replies : n \in DOMAIN replies' /\ replies'[n] = replies[n]
  BY <1>1, Replied DEF Shape
<1>3. DOMAIN replies = 1..Len(replies) /\ Len(replies) \in Nat
  BY SMT DEF Shape
<1>4. \A n \in DOMAIN replies : replies'[n].id = n
  BY <1>2, Zenon DEF InOrder
<1>5. \A m, n \in DOMAIN replies' : m < n => replies'[m].id < replies'[n].id
  BY <1>2, <1>3, <1>4, SMT
<1>6. \A n \in DOMAIN replies' : n \in DOMAIN replies \/ n = Len(replies) + 1
  BY <1>2, <1>3, SMT
<1>7. \A n \in DOMAIN replies' : replies'[n].kind # "signature"
  <2>1. "error" # "signature"
    OBVIOUS
  <2> QED BY <1>2, <1>6, <2>1, Zenon
<1>8. \E n \in DOMAIN replies' : replies'[n].kind = "error"
  <2>1. Len(replies) + 1 \in DOMAIN replies'
    BY <1>2, <1>3, SMT
  <2> QED BY <1>2, <2>1, Zenon
<1> QED BY <1>5, <1>7, <1>8, Zenon DEF AnsweredOnce

\* The flow without AE has answered all, or refused.
LEMMA EcEnd == SignTxInv /\ Next /\ pc' = "done" /\ ~use_ae_signatures' => AnsweredOnce'
<1> SUFFICES ASSUME SignTxInv /\ Next /\ pc' = "done" /\ ~use_ae_signatures' PROVE AnsweredOnce'
  OBVIOUS
<1> USE RequestAssumption DEF SignTxInv
<1>1. CASE sign_tx
  <2>1. /\ pc = "idle" /\ taken' = <<"request">>
        /\ \/ pc' = "outputs"
           \/ Reply(1, "error")
    BY <1>1, Zenon DEF sign_tx, Reject
  <2>2. Reply(1, "error") /\ replies = <<>>
    BY <2>1, SMT DEF PhaseInv
  <2>3. InOrder' /\ Len(replies') = Len(taken')
    BY <2>1, <2>2, SMT DEF InOrder, Reply
  <2>4. Shape' /\ InOrder' /\ Complete'
    BY <2>3, ShapeStep DEF Complete
  <2> QED BY <2>4, InOrderAnswers, PTL
<1>2. CASE ConfirmOutputs
  <2>1. /\ pc = "outputs" /\ taken' = taken
        /\ \/ pc' = "inputs"
           \/ Reply(1, "error")
    BY <1>2, Zenon DEF ConfirmOutputs, Reject
  <2>2. Reply(1, "error") /\ replies = <<>> /\ Len(taken) = 1
    BY <2>1, SMT DEF PhaseInv
  <2>3. InOrder' /\ Len(replies') = Len(taken')
    BY <2>1, <2>2, SMT DEF InOrder, Reply
  <2>4. Shape' /\ InOrder' /\ Complete'
    BY <2>3, ShapeStep DEF Complete
  <2> QED BY <2>4, InOrderAnswers, PTL
<1>3. CASE tx_input
  <2>1. /\ pc \in {"inputs"} /\ request' = request
        /\ \/ pc' = IF index < Len(tx.inputs) THEN "inputs" ELSE "taproot"
           \/ Reply(Len(taken'), "error")
    BY <1>3, Zenon DEF tx_input, Reject
  <2>2. request # None /\ ~use_ae_signatures
    BY <2>1, RequestOK DEF use_ae_signatures
  <2>3. /\ InOrder /\ Len(replies) = 1
        /\ \A n \in DOMAIN replies : replies[n].kind # "signature"
    BY <2>1, <2>2, SMT DEF EcInv
  <2>4. Len(taken') \in Nat /\ Len(taken') > Len(replies)
    <3>1. PICK method : taken' = Append(taken, method)
      BY <1>3, Zenon DEF tx_input
    <3>2. Len(taken') = Len(taken) + 1
      BY <3>1, SMT DEF Shape
    <3> QED BY <2>1, <2>3, <3>2, SMT DEF PhaseInv, Shape
  <2>5. Reply(Len(taken'), "error")
    BY <2>1, SMT
  <2> QED BY <2>2, <2>3, <2>4, <2>5, FailedEnd DEF use_ae_signatures
<1>4. CASE not_tx_input
  <2>1. /\ pc \in {"inputs"} /\ request' = request
        /\ \/ pc' # "done"
           \/ Reply(Len(taken'), "error")
    BY <1>4, Zenon DEF not_tx_input, Reject
  <2>2. request # None /\ ~use_ae_signatures
    BY <2>1, RequestOK DEF use_ae_signatures
  <2>3. /\ InOrder /\ Len(replies) = 1
        /\ \A n \in DOMAIN replies : replies[n].kind # "signature"
    BY <2>1, <2>2, SMT DEF EcInv
  <2>4. Len(taken') \in Nat /\ Len(taken') > Len(replies)
    <3>1. PICK method : taken' = Append(taken, method)
      BY <1>4, Zenon DEF not_tx_input, UnexpectedMessage
    <3>2. Len(taken') = Len(taken) + 1
      BY <3>1, SMT DEF Shape
    <3> QED BY <2>1, <2>3, <3>2, SMT DEF PhaseInv, Shape
  <2>5. Reply(Len(taken'), "error")
    BY <2>1
  <2> QED BY <2>2, <2>3, <2>4, <2>5, FailedEnd DEF use_ae_signatures
<1>5. CASE LostConnection
  <2>1. pc' # "done"
    BY <1>5, SMT DEF LostConnection
  <2> QED BY <2>1
<1>6. CASE TaprootHashes
  <2>1. pc' # "done"
    BY <1>6, SMT DEF TaprootHashes
  <2> QED BY <2>1
<1>7. CASE CheckAmounts
  <2>1. /\ pc \in {"amounts"} /\ request' = request
        /\ \/ pc' # "done"
           \/ Reply(Len(taken), "error")
    BY <1>7, Zenon DEF CheckAmounts, Scope, RefuseLater, Reject
  <2>2. request # None /\ ~use_ae_signatures
    BY <2>1, RequestOK DEF use_ae_signatures
  <2>3. /\ InOrder /\ Len(replies) = 1
        /\ \A n \in DOMAIN replies : replies[n].kind # "signature"
    BY <2>1, <2>2, SMT DEF EcInv
  <2>4. Len(taken) \in Nat /\ Len(taken) > Len(replies)
    BY <2>1, <2>3, SMT DEF PhaseInv, Shape
  <2>5. Reply(Len(taken), "error")
    BY <2>1
  <2> QED BY <2>2, <2>3, <2>4, <2>5, FailedEnd DEF use_ae_signatures
<1>8. CASE ConfirmFee
  <2>1. /\ pc \in {"fee"} /\ request' = request
        /\ \/ pc' # "done"
           \/ Reply(Len(taken), "error")
    BY <1>8, Zenon DEF ConfirmFee, RefuseLater, Reject, StartSigning
  <2>2. request # None /\ ~use_ae_signatures
    BY <2>1, RequestOK DEF use_ae_signatures
  <2>3. /\ InOrder /\ Len(replies) = 1
        /\ \A n \in DOMAIN replies : replies[n].kind # "signature"
    BY <2>1, <2>2, SMT DEF EcInv
  <2>4. Len(taken) \in Nat /\ Len(taken) > Len(replies)
    BY <2>1, <2>3, SMT DEF PhaseInv, Shape
  <2>5. Reply(Len(taken), "error")
    BY <2>1
  <2> QED BY <2>2, <2>3, <2>4, <2>5, FailedEnd DEF use_ae_signatures
<1>9. CASE Refuse
  <2>1. /\ pc \in {"refuse"} /\ request' = request
        /\ \/ pc' # "done"
           \/ Reply(Len(taken'), "error")
    BY <1>9, Zenon DEF Refuse, Reject
  <2>2. request # None /\ ~use_ae_signatures
    BY <2>1, RequestOK DEF use_ae_signatures
  <2>3. /\ InOrder /\ Len(replies) = 1
        /\ \A n \in DOMAIN replies : replies[n].kind # "signature"
    BY <2>1, <2>2, SMT DEF EcInv
  <2>4. Len(taken') \in Nat /\ Len(taken') > Len(replies)
    <3>1. PICK method : taken' = Append(taken, method)
      BY <1>9, Zenon DEF Refuse, UnexpectedMessage
    <3>2. Len(taken') = Len(taken) + 1
      BY <3>1, SMT DEF Shape
    <3> QED BY <2>1, <2>3, <3>2, SMT DEF PhaseInv, Shape
  <2>5. Reply(Len(taken'), "error")
    BY <2>1
  <2> QED BY <2>2, <2>3, <2>4, <2>5, FailedEnd DEF use_ae_signatures
<1>10. CASE SignEc
  <2>1. /\ pc \in {"sign_ec"} /\ request' = request
        /\ \/ pc' # "done"
           \/ Reply(index + 1, "error")
    BY <1>10, Zenon DEF SignEc, Reject
  <2>2. request # None /\ ~use_ae_signatures
    BY <2>1, RequestOK DEF use_ae_signatures
  <2>3. /\ InOrder /\ Len(replies) = 1
        /\ \A n \in DOMAIN replies : replies[n].kind # "signature"
    BY <2>1, <2>2, SMT DEF EcInv
  <2>4. index + 1 \in Nat /\ index + 1 > Len(replies)
    BY <2>1, <2>3, SMT DEF PhaseInv, Shape
  <2>5. Reply(index + 1, "error")
    BY <2>1
  <2> QED BY <2>2, <2>3, <2>4, <2>5, FailedEnd DEF use_ae_signatures
<1>11. CASE AllSigned
  <2>1. pc' # "done"
    BY <1>11, SMT DEF AllSigned
  <2> QED BY <2>1
<1>12. CASE send_ec_signature_replies
  <2>1. /\ pc = "reply_ec" /\ taken' = taken /\ request' = request
        /\ pc' = IF index < Len(inputs) THEN pc ELSE "done"
        /\ Reply(index + 1, SignatureReply(index))
    BY <1>12, Zenon DEF send_ec_signature_replies
  <2>2. request # None /\ ~use_ae_signatures
    BY <2>1, RequestOK DEF use_ae_signatures
  <2>3. InOrder /\ Len(replies) = index
    BY <2>1, <2>2, SMT DEF EcInv
  <2>4. Len(taken) = index + 1 /\ index \in Nat
    <3>1. index \in 1..Len(inputs) /\ Len(taken) = Len(inputs) + 1
      BY <2>1 DEF PhaseInv
    <3>2. ~(index < Len(inputs))
      BY <2>1, SMT
    <3> QED BY <3>1, <3>2, SMT DEF Shape
  <2>5. SignatureReply(index) \in Kinds
    BY Zenon DEF Kinds, SignatureReply
  <2>6. /\ Len(replies') = Len(replies) + 1 /\ DOMAIN replies' = 1..(Len(replies) + 1)
        /\ replies'[Len(replies) + 1].id = index + 1
        /\ \A n \in DOMAIN replies : n \in DOMAIN replies' /\ replies'[n] = replies[n]
    <3>1. index + 1 \in Nat
      BY <2>4, SMT
    <3> QED BY <2>1, <2>5, <3>1, Replied DEF Shape
  <2>7. \A n \in DOMAIN replies' : n \in DOMAIN replies \/ n = Len(replies) + 1
    BY <2>3, <2>4, <2>6, SMT DEF Shape
  <2>8. InOrder'
    BY <2>3, <2>6, <2>7, Zenon DEF InOrder
  <2>9. Len(replies') = Len(taken')
    BY <2>1, <2>3, <2>4, <2>6
  <2>10. Shape' /\ InOrder' /\ Complete'
    BY <2>8, <2>9, ShapeStep DEF Complete
  <2> QED BY <2>10, InOrderAnswers, PTL
<1>13. CASE get_signature
  <2>1. pc = "sign_ae" /\ request' = request
    BY <1>13, Zenon DEF get_signature
  <2>2. use_ae_signatures'
    BY <2>1 DEF PhaseInv, use_ae_signatures
  <2> QED BY <2>2
<1>14. CASE not_get_signature
  <2>1. pc = "sign_ae" /\ request' = request
    BY <1>14, Zenon DEF not_get_signature
  <2>2. use_ae_signatures'
    BY <2>1 DEF PhaseInv, use_ae_signatures
  <2> QED BY <2>2
<1>15. CASE Finished
  <2>1. UNCHANGED <<pc, replies, taken, request>>
    BY <1>15, Zenon DEF Finished, vars
  <2> QED BY <2>1, Zenon DEF AnsweredOnce, use_ae_signatures
<1> QED BY <1>1, <1>2, <1>3, <1>4, <1>5, <1>6, <1>7, <1>8, <1>9, <1>10, <1>11,
          <1>12, <1>13, <1>14, <1>15 DEF Next

\* The replies answer the messages.
LEMMA AnsweredStep == SignTxInv /\ Next => AnsweredOnce'
<1> SUFFICES ASSUME SignTxInv /\ Next PROVE AnsweredOnce'
  OBVIOUS
<1>1. Shape' /\ PhaseInv' /\ AeInv' /\ EcInv'
  BY ShapeStep, PhaseStep, AeStep, EcStep
<1>2. CASE pc' \in {"idle", "outputs"}
  <2>1. replies' = <<>> /\ pc' # "done"
    BY <1>1, <1>2, SMT DEF PhaseInv
  <2>2. InOrder'
    BY <2>1, SMT DEF InOrder
  <2>3. Complete'
    BY <2>1 DEF Complete
  <2> QED BY <1>1, <2>2, <2>3, InOrderAnswers, PTL
<1>3. CASE pc' \notin {"idle", "outputs"} /\ use_ae_signatures'
  <2>1. request' # None
    BY <1>1, <1>3, SMT DEF Shape
  <2>2. InOrder' /\ Len(replies') = Len(taken')
    BY <1>1, <1>3, <2>1 DEF AeInv
  <2>3. Shape' /\ InOrder' /\ Complete'
    BY <1>1, <2>2 DEF Complete
  <2> QED BY <2>3, InOrderAnswers, PTL
<1>4. CASE pc' \notin {"idle", "outputs", "done"} /\ ~use_ae_signatures'
  <2>1. request' # None
    BY <1>1, <1>4, SMT DEF Shape
  <2>2. InOrder' /\ pc' # "done"
    BY <1>1, <1>4, <2>1 DEF EcInv
  <2>3. Shape' /\ InOrder' /\ Complete'
    BY <1>1, <2>2 DEF Complete
  <2> QED BY <2>3, InOrderAnswers, PTL
<1>5. CASE pc' = "done" /\ ~use_ae_signatures'
  BY <1>5, EcEnd
<1> QED BY <1>2, <1>3, <1>4, <1>5

-----------------------------------------------------------------------------
\* Before the request nothing was taken, answered or signed.
LEMMA InitSignTx == Init => SignTxInv
<1> SUFFICES ASSUME Init PROVE SignTxInv
  OBVIOUS
<1>1. /\ pc = "idle" /\ request = None /\ index = 0 /\ inputs = <<>> /\ taken = <<>>
      /\ replies = <<>> /\ signatures = {}
  BY DEF Init
<1>2. Shape
  BY <1>1, SMT DEF Shape
<1>3. PhaseInv
  BY <1>1, SMT DEF PhaseInv
<1>4. AeInv /\ EcInv
  BY <1>1, SMT DEF AeInv, EcInv
<1>5. SignatureInv /\ SignedOutputsApproved
  BY <1>1, Zenon DEF SignatureInv, SignedOutputsApproved
<1>6. ConfirmedInv
  BY <1>1, SMT DEF ConfirmedInv
<1>7. AnsweredOnce
  <2>1. InOrder /\ Complete
    BY <1>1, SMT DEF InOrder, Complete
  <2> QED BY <1>2, <2>1, InOrderAnswers
<1> QED BY <1>2, <1>3, <1>4, <1>5, <1>6, <1>7 DEF SignTxInv

\* The invariant is inductive.
LEMMA SignTxInductive == SignTxInv /\ [Next]_vars => SignTxInv'
<1>1. CASE SignTxInv /\ Next
  <2>1. Shape' /\ PhaseInv' /\ AeInv' /\ EcInv'
    BY <1>1, ShapeStep, PhaseStep, AeStep, EcStep
  <2>2. SignatureInv' /\ ConfirmedInv' /\ AnsweredOnce' /\ SignedOutputsApproved'
    BY <1>1, SignatureStep, ConfirmedStep, AnsweredStep, SignedOutputsStep
  <2> QED BY <2>1, <2>2 DEF SignTxInv
<1>2. CASE SignTxInv /\ UNCHANGED vars
  <2>1. UNCHANGED <<pc, request, index, inputs, input_amount, confirmed, taken, replies,
                    signatures>>
    BY <1>2 DEF vars
  <2>2. Shape' /\ PhaseInv'
    BY <1>2, <2>1, Zenon DEF SignTxInv, Shape, PhaseInv, use_ae_signatures
  <2>3. AeInv' /\ EcInv'
    BY <1>2, <2>1, Zenon DEF SignTxInv, AeInv, EcInv, InOrder, CommitmentReply, use_ae_signatures
  <2>4. SignatureInv' /\ AnsweredOnce'
    BY <1>2, <2>1, Zenon DEF SignTxInv, SignatureInv, AnsweredOnce, use_ae_signatures
  <2>5. SignedOutputsApproved'
    BY <1>2, <2>1, OutputsKept DEF SignTxInv
  <2>6. ConfirmedInv'
    <3>1. Displayed' = Displayed
      BY <2>1, Zenon DEF Displayed, for_liquid, tx
    <3>2. FeeShown' <=> FeeShown
      BY <2>1 DEF FeeShown, for_liquid, tx
    <3>3. Fee' = Fee
      BY <2>1 DEF Fee, for_liquid, tx, output_amount
    <3> QED BY <1>2, <2>1, <3>1, <3>2, <3>3, Zenon DEF SignTxInv, ConfirmedInv
  <2> QED BY <2>2, <2>3, <2>4, <2>5, <2>6 DEF SignTxInv
<1> QED BY <1>1, <1>2

\* SignTxInv holds in every state of sign_tx.
THEOREM SignTxCorrect == Spec => []SignTxInv
<1> QED BY InitSignTx, SignTxInductive, PTL DEF Spec

\* Each message is answered once and in its order (jade_process_reply_to_message and
\* jade_process_reject_message in sign_tx.c), whatever the host sends in whatever order; only
\* the flow without AE leaves messages unanswered when it fails, and it has then sent no
\* signature.
THEOREM MessagesAnsweredOnce == Spec => []AnsweredOnce
<1>1. SignTxInv => AnsweredOnce
  BY DEF SignTxInv
<1> QED BY <1>1, SignTxCorrect, PTL

\* In the AE flow a signature contains entropy of the host exactly if the reply to the
\* message about the same input was the commitment to it (send_ae_signature_replies).
THEOREM EntropyCommittedFirst == Spec => []CommittedFirst
<1>1. SignTxInv => CommittedFirst
  <2> SUFFICES ASSUME SignTxInv, NEW s \in signatures, use_ae_signatures
               PROVE  s.entropy = \E n \in DOMAIN replies :
                        replies[n] = [id |-> s.input + 1, kind |-> "commitment"]
    BY Zenon DEF CommittedFirst
  <2>1. /\ s.input \in DOMAIN inputs /\ inputs[s.input].path
        /\ s.entropy = inputs[s.input].commit /\ signatures # {}
    BY DEF SignTxInv, SignatureInv
  <2>2. request # None
    BY <2>1, SMT DEF SignTxInv, SignatureInv, Shape
  <2> DEFINE i == s.input
  <2>3. /\ InOrder /\ i + 1 \in DOMAIN replies
        /\ replies[i + 1].kind = CommitmentReply(inputs[i])
    BY <2>1, <2>2 DEF SignTxInv, AeInv
  <2>4. inputs[i].commit \in BOOLEAN
    <3>1. inputs[i] \in Messages
      BY <2>1, SMT DEF SignTxInv, Shape
    <3> QED BY <3>1, SMT DEF Messages
  <2>5. \A n \in DOMAIN replies :
          replies[n] = [id |-> n, kind |-> replies[n].kind]
    <3> TAKE n \in DOMAIN replies
    <3> DEFINE Replies == [id : Nat, kind : Kinds]
    <3>1. replies[n] \in Replies
      <4>1. replies \in Seq(Replies)
        BY DEF SignTxInv, Shape
      <4> HIDE DEF Replies
      <4> QED BY <4>1, SMT
    <3>2. replies[n].id = n
      BY <2>3 DEF InOrder
    <3> QED BY <3>1, <3>2, SMT
  <2>6. CASE inputs[i].commit
    <3>1. replies[i + 1] = [id |-> i + 1, kind |-> "commitment"]
      BY <2>1, <2>3, <2>5, <2>6, Zenon DEF CommitmentReply
    <3> QED BY <2>1, <2>3, <2>4, <2>6, <3>1, Zenon
  <2>7. CASE ~inputs[i].commit
    <3>1. replies[i + 1].kind = "empty"
      BY <2>3, <2>7, Zenon DEF CommitmentReply
    <3>2. ASSUME NEW n \in DOMAIN replies,
                 replies[n] = [id |-> i + 1, kind |-> "commitment"]
          PROVE  FALSE
      <4>1. n = i + 1 /\ replies[n].kind = "commitment"
        BY <2>3, <3>2 DEF InOrder
      <4> QED BY <3>1, <4>1
    <3> QED BY <2>1, <2>4, <2>7, <3>2, Zenon
  <2> QED BY <2>4, <2>6, <2>7
<1> QED BY <1>1, SignTxCorrect, PTL

\* No input is signed before the user has seen every output of a payment that does not
\* return to the wallet, the fee included: whatever the host claims of the outputs, an output
\* is left out only if its script was built again from the wallet's path
\* (display_output, params_signing_outputs).
THEOREM HiddenOutputsReturn == Spec => [](signatures # {} => OutputsApproved)
<1>1. SignTxInv => (signatures # {} => OutputsApproved)
  BY DEF SignTxInv, SignedOutputsApproved
<1> QED BY <1>1, SignTxCorrect, PTL

-----------------------------------------------------------------------------
(* Amounts *)

\* A request is in work, or has been signed.
Live == pc \notin {"idle", "done"} \/ signatures # {}

\* All the messages about inputs have been taken.
AllTaken == pc \in {"taproot", "amounts", "fee"} \cup Signing \/ signatures # {}

\* The amounts have been looked at.
Looked == pc \in {"fee"} \cup Signing \/ signatures # {}

Real(i) == inputs[i].sat = tx.inputs[i].sat

\* Except for Liquid the amount of an input is that of its coin; the host may lie about
\* a single segwit input only.
InputsInv ==
  request # None =>
    /\ Len(inputs) <= Len(tx.inputs)
    /\ AllTaken => Len(inputs) = Len(tx.inputs)
    /\ ~for_liquid => \A i \in DOMAIN inputs :
         Real(i) \/ (Len(tx.inputs) = 1 /\ inputs[i].type = "SW_V0")

\* What the coins add up to.
SumInv ==
  /\ pc = "idle" => input_amount = 0
  /\ request # None /\ ~for_liquid /\ (\A i \in DOMAIN inputs : Real(i)) =>
       input_amount = Modulo(Sums(Sats(tx.inputs, DOMAIN tx.inputs))[Len(inputs)])

Given(asset) ==
  {i \in DOMAIN inputs : inputs[i].path /\ inputs[i].unblinded /\ inputs[i].asset = asset}
ChangeOutputs(r) == {k \in DOMAIN r.tx.outputs : Change(r, k)}
Repeated(lines, n) == \E m \in 1..(n - 1) : lines[m].asset = lines[n].asset

\* The first line of an asset counts the inputs that the host has opened, less the change; the
\* others count nothing.
LineOK(n) ==
  LET asset == request.in_sums[n].asset IN
  /\ in_sums[n] \in Nat
  /\ Repeated(request.in_sums, n) => in_sums[n] = 0
  /\ ~Repeated(request.in_sums, n) =>
       Modulo(in_sums[n] + Of(request, ChangeOutputs(request), asset))
         = Modulo(TotalOf(inputs, Given(asset)))

SummaryInv ==
  Live /\ for_liquid =>
    /\ DOMAIN in_sums = DOMAIN request.in_sums
    /\ \A n \in DOMAIN request.in_sums : LineOK(n)
    /\ request.in_sums # <<>> =>
         \A i \in DOMAIN inputs : inputs[i].path => inputs[i].type # "PRE_SW"

\* What is signed has passed the check of the amounts, and the fee has been shown.
LookedInv ==
  /\ Looked => AmountsValid
  /\ signatures # {} /\ ~for_liquid => confirmed.fee = input_amount - output_amount

\* A segwit signature commits to what the host said of its input.
CommitInv ==
  \A s \in signatures :
    /\ s.type = inputs[s.input].type
    /\ s.type # "PRE_SW" =>
         /\ s.input \in DOMAIN s.commits
         /\ s.commits[s.input] = <<inputs[s.input].sat, inputs[s.input].asset>>

AmountInv == InputsInv /\ SumInv /\ SummaryInv /\ LookedInv /\ CommitInv

\* There is a request when there are signatures, and all its inputs are known.
LEMMA SignedRequest ==
  ASSUME SignTxInv, AmountInv, signatures # {}
  PROVE  /\ request \in Requests /\ request # None /\ pc # "idle"
         /\ tx.inputs \in Seq(Coins) /\ inputs \in Seq(Messages)
         /\ Len(inputs) = Len(tx.inputs)
         /\ \A s \in signatures : s.input \in DOMAIN inputs
<1>1. pc # "idle"
  BY DEF SignTxInv, SignatureInv
<1>2. request \in Requests /\ request # None /\ tx.inputs \in Seq(Coins) /\ inputs \in Seq(Messages)
  BY <1>1, RequestOK DEF SignTxInv, Shape
<1>3. Len(inputs) = Len(tx.inputs)
  BY <1>2 DEF AmountInv, InputsInv, AllTaken
<1>4. \A s \in signatures : s.input \in DOMAIN inputs
  BY DEF SignTxInv, SignatureInv
<1> QED BY <1>1, <1>2, <1>3, <1>4

\* A signature that commits to the amount of its input and is good has the right one.
LEMMA GoodAmount ==
  ASSUME SignTxInv, AmountInv, NEW s \in signatures, Spendable(s), inputs[s.input].type # "PRE_SW"
  PROVE  Real(s.input)
<1> DEFINE i == s.input
<1>1. s.type = inputs[i].type
  BY DEF AmountInv, CommitInv
<1>2. i \in DOMAIN s.commits /\ s.commits[i] = <<inputs[i].sat, inputs[i].asset>>
  BY <1>1 DEF AmountInv, CommitInv
<1>3. s.commits[i] = <<tx.inputs[i].sat, tx.inputs[i].asset>>
  BY <1>2 DEF Spendable
<1> HIDE DEF i
<1>4. inputs[i].sat = tx.inputs[i].sat
  BY <1>2, <1>3
<1> QED BY <1>4 DEF Real, i

\* Coins, outputs and messages have amounts.
LEMMA HaveSats ==
  /\ \A x \in Coins : x.sat \in Nat
  /\ \A x \in Outputs : x.sat \in Nat
  /\ \A x \in Messages : x.sat \in Nat
  BY DEF Coins, Outputs, Messages

\* The totals of entries with amounts are numbers.
LEMMA EntryTotals ==
  ASSUME NEW E, \A x \in E : x.sat \in Nat, NEW e \in Seq(E), NEW S
  PROVE  /\ Len(Sats(e, S)) = Len(e) /\ TotalOf(e, S) = Sums(Sats(e, S))[Len(e)]
         /\ Sums(Sats(e, S)) \in [0..Len(e) -> Nat] /\ TotalOf(e, S) \in Nat
         /\ Sums(Sats(e, S))[0] = 0
         /\ \A n \in 1..Len(e) :
              Sums(Sats(e, S))[n] = Sums(Sats(e, S))[n - 1] + (IF n \in S THEN e[n].sat ELSE 0)
<1> DEFINE a == Sats(e, S)
<1>1. Len(e) \in Nat /\ DOMAIN e = 1..Len(e) /\ \A i \in 1..Len(e) : e[i].sat \in Nat
  OBVIOUS
<1>2. /\ Len(a) = Len(e)
      /\ \A i \in 1..Len(e) : a[i] = (IF i \in S THEN e[i].sat ELSE 0) /\ a[i] \in Nat
  BY <1>1, SatsFacts, Zenon
<1> HIDE DEF a
<1>3. Len(a) \in Nat /\ \A i \in 1..Len(a) : a[i] \in Nat
  BY <1>1, <1>2
<1>4. /\ Sums(a) \in [0..Len(a) -> Nat] /\ Sums(a)[0] = 0
      /\ \A n \in 1..Len(a) : Sums(a)[n] = Sums(a)[n - 1] + a[n]
  BY <1>3, SumsDef, Zenon
<1>5. TotalOf(e, S) = Sums(a)[Len(a)]
  BY Zenon DEF TotalOf, Total, a
<1>6. \A n \in 1..Len(e) : Sums(a)[n] = Sums(a)[n - 1] + (IF n \in S THEN e[n].sat ELSE 0)
  BY <1>2, <1>4
<1>7. Sums(a)[Len(a)] \in Nat
  BY <1>3, <1>4
<1> QED BY <1>2, <1>4, <1>5, <1>6, <1>7, Zenon DEF a

\* The fee that was shown is the one that is paid.
LEMMA SpendsFromInv == SignTxInv /\ AmountInv => SpendsAsApproved
<1> SUFFICES ASSUME SignTxInv, AmountInv, NEW s \in signatures, Spendable(s)
             PROVE  FeeApproved /\ OutputsApproved
  BY Zenon DEF SpendsAsApproved
<1>1. OutputsApproved
  BY DEF SignTxInv, SignedOutputsApproved
<1>2. /\ request \in Requests /\ request # None
      /\ tx.inputs \in Seq(Coins) /\ inputs \in Seq(Messages)
      /\ Len(inputs) = Len(tx.inputs) /\ s.input \in DOMAIN inputs
  BY SignedRequest
<1>3. ASSUME ~for_liquid
      PROVE  confirmed.fee = TotalOf(tx.inputs, DOMAIN tx.inputs) - output_amount
  <2> DEFINE e == tx.inputs
             T == TotalOf(e, DOMAIN e)
             S == Sums(Sats(e, DOMAIN e))
  <2>1. ASSUME NEW i \in DOMAIN inputs PROVE Real(i)
    <3>1. CASE Len(e) = 1 /\ inputs[i].type = "SW_V0"
      <4>1. i = s.input
        BY <1>2, <3>1
      <4>2. inputs[s.input].type # "PRE_SW"
        BY <3>1, <4>1
      <4> QED BY <4>1, <4>2, GoodAmount
    <3> QED BY <1>2, <1>3, <3>1 DEF AmountInv, InputsInv
  <2>2. input_amount = Modulo(S[Len(inputs)])
    BY <1>2, <1>3, <2>1, Zenon DEF AmountInv, SumInv
  <2>3. S \in [0..Len(e) -> Nat] /\ T = S[Len(e)] /\ Len(e) \in Nat
    <3> HIDE DEF S, T
    <3>1. Len(e) \in Nat
      BY <1>2
    <3> QED BY <1>2, <3>1, HaveSats, EntryTotals DEF S, T
  <2>4. T <= UINT64_MAX
    BY <1>2, <1>3, AmountAssumption, Zenon DEF tx, for_liquid
  <2> HIDE DEF S, T, e
  <2>5. T \in Nat /\ Len(inputs) = Len(e)
    BY <1>2, <2>3 DEF e
  <2>6. input_amount = T
    BY <2>2, <2>3, <2>4, <2>5, ModuloFacts
  <2>7. confirmed.fee = input_amount - output_amount
    BY <1>3, Zenon DEF AmountInv, LookedInv
  <2> QED BY <2>6, <2>7, Zenon DEF T, e
<1> QED BY <1>1, <1>3, Zenon DEF FeeApproved

\* The lines of an asset add up to its first line, if the others are zero.
LEMMA FirstLine ==
  ASSUME NEW lines, lines \in Seq([asset : Assets, value : Nat]), NEW n \in DOMAIN lines,
         \A m \in DOMAIN lines : lines[m].asset = lines[n].asset /\ m # n => lines[m].value = 0
  PROVE  Total(Values(lines, lines[n].asset)) = lines[n].value
<1> DEFINE N == Len(lines)
           asset == lines[n].asset
           v(m) == IF lines[m].asset = asset THEN lines[m].value ELSE 0
           a == [m \in 1..N |-> v(m)]
<1>1. N \in Nat /\ DOMAIN lines = 1..N /\ \A m \in 1..N : lines[m].value \in Nat
  <2> DEFINE L == [asset : Assets, value : Nat]
  <2>1. lines \in Seq(L) /\ \A x \in L : x.value \in Nat
    OBVIOUS
  <2> HIDE DEF L
  <2> QED BY <2>1
<1>2. Values(lines, asset) = a
  BY <1>1, Zenon DEF Values
<1>3. \A m \in 1..N : v(m) \in Nat /\ (m # n => v(m) = 0)
  BY <1>1
<1>4. v(n) = lines[n].value
  OBVIOUS
<1> HIDE DEF N, v, asset
<1>5. Len(a) = N /\ \A m \in 1..N : a[m] = v(m)
  BY <1>1, <1>3
<1> HIDE DEF a
<1>6. n \in 1..Len(a) /\ Len(a) \in Nat /\ a[n] \in Nat /\ \A m \in 1..Len(a) : m # n => a[m] = 0
  BY <1>1, <1>3, <1>5
<1>7. Total(a) = a[n]
  BY <1>6, TotalOfOne
<1> QED BY <1>1, <1>2, <1>4, <1>5, <1>7, Zenon DEF asset

\* The first of the lines of an asset.
LEMMA FirstOf ==
  ASSUME NEW lines, lines \in Seq([asset : Assets, value : Nat]), NEW k \in DOMAIN lines
  PROVE  \E n \in DOMAIN lines : /\ lines[n].asset = lines[k].asset
                                 /\ \A m \in 1..(n - 1) : lines[m].asset # lines[n].asset
<1> DEFINE T == {m \in DOMAIN lines : lines[m].asset = lines[k].asset}
<1>1. T \subseteq Nat /\ T # {} /\ DOMAIN lines = 1..Len(lines) /\ Len(lines) \in Nat
  OBVIOUS
<1>2. PICK n \in T : \A m \in T : n <= m
  <2> HIDE DEF T
  <2> QED BY <1>1, Least
<1>3. ASSUME NEW m \in 1..(n - 1) PROVE lines[m].asset # lines[n].asset
  <2>1. m \in DOMAIN lines /\ ~(n <= m) /\ n \in DOMAIN lines /\ lines[n].asset = lines[k].asset
    BY <1>1, <1>2
  <2> QED BY <1>2, <2>1
<1> QED BY <1>2, <1>3

\* The summary that was shown is true.
LEMMA SwapFromInv == SignTxInv /\ AmountInv => SwapAsApproved
<1> SUFFICES ASSUME SignTxInv, AmountInv, signatures # {}, for_liquid, request.swap,
                    \A i \in DOMAIN inputs :
                      inputs[i].path => \E s \in signatures : s.input = i /\ Spendable(s),
                    NEW k \in DOMAIN request.in_sums
             PROVE  LET asset == request.in_sums[k].asset IN
                    Modulo(Total(Values(request.in_sums, asset))
                             + Of(request, ChangeOutputs(request), asset))
                      = Modulo(TotalOf(tx.inputs, Given(asset)))
  BY Zenon DEF SwapAsApproved, Given, ChangeOutputs, tx
<1> DEFINE lines == request.in_sums
           asset == lines[k].asset
<1>1. /\ request \in Requests /\ request # None
      /\ tx.inputs \in Seq(Coins) /\ inputs \in Seq(Messages)
      /\ Len(inputs) = Len(tx.inputs)
  BY SignedRequest
<1>2. lines \in Seq([asset : Assets, value : Nat])
  BY <1>1, AmountAssumption, Zenon
<1>3. PICK n \in DOMAIN lines : /\ lines[n].asset = asset
                                /\ \A m \in 1..(n - 1) : lines[m].asset # lines[n].asset
  <2>1. k \in DOMAIN lines
    OBVIOUS
  <2>2. \E n \in DOMAIN lines : /\ lines[n].asset = lines[k].asset
                                /\ \A m \in 1..(n - 1) : lines[m].asset # lines[n].asset
    <3> HIDE DEF lines
    <3> QED BY <1>2, <2>1, FirstOf
  <2> QED BY <2>2
<1>4. /\ DOMAIN in_sums = DOMAIN lines /\ \A m \in DOMAIN lines : LineOK(m)
      /\ \A i \in DOMAIN inputs : inputs[i].path => inputs[i].type # "PRE_SW"
  <2>1. lines # <<>>
    BY <1>2
  <2> QED BY <2>1, Zenon DEF AmountInv, SummaryInv, Live
<1>5. \A m \in DOMAIN lines : in_sums[m] = lines[m].value
  <2>1. AmountsValid
    BY Zenon DEF AmountInv, LookedInv, Looked
  <2> QED BY <1>4, <2>1, Zenon DEF AmountsValid, asset_summary_validate
<1>6. ASSUME NEW m \in DOMAIN lines, lines[m].asset = asset, m # n PROVE lines[m].value = 0
  <2>1. DOMAIN lines = 1..Len(lines) /\ Len(lines) \in Nat
    BY <1>2
  <2>2. ~(m \in 1..(n - 1))
    BY <1>3, <1>6
  <2>3. n \in 1..(m - 1)
    BY <1>6, <2>1, <2>2
  <2>4. Repeated(request.in_sums, m)
    BY <1>3, <1>6, <2>3, Zenon DEF Repeated
  <2> QED BY <1>4, <1>5, <2>4, Zenon DEF LineOK
<1>7. Total(Values(lines, asset)) = lines[n].value
  <2>1. \A m \in DOMAIN lines : lines[m].asset = lines[n].asset /\ m # n => lines[m].value = 0
    BY <1>3, <1>6, Zenon
  <2>2. Total(Values(lines, lines[n].asset)) = lines[n].value
    <3> HIDE DEF lines
    <3> QED BY <1>2, <2>1, FirstLine
  <2> QED BY <1>3, <2>2, Zenon
<1>8. Modulo(in_sums[n] + Of(request, ChangeOutputs(request), asset))
        = Modulo(TotalOf(inputs, Given(asset)))
  <2>1. ~Repeated(request.in_sums, n)
    BY <1>3, Zenon DEF Repeated
  <2> QED BY <1>3, <1>4, <2>1, Zenon DEF LineOK
<1>9. TotalOf(inputs, Given(asset)) = TotalOf(tx.inputs, Given(asset))
  <2>1. DOMAIN inputs = DOMAIN tx.inputs
    BY <1>1
  <2>2. ASSUME NEW i \in DOMAIN inputs, i \in Given(asset) PROVE inputs[i].sat = tx.inputs[i].sat
    <3>1. inputs[i].path
      BY <2>2, Zenon DEF Given
    <3>2. PICK s \in signatures : s.input = i /\ Spendable(s)
      BY <3>1
    <3>3. Real(i)
      BY <1>4, <3>1, <3>2, GoodAmount, Zenon
    <3> QED BY <3>3 DEF Real
  <2>3. Sats(inputs, Given(asset)) = Sats(tx.inputs, Given(asset))
    <3> DEFINE f(i) == IF i \in Given(asset) THEN inputs[i].sat ELSE 0
               g(i) == IF i \in Given(asset) THEN tx.inputs[i].sat ELSE 0
    <3>1. \A i \in DOMAIN inputs : f(i) = g(i)
      BY <2>2, Zenon
    <3>2. Sats(inputs, Given(asset)) = [i \in DOMAIN inputs |-> f(i)]
      BY Zenon DEF Sats
    <3>3. Sats(tx.inputs, Given(asset)) = [i \in DOMAIN inputs |-> g(i)]
      BY <2>1, Zenon DEF Sats
    <3> HIDE DEF f, g
    <3> QED BY <3>1, <3>2, <3>3, Zenon
  <2> QED BY <2>3, Zenon DEF TotalOf
<1> QED BY <1>5, <1>7, <1>8, <1>9, Zenon

-----------------------------------------------------------------------------
\* A step that leaves the request, the inputs and the sums alone.
LEMMA AmountsKept ==
  ASSUME AmountInv, UNCHANGED <<request, in_sums, out_sums, inputs, input_amount>>, pc' # "idle",
         Live' => Live, AllTaken' => AllTaken, Looked' => AmountsValid,
         signatures' # {} /\ ~for_liquid => confirmed'.fee = input_amount - output_amount,
         CommitInv'
  PROVE  AmountInv'
<1>1. InputsInv'
  BY Zenon DEF AmountInv, InputsInv, Real, tx, for_liquid
<1>2. SumInv'
  BY Zenon DEF AmountInv, SumInv, Real, tx, for_liquid
<1>3. SummaryInv'
  <2>1. \A n \in DOMAIN request.in_sums : LineOK(n) => LineOK(n)'
    BY Zenon DEF LineOK, Repeated, Of, ChangeOutputs, Given, Change
  <2> QED BY <2>1, Zenon DEF AmountInv, SummaryInv, tx, for_liquid
<1>4. LookedInv'
  <2>1. AmountsValid => AmountsValid'
    BY Zenon DEF AmountsValid, asset_summary_validate, output_amount, tx, for_liquid
  <2> QED BY <2>1, Zenon DEF LookedInv, output_amount, tx, for_liquid
<1> QED BY <1>1, <1>2, <1>3, <1>4 DEF AmountInv

\* Nothing is signed, and nothing has been.
LEMMA AmountsKeptUnsigned ==
  ASSUME AmountInv, UNCHANGED <<request, in_sums, out_sums, inputs, input_amount, signatures>>,
         signatures = {}, pc # "idle", pc' # "idle",
         pc = "done" => pc' = "done",
         pc' \in {"taproot", "amounts", "fee"} \cup Signing =>
           pc \in {"taproot", "amounts", "fee"} \cup Signing,
         pc' \in {"fee"} \cup Signing => AmountsValid
  PROVE  AmountInv'
<1>1. signatures' = {}
  BY Zenon
<1>2. (Live' => Live) /\ (AllTaken' => AllTaken) /\ (Looked' => AmountsValid)
  BY <1>1, Zenon DEF Live, AllTaken, Looked
<1>3. CommitInv'
  BY <1>1, Zenon DEF CommitInv
<1> QED BY <1>1, <1>2, <1>3, AmountsKept, Zenon

\* The signatures are made of what was looked at.
LEMMA AmountsKeptSigning ==
  ASSUME SignTxInv, AmountInv,
         UNCHANGED <<request, in_sums, out_sums, inputs, input_amount, confirmed>>,
         pc \in Signing, pc' # "idle", CommitInv'
  PROVE  AmountInv'
<1>1. Live /\ AllTaken /\ Looked
  BY DEF Live, AllTaken, Looked, Signing
<1>2. AmountsValid
  BY <1>1 DEF AmountInv, LookedInv
<1>3. ~for_liquid => confirmed'.fee = input_amount - output_amount
  <2>1. confirmed.fee = IF FeeShown THEN Fee ELSE None
    BY DEF SignTxInv, ConfirmedInv, Signing
  <2> QED BY <2>1, Zenon DEF FeeShown, Fee
<1> QED BY <1>1, <1>2, <1>3, AmountsKept, Zenon

\* A signature commits to what the host said of its input.
LEMMA SignatureCommits ==
  ASSUME NEW i \in DOMAIN inputs, NEW entropy
  PROVE  LET s == Signature(i, entropy) IN
         /\ s.input = i /\ s.type = inputs[i].type
         /\ s.type # "PRE_SW" =>
              i \in DOMAIN s.commits /\ s.commits[i] = <<inputs[i].sat, inputs[i].asset>>
<1> DEFINE s == Signature(i, entropy)
           p(j) == <<inputs[j].sat, inputs[j].asset>>
<1>1. s.input = i /\ s.type = inputs[i].type
  BY DEF Signature
<1>2. s.commits = CASE inputs[i].type = "PRE_SW" -> [j \in {} |-> <<>>]
                    [] inputs[i].type = "SW_V0" -> [j \in {i} |-> p(j)]
                    [] OTHER -> [j \in DOMAIN inputs |-> p(j)]
  BY DEF Signature
<1> HIDE DEF s, p
<1>3. ASSUME inputs[i].type # "PRE_SW" PROVE i \in DOMAIN s.commits /\ s.commits[i] = p(i)
  <2>1. CASE inputs[i].type = "SW_V0"
    <3>1. s.commits = [j \in {i} |-> p(j)]
      BY <1>2, <1>3, <2>1
    <3> QED BY <3>1, Zenon
  <2>2. CASE inputs[i].type # "SW_V0"
    <3>1. s.commits = [j \in DOMAIN inputs |-> p(j)]
      BY <1>2, <1>3, <2>2
    <3> QED BY <3>1, Zenon
  <2> QED BY <2>1, <2>2
<1> QED BY <1>1, <1>3, Zenon DEF s, p

\* A signature that is added commits to its input as the others do.
LEMMA CommitAdded ==
  ASSUME CommitInv, UNCHANGED inputs, NEW i \in DOMAIN inputs, NEW entropy,
         signatures' \subseteq signatures \cup {Signature(i, entropy)}
  PROVE  CommitInv'
<1> DEFINE new == Signature(i, entropy)
<1>1. /\ new.input = i /\ new.type = inputs[i].type
      /\ new.type # "PRE_SW" =>
           i \in DOMAIN new.commits /\ new.commits[i] = <<inputs[i].sat, inputs[i].asset>>
  BY SignatureCommits
<1>2. signatures' \subseteq signatures \cup {new}
  OBVIOUS
<1> HIDE DEF new
<1> QED BY <1>1, <1>2, Zenon DEF CommitInv

\* Unsigned arithmetic wraps to zero.
LEMMA ModuloZero == UINT64_MAX \in Nat /\ Modulo(0) = 0 /\ Modulo(UINT64_MAX + 1) = 0
<1>1. UINT64_MAX \in Nat
  BY AmountAssumption
<1>2. 0 \in Nat /\ 0 <= UINT64_MAX
  BY <1>1
<1> QED BY <1>1, <1>2, ModuloFacts, Zenon

\* The change is taken from a line that counts nothing yet.
LEMMA ChangeTaken ==
  ASSUME NEW c \in Nat
  PROVE  LET s == Modulo(UINT64_MAX + 1 - Modulo(c)) IN s \in Nat /\ Modulo(s + c) = Modulo(0)
<1> DEFINE d == UINT64_MAX + 1 - Modulo(c)
<1>1. /\ Modulo(c) \in 0..UINT64_MAX /\ UINT64_MAX \in Nat
      /\ Modulo(UINT64_MAX + 1) = 0 /\ Modulo(0) = 0
  BY ModuloFacts, ModuloZero, Zenon
<1>2. d \in Nat /\ Modulo(c) + d = UINT64_MAX + 1
  BY <1>1
<1> HIDE DEF d
<1>3. Modulo(d) \in 0..UINT64_MAX /\ Modulo(Modulo(d) + c) = Modulo(d + c)
  BY <1>2, ModuloFacts
<1>4. Modulo(Modulo(c) + d) = Modulo(c + d)
  BY <1>2, ModuloFacts
<1>5. d + c = c + d
  BY <1>2
<1>6. Modulo(Modulo(d) + c) = 0
  BY <1>1, <1>2, <1>3, <1>4, <1>5
<1>7. Modulo(d) \in Nat
  BY <1>1, <1>3
<1> QED BY <1>1, <1>6, <1>7, Zenon DEF d

\* An amount is added to a line and to what it should be.
LEMMA LineAdded ==
  ASSUME NEW s \in Nat, NEW c \in Nat, NEW t \in Nat, NEW v \in Nat, Modulo(s + c) = Modulo(t)
  PROVE  Modulo(s + v) \in Nat /\ Modulo(Modulo(s + v) + c) = Modulo(t + v)
<1>1. s + v \in Nat /\ s + c \in Nat /\ (s + v) + c = (s + c) + v
  OBVIOUS
<1>2. Modulo(s + v) \in 0..UINT64_MAX /\ Modulo(Modulo(s + v) + c) = Modulo((s + v) + c)
  BY <1>1, ModuloFacts
<1>3. Modulo(Modulo(s + c) + v) = Modulo((s + c) + v)
  BY <1>1, ModuloFacts
<1>4. Modulo(Modulo(t) + v) = Modulo(t + v)
  BY ModuloFacts
<1>5. UINT64_MAX \in Nat
  BY ModuloZero
<1> QED BY <1>1, <1>2, <1>3, <1>4, <1>5

\* The change of an asset is a number.
LEMMA ChangeIsNat ==
  ASSUME NEW r \in Requests, NEW S, NEW asset
  PROVE  Of(r, S, asset) \in Nat
<1>1. r.tx.outputs \in Seq(Outputs)
  BY RequestAssumption
<1> QED BY <1>1, HaveSats, EntryTotals DEF Of

\* A request begins without inputs and with the change taken from the summary.
LEMMA RequestStep ==
  ASSUME SignTxInv, AmountInv, sign_tx
  PROVE  AmountInv'
<1>1. pc = "idle" /\ UNCHANGED <<inputs, input_amount, signatures>>
  BY Zenon DEF sign_tx
<1>2. PICK r \in Requests :
        /\ request' = r
        /\ \/ pc' = "outputs" /\ in_sums' = (IF r.tx.liquid THEN ChangeSums(r) ELSE <<>>)
           \/ pc' = "done"
  BY Zenon DEF sign_tx, Reject
<1>3. inputs' = <<>> /\ input_amount' = 0 /\ signatures' = {} /\ pc' \in {"outputs", "done"}
  <2>1. inputs = <<>> /\ input_amount = 0 /\ signatures = {}
    BY <1>1, Zenon DEF SignTxInv, PhaseInv, SignatureInv, AmountInv, SumInv
  <2> QED BY <1>1, <1>2, <2>1, Zenon
<1>4. request' # None /\ r.tx.inputs \in Seq(Coins) /\ Len(r.tx.inputs) \in Nat
  <2>1. r.tx.inputs \in Seq(Coins) /\ None \notin Requests
    BY RequestAssumption
  <2>2. Len(r.tx.inputs) \in Nat
    BY <2>1
  <2> QED BY <1>2, <2>1, <2>2, Zenon
<1>5. Len(inputs') = 0 /\ DOMAIN inputs' = {}
  BY <1>3
<1>6. ~AllTaken' /\ ~Looked'
  BY <1>3 DEF AllTaken, Looked, Signing
<1>7. InputsInv'
  <2>1. Len(inputs') <= Len(tx'.inputs)
    BY <1>2, <1>4, <1>5 DEF tx
  <2> QED BY <1>5, <1>6, <2>1, Zenon DEF InputsInv
<1>8. SumInv'
  <2> DEFINE S == Sums(Sats(r.tx.inputs, DOMAIN r.tx.inputs))
  <2>1. S[0] = 0
    BY <1>4, HaveSats, EntryTotals
  <2>2. Modulo(S[0]) = 0
    BY <2>1, ModuloZero, Zenon
  <2>3. Sums(Sats(tx.inputs, DOMAIN tx.inputs))' = S
    BY <1>2, Zenon DEF tx
  <2>4. pc' # "idle"
    BY <1>3
  <2> QED BY <1>3, <1>5, <2>2, <2>3, <2>4, Zenon DEF SumInv
<1>9. SummaryInv'
  <2> SUFFICES ASSUME Live', for_liquid' PROVE
        /\ DOMAIN in_sums' = DOMAIN request'.in_sums
        /\ \A n \in DOMAIN request'.in_sums : LineOK(n)'
    BY <1>5, Zenon DEF SummaryInv
  <2>1. in_sums' = ChangeSums(r)
    BY <1>2, <1>3, Zenon DEF Live, for_liquid, tx
  <2>2. DOMAIN in_sums' = DOMAIN r.in_sums
    BY <2>1, Zenon DEF ChangeSums
  <2>3. ASSUME NEW n \in DOMAIN r.in_sums PROVE LineOK(n)'
    <3> DEFINE asset == r.in_sums[n].asset
               c == Of(r, ChangeOutputs(r), asset)
    <3>1. in_sums'[n] = IF Repeated(r.in_sums, n) THEN 0 ELSE Modulo(UINT64_MAX + 1 - Modulo(c))
      BY <2>1, Zenon DEF ChangeSums, Repeated, ChangeOutputs
    <3>2. c \in Nat
      BY ChangeIsNat
    <3>3. TotalOf(inputs, Given(asset))' = 0
      <4>1. ASSUME NEW S PROVE TotalOf(<<>>, S) = 0
        <5>1. <<>> \in Seq(Coins) /\ Len(<<>>) = 0
          OBVIOUS
        <5>2. TotalOf(<<>>, S) = Sums(Sats(<<>>, S))[Len(<<>>)] /\ Sums(Sats(<<>>, S))[0] = 0
          BY <5>1, HaveSats, EntryTotals, Zenon
        <5> QED BY <5>1, <5>2, Zenon
      <4> QED BY <1>3, <4>1, Zenon
    <3> HIDE DEF c
    <3>4. in_sums'[n] \in Nat /\ (~Repeated(r.in_sums, n) => Modulo(in_sums'[n] + c) = Modulo(0))
      <4>1. CASE Repeated(r.in_sums, n)
        BY <3>1, <4>1
      <4>2. CASE ~Repeated(r.in_sums, n)
        BY <3>1, <3>2, <4>2, ChangeTaken
      <4> QED BY <4>1, <4>2
    <3>5. Repeated(r.in_sums, n) => in_sums'[n] = 0
      BY <3>1, Zenon
    <3> QED BY <1>2, <3>3, <3>4, <3>5, Zenon DEF LineOK, c
  <2> QED BY <1>2, <2>2, <2>3, Zenon
<1>10. LookedInv' /\ CommitInv'
  BY <1>3, <1>6, Zenon DEF LookedInv, CommitInv
<1> QED BY <1>7, <1>8, <1>9, <1>10 DEF AmountInv

\* The message of an input that is accepted, and what is kept of it.
Kept(m) == [m EXCEPT !.sat = Amount(index, m)]

\* Only the amount of the message is replaced.
LEMMA KeptFields ==
  ASSUME NEW m \in Messages
  PROVE  /\ Kept(m).path = m.path /\ Kept(m).type = m.type /\ Kept(m).asset = m.asset
         /\ Kept(m).unblinded = m.unblinded /\ Kept(m).sat = Amount(index, m)
<1> DEFINE a == Amount(index, m)
<1>1. Kept(m) = [m EXCEPT !.sat = a]
  BY DEF Kept
<1> HIDE DEF a
<1>2. /\ [m EXCEPT !.sat = a].path = m.path /\ [m EXCEPT !.sat = a].type = m.type
      /\ [m EXCEPT !.sat = a].asset = m.asset /\ [m EXCEPT !.sat = a].unblinded = m.unblinded
      /\ [m EXCEPT !.sat = a].sat = a
  BY DEF Messages
<1> QED BY <1>1, <1>2 DEF a

\* What a message that is accepted changes.
InputTaken(m) ==
  /\ pc = "inputs" /\ index = Len(inputs) + 1 /\ index <= Len(tx.inputs)
  /\ m \in Messages /\ Kept(m) \in Messages
  /\ Accepted(index, m)
  /\ inputs' = Append(inputs, Kept(m))
  /\ input_amount' = (IF for_liquid THEN input_amount ELSE Modulo(input_amount + Amount(index, m)))
  /\ in_sums' = (IF Opened(m) THEN asset_summary_update(request.in_sums, in_sums, m.asset, m.sat)
                              ELSE in_sums)
  /\ pc' = (IF index < Len(tx.inputs) THEN "inputs" ELSE "taproot")
  /\ UNCHANGED request /\ signatures' = {}

\* A message about an input is refused, or taken.
LEMMA InputEffect ==
  ASSUME SignTxInv, tx_input
  PROVE  \/ /\ pc = "inputs" /\ pc' = "done" /\ signatures = {}
            /\ UNCHANGED <<request, in_sums, out_sums, inputs, input_amount, signatures>>
         \/ \E m : InputTaken(m)
<1>1. /\ pc = "inputs" /\ index <= Len(tx.inputs) /\ UNCHANGED <<request, out_sums, signatures>>
  BY Zenon DEF tx_input
<1>2. /\ signatures = {} /\ index = Len(inputs) + 1 /\ index \in Nat
      /\ inputs \in Seq(Messages) /\ Shape
  BY <1>1 DEF SignTxInv, SignatureInv, PhaseInv, Shape
<1>3. index \in 1..Len(tx.inputs)
  <2>1. tx.inputs \in Seq(Coins)
    BY <1>1, <1>2, RequestOK
  <2> QED BY <1>1, <1>2, <2>1
<1>4. PICK m \in InputMessages(request, index) :
        \/ /\ Accepted(index, m)
           /\ inputs' = Append(inputs, [m EXCEPT !.sat = Amount(index, m)])
           /\ input_amount' =
                (IF for_liquid THEN input_amount ELSE Modulo(input_amount + Amount(index, m)))
           /\ in_sums' = (IF Opened(m)
                          THEN asset_summary_update(request.in_sums, in_sums, m.asset, m.sat)
                          ELSE in_sums)
           /\ pc' = (IF index < Len(tx.inputs) THEN "inputs" ELSE "taproot")
        \/ pc' = "done" /\ UNCHANGED <<inputs, input_amount, in_sums>>
  BY Zenon DEF tx_input, Reject
<1>5. m \in Messages /\ [m EXCEPT !.sat = Amount(index, m)] \in Messages
  BY <1>1, <1>2, <1>3, MessageKept, Zenon
<1> QED BY <1>1, <1>2, <1>4, <1>5, Zenon DEF InputTaken, Kept

\* What is known of the inputs after a message.
LEMMA InputAppended ==
  ASSUME SignTxInv, NEW m, InputTaken(m)
  PROVE  /\ inputs \in Seq(Messages) /\ Len(inputs) \in Nat
         /\ DOMAIN inputs = 1..Len(inputs) /\ DOMAIN inputs' = 1..(Len(inputs) + 1)
         /\ Len(inputs') = Len(inputs) + 1 /\ index = Len(inputs) + 1
         /\ \A i \in 1..Len(inputs) : inputs'[i] = inputs[i]
         /\ inputs'[index] = Kept(m)
         /\ request \in Requests /\ request # None /\ tx.inputs \in Seq(Coins)
         /\ tx' = tx /\ (for_liquid' <=> for_liquid)
<1>1. inputs \in Seq(Messages) /\ Shape /\ pc # "idle"
  BY DEF SignTxInv, Shape, InputTaken
<1>2. request \in Requests /\ request # None /\ tx.inputs \in Seq(Coins)
  BY <1>1, RequestOK
<1>3. Kept(m) \in Messages /\ inputs' = Append(inputs, Kept(m)) /\ index = Len(inputs) + 1
  BY DEF InputTaken
<1>4. tx' = tx /\ (for_liquid' <=> for_liquid)
  BY DEF InputTaken, tx, for_liquid
<1> QED BY <1>1, <1>2, <1>3, <1>4

\* The amount taken for an input is that of its coin, or the only input is segwit.
LEMMA InputsKept ==
  ASSUME SignTxInv, AmountInv, NEW m, InputTaken(m)
  PROVE  InputsInv'
<1> DEFINE n == Len(inputs)
<1>1. /\ n \in Nat /\ DOMAIN inputs = 1..n /\ DOMAIN inputs' = 1..(n + 1)
      /\ Len(inputs') = n + 1 /\ index = n + 1
      /\ \A i \in 1..n : inputs'[i] = inputs[i]
      /\ inputs'[index] = Kept(m)
      /\ request # None /\ tx' = tx /\ (for_liquid' <=> for_liquid)
      /\ Len(tx.inputs) \in Nat
  BY InputAppended
<1>2. index <= Len(tx.inputs) /\ m \in Messages /\ Accepted(index, m)
  BY DEF InputTaken
<1>3. AllTaken' => ~(index < Len(tx.inputs))
  BY DEF InputTaken, AllTaken, Signing
<1>4. ASSUME ~for_liquid, NEW i \in 1..(n + 1)
      PROVE  Real(i)' \/ (Len(tx.inputs) = 1 /\ inputs'[i].type = "SW_V0")
  <2>1. CASE i \in 1..n
    BY <1>1, <1>4, <2>1 DEF AmountInv, InputsInv, Real
  <2>2. CASE i = index
    <3>1. Kept(m).sat = Amount(index, m) /\ Kept(m).type = m.type
      BY <1>2, KeptFields
    <3>2. AmountKnown(index, m)
      BY <1>2, Zenon DEF Accepted
    <3>3. CASE m.prev = "real"
      <4>1. Kept(m).sat = tx.inputs[index].sat
        BY <1>4, <3>1, <3>3, Zenon DEF Amount
      <4> QED BY <1>1, <2>2, <4>1 DEF Real
    <3>4. CASE m.prev # "real"
      <4>1. m.type = "SW_V0" /\ Len(tx.inputs) = 1
        BY <1>4, <3>2, <3>4, Zenon DEF AmountKnown
      <4> QED BY <1>1, <2>2, <3>1, <4>1
    <3> QED BY <3>3, <3>4
  <2> QED BY <1>1, <2>1, <2>2
<1> HIDE DEF n
<1>5. Len(inputs') <= Len(tx'.inputs) /\ (AllTaken' => Len(inputs') = Len(tx'.inputs))
  BY <1>1, <1>2, <1>3
<1> QED BY <1>1, <1>4, <1>5, Zenon DEF InputsInv

\* The running sum of the inputs follows that of the coins.
LEMMA SumKept ==
  ASSUME SignTxInv, AmountInv, NEW m, InputTaken(m)
  PROVE  SumInv'
<1> DEFINE n == Len(inputs)
           e == tx.inputs
           S == Sums(Sats(e, DOMAIN e))
<1>1. /\ n \in Nat /\ DOMAIN inputs = 1..n /\ DOMAIN inputs' = 1..(n + 1)
      /\ Len(inputs') = n + 1 /\ index = n + 1
      /\ \A i \in 1..n : inputs'[i] = inputs[i]
      /\ inputs'[index] = Kept(m)
      /\ request # None /\ e \in Seq(Coins) /\ tx' = tx /\ (for_liquid' <=> for_liquid)
  BY InputAppended
<1>2. index <= Len(e) /\ m \in Messages
  BY DEF InputTaken
<1>3. pc' # "idle"
  BY DEF InputTaken
<1> SUFFICES ASSUME ~for_liquid, \A i \in DOMAIN inputs' : Real(i)'
             PROVE  input_amount' = Modulo(S[n + 1])
  BY <1>1, <1>3, Zenon DEF SumInv
<1>4. \A i \in DOMAIN inputs : Real(i)
  BY <1>1 DEF Real
<1>5. input_amount = Modulo(S[n])
  BY <1>1, <1>4, Zenon DEF AmountInv, SumInv
<1>6. input_amount' = Modulo(input_amount + Amount(index, m))
  BY Zenon DEF InputTaken
<1>7. Amount(index, m) = e[index].sat
  <2>1. Kept(m).sat = Amount(index, m)
    BY <1>2, KeptFields
  <2>2. inputs'[index].sat = tx'.inputs[index].sat
    BY <1>1 DEF Real
  <2> QED BY <1>1, <2>1, <2>2
<1>8. /\ Len(e) \in Nat /\ DOMAIN e = 1..Len(e) /\ S \in [0..Len(e) -> Nat]
      /\ \A k \in 1..Len(e) : S[k] = S[k - 1] + (IF k \in DOMAIN e THEN e[k].sat ELSE 0)
  <2>1. Len(e) \in Nat /\ DOMAIN e = 1..Len(e)
    BY <1>1
  <2>2. e \in Seq(Coins) /\ \A x \in Coins : x.sat \in Nat
    BY <1>1, HaveSats
  <2> HIDE DEF e
  <2> QED BY <2>1, <2>2, EntryTotals
<1>9. e[index].sat \in Nat
  <2>1. \A x \in Coins : x.sat \in Nat
    BY HaveSats
  <2> QED BY <1>1, <1>2, <2>1
<1> HIDE DEF S, e, n
<1>10. S[n + 1] = S[n] + e[index].sat /\ S[n] \in Nat
  <2>1. index \in 1..Len(e) /\ index - 1 = n /\ n \in 0..Len(e)
    BY <1>1, <1>2, <1>8
  <2>2. S[index] = S[index - 1] + e[index].sat
    BY <1>8, <2>1
  <2> QED BY <1>1, <1>8, <2>1, <2>2
<1>11. Modulo(Modulo(S[n]) + e[index].sat) = Modulo(S[n] + e[index].sat)
  BY <1>9, <1>10, ModuloFacts
<1> QED BY <1>5, <1>6, <1>7, <1>10, <1>11, Zenon

\* The least of a set of numbers.
LEMMA MinFacts ==
  ASSUME NEW T, T \subseteq Nat, T # {}
  PROVE  Min(T) \in T /\ \A y \in T : Min(T) <= y
  BY Least, Zenon DEF Min

\* asset_summary_update adds to the first line of the asset and to no other.
LEMMA SummaryUpdated ==
  ASSUME NEW lines, NEW n \in Nat, DOMAIN lines = 1..n, NEW sums, NEW asset, NEW v,
         NEW p \in 1..n, p \in DOMAIN sums
  PROVE  /\ DOMAIN asset_summary_update(lines, sums, asset, v) = DOMAIN sums
         /\ lines[p].asset # asset \/ Repeated(lines, p)
              => asset_summary_update(lines, sums, asset, v)[p] = sums[p]
         /\ lines[p].asset = asset /\ ~Repeated(lines, p)
              => asset_summary_update(lines, sums, asset, v)[p] = Modulo(sums[p] + v)
<1> DEFINE new == asset_summary_update(lines, sums, asset, v)
           repeated == Repeated(lines, p)
           T == {m \in DOMAIN lines : lines[m].asset = asset}
<1>1. DOMAIN lines = 1..n /\ T \subseteq Nat
  OBVIOUS
<1>2. new = IF T = {} THEN sums ELSE [sums EXCEPT ![Min(T)] = Modulo(sums[Min(T)] + v)]
  BY Zenon DEF asset_summary_update
<1>3. T # {} => Min(T) \in T /\ \A y \in T : Min(T) <= y
  <2> HIDE DEF T
  <2> QED BY <1>1, MinFacts
<1>4. p \in T <=> lines[p].asset = asset
  OBVIOUS
<1>5. T # {} /\ ~repeated /\ p \in T => Min(T) = p
  <2> SUFFICES ASSUME ~repeated, p \in T PROVE Min(T) = p
    OBVIOUS
  <2>1. Min(T) \in T /\ Min(T) <= p
    BY <1>3
  <2>2. Min(T) \in 1..n /\ lines[Min(T)].asset = lines[p].asset /\ p \in 1..n
    <3>1. \A x \in T : x \in DOMAIN lines /\ lines[x].asset = asset
      OBVIOUS
    <3> HIDE DEF T
    <3> QED BY <1>1, <2>1, <3>1
  <2> DEFINE x == Min(T)
  <2> HIDE DEF x, T
  <2>3. ~(x \in 1..(p - 1))
    BY <2>2 DEF x, repeated, Repeated
  <2> QED BY <1>1, <2>1, <2>2, <2>3 DEF x
<1>6. T # {} /\ (p \notin T \/ repeated) => Min(T) # p
  <2>1. p \notin T /\ T # {} => Min(T) # p
    <3> HIDE DEF T
    <3> QED BY <1>3, Zenon
  <2>2. ASSUME repeated, p \in T, Min(T) = p PROVE FALSE
    <3>1. PICK m \in 1..(p - 1) : lines[m].asset = lines[p].asset
      BY <2>2 DEF Repeated
    <3>2. m \in T /\ m < p
      BY <1>1, <2>2, <3>1
    <3>3. p <= m
      BY <1>3, <2>2, <3>2
    <3> QED BY <1>1, <3>2, <3>3
  <2> QED BY <2>1, <2>2, Zenon
<1> HIDE DEF new, T, repeated
<1>7. DOMAIN new = DOMAIN sums
  BY <1>2
<1>8. ASSUME p \notin T \/ repeated PROVE new[p] = sums[p]
  <2>1. CASE T = {}
    BY <1>2, <2>1
  <2>2. CASE T # {}
    <3>1. Min(T) # p
      BY <1>6, <1>8, <2>2
    <3> QED BY <1>2, <2>2, <3>1
  <2> QED BY <2>1, <2>2
<1>9. ASSUME p \in T, ~repeated PROVE new[p] = Modulo(sums[p] + v)
  <2>1. T # {} /\ Min(T) = p
    BY <1>5, <1>9
  <2> QED BY <1>2, <2>1
<1> QED BY <1>4, <1>7, <1>8, <1>9, Zenon DEF new, repeated

\* A message adds its amount to the line of its asset and to the inputs given.
LEMMA LineKept ==
  ASSUME SignTxInv, AmountInv, NEW m, InputTaken(m), for_liquid, NEW p \in DOMAIN request.in_sums,
         LineOK(p), DOMAIN in_sums = DOMAIN request.in_sums
  PROVE  LineOK(p)' /\ DOMAIN in_sums' = DOMAIN request.in_sums
<1> DEFINE n == Len(inputs)
           lines == request.in_sums
           asset == lines[p].asset
           c == Of(request, ChangeOutputs(request), asset)
           G == Given(asset)
           H == {i \in DOMAIN inputs' :
                   inputs'[i].path /\ inputs'[i].unblinded /\ inputs'[i].asset = asset}
           mine == m.path /\ m.unblinded /\ m.asset = asset
           t == TotalOf(inputs, G)
           u == TotalOf(inputs', H)
           repeated == Repeated(request.in_sums, p)
<1>1. /\ n \in Nat /\ DOMAIN inputs = 1..n /\ DOMAIN inputs' = 1..(n + 1)
      /\ index = n + 1
      /\ \A i \in 1..n : inputs'[i] = inputs[i]
      /\ inputs'[index] = Kept(m)
      /\ inputs \in Seq(Messages) /\ request \in Requests /\ request' = request
  BY InputAppended DEF InputTaken
<1>2. /\ m \in Messages /\ Kept(m) \in Messages /\ inputs' = Append(inputs, Kept(m))
      /\ in_sums' = (IF Opened(m) THEN asset_summary_update(lines, in_sums, m.asset, m.sat)
                                  ELSE in_sums)
  BY Zenon DEF InputTaken
<1>3. /\ Kept(m).path = m.path /\ Kept(m).unblinded = m.unblinded /\ Kept(m).asset = m.asset
      /\ Kept(m).sat = m.sat /\ m.sat \in Nat
  <2>1. Amount(index, m) = m.sat
    BY Zenon DEF Amount
  <2> QED BY <1>2, <2>1, KeptFields, HaveSats
<1>4. \A i \in 1..n : i \in G <=> i \in H
  BY <1>1 DEF Given
<1>5. index \in H <=> mine
  BY <1>1, <1>3
<1>6. t \in Nat /\ u = t + (IF mine THEN m.sat ELSE 0)
  <2> HIDE DEF G, H, mine
  <2>1. /\ TotalOf(inputs, G) \in Nat
        /\ TotalOf(Append(inputs, Kept(m)), H)
             = TotalOf(inputs, G) + (IF Len(inputs) + 1 \in H THEN Kept(m).sat ELSE 0)
    BY <1>1, <1>2, <1>4, HaveSats, TotalAppended
  <2> QED BY <1>1, <1>2, <1>3, <1>5, <2>1
<1>7. c \in Nat
  BY <1>1, ChangeIsNat
<1>8. /\ in_sums[p] \in Nat
      /\ repeated => in_sums[p] = 0
      /\ ~repeated => Modulo(in_sums[p] + c) = Modulo(t)
  BY Zenon DEF LineOK
<1>9. Opened(m) <=> m.path /\ m.unblinded
  <2>1. in_sums # <<>>
    OBVIOUS
  <2> QED BY <2>1, Zenon DEF Opened, SummaryInput
<1>10. lines \in Seq([asset : Assets, value : Nat])
  BY <1>1, AmountAssumption, Zenon
<1>11. LET new == asset_summary_update(lines, in_sums, m.asset, m.sat) IN
       /\ DOMAIN new = DOMAIN lines
       /\ asset # m.asset \/ repeated => new[p] = in_sums[p]
       /\ asset = m.asset /\ ~repeated => new[p] = Modulo(in_sums[p] + m.sat)
  <2>1. /\ p \in DOMAIN lines /\ DOMAIN in_sums = DOMAIN lines
        /\ Len(lines) \in Nat /\ DOMAIN lines = 1..Len(lines)
    BY <1>10
  <2> DEFINE a == m.asset
             v == m.sat
             l == Len(lines)
  <2> HIDE DEF lines, a, v, l
  <2>2. /\ DOMAIN asset_summary_update(lines, in_sums, a, v) = DOMAIN in_sums
        /\ lines[p].asset # a \/ Repeated(lines, p)
             => asset_summary_update(lines, in_sums, a, v)[p] = in_sums[p]
        /\ lines[p].asset = a /\ ~Repeated(lines, p)
             => asset_summary_update(lines, in_sums, a, v)[p] = Modulo(in_sums[p] + v)
    <3>1. l \in Nat /\ DOMAIN lines = 1..l /\ p \in 1..l /\ p \in DOMAIN in_sums
      BY <2>1 DEF l
    <3> QED BY <3>1, SummaryUpdated
  <2> QED BY <2>1, <2>2 DEF a, v, lines
<1>12. /\ DOMAIN in_sums' = DOMAIN lines
       /\ ~mine \/ repeated => in_sums'[p] = in_sums[p]
       /\ mine /\ ~repeated => in_sums'[p] = Modulo(in_sums[p] + m.sat)
  BY <1>2, <1>9, <1>11, Zenon
<1> HIDE DEF c, t, u, mine, repeated
<1>13. /\ in_sums'[p] \in Nat
       /\ repeated => in_sums'[p] = 0
       /\ ~repeated => Modulo(in_sums'[p] + c) = Modulo(u)
  <2>1. CASE mine /\ ~repeated
    <3>1. /\ Modulo(in_sums[p] + m.sat) \in Nat
          /\ Modulo(Modulo(in_sums[p] + m.sat) + c) = Modulo(t + m.sat)
      <4>1. /\ in_sums[p] \in Nat /\ c \in Nat /\ t \in Nat /\ m.sat \in Nat
            /\ Modulo(in_sums[p] + c) = Modulo(t)
        BY <1>3, <1>6, <1>7, <1>8, <2>1
      <4> DEFINE s == in_sums[p]
                 v == m.sat
      <4>2. s \in Nat /\ c \in Nat /\ t \in Nat /\ v \in Nat /\ Modulo(s + c) = Modulo(t)
        BY <4>1
      <4> HIDE DEF s, v
      <4>3. Modulo(s + v) \in Nat /\ Modulo(Modulo(s + v) + c) = Modulo(t + v)
        BY <4>2, LineAdded
      <4> QED BY <4>3 DEF s, v
    <3> QED BY <1>6, <1>12, <2>1, <3>1
  <2>2. CASE ~mine /\ ~repeated
    BY <1>6, <1>8, <1>12, <2>2
  <2>3. CASE repeated
    BY <1>8, <1>12, <2>3
  <2> QED BY <2>1, <2>2, <2>3
<1>14. TotalOf(inputs, Given(asset))' = u
  BY <1>1, Zenon DEF Given, u
<1>15. LineOK(p)'
  BY <1>1, <1>13, <1>14, Zenon DEF LineOK, c, repeated
<1> QED BY <1>12, <1>15

\* The summary of the inputs follows the messages taken.
LEMMA SummaryKept ==
  ASSUME SignTxInv, AmountInv, NEW m, InputTaken(m)
  PROVE  SummaryInv'
<1> SUFFICES ASSUME for_liquid
    PROVE  /\ DOMAIN in_sums' = DOMAIN request.in_sums
           /\ \A p \in DOMAIN request.in_sums : LineOK(p)'
           /\ request.in_sums # <<>> =>
                \A i \in DOMAIN inputs' : inputs'[i].path => inputs'[i].type # "PRE_SW"
  BY InputAppended, Zenon DEF SummaryInv, InputTaken
<1> DEFINE n == Len(inputs)
<1>1. pc = "inputs" /\ m \in Messages /\ Accepted(index, m)
  BY DEF InputTaken
<1>2. /\ DOMAIN in_sums = DOMAIN request.in_sums
      /\ \A p \in DOMAIN request.in_sums : LineOK(p)
      /\ request.in_sums # <<>> =>
           \A i \in DOMAIN inputs : inputs[i].path => inputs[i].type # "PRE_SW"
  <2>1. Live
    BY <1>1 DEF Live
  <2> QED BY <2>1, Zenon DEF AmountInv, SummaryInv
<1>3. \A p \in DOMAIN request.in_sums : LineOK(p)'
  BY <1>2, LineKept, Zenon
<1>4. /\ request.in_sums \in Seq([asset : Assets, value : Nat])
      /\ n \in Nat /\ DOMAIN inputs = 1..n /\ DOMAIN inputs' = 1..(n + 1) /\ index = n + 1
      /\ \A i \in 1..n : inputs'[i] = inputs[i]
      /\ inputs'[index] = Kept(m)
  BY InputAppended, AmountAssumption, Zenon
<1>5. DOMAIN in_sums' = DOMAIN request.in_sums
  <2>1. CASE DOMAIN request.in_sums # {}
    BY <1>2, <2>1, LineKept, Zenon
  <2>2. CASE DOMAIN request.in_sums = {}
    <3>1. in_sums' = (IF Opened(m)
                      THEN asset_summary_update(request.in_sums, in_sums, m.asset, m.sat)
                      ELSE in_sums)
      BY Zenon DEF InputTaken
    <3>2. asset_summary_update(request.in_sums, in_sums, m.asset, m.sat) = in_sums
      BY <2>2, Zenon DEF asset_summary_update
    <3> QED BY <1>2, <3>1, <3>2, Zenon
  <2> QED BY <2>1, <2>2
<1>6. ASSUME request.in_sums # <<>>, NEW i \in DOMAIN inputs', inputs'[i].path
      PROVE  inputs'[i].type # "PRE_SW"
  <2>1. CASE i \in 1..n
    BY <1>2, <1>4, <1>6, <2>1
  <2>2. CASE i = index
    <3>1. Kept(m).path = m.path /\ Kept(m).type = m.type
      BY <1>1, KeptFields
    <3>2. m.path /\ SummaryPossible(m)
      BY <1>1, <1>4, <1>6, <2>2, <3>1, Zenon DEF Accepted
    <3>3. in_sums # <<>>
      BY <1>2, <1>4, <1>6
    <3> QED BY <1>4, <2>2, <3>1, <3>2, <3>3, Zenon DEF SummaryPossible, SummaryInput
  <2> QED BY <1>4, <2>1, <2>2
<1> QED BY <1>3, <1>5, <1>6, Zenon

\* A message about an input.
LEMMA InputStep ==
  ASSUME SignTxInv, AmountInv, tx_input
  PROVE  AmountInv'
<1>1. CASE /\ pc = "inputs" /\ pc' = "done" /\ signatures = {}
           /\ UNCHANGED <<request, in_sums, out_sums, inputs, input_amount, signatures>>
  BY <1>1, AmountsKeptUnsigned DEF Signing
<1>2. ASSUME NEW m, InputTaken(m) PROVE AmountInv'
  <2>1. LookedInv' /\ CommitInv'
    <3>1. signatures' = {} /\ ~Looked'
      BY <1>2 DEF InputTaken, Looked, Signing
    <3> QED BY <3>1, Zenon DEF LookedInv, CommitInv
  <2> QED BY <1>2, <2>1, InputsKept, SumKept, SummaryKept DEF AmountInv
<1> QED BY <1>1, <1>2, InputEffect


\* Nor does a step that changes nothing.
LEMMA AmountsStutter ==
  ASSUME AmountInv, UNCHANGED vars
  PROVE  AmountInv'
<1>1. UNCHANGED <<pc, request, in_sums, out_sums, inputs, input_amount, confirmed, signatures>>
  BY DEF vars
<1>2. CASE pc = "idle"
  <2>1. InputsInv' /\ SumInv' /\ CommitInv'
    BY <1>1, Zenon DEF AmountInv, InputsInv, SumInv, CommitInv, AllTaken, Real, tx, for_liquid
  <2>2. SummaryInv'
    <3>1. \A n \in DOMAIN request.in_sums : LineOK(n) => LineOK(n)'
      BY <1>1, Zenon DEF LineOK, Repeated, Of, ChangeOutputs, Given, Change
    <3> QED BY <1>1, <3>1, Zenon DEF AmountInv, SummaryInv, Live, tx, for_liquid
  <2>3. LookedInv'
    <3>1. AmountsValid => AmountsValid'
      BY <1>1, Zenon DEF AmountsValid, asset_summary_validate, output_amount, tx, for_liquid
    <3> QED BY <1>1, <3>1, Zenon DEF AmountInv, LookedInv, Looked, output_amount, tx, for_liquid
  <2> QED BY <2>1, <2>2, <2>3 DEF AmountInv
<1>3. CASE pc # "idle"
  <2>1. (Live' => Live) /\ (AllTaken' => AllTaken) /\ (Looked' => AmountsValid)
    BY <1>1, Zenon DEF Live, AllTaken, Looked, AmountInv, LookedInv
  <2>2. signatures' # {} /\ ~for_liquid => confirmed'.fee = input_amount - output_amount
    BY <1>1, Zenon DEF AmountInv, LookedInv
  <2>3. CommitInv'
    BY <1>1, Zenon DEF AmountInv, CommitInv
  <2> QED BY <1>1, <1>3, <2>1, <2>2, <2>3, AmountsKept, Zenon
<1> QED BY <1>2, <1>3

\* Nothing is signed before the fee was accepted.
LEMMA SignatureOnlyThen ==
  ASSUME SignTxInv, pc \in {"outputs", "inputs", "taproot", "amounts", "fee", "refuse"}
  PROVE  signatures = {}
  BY DEF SignTxInv, SignatureInv

\* No step breaks the invariant of the amounts.
LEMMA AmountStep == SignTxInv /\ AmountInv /\ Next => AmountInv'
<1> SUFFICES ASSUME SignTxInv, AmountInv, Next PROVE AmountInv'
  OBVIOUS
<1> DEFINE amounts == <<request, in_sums, out_sums, inputs, input_amount>>
<1>1. CASE sign_tx
  BY <1>1, RequestStep
<1>2. CASE ConfirmOutputs
  <2>1. /\ UNCHANGED amounts /\ signatures' = signatures
        /\ pc = "outputs" /\ pc' \in {"inputs", "done"}
    BY <1>2, Zenon DEF ConfirmOutputs, Reject
  <2>2. signatures = {}
    BY <2>1, SignatureOnlyThen
  <2> QED BY <2>1, <2>2, AmountsKeptUnsigned DEF Signing
<1>3. CASE tx_input
  BY <1>3, InputStep
<1>4. CASE not_tx_input
  <2>1. UNCHANGED amounts /\ signatures' = signatures /\ pc = "inputs" /\ pc' = "done"
    BY <1>4, Zenon DEF not_tx_input, Reject
  <2>2. signatures = {}
    BY <2>1, SignatureOnlyThen
  <2> QED BY <2>1, <2>2, AmountsKeptUnsigned DEF Signing
<1>5. CASE LostConnection
  <2>1. /\ UNCHANGED <<amounts, confirmed, signatures>> /\ pc' = "restart"
        /\ pc \in {"inputs", "refuse", "sign_ae"}
    BY <1>5, Zenon DEF LostConnection
  <2>2. CASE pc = "sign_ae"
    <3>1. CommitInv'
      BY <2>1, Zenon DEF AmountInv, CommitInv
    <3> QED BY <2>1, <2>2, <3>1, AmountsKeptSigning DEF Signing
  <2>3. CASE pc \in {"inputs", "refuse"}
    <3>1. signatures = {}
      BY <2>3, SignatureOnlyThen
    <3> QED BY <2>1, <2>3, <3>1, AmountsKeptUnsigned DEF Signing
  <2> QED BY <2>1, <2>2, <2>3
<1>6. CASE TaprootHashes
  <2>1. /\ UNCHANGED amounts /\ signatures' = signatures
        /\ pc = "taproot" /\ pc' \in {"amounts", "refuse"}
    BY <1>6, Zenon DEF TaprootHashes, Scope
  <2>2. signatures = {}
    BY <2>1, SignatureOnlyThen
  <2> QED BY <2>1, <2>2, AmountsKeptUnsigned DEF Signing
<1>7. CASE CheckAmounts
  <2>1. /\ UNCHANGED amounts /\ signatures' = signatures
        /\ pc = "amounts" /\ pc' \in {"fee", "refuse", "done", "restart"}
    BY <1>7, Zenon DEF CheckAmounts, Scope, RefuseLater, Reject
  <2>2. signatures = {}
    BY <2>1, SignatureOnlyThen
  <2>3. pc' = "fee" => AmountsValid
    BY <1>7 DEF CheckAmounts, RefuseLater, Reject
  <2> QED BY <2>1, <2>2, <2>3, AmountsKeptUnsigned DEF Signing
<1>8. CASE ConfirmFee
  <2>1. /\ UNCHANGED amounts /\ signatures' = signatures /\ pc = "fee"
        /\ pc' \in {"sign_ae", "sign_ec", "refuse", "done", "restart"}
    BY <1>8, Zenon DEF ConfirmFee, StartSigning, RefuseLater, Reject
  <2>2. signatures = {}
    BY <2>1, SignatureOnlyThen
  <2>3. AmountsValid
    BY <2>1 DEF AmountInv, LookedInv, Looked
  <2> QED BY <2>1, <2>2, <2>3, AmountsKeptUnsigned DEF Signing
<1>9. CASE Refuse
  <2>1. UNCHANGED amounts /\ signatures' = signatures /\ pc = "refuse" /\ pc' = "done"
    BY <1>9, Zenon DEF Refuse, Reject
  <2>2. signatures = {}
    BY <2>1, SignatureOnlyThen
  <2> QED BY <2>1, <2>2, AmountsKeptUnsigned DEF Signing
<1>10. CASE SignEc
  <2>1. UNCHANGED <<amounts, confirmed>>
    BY <1>10, Zenon DEF SignEc
  <2>2. /\ pc \in Signing /\ pc' # "idle" /\ index \in 1..Len(inputs)
        /\ signatures' \subseteq signatures \cup {Signature(index, FALSE)}
    BY <1>10, SignEcEffect DEF SignTxInv, Signing
  <2>3. index \in DOMAIN inputs
    BY <2>2 DEF SignTxInv, Shape
  <2>4. CommitInv'
    BY <2>1, <2>2, <2>3, CommitAdded DEF AmountInv
  <2> QED BY <2>1, <2>2, <2>4, AmountsKeptSigning
<1>11. CASE AllSigned
  <2>1. UNCHANGED <<amounts, confirmed, signatures>> /\ pc = "sign_ec" /\ pc' = "reply_ec"
    BY <1>11, Zenon DEF AllSigned
  <2>2. CommitInv'
    BY <2>1, Zenon DEF AmountInv, CommitInv
  <2> QED BY <2>1, <2>2, AmountsKeptSigning DEF Signing
<1>12. CASE send_ec_signature_replies
  <2>1. /\ UNCHANGED <<amounts, confirmed, signatures>> /\ pc = "reply_ec"
        /\ pc' \in {"reply_ec", "done"}
    BY <1>12, Zenon DEF send_ec_signature_replies
  <2>2. CommitInv'
    BY <2>1, Zenon DEF AmountInv, CommitInv
  <2> QED BY <2>1, <2>2, AmountsKeptSigning DEF Signing
<1>13. CASE get_signature
  <2>1. UNCHANGED <<amounts, confirmed>>
    BY <1>13, Zenon DEF get_signature
  <2>2. /\ pc \in Signing /\ pc' # "idle" /\ index \in 1..Len(inputs)
        /\ signatures' \subseteq signatures \cup {Signature(index, inputs[index].commit)}
    BY <1>13, GetSignatureEffect DEF SignTxInv, Signing
  <2>3. index \in DOMAIN inputs
    BY <2>2 DEF SignTxInv, Shape
  <2>4. CommitInv'
    BY <2>1, <2>2, <2>3, CommitAdded DEF AmountInv
  <2> QED BY <2>1, <2>2, <2>4, AmountsKeptSigning
<1>14. CASE not_get_signature
  <2>1. UNCHANGED <<amounts, confirmed, signatures>> /\ pc = "sign_ae" /\ pc' = "done"
    BY <1>14, Zenon DEF not_get_signature, Reject
  <2>2. CommitInv'
    BY <2>1, Zenon DEF AmountInv, CommitInv
  <2> QED BY <2>1, <2>2, AmountsKeptSigning DEF Signing
<1>15. CASE Finished
  BY <1>15, AmountsStutter DEF Finished
<1> QED BY <1>1, <1>2, <1>3, <1>4, <1>5, <1>6, <1>7, <1>8, <1>9, <1>10, <1>11,
          <1>12, <1>13, <1>14, <1>15 DEF Next

\* Before the request there are no amounts.
LEMMA InitAmounts == Init => AmountInv
<1> SUFFICES ASSUME Init PROVE AmountInv
  OBVIOUS
<1>1. pc = "idle" /\ request = None /\ input_amount = 0 /\ signatures = {}
  BY DEF Init
<1>2. ~Live /\ ~Looked
  BY <1>1 DEF Live, Looked, Signing
<1> QED BY <1>1, <1>2, Zenon DEF AmountInv, InputsInv, SumInv, SummaryInv, LookedInv, CommitInv

\* AmountInv holds in every state of sign_tx.
THEOREM AmountsCorrect == Spec => []AmountInv
<1>1. SignTxInv /\ AmountInv /\ [Next]_vars => AmountInv'
  BY AmountStep, AmountsStutter
<1> QED BY <1>1, InitAmounts, SignTxCorrect, PTL DEF Spec

\* Whatever amounts the host gives, in whichever order its messages come: once there is a
\* signature that the network accepts, the fee that the user accepted is the fee paid and the
\* outputs that were not shown return to the wallet (sign_tx.c: the amount comes from the
\* previous transaction, or is that of the only input, whose signature commits to it).
THEOREM SpendsAsShown == Spec => []SpendsAsApproved
<1> QED BY AmountsCorrect, SignTxCorrect, SpendsFromInv, PTL

\* The summary of a swap that the user accepted before the inputs were known is true of the
\* coins spent, for every asset it lists, once all the signatures exist and are good
\* (asset_summary_update and asset_summary_validate, with the unsigned wraparound).
THEOREM SwapsAsShown == Spec => []SwapAsApproved
<1> QED BY AmountsCorrect, SignTxCorrect, SwapFromInv, PTL

=============================================================================
