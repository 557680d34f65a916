------------------------------ MODULE MCSignTx ------------------------------
(***************************************************************************)
(* SignTx on payments of one or two inputs, and on Liquid payments and     *)
(* swaps of two assets, where the host may say anything of the inputs.     *)
(***************************************************************************)
EXTENDS SignTx

Coin(type, sat, asset) == [type |-> type, sat |-> sat, asset |-> asset]
Output(own, sat, asset, blinded) ==
  [own |-> own, sat |-> sat, asset |-> asset, blinded |-> blinded, fee |-> FALSE]
FeeOutput(sat) == [Output(FALSE, sat, "A", FALSE) EXCEPT !.fee = TRUE]

Request(liquid, coins, outputs, claims, ae) ==
  [tx |-> [liquid |-> liquid, inputs |-> coins, outputs |-> outputs], use_ae |-> ae,
   valid |-> TRUE, claims |-> claims, unblind |-> [k \in DOMAIN outputs |-> "full"],
   swap |-> FALSE, partial |-> FALSE, in_sums |-> <<>>, out_sums |-> <<>>]

\* Bitcoin: amounts such that the fee can be wrong, zero or negative, and outputs beyond a uint64_t.
BitcoinCoins ==
  {<<Coin(t, s, "A")>> : t \in {"PRE_SW", "SW_V0", "SW_V1"}, s \in {0, 2}}
    \cup {<<Coin(t, 1, "A"), Coin(u, 2, "A")>> : t \in {"PRE_SW", "SW_V0"}, u \in {"SW_V0", "SW_V1"}}

BitcoinOutputs ==
  {<<Output(FALSE, s, "A", FALSE)>> : s \in {0, 1}}
    \cup {<<Output(TRUE, 1, "A", FALSE)>>, <<Output(FALSE, UINT64_MAX, "A", FALSE), Output(TRUE, 1, "A", FALSE)>>}
    \cup {<<Output(o, 1, "A", FALSE), Output(FALSE, 1, "A", FALSE)>> : o \in BOOLEAN}

Claims(outputs) ==
  {[k \in DOMAIN outputs |-> IF k = 1 THEN c ELSE "none"] : c \in {"none", "wallet", "change", "unusual"}}

BitcoinRequests ==
  UNION {{Request(FALSE, coins, o, c, ae) : c \in Claims(o)} :
           coins \in BitcoinCoins, o \in BitcoinOutputs, ae \in BOOLEAN}

\* Liquid: a payment, a swap proposal and a swap, with summaries that are right and wrong.
Line(asset, value) == [asset |-> asset, value |-> value]

Payments ==
  {Request(TRUE, <<Coin("SW_V0", 2, "A")>>, <<Output(TRUE, 1, "A", TRUE), FeeOutput(f)>>,
           <<c, "none">>, TRUE) : c \in {"none", "change"}, f \in {0, 1}}

Swaps ==
  {[Request(TRUE, <<Coin("SW_V0", 2, "A"), Coin(t, 1, "B")>>,
            <<Output(TRUE, 1, "A", TRUE), Output(TRUE, 1, "B", b), FeeOutput(1)>>,
            <<"change", "wallet", "none">>, ae)
      EXCEPT !.swap = TRUE, !.in_sums = <<Line("A", v)>>, !.out_sums = <<Line("B", 1)>>,
             !.unblind = <<"nokey", u, "none">>] :
     t \in {"SW_V0", "SW_V1"}, v \in {1, 2}, b \in BOOLEAN, u \in {"none", "nokey"},
     ae \in BOOLEAN}

Proposals ==
  {[Request(TRUE, <<Coin("SW_V0", 2, "A")>>, <<Output(TRUE, 1, "B", TRUE)>>, <<"wallet">>, TRUE)
      EXCEPT !.swap = TRUE, !.partial = TRUE, !.in_sums = <<Line(a, 2)>>,
             !.out_sums = <<Line("B", w)>>] : a \in {"A", "B"}, w \in {1, 2}}

MCRequests ==
  BitcoinRequests \cup Payments \cup Swaps \cup Proposals
    \cup {[r EXCEPT !.valid = FALSE] : r \in Payments}

\* The host tells the truth of an input or lies about the amount, the type, the asset or
\* the previous transaction.
MCInputMessages(r, i) ==
  LET coin == r.tx.inputs[i] IN
  {[path |-> p, valid |-> v, type |-> t, commit |-> c, prev |-> q, sat |-> s, asset |-> a,
    unblinded |-> u] :
     p \in BOOLEAN, v \in BOOLEAN, t \in {coin.type, "SW_V0"}, c \in {FALSE, r.use_ae},
     q \in IF r.tx.liquid THEN {"none"} ELSE {"none", "real", "other"},
     s \in {coin.sat, coin.sat + 1}, a \in IF r.tx.liquid THEN {coin.asset, "A"} ELSE {"A"},
     u \in IF r.tx.liquid THEN BOOLEAN ELSE {FALSE}}

=============================================================================
