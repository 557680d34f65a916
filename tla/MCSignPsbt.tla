----------------------------- MODULE MCSignPsbt -----------------------------
(***************************************************************************)
(* SignPsbt on three families of PSBTs: which outputs are change, the MWEB *)
(* session with amounts up to and past its limits, and Liquid.             *)
(***************************************************************************)
EXTENDS SignPsbt

SeqsUpTo(S, n) == UNION {[1..k -> S] : k \in 0..n}

StdInput(w, ours, sat, genuine, deep) ==
  [mweb |-> FALSE, sat |-> sat, ours |-> ours, wallet |-> w, genuine |-> genuine, deep |-> deep,
   other_path |-> FALSE, known |-> TRUE, sighash |-> TRUE]

MwebInput(ours, sat, genuine, known, signed) ==
  [mweb |-> TRUE, sat |-> sat, ours |-> ours, wallet |-> "mweb", genuine |-> genuine,
   deep |-> FALSE, known |-> known, signed |-> signed]

Output(w, ours, sat, genuine, change, deep, unusual) ==
  [mweb |-> FALSE, sat |-> sat, ours |-> ours, wallet |-> w, genuine |-> genuine,
   change |-> change, deep |-> deep, unusual |-> unusual, other_path |-> FALSE]

MwebOutput(sat, genuine) ==
  [mweb |-> TRUE, sat |-> sat, ours |-> 0, wallet |-> "mweb", genuine |-> genuine,
   change |-> FALSE, deep |-> FALSE, unusual |-> FALSE, other_path |-> FALSE]

Doc(network, inputs, outputs, kernels) ==
  [network |-> network, valid |-> TRUE, kind |-> "send", partial |-> FALSE, fee |-> 0,
   summary |-> TRUE, inputs |-> inputs, outputs |-> outputs, kernels |-> kernels]

Foreign == Output("single", 0, 1, FALSE, FALSE, FALSE, FALSE)

OtherPath(x) == [x EXCEPT !.other_path = TRUE]

\* Change: up to two inputs and two outputs of any wallets.
ChangeInputs ==
  {StdInput("single", 0, 2, TRUE, FALSE), StdInput("single", 1, 2, TRUE, FALSE),
   StdInput("green_recovery", 1, 2, TRUE, FALSE), StdInput("r1", 2, 2, TRUE, FALSE),
   StdInput("r1", 1, 2, FALSE, FALSE), StdInput("r1", 1, 2, TRUE, TRUE),
   StdInput("r2", 1, 2, TRUE, FALSE), StdInput("r2", 1, 2, TRUE, TRUE)}
    \cup {StdInput("green", 1, 2, TRUE, FALSE), OtherPath(StdInput("green", 1, 2, TRUE, FALSE))}

ChangeOutputs ==
  {Foreign, Output("r1", 1, 1, TRUE, TRUE, TRUE, FALSE), Output("r1", 1, 1, TRUE, TRUE, FALSE, TRUE)}
    \cup {Output(w, 1, 1, g, c, FALSE, FALSE) :
            w \in {"single", "green", "green_recovery", "r1", "r2"}, g \in BOOLEAN, c \in BOOLEAN}
    \cup {OtherPath(Output("green", 1, 1, g, c, FALSE, FALSE)) : g \in BOOLEAN, c \in BOOLEAN}

ChangeDocs ==
  {Doc("bitcoin", i, o, <<>>) :
     i \in SeqsUpTo(ChangeInputs, 2), o \in {<<x>> : x \in ChangeOutputs} \cup {<<x, Foreign>> : x \in ChangeOutputs}}

\* MWEB: amounts within and beyond the money range, and large enough to wrap.
Kernel(fee, pegin, pegouts, features) ==
  [fee |-> fee, pegin |-> pegin, pegouts |-> pegouts, features |-> features]

Pegout(sat, genuine) == [sat |-> sat, genuine |-> genuine]

Kernels ==
  {Kernel(f, p, o, TRUE) :
     f \in {0, 1}, p \in {0, 2}, o \in {<<>>, <<Pegout(1, TRUE)>>, <<Pegout(1, TRUE), Pegout(1, TRUE)>>}}
    \cup {Kernel(1, 0, <<>>, FALSE), Kernel(13, 0, <<>>, TRUE), Kernel(0, 13, <<>>, TRUE),
          Kernel(0, 0, <<Pegout(2, FALSE)>>, TRUE), Kernel(1, 0, <<Pegout(12, TRUE)>>, TRUE)}

GoodInputs ==
  {StdInput("single", 1, 2, TRUE, FALSE), StdInput("r1", 2, 2, TRUE, FALSE),
   MwebInput(1, 2, TRUE, TRUE, FALSE), MwebInput(1, 1, TRUE, TRUE, TRUE)}

BadInputs ==
  {MwebInput(1, 12, TRUE, TRUE, FALSE), MwebInput(0, 2, TRUE, TRUE, FALSE),
   MwebInput(1, 2, FALSE, FALSE, TRUE), MwebInput(1, 2, TRUE, FALSE, FALSE)}

GoodOutputs ==
  {Foreign, MwebOutput(1, TRUE), MwebOutput(2, TRUE),
   Output("single", 1, 1, TRUE, TRUE, FALSE, FALSE)}

BadOutputs == {MwebOutput(12, TRUE), MwebOutput(1, FALSE)}

\* Two good inputs and outputs if they balance, and any that are bad or do not.
MwebDocs ==
  {d \in {Doc("litecoin", i, o, <<k>>) :
            i \in SeqsUpTo(GoodInputs, 2), o \in SeqsUpTo(GoodOutputs, 2), k \in Kernels} :
     Balanced(d)}
  \cup
  {Doc("litecoin", i, o, <<k>>) :
     i \in SeqsUpTo(GoodInputs \cup BadInputs, 1), o \in SeqsUpTo(GoodOutputs \cup BadOutputs, 1),
     k \in Kernels}
  \cup
  {Doc("litecoin", <<MwebInput(1, 12, TRUE, TRUE, FALSE), i>>, <<o>>, <<k>>) :
     i \in GoodInputs \cup BadInputs, o \in GoodOutputs \cup BadOutputs, k \in Kernels}

\* Liquid, and PSBTs that are refused on sight.
LiquidDocs ==
  {[Doc("liquid", <<i>>, <<o>>, <<>>) EXCEPT !.kind = k, !.partial = p, !.fee = f, !.summary = s] :
     i \in {StdInput("single", 1, 2, TRUE, FALSE), StdInput("r1", 2, 2, TRUE, FALSE)},
     o \in {Foreign, Output("r1", 1, 1, TRUE, TRUE, FALSE, FALSE)},
     k \in {"send", "swap"}, p \in BOOLEAN, f \in {0, 1}, s \in BOOLEAN}

BadDocs ==
  {[Doc("bitcoin", <<>>, <<Foreign>>, <<>>) EXCEPT !.valid = FALSE],
   Doc("bitcoin", <<[StdInput("single", 1, 2, TRUE, FALSE) EXCEPT !.known = FALSE]>>, <<Foreign>>, <<>>),
   Doc("bitcoin", <<[StdInput("single", 1, 2, TRUE, FALSE) EXCEPT !.sighash = FALSE]>>, <<Foreign>>, <<>>),
   Doc("bitcoin", <<StdInput("single", 1, 2, TRUE, FALSE)>>, <<MwebOutput(1, TRUE)>>, <<>>),
   Doc("bitcoin", <<StdInput("single", 1, 2, TRUE, FALSE)>>,
       <<[Foreign EXCEPT !.sat = 13], Foreign>>, <<>>),
   Doc("bitcoin", <<StdInput("single", 1, 2, TRUE, FALSE)>>, <<[Foreign EXCEPT !.sat = 0]>>, <<>>),
   Doc("litecoin", <<MwebInput(1, 2, TRUE, TRUE, FALSE)>>, <<MwebOutput(1, TRUE)>>,
       <<Kernel(0, 0, <<>>, TRUE), Kernel(1, 0, <<>>, TRUE)>>)}

MCDocs == ChangeDocs \cup MwebDocs \cup LiquidDocs \cup BadDocs
============================================================================
