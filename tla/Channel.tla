------------------------------ MODULE Channel ------------------------------
(***************************************************************************)
(* What a host may count on, over each link: its requests are answered in  *)
(* the order in which they were sent, none twice, and no answer comes from *)
(* nowhere.  An answer may get lost, and the host is not told; if the      *)
(* device restarts, all of them are.                                       *)
(***************************************************************************)
EXTENDS Sequences

CONSTANTS Links, Ids

VARIABLE pending  \* for each link, the requests not yet answered, oldest first

ChInit == pending = [link \in Links |-> <<>>]

Ask(link, id) == pending' = [pending EXCEPT ![link] = Append(@, id)]

AnswerOrLose(link) ==
  /\ pending[link] # <<>>
  /\ pending' = [pending EXCEPT ![link] = Tail(@)]

Reset == pending' = [link \in Links |-> <<>>]

ChNext ==
  \/ \E link \in Links : (\E id \in Ids : Ask(link, id)) \/ AnswerOrLose(link)
  \/ Reset

ChSpec == ChInit /\ [][ChNext]_pending

=============================================================================
