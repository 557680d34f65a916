----------------------------- MODULE AtomicSign -----------------------------
(***************************************************************************)
(* What signing a PSBT promises: a document is signed as a whole, after    *)
(* the user has approved all of it, or it is left as it was.               *)
(***************************************************************************)
VARIABLES
  phase,     \* "idle", "asked", "approved", "signed" or "refused"
  document   \* "host": as it was sent; "signed": everything asked for is there

vars == <<phase, document>>

Init == phase = "idle" /\ document = "host"

Ask == phase = "idle" /\ phase' \in {"asked", "refused"} /\ UNCHANGED document

Approve == phase = "asked" /\ phase' = "approved" /\ UNCHANGED document

Sign == phase = "approved" /\ phase' = "signed" /\ document' = "signed"

Refuse == phase \in {"asked", "approved"} /\ phase' = "refused" /\ UNCHANGED document

\* Signed, and kept back: the host is refused, with every signature made.
Withhold == phase = "approved" /\ phase' = "refused" /\ document' = "signed"

\* The document is given back or, with the power, lost.
End == phase' = "idle" /\ document' = "host"

Next == Ask \/ Approve \/ Sign \/ Refuse \/ Withhold \/ End

Spec == Init /\ [][Next]_vars
============================================================================
