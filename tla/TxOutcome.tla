------------------------------ MODULE TxOutcome ------------------------------
(***************************************************************************)
(* What a caller of RunTx is promised, however many attempts it takes: the *)
(* effects of its callback happen at most once; "ok" is answered only once *)
(* they have happened; after "failed" they never happen; "unknown" says    *)
(* nothing.  Module RunTx implements this specification.                   *)
(***************************************************************************)
EXTENDS Naturals

CONSTANT Requests

VARIABLES effect,   \* effect[r]: how many transactions of r are committed
          reply     \* reply[r]: what RunTx answered r

vars == <<effect, reply>>

Init == /\ effect = [r \in Requests |-> 0]
        /\ reply = [r \in Requests |-> "none"]

\* The database commits, before the answer or behind an unknown one.
Take(r) == /\ effect[r] = 0
           /\ reply[r] \in {"none", "unknown"}
           /\ effect' = [effect EXCEPT ![r] = 1]
           /\ UNCHANGED reply

Answer(r, a) == /\ reply[r] = "none"
                /\ a = "ok" => effect[r] = 1
                /\ a = "failed" => effect[r] = 0
                /\ reply' = [reply EXCEPT ![r] = a]
                /\ UNCHANGED effect

Next == \E r \in Requests :
          Take(r) \/ \E a \in {"ok", "failed", "unknown"} : Answer(r, a)

Spec == Init /\ [][Next]_vars
=============================================================================
