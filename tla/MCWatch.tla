------------------------------- MODULE MCWatch -------------------------------
(***************************************************************************)
(* Instances of Watch for TLC.                                             *)
(***************************************************************************)
EXTENDS Watch

CONSTANTS w1, w2, s1, c1, c2, n1, n2, none, noCatalog

\* One watcher.
OneChannel    == [w \in {w1} |-> c1]
OneName       == [w \in {w1} |-> none]
\* Two replicas of one product: same channel, same trigger name.
SharedChannel == [w \in {w1, w2} |-> c1]
SharedName    == [w \in {w1, w2} |-> n1]
DefaultNames  == [c \in {c1, c2} |-> IF c = c1 THEN n1 ELSE n2]
\* A change and the way back: every other version has the same text.
Alternating   == [v \in 0 .. MaxVersion |-> v % 2]
=============================================================================
