------------------------------ MODULE KeyService ------------------------------
(***************************************************************************)
(* What a verifier is promised by a cache of signing keys: a key it is     *)
(* handed was published a short time ago, and it is told that there is     *)
(* none only if that was true a short time ago.  "Failed" says nothing.    *)
(* Module JWKS implements this specification.                              *)
(***************************************************************************)
EXTENDS Naturals

CONSTANTS Callers, Names, Keys, NoKey, Failed, Pending,
          MaxStale,     \* how long a withdrawn key may still be handed out
          MaxMiss       \* how long a new key may still be unknown

VARIABLES seen,     \* seen[n][x]: time since the key published as n was x
          kid,      \* kid[c]: the name caller c asks for
          answer    \* answer[c]: what it was told

vars == <<seen, kid, answer>>

Results == Keys \cup {NoKey}

Init == /\ \A n \in Names, x \in Results : seen[n][x] \in Nat
        /\ kid \in [Callers -> Names]
        /\ answer = [c \in Callers |-> Pending]

\* Time passes or keys are published: nothing ages faster than time.
Pass == /\ \A n \in Names, x \in Results : seen'[n][x] <= seen[n][x] + 1
        /\ UNCHANGED <<kid, answer>>

Ask(c, n) == /\ kid' = [kid EXCEPT ![c] = n]
             /\ answer' = [answer EXCEPT ![c] = Pending]
             /\ UNCHANGED seen

Tell(c, x) == /\ answer[c] = Pending
              /\ x \in Keys => seen[kid[c]][x] <= MaxStale
              /\ x = NoKey => seen[kid[c]][NoKey] <= MaxMiss
              /\ answer' = [answer EXCEPT ![c] = x]
              /\ UNCHANGED <<seen, kid>>

Next == \/ Pass
        \/ \E c \in Callers : \/ \E n \in Names : Ask(c, n)
                              \/ \E x \in Results \cup {Failed} : Tell(c, x)

Spec == Init /\ [][Next]_vars
=============================================================================
