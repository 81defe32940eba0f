-------------------------------- MODULE MCJWKS --------------------------------
(***************************************************************************)
(* Instances of JWKS for TLC.                                              *)
(***************************************************************************)
EXTENDS JWKS

CONSTANTS c1, c2, k1, k2, noKid, a, b, noKey, noDoc, failed, pending

\* One key at a time: a, then b under a new id, then nothing usable.
Rotation == {[n \in Names |-> IF n = k1 THEN a ELSE noKey],
             [n \in Names |-> IF n = k2 THEN b ELSE noKey],
             [n \in Names |-> noKey]}

\* Another key without an id takes the place of one with its id.
Renamed == {[n \in Names |-> IF n = k1 THEN a ELSE noKey],
            [n \in Names |-> IF n = noKid THEN b ELSE noKey]}
=============================================================================
