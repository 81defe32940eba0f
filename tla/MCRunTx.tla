------------------------------- MODULE MCRunTx -------------------------------
(***************************************************************************)
(* Instances of RunTx for TLC: a request with a role and two claims, one   *)
(* of which cannot be set, a request whose role is invalid, and a request  *)
(* without RLS, over one connection.                                       *)
(***************************************************************************)
EXTENDS RunTx, FiniteSets

CONSTANTS r1, r2, r3, k1, k2, bad, user, none, noConn, c1, c2

TwoRLS      == [r \in Requests |-> r # r3]
SomeRoles   == [r \in Requests |-> IF r = r2 THEN bad ELSE user]
SomeClaims  == [r \in Requests |-> IF r = r1 THEN {k1, k2} ELSE {k2}]
SomeValid   == [r \in Requests |-> IF r = r1 THEN {k1} ELSE {k1, k2}]
=============================================================================
