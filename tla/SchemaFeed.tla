------------------------------ MODULE SchemaFeed ------------------------------
(***************************************************************************)
(* What a watched product is promised about the catalogs it is handed:     *)
(* each part of a catalog is one the database really had, and never an     *)
(* older one than the product already holds.  The catalog as a whole need  *)
(* not be one snapshot (the reads of one introspection share no            *)
(* transaction).  Module Watch implements this specification.              *)
(***************************************************************************)
EXTENDS Naturals

CONSTANTS Watchers,     \* running watchers, one per product
          Parts         \* what one query of an introspection reads

VARIABLES db,           \* db[p]: the version of part p the database has
          held          \* held[w][p]: the version of p product w works with

vars == <<db, held>>

(***************************************************************************)
(* a is nowhere newer than b.                                              *)
(***************************************************************************)
NoNewer(a, b) == \A p \in Parts : a[p] <= b[p]

Init == /\ db = [p \in Parts |-> 0]
        /\ held = [w \in Watchers |-> db]

(***************************************************************************)
(* Committed transactions only move the schema forward.                    *)
(***************************************************************************)
Change == /\ NoNewer(db, db')
          /\ UNCHANGED held

(***************************************************************************)
(* Product w replaces its catalog: no part goes back, none is invented.    *)
(***************************************************************************)
Announce(w) == /\ NoNewer(held[w], held'[w])
               /\ NoNewer(held'[w], db)
               /\ \A v \in Watchers \ {w} : held'[v] = held[v]
               /\ UNCHANGED db

Next == Change \/ \E w \in Watchers : Announce(w)

Spec == Init /\ [][Next]_vars
=============================================================================
