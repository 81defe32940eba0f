--------------------------- MODULE IntrospectProofs ---------------------------
(***************************************************************************)
(* Proofs about module Introspect, for any databases and any commits.      *)
(*                                                                         *)
(* Of a relation that no commit touched, the tables say what the database  *)
(* still says, up to the query that was made last (AsRead), and the enums  *)
(* read so far hold its rows (Collected).  That a quiet table is read, and *)
(* what a finished catalog says, follow at the steps that fail and finish. *)
(***************************************************************************)
EXTENDS Introspect, TLAPS

HasTables == {"columns", "constraints", "indexes", "enums", "composites",
              "functions", "rows"}
HasColumns     == HasTables \ {"columns"}
HasConstraints == HasColumns \ {"constraints"}
HasIndexes     == HasConstraints \ {"indexes"}

SaysOf(t) ==
  LET r == db.rel[t]
      e == tables[t]
  IN  /\ e.tagged = r.tagged
      /\ pc \in HasColumns => e.cols = r.cols /\ e.text = r.text /\ e.desc = r.desc
      /\ pc \in HasConstraints => e.pk = r.pk /\ e.keys = r.keys /\ e.fks = r.fks
      /\ pc \in HasIndexes => e.indexes = r.indexes

AsRead ==
  pc \in HasTables =>
    \A t \in Tables \ touched :
      /\ t \in DOMAIN tables <=> t \in DOMAIN db.rel /\ db.rel[t].readable
      /\ t \in DOMAIN tables => SaysOf(t)

HoldsRows(t) ==
  IF Rows(t) = {} THEN t \notin DOMAIN backed
                  ELSE t \in DOMAIN backed /\ backed[t] = Rows(t)

Collected ==
  /\ pc \in (HasTables \cup {"tables"}) \ {"rows"} => DOMAIN backed = {}
  /\ pc = "rows" =>
       /\ todo \subseteq Candidates
       /\ DOMAIN backed \subseteq Candidates \ todo
       /\ \A t \in (Candidates \ todo) \ touched : HoldsRows(t)

Inv == TypeOK /\ AsRead /\ Collected

-----------------------------------------------------------------------------
(* Types *)

\* What a database of Databases is made of.
LEMMA Database ==
  ASSUME NEW d \in Databases
  PROVE  /\ DOMAIN d.rel \subseteq Tables
         /\ \A t \in DOMAIN d.rel :
              /\ d.rel[t] \in Relations
              /\ d.rel[t].text \subseteq d.rel[t].cols
              /\ d.rel[t].desc \subseteq d.rel[t].cols
              /\ IsNamed(d.rel[t].keys) /\ IsNamed(d.rel[t].fks)
         /\ d.enums \subseteq Objects /\ d.composites \subseteq Objects
         /\ d.functions \subseteq Objects
  BY ConstantsAssumption DEF IsPartial

\* The fields of a relation.
LEMMA RelationFields ==
  ASSUME NEW r \in Relations
  PROVE  /\ r.readable \in BOOLEAN /\ r.tagged \in BOOLEAN
         /\ r.cols \subseteq Columns /\ r.text \subseteq Columns
         /\ r.desc \subseteq Columns /\ r.pk \subseteq Columns
         /\ r.keys \subseteq Keys /\ r.fks \subseteq Foreigns
         /\ r.indexes \subseteq Objects
         /\ r.rows \in [Columns -> SUBSET (Values \cup {Null})]
  BY DEF Relations

\* A nonempty set of constraints has one with the least and one with the
\* greatest name: First and Last choose a member.
LEMMA Ends ==
  ASSUME NEW S, S # {}, \A k \in S : k.name \in Names
  PROVE  /\ First(S) \in S /\ \A j \in S : First(S).name <= j.name
         /\ Last(S) \in S /\ \A j \in S : j.name <= Last(S).name
<1> DEFINE N == {k.name : k \in S}
<1>1. N \in (SUBSET Names) \ {{}}
  OBVIOUS
<1>2. PICK m \in N, n \in N : \A k \in N : m <= k /\ k <= n
  BY <1>1, ConstantsAssumption DEF IsNumbered
<1>3. \E k \in S : \A j \in S : k.name <= j.name
  BY <1>2
<1>4. \E k \in S : \A j \in S : j.name <= k.name
  BY <1>2
<1> QED
  BY <1>3, <1>4 DEF First, Last

\* A column that a foreign key makes an enum: the last of its keys.
LEMMA BoundTo ==
  ASSUME NEW e, e.fks \subseteq Foreigns, NEW c, Binding(e, c) # {}
  PROVE  /\ Last(Binding(e, c)) \in Binding(e, c)
         /\ \A j \in Binding(e, c) : j.name <= Last(Binding(e, c)).name
<1>1. \A k \in Binding(e, c) : k.name \in Names
  BY DEF Binding, Foreigns
<1> QED
  BY <1>1, Ends

\* Converting a table keeps its type.
LEMMA ConvertedEntry ==
  ASSUME NEW e \in Entries
  PROVE  /\ Converted(e) \in Entries
         /\ Converted(e).fks = {k \in e.fks : k.ref \notin DOMAIN backed}
         /\ \A c \in Columns :
              Converted(e).enumref[c] = IF Binding(e, c) = {} THEN NoTable
                                        ELSE Last(Binding(e, c)).ref
<1> DEFINE fks  == {k \in e.fks : k.ref \notin DOMAIN backed}
           refs == [c \in Columns |-> IF Binding(e, c) = {} THEN NoTable
                                      ELSE Last(Binding(e, c)).ref]
<1>1. e.fks \subseteq Foreigns /\ fks \in SUBSET Foreigns
  BY DEF Entries
<1>2. ASSUME NEW c \in Columns PROVE refs[c] \in Tables \cup {NoTable}
  <2>1. CASE Binding(e, c) = {}
    BY <2>1
  <2>2. CASE Binding(e, c) # {}
    <3>1. Last(Binding(e, c)) \in Foreigns
      BY <1>1, <2>2, BoundTo DEF Binding
    <3> QED
      BY <2>2, <3>1 DEF Foreigns
  <2> QED
    BY <2>1, <2>2
<1>3. refs \in [Columns -> Tables \cup {NoTable}]
  BY <1>2
<1>4. Converted(e) = [e EXCEPT !.fks = fks, !.enumref = refs]
  BY DEF Converted
<1> HIDE DEF fks, refs
<1>5. Converted(e) \in Entries /\ Converted(e).fks = fks /\ Converted(e).enumref = refs
  BY <1>1, <1>3, <1>4 DEF Entries
<1> QED
  BY <1>5 DEF fks, refs

\* What a relation of the database becomes is an entry, whatever was read of it.
LEMMA Amended ==
  ASSUME TypeOK, NEW t \in Listed
  PROVE  LET r == db.rel[t]
             e == tables[t]
         IN  /\ [e EXCEPT !.cols = r.cols, !.text = r.text, !.desc = r.desc] \in Entries
             /\ [e EXCEPT !.pk = r.pk, !.keys = r.keys, !.fks = r.fks] \in Entries
             /\ [e EXCEPT !.indexes = r.indexes] \in Entries
<1> DEFINE r == db.rel[t]
           e == tables[t]
<1>1. r \in Relations
  BY Database DEF TypeOK, Listed
<1>2. e \in Entries
  BY DEF TypeOK, Listed, IsPartial
<1> HIDE DEF r, e
<1>3. [e EXCEPT !.cols = r.cols, !.text = r.text, !.desc = r.desc] \in Entries
  BY <1>1, <1>2, RelationFields DEF Entries
<1>4. [e EXCEPT !.pk = r.pk, !.keys = r.keys, !.fks = r.fks] \in Entries
  BY <1>1, <1>2, RelationFields DEF Entries
<1>5. [e EXCEPT !.indexes = r.indexes] \in Entries
  BY <1>1, <1>2, RelationFields DEF Entries
<1> QED
  BY <1>3, <1>4, <1>5 DEF r, e

\* Amend keeps the tables that are known, and their type.
LEMMA AmendKeeps ==
  ASSUME TypeOK, NEW entries, \A t \in Listed : entries[t] \in Entries,
         Amend(entries)
  PROVE  /\ IsPartial(tables', Entries)
         /\ DOMAIN tables' = DOMAIN tables
         /\ \A t \in Listed : tables'[t] = entries[t]
         /\ \A t \in DOMAIN tables \ Listed : tables'[t] = tables[t]
  BY DEF TypeOK, Amend, IsPartial, Listed

\* The value column is a column of a text type.
LEMMA ValueIsText ==
  ASSUME NEW e
  PROVE  ValueColumn(e) \subseteq e.cols \cap e.text
  BY DEF ValueColumn, Pick

\* The rows of an answerable query, without NULL, are values.
LEMMA RowsAreValues ==
  ASSUME TypeOK, NEW t \in DOMAIN db.rel, Answerable(t)
  PROVE  Rows(t) \subseteq Values \cup {Null}
<1>1. /\ db.rel[t].cols \subseteq Columns
      /\ db.rel[t].rows \in [Columns -> SUBSET (Values \cup {Null})]
  BY Database, RelationFields DEF TypeOK
<1>2. \A c \in ValueColumn(tables[t]) : c \in Columns
  BY <1>1 DEF Answerable
<1> QED
  BY <1>1, <1>2 DEF Rows

LEMMA InitInv == Init => Inv
<1> SUFFICES ASSUME Init PROVE Inv
  OBVIOUS
<1>1. IsPartial(Nothing, Entries) /\ IsPartial(Nothing, (SUBSET Values) \ {{}})
  BY DEF Nothing, IsPartial
<1>2. TypeOK
  BY <1>1, ConstantsAssumption DEF Init, TypeOK, Labels, NoTypes
<1>3. AsRead /\ Collected
  BY DEF Init, AsRead, Collected, HasTables, Nothing
<1> QED
  BY <1>2, <1>3 DEF Inv

LEMMA TypeStep ==
  ASSUME TypeOK, [Next]_vars
  PROVE  TypeOK'
<1>1. CASE ReadTables
  <2>1. \A t \in DOMAIN db.rel : Entry(db.rel[t]) \in Entries
    BY Database, RelationFields DEF TypeOK, Entry, Entries
  <2>2. IsPartial(tables', Entries)
    BY <1>1, <2>1, Database DEF TypeOK, ReadTables, IsPartial
  <2> QED
    BY <1>1, <2>2 DEF TypeOK, ReadTables, Goto, Labels
<1>2. CASE ReadColumns
  <2>1. IsPartial(tables', Entries)
    BY <1>2, Amended, AmendKeeps DEF ReadColumns
  <2> QED
    BY <1>2, <2>1 DEF TypeOK, ReadColumns, Goto, Labels
<1>3. CASE ReadConstraints
  <2>1. IsPartial(tables', Entries)
    BY <1>3, Amended, AmendKeeps DEF ReadConstraints
  <2> QED
    BY <1>3, <2>1 DEF TypeOK, ReadConstraints, Goto, Labels
<1>4. CASE ReadIndexes
  <2>1. IsPartial(tables', Entries)
    BY <1>4, Amended, AmendKeeps DEF ReadIndexes
  <2> QED
    BY <1>4, <2>1 DEF TypeOK, ReadIndexes, Goto, Labels
<1>5. CASE ReadEnums
  BY <1>5, Database DEF TypeOK, ReadEnums, Goto, Labels
<1>6. CASE ReadComposites
  BY <1>6, Database DEF TypeOK, ReadComposites, Goto, Labels
<1>7. CASE ReadFunctions
  <2>1. Candidates \subseteq Tables
    BY DEF Candidates, TypeOK, IsPartial
  <2> QED
    BY <1>7, <2>1, Database DEF TypeOK, ReadFunctions, Goto, Labels
<1>8. ASSUME NEW t \in Tables, ReadRows(t) PROVE TypeOK'
  <2>1. Rows(t) \subseteq Values
    BY <1>8, RowsAreValues DEF ReadRows, Answerable
  <2>2. IsPartial(backed', (SUBSET Values) \ {{}})
    BY <1>8, <2>1 DEF TypeOK, ReadRows, IsPartial
  <2> QED
    BY <1>8, <2>2 DEF TypeOK, ReadRows
<1>9. ASSUME NEW t \in Tables, RowsFail(t) PROVE TypeOK'
  BY <1>9 DEF TypeOK, RowsFail, Goto, Labels
<1>10. CASE Convert
  <2>1. IsPartial(tables', Entries)
    BY <1>10, ConvertedEntry DEF TypeOK, Convert, IsPartial
  <2> QED
    BY <1>10, <2>1 DEF TypeOK, Convert, Goto, Labels
<1>11. CASE QueryFails
  BY <1>11 DEF TypeOK, QueryFails, Goto, Labels
<1>12. CASE Again
  <2>1. IsPartial(Nothing, Entries) /\ IsPartial(Nothing, (SUBSET Values) \ {{}})
    BY DEF Nothing, IsPartial
  <2> QED
    BY <1>12, <2>1, ConstantsAssumption DEF TypeOK, Again, NoTypes, Labels
<1>13. ASSUME NEW d \in Databases, Change(d) PROVE TypeOK'
  BY <1>13, ConstantsAssumption DEF TypeOK, Change
<1>14. CASE UNCHANGED vars
  BY <1>14 DEF TypeOK, vars
<1> QED
  BY <1>1, <1>2, <1>3, <1>4, <1>5, <1>6, <1>7, <1>8, <1>9, <1>10, <1>11,
     <1>12, <1>13, <1>14 DEF Next

-----------------------------------------------------------------------------
(* What was read of relations that no commit touched *)

\* A commit leaves a relation alone that it does not touch.
LEMMA Untouched ==
  ASSUME TypeOK, NEW d \in Databases, Change(d), NEW t \in Tables \ touched'
  PROVE  /\ t \notin touched
         /\ t \in DOMAIN db'.rel <=> t \in DOMAIN db.rel
         /\ t \in DOMAIN db.rel => db'.rel[t] = db.rel[t]
<1>1. t \notin touched /\ Relation(d, t) = Relation(db, t)
  BY DEF Change
<1>2. \A e \in Databases : t \in DOMAIN e.rel => e.rel[t] \in Relations
  BY Database
<1> QED
  BY <1>1, <1>2, ConstantsAssumption DEF Relation, Change, TypeOK

LEMMA AsReadStep ==
  ASSUME Inv, [Next]_vars
  PROVE  AsRead'
<1> SUFFICES ASSUME pc' \in HasTables, NEW t \in Tables \ touched'
             PROVE  /\ t \in DOMAIN tables' <=>
                         t \in DOMAIN db'.rel /\ db'.rel[t].readable
                    /\ t \in DOMAIN tables' => SaysOf(t)'
  BY DEF AsRead
<1> USE DEF Inv
<1> DEFINE Goal == /\ t \in DOMAIN tables' <=>
                        t \in DOMAIN db'.rel /\ db'.rel[t].readable
                   /\ t \in DOMAIN tables' => SaysOf(t)'
<1>0. pc \in HasTables /\ t \notin touched =>
        /\ t \in DOMAIN tables <=> t \in DOMAIN db.rel /\ db.rel[t].readable
        /\ t \in DOMAIN tables => SaysOf(t)
  BY DEF AsRead
<1>1. CASE ReadTables
  BY <1>1 DEF ReadTables, Goto, SaysOf, Entry, HasColumns, HasConstraints,
              HasIndexes, HasTables
<1>2. CASE ReadColumns
  <2>1. /\ pc = "columns" /\ pc' = "constraints" /\ pc \in HasTables
        /\ db' = db /\ touched' = touched
    BY <1>2 DEF ReadColumns, Goto, HasTables
  <2>2. DOMAIN tables' = DOMAIN tables /\ \A u \in Listed :
          tables'[u] = [tables[u] EXCEPT !.cols = db.rel[u].cols,
                                         !.text = db.rel[u].text,
                                         !.desc = db.rel[u].desc]
    <3> DEFINE f == [u \in Listed |-> [tables[u] EXCEPT !.cols = db.rel[u].cols,
                                      !.text = db.rel[u].text,
                                      !.desc = db.rel[u].desc]]
    <3>1. Amend(f) /\ \A u \in Listed : f[u] \in Entries
      BY <1>2, Amended DEF ReadColumns
    <3> HIDE DEF f
    <3>2. DOMAIN tables' = DOMAIN tables /\ \A u \in Listed : tables'[u] = f[u]
      BY <3>1, AmendKeeps
    <3> QED
      BY <3>2 DEF f
  <2>3. ASSUME t \in DOMAIN tables
        PROVE  t \in Listed /\ tables[t] \in Entries
               /\ tables[t].tagged = db.rel[t].tagged
    BY <1>0, <2>1, <2>3 DEF Listed, SaysOf, TypeOK, IsPartial
  <2>4. ASSUME t \in DOMAIN tables PROVE SaysOf(t)'
    <3>1. /\ tables'[t].tagged = tables[t].tagged /\ tables'[t].cols = db.rel[t].cols
          /\ tables'[t].text = db.rel[t].text /\ tables'[t].desc = db.rel[t].desc
      BY <2>2, <2>3, <2>4 DEF Entries
    <3> QED
      BY <2>1, <2>3, <2>4, <3>1 DEF SaysOf, HasConstraints, HasColumns, HasIndexes
  <2> QED
    BY <1>0, <2>1, <2>2, <2>4
<1>3. CASE ReadConstraints
  <2>1. /\ pc = "constraints" /\ pc' = "indexes" /\ pc \in HasTables /\ pc \in HasColumns
        /\ db' = db /\ touched' = touched
    BY <1>3 DEF ReadConstraints, Goto, HasTables, HasColumns
  <2>2. DOMAIN tables' = DOMAIN tables /\ \A u \in Listed :
          tables'[u] = [tables[u] EXCEPT !.pk = db.rel[u].pk,
                                         !.keys = db.rel[u].keys,
                                         !.fks = db.rel[u].fks]
    <3> DEFINE f == [u \in Listed |-> [tables[u] EXCEPT !.pk = db.rel[u].pk,
                                      !.keys = db.rel[u].keys,
                                      !.fks = db.rel[u].fks]]
    <3>1. Amend(f) /\ \A u \in Listed : f[u] \in Entries
      BY <1>3, Amended DEF ReadConstraints
    <3> HIDE DEF f
    <3>2. DOMAIN tables' = DOMAIN tables /\ \A u \in Listed : tables'[u] = f[u]
      BY <3>1, AmendKeeps
    <3> QED
      BY <3>2 DEF f
  <2>3. ASSUME t \in DOMAIN tables
        PROVE  t \in Listed /\ tables[t] \in Entries /\ SaysOf(t)
    BY <1>0, <2>1, <2>3 DEF Listed, TypeOK, IsPartial
  <2>4. ASSUME t \in DOMAIN tables PROVE SaysOf(t)'
    <3>1. /\ tables'[t].tagged = tables[t].tagged /\ tables'[t].cols = tables[t].cols
          /\ tables'[t].text = tables[t].text /\ tables'[t].desc = tables[t].desc
          /\ tables'[t].pk = db.rel[t].pk /\ tables'[t].keys = db.rel[t].keys
          /\ tables'[t].fks = db.rel[t].fks
      BY <2>2, <2>3, <2>4 DEF Entries
    <3> QED
      BY <2>1, <2>3, <2>4, <3>1 DEF SaysOf, HasConstraints, HasColumns, HasIndexes
  <2> QED
    BY <1>0, <2>1, <2>2, <2>4
<1>4. CASE ReadIndexes
  <2>1. /\ pc = "indexes" /\ pc' = "enums" /\ pc \in HasTables /\ pc \in HasColumns
        /\ pc \in HasConstraints /\ db' = db /\ touched' = touched
    BY <1>4 DEF ReadIndexes, Goto, HasTables, HasColumns, HasConstraints
  <2>2. DOMAIN tables' = DOMAIN tables /\ \A u \in Listed :
          tables'[u] = [tables[u] EXCEPT !.indexes = db.rel[u].indexes]
    <3> DEFINE f == [u \in Listed |-> [tables[u] EXCEPT !.indexes = db.rel[u].indexes]]
    <3>1. Amend(f) /\ \A u \in Listed : f[u] \in Entries
      BY <1>4, Amended DEF ReadIndexes
    <3> HIDE DEF f
    <3>2. DOMAIN tables' = DOMAIN tables /\ \A u \in Listed : tables'[u] = f[u]
      BY <3>1, AmendKeeps
    <3> QED
      BY <3>2 DEF f
  <2>3. ASSUME t \in DOMAIN tables
        PROVE  t \in Listed /\ tables[t] \in Entries /\ SaysOf(t)
    BY <1>0, <2>1, <2>3 DEF Listed, TypeOK, IsPartial
  <2>4. ASSUME t \in DOMAIN tables PROVE SaysOf(t)'
    <3>1. /\ tables'[t].tagged = tables[t].tagged /\ tables'[t].cols = tables[t].cols
          /\ tables'[t].text = tables[t].text /\ tables'[t].desc = tables[t].desc
          /\ tables'[t].pk = tables[t].pk /\ tables'[t].keys = tables[t].keys
          /\ tables'[t].fks = tables[t].fks /\ tables'[t].indexes = db.rel[t].indexes
      BY <2>2, <2>3, <2>4 DEF Entries
    <3> QED
      BY <2>1, <2>3, <2>4, <3>1 DEF SaysOf, HasConstraints, HasColumns, HasIndexes
  <2> QED
    BY <1>0, <2>1, <2>2, <2>4
<1>5. CASE ReadEnums \/ ReadComposites \/ ReadFunctions
  <2>1. /\ pc \in HasIndexes /\ pc' \in HasIndexes
        /\ UNCHANGED <<db, tables, touched>>
    BY <1>5 DEF ReadEnums, ReadComposites, ReadFunctions, Goto, HasTables,
                HasColumns, HasConstraints, HasIndexes
  <2> QED
    BY <1>0, <2>1 DEF SaysOf, HasIndexes, HasConstraints, HasColumns
<1>6. ASSUME NEW u \in Tables, ReadRows(u) PROVE Goal
  BY <1>0, <1>6 DEF ReadRows, SaysOf
<1>7. CASE (\E u \in Tables : RowsFail(u)) \/ Convert \/ QueryFails \/ Again
  BY <1>7 DEF RowsFail, Convert, QueryFails, Again, Goto, HasTables
<1>8. ASSUME NEW d \in Databases, Change(d) PROVE Goal
  <2>1. pc' = pc /\ tables' = tables
    BY <1>8 DEF Change
  <2> QED
    BY <1>0, <1>8, <2>1, Untouched DEF SaysOf
<1>9. CASE UNCHANGED vars
  BY <1>0, <1>9 DEF vars, SaysOf
<1> QED
  BY <1>1, <1>2, <1>3, <1>4, <1>5, <1>6, <1>7, <1>8, <1>9 DEF Next

LEMMA CollectedStep ==
  ASSUME Inv, [Next]_vars
  PROVE  Collected'
<1> USE DEF Inv
<1>1. CASE ReadTables \/ ReadColumns \/ ReadConstraints \/ ReadIndexes
           \/ ReadEnums \/ ReadComposites
  BY <1>1 DEF Collected, ReadTables, ReadColumns, ReadConstraints, ReadIndexes,
              ReadEnums, ReadComposites, Goto, HasTables
<1>2. CASE ReadFunctions
  <2>1. /\ pc' = "rows" /\ todo' = Candidates' /\ backed' = backed
        /\ DOMAIN backed = {}
    BY <1>2 DEF Collected, ReadFunctions, Goto, HasTables, Candidates
  <2> QED
    BY <2>1 DEF Collected
<1>3. ASSUME NEW u \in Tables, ReadRows(u) PROVE Collected'
  <2>1. /\ pc = "rows" /\ pc' = "rows" /\ Candidates' = Candidates
        /\ u \in todo /\ todo' = todo \ {u} /\ touched' = touched
        /\ todo \subseteq Candidates /\ DOMAIN backed \subseteq Candidates \ todo
    BY <1>3 DEF Collected, ReadRows, IsNext, Candidates
  <2>2. /\ Rows(u)' = Rows(u)
        /\ IF Rows(u) = {} THEN backed' = backed
           ELSE /\ DOMAIN backed' = DOMAIN backed \cup {u}
                /\ backed'[u] = Rows(u)
                /\ \A t \in DOMAIN backed \ {u} : backed'[t] = backed[t]
    BY <1>3 DEF ReadRows, Rows
  <2>3. ASSUME NEW t \in (Candidates \ todo') \ touched PROVE HoldsRows(t)'
    <3>1. CASE t = u
      BY <2>1, <2>2, <3>1 DEF HoldsRows
    <3>2. CASE t # u
      <4>1. HoldsRows(t) /\ Rows(t)' = Rows(t)
        BY <1>3, <2>1, <2>3, <3>2 DEF Collected, ReadRows, Rows
      <4> QED
        BY <2>2, <3>2, <4>1 DEF HoldsRows
    <3> QED
      BY <3>1, <3>2
  <2> QED
    BY <2>1, <2>2, <2>3 DEF Collected
<1>4. CASE (\E u \in Tables : RowsFail(u)) \/ Convert \/ QueryFails
  BY <1>4 DEF Collected, RowsFail, Convert, QueryFails, Goto, HasTables
<1>5. CASE Again
  BY <1>5 DEF Collected, Again, Nothing
<1>6. ASSUME NEW d \in Databases, Change(d) PROVE Collected'
  <2>1. pc' = pc /\ todo' = todo /\ backed' = backed /\ Candidates' = Candidates
    BY <1>6 DEF Change, Candidates
  <2>2. ASSUME pc = "rows", NEW t \in (Candidates \ todo) \ touched'
        PROVE  HoldsRows(t)'
    <3>1. t \in Tables \ touched' /\ t \in DOMAIN tables
      BY <2>2 DEF Candidates, TypeOK, IsPartial
    <3>2. t \notin touched /\ HoldsRows(t) /\ t \in DOMAIN db.rel
      BY <1>6, <2>2, <3>1, Untouched DEF Collected, AsRead, HasTables
    <3>3. Rows(t)' = Rows(t)
      BY <1>6, <3>1, <3>2, Untouched DEF Rows, Change
    <3> QED
      BY <2>1, <3>2, <3>3 DEF HoldsRows
  <2> QED
    BY <2>1, <2>2 DEF Collected
<1>7. CASE UNCHANGED vars
  BY <1>7 DEF Collected, vars, Candidates, HoldsRows, Rows
<1> QED
  BY <1>1, <1>2, <1>3, <1>4, <1>5, <1>6, <1>7 DEF Next

\* The inductive invariant.
THEOREM Invariance == Spec => []Inv
<1>1. Inv /\ [Next]_vars => Inv'
  BY TypeStep, AsReadStep, CollectedStep DEF Inv
<1> QED
  BY <1>1, InitInv, PTL DEF Spec

\* Type correctness, for any databases (introspect.go:20-55).
THEOREM TypeCorrect == Spec => []TypeOK
  BY Invariance, PTL DEF Inv

-----------------------------------------------------------------------------
(* A catalog hangs together *)

LEMMA ClosedStep ==
  ASSUME Inv, Closed, [Next]_vars
  PROVE  Closed'
<1> USE DEF Inv
<1>1. CASE Convert
  <2>1. /\ backed' = backed
        /\ DOMAIN tables' = DOMAIN tables \ DOMAIN backed
        /\ \A t \in DOMAIN tables' : tables'[t] = Converted(tables[t])
    BY <1>1 DEF Convert
  <2>2. ASSUME NEW t \in DOMAIN tables'
        PROVE  /\ \A k \in tables'[t].fks : k.ref \notin DOMAIN backed
               /\ \A c \in Columns :
                    tables'[t].enumref[c] # NoTable
                      => c \in tables'[t].cols
                         /\ tables'[t].enumref[c] \in DOMAIN backed
    <3>1. tables[t] \in Entries /\ tables'[t] = Converted(tables[t])
      BY <2>1, <2>2 DEF TypeOK, IsPartial
    <3>2. tables'[t].cols = tables[t].cols
      BY <3>1 DEF Converted, Entries
    <3>3. ASSUME NEW c \in Columns, tables'[t].enumref[c] # NoTable
          PROVE  c \in tables[t].cols /\ tables'[t].enumref[c] \in DOMAIN backed
      <4>1. Binding(tables[t], c) # {}
            /\ tables'[t].enumref[c] = Last(Binding(tables[t], c)).ref
        BY <3>1, <3>3, ConvertedEntry
      <4>2. Last(Binding(tables[t], c)) \in Binding(tables[t], c)
        BY <3>1, <4>1, BoundTo DEF Entries
      <4> QED
        BY <4>1, <4>2 DEF Binding
    <3> QED
      BY <3>1, <3>2, <3>3, ConvertedEntry
  <2> QED
    BY <2>1, <2>2 DEF Closed
<1>2. CASE UNCHANGED vars
  BY <1>2 DEF vars, Closed
<1>3. CASE Next /\ ~Convert
  <2>1. pc' # "done"
    BY <1>3 DEF Next, ReadTables, ReadColumns, ReadConstraints, ReadIndexes,
                ReadEnums, ReadComposites, ReadFunctions, ReadRows, RowsFail,
                QueryFails, Again, Change, Goto, Over
  <2> QED
    BY <2>1 DEF Closed
<1> QED
  BY <1>1, <1>2, <1>3

\* Whatever is committed between the queries, no relation is both a table and
\* an enum, no foreign key points to an enum, and an enum a column refers to is
\* in the catalog (enumtables.go:55-82).
THEOREM CatalogsAreClosed == Spec => []Closed
<1>1. Init => Closed
  BY DEF Init, Closed
<1> QED
  BY <1>1, Invariance, ClosedStep, PTL DEF Spec

-----------------------------------------------------------------------------
(* Quiet relations *)

\* The value column is the one that the documentation makes it, and the only
\* one (enumtables.go:16-19, 86-109).
LEMMA ValueColumnIs ==
  ASSUME NEW r \in Relations, r.text \subseteq r.cols, IsNamed(r.keys),
         NEW e, e.cols = r.cols, e.text = r.text, e.pk = r.pk, e.keys = r.keys
  PROVE  /\ \A c : c \in ValueColumn(e) <=> IsValue(r, c)
         /\ \A c \in ValueColumn(e) : ValueColumn(e) = {c}
<1> DEFINE ok(cols) == \E b \in r.text : cols = {b}
           usable   == {k \in e.keys : k.tagged /\ Pick(e, k.cols) # {}}
<1>1. \A cols : Pick(e, cols) # {} <=> ok(cols)
  BY DEF Pick
<1>2. \A cols, c : c \in Pick(e, cols) <=> c \in r.text /\ cols = {c}
  BY DEF Pick
<1>3. usable = {k \in r.keys : k.tagged /\ ok(k.cols)}
  BY <1>1
<1>4. CASE usable = {}
  <2>1. ValueColumn(e) = Pick(e, r.pk)
    BY <1>4 DEF ValueColumn
  <2>2. \A c : IsValue(r, c) <=> c \in r.text /\ r.pk = {c}
    BY <1>3, <1>4 DEF IsValue
  <2> QED
    BY <1>2, <2>1, <2>2
<1>5. CASE usable # {}
  <2> DEFINE f == First(usable)
  <2>1. \A k \in usable : k.name \in Names
    BY RelationFields DEF Keys
  <2>2. f \in usable /\ \A k \in usable : f.name <= k.name
    BY <1>5, <2>1, Ends
  <2>3. ValueColumn(e) = Pick(e, f.cols)
    BY <1>5 DEF ValueColumn
  <2>4. \A k \in usable : (\A j \in usable : k.name <= j.name) => k = f
    <3>1. \A k \in usable : k.name \in Nat
      BY <2>1, ConstantsAssumption DEF IsNumbered
    <3>2. ASSUME NEW k \in usable, \A j \in usable : k.name <= j.name PROVE k = f
      <4>1. f \in usable /\ k \in usable
        BY <2>2, <3>2
      <4>2. /\ k.name \in Nat /\ f.name \in Nat
            /\ k.name <= f.name /\ f.name <= k.name
        BY <2>2, <3>1, <3>2, <4>1, Zenon
      <4>3. k.name = f.name
        BY <4>2
      <4> QED
        BY <1>3, <4>1, <4>3 DEF IsNamed
    <3> QED
      BY <3>2
  <2> HIDE DEF f
  <2>5. ASSUME NEW c PROVE IsValue(r, c) <=> c \in r.text /\ f.cols = {c}
    <3>1. IsValue(r, c) <=>
            c \in r.text /\ \E k \in r.keys : /\ k.tagged /\ k.cols = {c}
                                              /\ \A j \in usable : k.name <= j.name
      <4>1. \E k \in r.keys : k.tagged /\ ok(k.cols)
        BY <1>3, <1>5
      <4>2. \A k \in r.keys :
              (\A j \in r.keys : j.tagged /\ ok(j.cols) => k.name <= j.name)
                <=> \A j \in usable : k.name <= j.name
        BY <1>3
      <4> HIDE DEF usable
      <4> QED
        BY <4>1, <4>2, Zenon DEF IsValue
    <3>2. \A k \in r.keys : k.tagged /\ k.cols = {c} /\ c \in r.text => k \in usable
      BY <1>3
    <3> QED
      BY <1>3, <2>2, <2>4, <3>1, <3>2
  <2> QED
    BY <1>2, <2>3, <2>5
<1> QED
  BY <1>4, <1>5

\* When the rows are read, the catalog's value columns are those of the
\* relations that no commit touched.
LEMMA ValueOf ==
  ASSUME Inv, pc = "rows", NEW t \in DOMAIN tables \ touched
  PROVE  /\ t \in DOMAIN db.rel /\ db.rel[t] \in Relations
         /\ db.rel[t].readable /\ SaysOf(t)
         /\ \A c : c \in ValueColumn(tables[t]) <=> IsValue(db.rel[t], c)
         /\ \A c \in ValueColumn(tables[t]) : ValueColumn(tables[t]) = {c}
<1>1. t \in Tables
  BY DEF Inv, TypeOK, IsPartial
<1>2. t \in DOMAIN db.rel /\ db.rel[t].readable /\ SaysOf(t)
  BY <1>1 DEF Inv, AsRead, HasTables
<1>3. /\ db.rel[t] \in Relations /\ db.rel[t].text \subseteq db.rel[t].cols
      /\ IsNamed(db.rel[t].keys)
  BY <1>2, Database DEF Inv, TypeOK
<1>4. /\ tables[t].cols = db.rel[t].cols /\ tables[t].text = db.rel[t].text
      /\ tables[t].pk = db.rel[t].pk /\ tables[t].keys = db.rel[t].keys
  BY <1>2 DEF SaysOf, HasTables, HasColumns, HasConstraints
<1> QED
  BY <1>2, <1>3, <1>4, ValueColumnIs

\* The description column is a column of the table.
LEMMA DescriptionIsColumn ==
  ASSUME NEW e, e.desc \subseteq e.cols, e.cols \subseteq Columns
  PROVE  DescriptionColumn(e) \subseteq e.cols
<1> DEFINE tagged == e.desc \ ValueColumn(e)
<1>1. CASE tagged = {}
  BY <1>1 DEF DescriptionColumn
<1>2. CASE tagged # {}
  <2>1. \E c \in tagged : \A b \in tagged : c <= b
    BY <1>2, ConstantsAssumption DEF IsNumbered
  <2>2. (CHOOSE c \in tagged : \A b \in tagged : c <= b) \in tagged
    BY <2>1
  <2> QED
    BY <1>2, <2>2 DEF DescriptionColumn
<1> QED
  BY <1>1, <1>2

\* Rows of a relation that no commit touched: those of its value column.
LEMMA RowsOf ==
  ASSUME Inv, pc = "rows", NEW t \in DOMAIN tables \ touched,
         NEW c \in ValueColumn(tables[t])
  PROVE  Rows(t) = db.rel[t].rows[c] /\ IsValue(db.rel[t], c)
<1>1. ValueColumn(tables[t]) = {c} /\ IsValue(db.rel[t], c)
  BY ValueOf
<1> QED
  BY <1>1 DEF Rows

LEMMA FailsStep ==
  ASSUME Inv, FailsForAReason, [Next]_vars
  PROVE  FailsForAReason'
<1>1. ASSUME NEW t \in Tables, RowsFail(t) PROVE FailsForAReason'
  <2>1. /\ pc = "rows" /\ t \in todo /\ todo' = todo
        /\ touched' = touched /\ db' = db
    BY <1>1 DEF RowsFail, IsNext
  <2>2. SUFFICES ASSUME t \notin touched
                 PROVE  \E c \in Columns : /\ IsValue(db.rel[t], c)
                                           /\ Null \in db.rel[t].rows[c]
    BY <2>1 DEF FailsForAReason
  <2>3. t \in DOMAIN tables \ touched /\ ValueColumn(tables[t]) # {}
    BY <2>1, <2>2 DEF Inv, Collected, Candidates
  <2>4. /\ t \in DOMAIN db.rel /\ db.rel[t].readable
        /\ db.rel[t] \in Relations /\ SaysOf(t)
    BY <2>1, <2>3, ValueOf
  <2>5. /\ tables[t].cols = db.rel[t].cols /\ tables[t].desc = db.rel[t].desc
        /\ db.rel[t].desc \subseteq db.rel[t].cols
        /\ db.rel[t].cols \subseteq Columns
    BY <2>1, <2>4, Database, RelationFields
       DEF Inv, TypeOK, SaysOf, HasTables, HasColumns
  <2>6. Answerable(t)
    BY <2>4, <2>5, ValueIsText, DescriptionIsColumn DEF Answerable
  <2>7. Null \in Rows(t)
    BY <1>1, <2>6 DEF RowsFail
  <2>8. PICK c \in ValueColumn(tables[t]) : TRUE
    BY <2>3
  <2>9. c \in Columns
    BY <2>5, ValueIsText
  <2> QED
    BY <2>1, <2>3, <2>7, <2>9, RowsOf
<1>2. CASE UNCHANGED vars
  BY <1>2 DEF vars, FailsForAReason, IsValue
<1>3. CASE Next /\ ~\E t \in Tables : RowsFail(t)
  <2>1. pc' # "failed"
    BY <1>3 DEF Next, ReadTables, ReadColumns, ReadConstraints, ReadIndexes,
                ReadEnums, ReadComposites, ReadFunctions, ReadRows, Convert,
                QueryFails, Again, Change, Goto, Over
  <2> QED
    BY <2>1 DEF FailsForAReason
<1> QED
  BY <1>1, <1>2, <1>3

\* Reading the rows of an @enum table fails only if a commit changed the table
\* meanwhile or one of its values is NULL (enumtables.go:137-165).
THEOREM QuietTablesAreRead == Spec => []FailsForAReason
<1>1. Init => FailsForAReason
  BY DEF Init, FailsForAReason
<1> QED
  BY <1>1, Invariance, FailsStep, PTL DEF Spec

-----------------------------------------------------------------------------
(* What a finished catalog says *)

\* The foreign keys that type column c of a table, as the documentation has
\* them, if no commit touched the relations they refer to.
LEMMA BindingIs ==
  ASSUME Inv, pc = "rows", todo = {}, NEW t \in DOMAIN tables \ touched,
         \A k \in db.rel[t].fks : k.ref \notin touched,
         NEW c \in db.rel[t].cols
  PROVE  Binding(tables[t], c) =
           {k \in db.rel[t].fks : Types(k, c)}
<1>1. tables[t].fks = db.rel[t].fks /\ tables[t].cols = db.rel[t].cols
  BY ValueOf DEF SaysOf, HasTables, HasColumns, HasConstraints
<1>2. ASSUME NEW k \in db.rel[t].fks, k.ref \in DOMAIN backed
      PROVE  k.refcols = ValueColumn(tables[k.ref]) <=>
               \E v \in Columns : k.refcols = {v} /\ IsValue(db.rel[k.ref], v)
  <2>1. k.ref \in DOMAIN tables \ touched /\ ValueColumn(tables[k.ref]) # {}
    BY <1>2 DEF Inv, Collected, Candidates
  <2>2. PICK v \in ValueColumn(tables[k.ref]) : TRUE
    BY <2>1
  <2>3. ValueColumn(tables[k.ref]) = {v} /\ v \in Columns
    <3>1. tables[k.ref] \in Entries
      BY <2>1 DEF Inv, TypeOK, IsPartial
    <3> QED
      BY <2>1, <2>2, <3>1, ValueOf, ValueIsText DEF Entries
  <2>4. \A w : w \in {v} <=> IsValue(db.rel[k.ref], w)
    BY <2>1, <2>3, ValueOf
  <2> QED
    BY <2>3, <2>4
<1> QED
  BY <1>1, <1>2 DEF Binding, Types

\* The conversion describes a quiet relation as the documentation does.
LEMMA DescribedStep ==
  ASSUME Inv, Convert, NEW t \in DOMAIN tables', t \notin touched
  PROVE  Described(t)'
<1> DEFINE r == db.rel[t]
           e == tables[t]
<1>1. /\ pc = "rows" /\ todo = {} /\ backed' = backed /\ touched' = touched
      /\ db' = db /\ t \in DOMAIN tables \ DOMAIN backed
      /\ tables'[t] = Converted(e)
  BY DEF Convert
<1>2. r \in Relations /\ SaysOf(t) /\ e \in Entries
  BY <1>1, ValueOf DEF Inv, TypeOK, IsPartial
<1>3. /\ e.tagged = r.tagged /\ e.cols = r.cols /\ e.pk = r.pk
      /\ e.keys = r.keys /\ e.indexes = r.indexes /\ e.fks = r.fks
  BY <1>1, <1>2 DEF SaysOf, HasTables, HasColumns, HasConstraints, HasIndexes
<1>4. /\ Converted(e).tagged = e.tagged /\ Converted(e).cols = e.cols
      /\ Converted(e).pk = e.pk /\ Converted(e).keys = e.keys
      /\ Converted(e).indexes = e.indexes
  BY <1>2 DEF Converted, Entries
<1>5. Converted(e).fks = {k \in r.fks : k.ref \notin DOMAIN backed}
  BY <1>2, <1>3, ConvertedEntry
<1>6. ASSUME \A k \in r.fks : k.ref \notin touched,
             NEW c \in r.cols, NEW u \in Tables
      PROVE  Converted(e).enumref[c] = u <=>
               \E k \in r.fks : k.ref = u /\ Governs(r, k, c)
  <2> DEFINE B == Binding(e, c)
  <2>1. B = {k \in r.fks : Types(k, c)}
    BY <1>1, <1>6, BindingIs
  <2>2. c \in Columns /\ r.fks \subseteq Foreigns /\ IsNamed(r.fks)
    BY <1>1, <1>2, ValueOf, RelationFields, Database DEF Inv, TypeOK
  <2>3. Converted(e).enumref[c] = IF B = {} THEN NoTable ELSE Last(B).ref
    BY <1>2, <2>2, ConvertedEntry
  <2>4. CASE B = {}
    BY <2>1, <2>3, <2>4, ConstantsAssumption DEF Governs
  <2>5. CASE B # {}
    <3> DEFINE l == Last(B)
    <3>1. l \in B /\ \A j \in B : j.name <= l.name
      BY <1>3, <2>2, <2>5, BoundTo
    <3>2. \A k \in B : k.name \in Nat
      BY <2>1, <2>2, ConstantsAssumption DEF Foreigns, IsNumbered
    <3> HIDE DEF l, B
    <3>3. ASSUME NEW k \in B, \A j \in B : j.name <= k.name PROVE k = l
      <4>1. k.name \in Nat /\ l.name \in Nat /\ k.name <= l.name /\ l.name <= k.name
        BY <3>1, <3>2, <3>3, Zenon
      <4>2. k.name = l.name
        BY <4>1
      <4>3. k \in r.fks /\ l \in r.fks
        BY <2>1, <3>1, <3>3
      <4> QED
        BY <2>2, <4>2, <4>3 DEF IsNamed
    <3>4. \A k \in r.fks : Governs(r, k, c) <=>
            k \in B /\ \A j \in B : j.name <= k.name
      BY <2>1 DEF Governs
    <3>5. Converted(e).enumref[c] = l.ref
      BY <2>3, <2>5 DEF l, B
    <3>6. l \in r.fks /\ Governs(r, l, c)
      BY <2>1, <3>1, <3>4
    <3>7. \A k \in r.fks : Governs(r, k, c) => k = l
      BY <3>3, <3>4
    <3> QED
      BY <3>5, <3>6, <3>7
  <2> QED
    BY <2>4, <2>5
<1>7. \A k, c : Governs(r, k, c)' <=> Governs(r, k, c)
  <2>1. \A k, c : Types(k, c)' <=> Types(k, c)
    BY <1>1 DEF Types
  <2> QED
    BY <1>1, <2>1 DEF Governs
<1>8. /\ tables'[t].tagged = r.tagged /\ tables'[t].cols = r.cols
      /\ tables'[t].pk = r.pk /\ tables'[t].keys = r.keys
      /\ tables'[t].indexes = r.indexes
      /\ tables'[t].fks = {k \in r.fks : k.ref \notin DOMAIN backed'}
  BY <1>1, <1>3, <1>4, <1>5
<1>9. ASSUME \A k \in r.fks : k.ref \notin touched,
             NEW c \in r.cols, NEW u \in Tables
      PROVE  tables'[t].enumref[c] = u <=>
               \E k \in r.fks : k.ref = u /\ Governs(r, k, c)'
  BY <1>1, <1>6, <1>7, <1>9
<1>10. /\ r = db'.rel[t] /\ touched' = touched
       /\ \A c \in r.cols, u \in Tables :
            (\A k \in r.fks : k.ref \notin touched) =>
              (tables'[t].enumref[c] = u <=>
                 \E k \in r.fks : k.ref = u /\ Governs(db.rel[t], k, c)')
  BY <1>1, <1>9, Zenon
<1> DEFINE q == db'.rel[t]
<1>11. /\ tables'[t].tagged = q.tagged /\ tables'[t].cols = q.cols
       /\ tables'[t].pk = q.pk /\ tables'[t].keys = q.keys
       /\ tables'[t].indexes = q.indexes
       /\ tables'[t].fks = {k \in q.fks : k.ref \notin DOMAIN backed'}
       /\ (\A k \in q.fks : k.ref \notin touched') =>
            \A c \in q.cols, u \in Tables :
              tables'[t].enumref[c] = u <=>
                \E k \in q.fks : k.ref = u /\ Governs(db.rel[t], k, c)'
  BY <1>8, <1>10
<1> QED
  BY <1>11 DEF Described

\* A quiet relation becomes an enum if the documentation says so.
LEMMA ConvertedIs ==
  ASSUME Inv, pc = "rows", todo = {}, NEW t \in DOMAIN tables \ touched
  PROVE  /\ t \in DOMAIN backed <=> BecomesEnum(db.rel[t])
         /\ t \in DOMAIN backed =>
              \E c \in Columns : /\ IsValue(db.rel[t], c)
                                 /\ backed[t] = db.rel[t].rows[c]
<1> DEFINE r == db.rel[t]
           V == ValueColumn(tables[t])
<1>1. /\ r \in Relations /\ r.readable /\ tables[t].tagged = r.tagged
      /\ tables[t].cols = r.cols /\ r.cols \subseteq Columns
  BY ValueOf, RelationFields DEF SaysOf, HasTables, HasColumns
<1>2. \A c : c \in V <=> IsValue(r, c)
  BY ValueOf
<1>3. t \in Candidates <=> r.tagged /\ V # {}
  BY <1>1 DEF Candidates
<1>4. \A c \in V : c \in r.cols /\ Rows(t) = r.rows[c]
  BY <1>1, ValueIsText, RowsOf
<1>5. t \in Candidates => HoldsRows(t)
  BY DEF Inv, Collected
<1>6. t \in DOMAIN backed => t \in Candidates
  BY DEF Inv, Collected
<1> HIDE DEF r, V
<1>7. BecomesEnum(r) <=> r.tagged /\ \E c \in V : r.rows[c] # {}
  BY <1>1, <1>2, <1>4 DEF BecomesEnum
<1>8. t \in DOMAIN backed <=> BecomesEnum(r)
  BY <1>3, <1>4, <1>5, <1>6, <1>7 DEF HoldsRows
<1>9. ASSUME t \in DOMAIN backed
      PROVE  \E c \in Columns : IsValue(r, c) /\ backed[t] = r.rows[c]
  <2>1. PICK c \in V : TRUE
    BY <1>3, <1>6, <1>9
  <2>2. c \in Columns /\ IsValue(r, c) /\ Rows(t) = r.rows[c]
    BY <1>1, <1>2, <1>4, <2>1
  <2>3. backed[t] = Rows(t)
    BY <1>5, <1>6, <1>9 DEF HoldsRows
  <2> QED
    BY <2>2, <2>3
<1> QED
  BY <1>8, <1>9 DEF r

LEMMA UndisturbedStep ==
  ASSUME Inv, Undisturbed, [Next]_vars
  PROVE  Undisturbed'
<1>1. CASE Convert
  <2>1. /\ pc = "rows" /\ todo = {} /\ backed' = backed /\ touched' = touched
        /\ db' = db /\ DOMAIN tables' = DOMAIN tables \ DOMAIN backed
    BY <1>1 DEF Convert
  <2>2. DOMAIN backed \subseteq DOMAIN tables
    BY <2>1 DEF Inv, Collected, Candidates
  <2> SUFFICES ASSUME NEW t \in Tables \ touched
               PROVE  (IF t \notin DOMAIN db.rel \/ ~db.rel[t].readable
                         THEN t \notin DOMAIN tables \cup DOMAIN backed
                       ELSE IF BecomesEnum(db.rel[t])
                         THEN /\ t \in DOMAIN backed \ DOMAIN tables
                              /\ \E c \in Columns : /\ IsValue(db.rel[t], c)
                                                    /\ backed[t] = db.rel[t].rows[c]
                       ELSE t \in DOMAIN tables \ DOMAIN backed /\ Described(t))'
    BY <2>1 DEF Undisturbed
  <2>3. t \in DOMAIN tables <=> t \in DOMAIN db.rel /\ db.rel[t].readable
    BY <2>1 DEF Inv, AsRead, HasTables
  <2>4. CASE t \notin DOMAIN tables
    BY <2>1, <2>2, <2>3, <2>4
  <2>5. CASE t \in DOMAIN tables
    <3>1. /\ t \in DOMAIN backed <=> BecomesEnum(db.rel[t])
          /\ t \in DOMAIN backed =>
               \E c \in Columns : /\ IsValue(db.rel[t], c)
                                  /\ backed[t] = db.rel[t].rows[c]
      BY <2>1, <2>5, ConvertedIs
    <3>2. t \notin DOMAIN backed => Described(t)'
      BY <1>1, <2>1, <2>5, DescribedStep
    <3> QED
      BY <2>1, <2>3, <2>5, <3>1, <3>2
  <2> QED
    BY <2>4, <2>5
<1>2. CASE UNCHANGED vars
  <2>1. /\ db' = db /\ pc' = pc /\ tables' = tables /\ backed' = backed
        /\ touched' = touched
    BY <1>2 DEF vars
  <2>2. \A k, c : Types(k, c)' <=> Types(k, c)
    BY <2>1 DEF Types
  <2>3. \A t, k, c : Governs(db.rel[t], k, c)' <=> Governs(db.rel[t], k, c)
    BY <2>1, <2>2 DEF Governs
  <2>4. ASSUME NEW t PROVE Described(t)' <=> Described(t)
    <3>1. {k \in db'.rel[t].fks : k.ref \notin DOMAIN backed'} =
            {k \in db.rel[t].fks : k.ref \notin DOMAIN backed}
      BY <2>1
    <3>2. (\A k \in db'.rel[t].fks : k.ref \notin touched') <=>
            \A k \in db.rel[t].fks : k.ref \notin touched
      BY <2>1
    <3>3. (\A c \in db'.rel[t].cols, u \in Tables :
             tables'[t].enumref[c] = u <=>
               \E k \in db'.rel[t].fks : k.ref = u /\ Governs(db.rel[t], k, c)') <=>
          \A c \in db.rel[t].cols, u \in Tables :
            tables[t].enumref[c] = u <=>
              \E k \in db.rel[t].fks : k.ref = u /\ Governs(db.rel[t], k, c)
      BY <2>1, <2>3
    <3>4. /\ tables'[t] = tables[t] /\ tables'[t].fks = tables[t].fks
          /\ db'.rel[t] = db.rel[t]
      BY <2>1
    <3>5. (tables'[t].fks = {k \in db'.rel[t].fks : k.ref \notin DOMAIN backed'}) <=>
          tables[t].fks = {k \in db.rel[t].fks : k.ref \notin DOMAIN backed}
      BY <3>1, <3>4
    <3>6. (/\ tables'[t].tagged = db'.rel[t].tagged /\ tables'[t].cols = db'.rel[t].cols
           /\ tables'[t].pk = db'.rel[t].pk /\ tables'[t].keys = db'.rel[t].keys
           /\ tables'[t].indexes = db'.rel[t].indexes) <=>
          /\ tables[t].tagged = db.rel[t].tagged /\ tables[t].cols = db.rel[t].cols
          /\ tables[t].pk = db.rel[t].pk /\ tables[t].keys = db.rel[t].keys
          /\ tables[t].indexes = db.rel[t].indexes
      BY <3>4
    <3> QED
      BY <3>2, <3>3, <3>5, <3>6, Zenon DEF Described
  <2> QED
    BY <2>1, <2>4 DEF Undisturbed
<1>3. CASE Next /\ ~Convert
  <2>1. pc' # "done"
    BY <1>3 DEF Next, ReadTables, ReadColumns, ReadConstraints, ReadIndexes,
                ReadEnums, ReadComposites, ReadFunctions, ReadRows, RowsFail,
                QueryFails, Again, Change, Goto, Over
  <2> QED
    BY <2>1 DEF Undisturbed
<1> QED
  BY <1>1, <1>2, <1>3

\* Transactions that leave a relation alone leave what a finished catalog says
\* of it alone, whenever they commit (enumtables.go:9-27, introspect.go:20-55).
THEOREM QuietTablesAreDescribed == Spec => []Undisturbed
<1>1. Init => Undisturbed
  BY DEF Init, Undisturbed
<1> QED
  BY <1>1, Invariance, UndisturbedStep, PTL DEF Spec

=============================================================================
