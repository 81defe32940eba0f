------------------------------ MODULE Introspect ------------------------------
(***************************************************************************)
(* introspect.Introspect: the catalog of a database, read by one query     *)
(* after another while other sessions run DDL (introspect/introspect.go),  *)
(* and the conversion of @enum tables (introspect/enumtables.go).          *)
(*                                                                         *)
(* The database is external: one of Databases, replaced as a whole by each *)
(* transaction that commits.  Relations, columns and constraints are       *)
(* numbered in the order PostgreSQL returns them in, so that "first" and   *)
(* "last" are a least and a greatest number.                               *)
(***************************************************************************)
EXTENDS Naturals

CONSTANTS
  Tables,       \* "schema.name" of relations
  Columns,      \* names of columns
  Description,  \* the column name "description"
  Names,        \* names of constraints
  Values,       \* texts in rows
  Null,         \* the SQL NULL
  Objects,      \* indexes, enum types, composite types and functions
  NoTable,      \* the empty string, as a Column.EnumRef
  Databases,    \* states of the watched database
  MaxChanges    \* bound: commits during one introspection

Keys     == [name : Names, cols : SUBSET Columns, tagged : BOOLEAN]
Foreigns == [name : Names, cols : SUBSET Columns, ref : Tables,
             refcols : SUBSET Columns]

\* A relation: whether it is readable and commented @enum, its columns, those
\* of a text type, those commented @enumDescription, its primary key (empty:
\* none), unique constraints, foreign keys, indexes, and its rows, column by
\* column.
Relations ==
  [readable : BOOLEAN, tagged : BOOLEAN, cols : SUBSET Columns,
   text : SUBSET Columns, desc : SUBSET Columns, pk : SUBSET Columns,
   keys : SUBSET Keys, fks : SUBSET Foreigns, indexes : SUBSET Objects,
   rows : [Columns -> SUBSET (Values \cup {Null})]]

\* A function on some of the relations, with values in R.
IsPartial(f, R) == DOMAIN f \subseteq Tables /\ f \in [DOMAIN f -> R]

\* Every set of S has a first and a last: S is numbered and finite.
IsNumbered(S) ==
  /\ S \subseteq Nat
  /\ \A T \in (SUBSET S) \ {{}} : \E m, n \in T : \A k \in T : m <= k /\ k <= n

\* No two constraints of a relation have one name.
IsNamed(S) == \A j, k \in S : j.name = k.name => j = k

ASSUME ConstantsAssumption ==
  /\ IsNumbered(Tables) /\ IsNumbered(Columns) /\ IsNumbered(Names)
  /\ NoTable \notin Tables \cup Relations
  /\ Null \notin Values
  /\ MaxChanges \in Nat
  /\ \A d \in Databases :
       /\ IsPartial(d.rel, Relations)
       /\ \A t \in DOMAIN d.rel :
            /\ d.rel[t].text \cup d.rel[t].desc \subseteq d.rel[t].cols
            /\ IsNamed(d.rel[t].keys) /\ IsNamed(d.rel[t].fks)
       /\ d.enums \subseteq Objects /\ d.composites \subseteq Objects
       /\ d.functions \subseteq Objects /\ d.unnamed \subseteq d.functions

\* A table of a catalog: enumref[c] is Column.EnumRef.
Entries ==
  [tagged : BOOLEAN, cols : SUBSET Columns, text : SUBSET Columns,
   desc : SUBSET Columns, pk : SUBSET Columns, keys : SUBSET Keys,
   fks : SUBSET Foreigns, indexes : SUBSET Objects,
   enumref : [Columns -> Tables \cup {NoTable}]]

VARIABLES
  db,       \* the database
  pc,       \* the query to come
  tables,   \* Catalog.Tables, as far as read
  backed,   \* the values of the @enum tables converted
  types,    \* Catalog.Enums (of PostgreSQL), Composites and Functions
  todo,     \* @enum tables whose rows are still to be read
  changes,  \* history: commits since the introspection began
  touched   \* history: relations they changed

vars == <<db, pc, tables, backed, types, todo, changes, touched>>

Labels == {"tables", "columns", "constraints", "indexes", "enums",
           "composites", "functions", "rows", "done", "failed", "broken"}

TypeOK ==
  /\ db \in Databases
  /\ pc \in Labels
  /\ IsPartial(tables, Entries)
  /\ IsPartial(backed, (SUBSET Values) \ {{}})
  /\ types \in [enums : SUBSET Objects, composites : SUBSET Objects,
                functions : SUBSET Objects]
  /\ todo \subseteq Tables
  /\ changes \in 0 .. MaxChanges
  /\ touched \subseteq Tables

Nothing == [t \in {} |-> {}]
NoTypes == [enums |-> {}, composites |-> {}, functions |-> {}]

Init ==
  /\ db \in Databases
  /\ pc = "tables"
  /\ tables = Nothing
  /\ backed = Nothing
  /\ types = NoTypes
  /\ todo = {}
  /\ changes = 0
  /\ touched = {}

-----------------------------------------------------------------------------
(* The database *)

Relation(d, t) == IF t \in DOMAIN d.rel THEN d.rel[t] ELSE NoTable

\* A transaction commits.
Change(d) ==
  /\ changes < MaxChanges
  /\ d # db
  /\ db' = d
  /\ changes' = changes + 1
  /\ touched' = touched \cup {t \in Tables : Relation(d, t) # Relation(db, t)}
  /\ UNCHANGED <<pc, tables, backed, types, todo>>

-----------------------------------------------------------------------------
(* The queries *)

Goto(l) == pc' = l

\* Nothing known but the comment.
Entry(r) ==
  [tagged |-> r.tagged, cols |-> {}, text |-> {}, desc |-> {}, pk |-> {},
   keys |-> {}, fks |-> {}, indexes |-> {},
   enumref |-> [c \in Columns |-> NoTable]]

ReadTables ==
  /\ pc = "tables"
  /\ tables' = [t \in {u \in DOMAIN db.rel : db.rel[u].readable} |->
                  Entry(db.rel[t])]
  /\ Goto("columns")
  /\ UNCHANGED <<db, backed, types, todo, changes, touched>>

\* The relations of the rows that are kept: what a query says of a relation
\* that ReadTables has not seen is dropped.
Listed == DOMAIN tables \cap DOMAIN db.rel

Amend(entries) ==
  tables' = [t \in DOMAIN tables |-> IF t \in Listed THEN entries[t]
                                                   ELSE tables[t]]

ReadColumns ==
  /\ pc = "columns"
  /\ Amend([t \in Listed |->
              [tables[t] EXCEPT !.cols = db.rel[t].cols,
                                !.text = db.rel[t].text,
                                !.desc = db.rel[t].desc]])
  /\ Goto("constraints")
  /\ UNCHANGED <<db, backed, types, todo, changes, touched>>

ReadConstraints ==
  /\ pc = "constraints"
  /\ Amend([t \in Listed |->
              [tables[t] EXCEPT !.pk = db.rel[t].pk, !.keys = db.rel[t].keys,
                                !.fks = db.rel[t].fks]])
  /\ Goto("indexes")
  /\ UNCHANGED <<db, backed, types, todo, changes, touched>>

ReadIndexes ==
  /\ pc = "indexes"
  /\ Amend([t \in Listed |->
              [tables[t] EXCEPT !.indexes = db.rel[t].indexes]])
  /\ Goto("enums")
  /\ UNCHANGED <<db, backed, types, todo, changes, touched>>

ReadEnums ==
  /\ pc = "enums"
  /\ types' = [types EXCEPT !.enums = db.enums]
  /\ Goto("composites")
  /\ UNCHANGED <<db, tables, backed, todo, changes, touched>>

ReadComposites ==
  /\ pc = "composites"
  /\ types' = [types EXCEPT !.composites = db.composites]
  /\ Goto("functions")
  /\ UNCHANGED <<db, tables, backed, todo, changes, touched>>

-----------------------------------------------------------------------------
(* @enum tables *)

First(S) == CHOOSE k \in S : \A j \in S : k.name <= j.name
Last(S)  == CHOOSE k \in S : \A j \in S : j.name <= k.name

\* The column of a constraint, if it is one column and of a text type.
Pick(e, cols) == {c \in e.cols \cap e.text : cols = {c}}

\* Mutant of ValueColumn: the primary key wins.
KeyFirst(e) ==
  IF Pick(e, e.pk) # {} THEN Pick(e, e.pk)
  ELSE UNION {Pick(e, k.cols) : k \in {j \in e.keys : j.tagged}}

\* enumValueColumn: at most one column.
ValueColumn(e) ==
  LET usable == {k \in e.keys : k.tagged /\ Pick(e, k.cols) # {}}
  IN  IF usable # {} THEN Pick(e, First(usable).cols) ELSE Pick(e, e.pk)

\* Mutant of DescriptionColumn: it need not exist.
AnyDescription(e) ==
  LET tagged == e.desc \ ValueColumn(e)
  IN  IF tagged # {} THEN {CHOOSE c \in tagged : \A b \in tagged : c <= b}
                     ELSE {Description} \ ValueColumn(e)

\* enumDescriptionColumn: at most one column.
DescriptionColumn(e) ==
  LET tagged == e.desc \ ValueColumn(e)
  IN  IF tagged # {} THEN {CHOOSE c \in tagged : \A b \in tagged : c <= b}
                     ELSE ({Description} \cap e.cols) \ ValueColumn(e)

Candidates == {t \in DOMAIN tables :
                 tables[t].tagged /\ ValueColumn(tables[t]) # {}}

\* Functions with unnamed arguments are left out.
ReadFunctions ==
  /\ pc = "functions"
  /\ types' = [types EXCEPT !.functions = db.functions \ db.unnamed]
  /\ todo' = Candidates
  /\ Goto("rows")
  /\ UNCHANGED <<db, tables, backed, changes, touched>>

\* The tables are taken in their order.
IsNext(t) == t \in todo /\ \A u \in todo : t <= u

\* The query for the rows of t runs in the database as it is now.
Answerable(t) ==
  /\ t \in DOMAIN db.rel
  /\ db.rel[t].readable
  /\ ValueColumn(tables[t]) \cup DescriptionColumn(tables[t])
       \subseteq db.rel[t].cols

Rows(t) == UNION {db.rel[t].rows[c] : c \in ValueColumn(tables[t])}

\* Mutant of ReadRows: a table without rows becomes an empty enum.
ReadEmpty(t) ==
  /\ pc = "rows"
  /\ IsNext(t)
  /\ Answerable(t)
  /\ Null \notin Rows(t)
  /\ backed' = [u \in DOMAIN backed \cup {t} |->
                  IF u = t THEN Rows(t) ELSE backed[u]]
  /\ todo' = todo \ {t}
  /\ UNCHANGED <<db, pc, tables, types, changes, touched>>

\* readEnumTable.  An empty table stays a table.
ReadRows(t) ==
  /\ pc = "rows"
  /\ IsNext(t)
  /\ Answerable(t)
  /\ Null \notin Rows(t)
  /\ backed' = IF Rows(t) = {} THEN backed
               ELSE [u \in DOMAIN backed \cup {t} |->
                       IF u = t THEN Rows(t) ELSE backed[u]]
  /\ todo' = todo \ {t}
  /\ UNCHANGED <<db, pc, tables, types, changes, touched>>

\* The query fails, or a row has no value.
RowsFail(t) ==
  /\ pc = "rows"
  /\ IsNext(t)
  /\ Answerable(t) => Null \in Rows(t)
  /\ Goto("failed")
  /\ UNCHANGED <<db, tables, backed, types, todo, changes, touched>>

\* The foreign keys of e that make column c an enum.
Binding(e, c) ==
  {k \in e.fks : /\ k.ref \in DOMAIN backed
                 /\ k.cols = {c} /\ c \in e.cols
                 /\ k.refcols = ValueColumn(tables[k.ref])}

\* Mutant of Converted: a foreign key that binds a column stays a relation.
ConvertedKeeping(e) ==
  [e EXCEPT !.fks = {k \in e.fks : \/ k.ref \notin DOMAIN backed
                                   \/ \E c \in e.cols : k \in Binding(e, c)},
            !.enumref = [c \in Columns |-> IF Binding(e, c) = {} THEN NoTable
                                           ELSE Last(Binding(e, c)).ref]]

\* Foreign keys to converted tables go, and type their column if they can.
Converted(e) ==
  [e EXCEPT !.fks = {k \in e.fks : k.ref \notin DOMAIN backed},
            !.enumref = [c \in Columns |-> IF Binding(e, c) = {} THEN NoTable
                                           ELSE Last(Binding(e, c)).ref]]

Convert ==
  /\ pc = "rows"
  /\ todo = {}
  /\ tables' = [t \in DOMAIN tables \ DOMAIN backed |-> Converted(tables[t])]
  /\ Goto("done")
  /\ UNCHANGED <<db, backed, types, todo, changes, touched>>

-----------------------------------------------------------------------------
(* Errors and calls *)

Over == pc \in {"done", "failed", "broken"}

\* A query fails for a reason of its own: connection, context, permission.
QueryFails ==
  /\ ~Over
  /\ pc = "rows" => todo # {}
  /\ Goto("broken")
  /\ UNCHANGED <<db, tables, backed, types, todo, changes, touched>>

\* The next call of Introspect.
Again ==
  /\ Over
  /\ pc' = "tables"
  /\ tables' = Nothing
  /\ backed' = Nothing
  /\ types' = NoTypes
  /\ todo' = {}
  /\ changes' = 0
  /\ touched' = {}
  /\ UNCHANGED db

Next ==
  \/ ReadTables \/ ReadColumns \/ ReadConstraints \/ ReadIndexes
  \/ ReadEnums \/ ReadComposites \/ ReadFunctions
  \/ \E t \in Tables : ReadRows(t) \/ RowsFail(t)
  \/ Convert \/ QueryFails \/ Again
  \/ \E d \in Databases : ~Over /\ Change(d)

Spec == Init /\ [][Next]_vars

-----------------------------------------------------------------------------
(* Properties *)

\* A catalog hangs together, whatever was committed between its queries: no
\* relation is both a table and an enum, no foreign key points to an enum, and
\* a column's enum is in the catalog, with values (enumtables.go:55-82).
Closed ==
  pc = "done" =>
    /\ DOMAIN tables \cap DOMAIN backed = {}
    /\ \A t \in DOMAIN tables :
         /\ \A k \in tables[t].fks : k.ref \notin DOMAIN backed
         /\ \A c \in Columns :
              tables[t].enumref[c] # NoTable
                => c \in tables[t].cols /\ tables[t].enumref[c] \in DOMAIN backed

\* The column that the documentation makes the enum's (enumtables.go:16-19).
IsValue(r, c) ==
  LET ok(cols) == \E b \in r.text : cols = {b}
  IN  /\ c \in r.text
      /\ \/ \E k \in r.keys : /\ k.tagged /\ k.cols = {c}
                              /\ \A j \in r.keys : j.tagged /\ ok(j.cols)
                                                     => k.name <= j.name
         \/ r.pk = {c} /\ ~\E k \in r.keys : k.tagged /\ ok(k.cols)

BecomesEnum(r) == /\ r.readable /\ r.tagged
                  /\ \E c \in r.cols : IsValue(r, c) /\ r.rows[c] # {}

\* The foreign key k is to type column c, if it is the last that is.
Types(k, c) ==
  /\ k.cols = {c} /\ k.ref \in DOMAIN backed
  /\ \E v \in Columns : k.refcols = {v} /\ IsValue(db.rel[k.ref], v)

Governs(r, k, c) ==
  Types(k, c) /\ \A j \in r.fks : Types(j, c) => j.name <= k.name

\* What the catalog is to say of t and its columns.
Described(t) ==
  LET r == db.rel[t]
      e == tables[t]
  IN  /\ e.tagged = r.tagged /\ e.cols = r.cols /\ e.pk = r.pk
      /\ e.keys = r.keys /\ e.indexes = r.indexes
      /\ e.fks = {k \in r.fks : k.ref \notin DOMAIN backed}
      /\ (\A k \in r.fks : k.ref \notin touched) =>
           \A c \in r.cols, u \in Tables :
             e.enumref[c] = u <=> \E k \in r.fks : k.ref = u /\ Governs(r, k, c)

\* Transactions that leave a relation alone leave what the catalog says of it
\* alone, whenever they commit: it is what the documentation says
\* (enumtables.go:9-27, introspect.go:20-55).
Undisturbed ==
  pc = "done" =>
    \A t \in Tables \ touched :
      IF t \notin DOMAIN db.rel \/ ~db.rel[t].readable
        THEN t \notin DOMAIN tables \cup DOMAIN backed
      ELSE IF BecomesEnum(db.rel[t])
        THEN /\ t \in DOMAIN backed \ DOMAIN tables
             /\ \E c \in Columns : /\ IsValue(db.rel[t], c)
                                   /\ backed[t] = db.rel[t].rows[c]
      ELSE t \in DOMAIN tables \ DOMAIN backed /\ Described(t)

\* Reading an @enum table fails only if it was changed meanwhile or a value of
\* it is NULL: a quiet database is read (enumtables.go:24-27, 137-165).
FailsForAReason ==
  pc = "failed" =>
    \E t \in todo : \/ t \in touched
                    \/ \E c \in Columns : /\ IsValue(db.rel[t], c)
                                          /\ Null \in db.rel[t].rows[c]
=============================================================================
