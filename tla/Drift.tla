--------------------------------- MODULE Drift ---------------------------------
(***************************************************************************)
(* How two catalogs are compared: Catalog.Hash (introspect/catalog.go) and *)
(* Diff (introspect/diff.go).  JSON texts are equal where values are.      *)
(*                                                                         *)
(* A catalog is a record: format and version; schemas, the sequence of     *)
(* names asked for; tables, enums and composites, each a function of       *)
(* "schema.name"; functions, a sequence of [key, args, body], where key is *)
(* "schema.name" and args has a name and a schema for each argument's      *)
(* type.  A table has a kind, cols (a sequence of [name, type, rest], type *)
(* being what typeDesc prints) and its other aspects by their labels.      *)
(***************************************************************************)
EXTENDS Naturals, SequencesExt

\* A list sorted by keys: what it holds, each with its place among those of its
\* key, which sort.Slice keeps in lists of up to twelve and may change in others.
Sorted(s, keys) ==
  {<<s[i], Cardinality({j \in 1 .. i : keys[j] = keys[i]})>> : i \in DOMAIN s}

\* The sum, after sortStable: schemas by name, functions by schema and name, so
\* that overloads stay in the order they came in.
Hash(c) == [c EXCEPT !.schemas = Sorted(@, @),
                     !.functions = Sorted(@, [i \in DOMAIN @ |-> @[i].key])]

\* diffNamed; of objects with one name the maps hold the last.
DiffNamed(kind, c, l) ==
  {<<kind, n, "removed">> : n \in DOMAIN c \ DOMAIN l} \cup
  {<<kind, n, "added">>   : n \in DOMAIN l \ DOMAIN c} \cup
  {<<kind, n, "changed">> : n \in {m \in DOMAIN c \cap DOMAIN l : c[m] # l[m]}}

\* diffStringSet: two lists, as sets.
DiffStringSet(kind, c, l) ==
  DiffNamed(kind, [s \in ToSet(c) |-> s], [s \in ToSet(l) |-> s])

LastOf(s, field, key) == s[CHOOSE i \in DOMAIN s :
  s[i][field] = key /\ \A j \in DOMAIN s : s[j][field] = key => j <= i]

Columns(t) == [n \in {c.name : c \in ToSet(t.cols)} |-> LastOf(t.cols, "name", n)]

DiffColumns(c, l) ==
  {<<n, IF c[n].type # l[n].type THEN "type changed" ELSE "changed">> :
     n \in {m \in DOMAIN c \cap DOMAIN l : c[m] # l[m]}} \cup
  {<<n, "removed">> : n \in DOMAIN c \ DOMAIN l} \cup
  {<<n, "added">>   : n \in DOMAIN l \ DOMAIN c}

\* tableAspectChanges
Aspects(c, l) ==
  LET parts == {a \in DOMAIN c.aspects : c.aspects[a] # l.aspects[a]}
  IN  IF parts = {} THEN {"definition"} ELSE parts

\* Mutant of DiffTable: silent where no column differs.
DiffTableColumns(n, c, l) ==
  {<<"table", n, line>> : line \in DiffColumns(Columns(c), Columns(l))}

\* Columns equal but the tables not: the aspects that differ, in one line.
DiffTable(n, c, l) ==
  LET lines == DiffColumns(Columns(c), Columns(l)) IN
  IF lines = {} /\ c # l THEN {<<"table", n, Aspects(c, l)>>}
  ELSE {<<"table", n, line>> : line \in lines}

DiffTables(c, l) ==
  {d \in DiffNamed("table", c, l) : d[3] # "changed"} \cup
  UNION {DiffTable(n, c[n], l[n]) : n \in DOMAIN c \cap DOMAIN l}

\* The schemas of the argument types are not part of the name.
Signature(f) == <<f.key, [i \in DOMAIN f.args |-> f.args[i].type]>>
FunctionMap(fs) ==
  LET named == [i \in DOMAIN fs |-> [sig |-> Signature(fs[i]), f |-> fs[i]]]
  IN  [s \in {x.sig : x \in ToSet(named)} |-> LastOf(named, "sig", s).f]

Diff(c, l) ==
  (IF c.version = l.version THEN {} ELSE {<<"server version">>}) \cup
  DiffStringSet("schema", c.schemas, l.schemas) \cup
  DiffTables(c.tables, l.tables) \cup
  DiffNamed("enum", c.enums, l.enums) \cup
  DiffNamed("composite type", c.composites, l.composites) \cup
  DiffNamed("function", FunctionMap(c.functions), FunctionMap(l.functions))

===============================================================================
