----------------------------- MODULE SmartComments -----------------------------
(***************************************************************************)
(* The smart comments of a catalog (smartcomments/catalog): the index of   *)
(* tags and the CatalogHook that applies them, run among other hooks by    *)
(* plugin.Registry while plugins are still being added.                    *)
(*                                                                         *)
(* Tags are parsed: a comment is NoTags or a record of the values of its   *)
(* tags.  A list that is filtered is a function of positions, which keeps  *)
(* the positions of what stays, and is walked from its least position on.  *)
(* The other hooks are external: each takes one table away, changes        *)
(* nothing, or fails.                                                      *)
(***************************************************************************)
EXTENDS Integers, FiniteSets, Functions, SequencesExt

CONSTANTS
  Catalogs,    \* what Introspect may return: [tables, functions], in its order
  Plugins,     \* [name, priority, smart]: the plugins of the product
  Disabled,    \* the sets of names a product may disable
  NoTags,      \* a nil Tags: no comment, or one without tags
  None         \* no key; no |@ segments; the schema left out; no table

\* A tag's record: omit has one set of actions per @omit, {} for a bare one.
Tag == [omit |-> {}, behavior |-> {}, pk |-> None, uniques |-> <<>>,
        fks |-> <<>>, flags |-> {}, fieldName |-> None]

Actions == {"create", "update", "delete"}
Exist(t, cols) == ToSet(cols) \subseteq t.cols

\* What a catalog holds of a table.  A key may name columns the table has not:
\* columns and constraints are read by queries of different snapshots.
WellFormed(t) ==
  /\ {"key", "cols", "tags", "pk", "privileges", "uniques", "fks", "notnull",
      "indexed", "coltags"} \subseteq DOMAIN t
  /\ t.tags # NoTags => t.tags.fks \in Seq(ToSet(t.tags.fks))
  /\ t.notnull \subseteq t.cols
  /\ t.privileges \subseteq Actions

\* Objects of a list have keys of their own.
Distinct(objects) ==
  \A i, j \in DOMAIN objects : objects[i].key = objects[j].key => i = j

HasSchema(o) == o.key = <<o.key[1], o.key[2]>> /\ o.key[1] # None

ASSUME CatalogsAssumption ==
  \A c \in Catalogs :
    /\ Distinct(c.tables)
    /\ \A t \in Range(c.tables) : WellFormed(t) /\ HasSchema(t)
    /\ \A f \in Range(c.functions) : HasSchema(f)
ASSUME PluginsAssumption == \A p \in Plugins : p.priority \in Int

VARIABLES
  plugins,    \* Registry.plugins
  pass,       \* the copy TransformCatalog ranges over, what is left of it
  pc,         \* inside the hook: index, filter, apply; between: hooks, idle
  todo,       \* positions its loops over tables and functions have to visit
  tables, functions,   \* the catalog, transformed in place
  ix, idx,    \* the index BuildIndex fills, and Hook.idx
  given,      \* history: the catalog the hook last began with
  ran, added  \* history: plugins run in this pass; those added, in order

registry == <<plugins, added>>
walk == <<pass, ran>>
vars == <<registry, walk, pc, todo, ix, idx, tables, functions, given>>
catalog == <<tables, functions, given>>

-----------------------------------------------------------------------------
(* plugin.Registry *)

\* Mutant of Insert: not stable.
InsertFirst(ps, p) ==
  InsertAt(ps, 1 + Cardinality({i \in DOMAIN ps : ps[i].priority < p.priority}), p)

\* A stable sort of a sorted list and one more.
Insert(ps, p) ==
  InsertAt(ps, 1 + Cardinality({i \in DOMAIN ps : ps[i].priority <= p.priority}), p)

Enabled(disabled) ==
  Restrict(plugins, {i \in DOMAIN plugins : plugins[i].name \notin disabled})

IsFirst(i, S) == i \in S /\ \A j \in S : i <= j

-----------------------------------------------------------------------------
(* smarttags *)

BehaviorOmits == [insert |-> "create", update |-> "update", delete |-> "delete"]

Everything(tags) == tags # NoTags /\ {} \in tags.omit
Omits(tags) ==
  IF tags = NoTags THEN {}
  ELSE UNION tags.omit \cup
       {BehaviorOmits[b] : b \in tags.behavior \cap DOMAIN BehaviorOmits}

-----------------------------------------------------------------------------
(* The index *)

Lookup(f, key)  == IF key \in DOMAIN f THEN f[key] ELSE NoTags
Overlay(f, g)   == [k \in DOMAIN f \cup DOMAIN g |->
                      IF k \in DOMAIN g THEN g[k] ELSE f[k]]

Schema(t)       == t.key[1]
Key(t, c)       == <<Schema(t), c.name>>
Constraints(t)  == t.fks \cup t.uniques

\* The tags of the constraints of one table that have some.
Commented(t) ==
  LET tagged == {c \in Constraints(t) : c.tags # NoTags} IN
  [k \in {Key(t, c) : c \in tagged} |->
     (CHOOSE c \in tagged : Key(t, c) = k).tags]

\* exact[exactKey] = tags
Indexed(f, k, tags) == IF tags = NoTags THEN f ELSE Overlay(f, [x \in {k} |-> tags])

\* Mutant of IndexedBy: a third namesake is found again.
IndexedByTwo(g, n, tags) ==
  IF tags = NoTags THEN g
  ELSE Overlay(g, [x \in {n} |-> IF Lookup(g, n) # NoTags THEN NoTags ELSE tags])

\* The schema-less maps: a name that is met again is ambiguous from then on.
IndexedBy(g, n, tags) ==
  IF tags = NoTags THEN g
  ELSE Overlay(g, [x \in {n} |-> IF n \in DOMAIN g THEN NoTags ELSE tags])

Maps == {"tables", "tablesBy", "functions", "functionsBy", "constraints"}
EmptyIndex == [m \in Maps |-> [k \in {} |-> NoTags]]

\* Mutant of NewIndex: the tags of constraints are added to those there are.
OldIndex == [EmptyIndex EXCEPT !.constraints = idx.constraints]

NewIndex == EmptyIndex

-----------------------------------------------------------------------------
(* The tags of one table *)

Values(tags, field) == IF tags = NoTags THEN <<>> ELSE tags[field]

\* parseForeignKey: the referenced table is looked up in the catalog as it is
\* now.  A value the pattern does not match has no columns.
References(t, f) == <<IF f.schema = None THEN Schema(t) ELSE f.schema, f.table>>
\* Mutant of Accepted: the referenced table is one of those introspected.
AcceptedGone(ts, t, f) ==
  /\ f.cols # <<>> /\ Len(f.cols) = Len(f.refcols)
  /\ Exist(t, f.cols)
  /\ \E r \in Range(given.tables) : r.key = References(t, f) /\ Exist(r, f.refcols)

Accepted(ts, t, f) ==
  /\ f.cols # <<>> /\ Len(f.cols) = Len(f.refcols)
  /\ Exist(t, f.cols)
  /\ \E r \in Range(ts) : r.key = References(t, f) /\ Exist(r, f.refcols)

\* The constraint is named by the text of the tag before its first |.
ForeignKey(t, f) ==
  [name |-> <<"@foreignKey", f.cols, f.schema, f.table, f.refcols>>,
   cols |-> f.cols, ref |-> References(t, f), refcols |-> f.refcols,
   tags |-> IF f.segments = None THEN NoTags ELSE f.segments]

LogicalKeys(ts, t, tags) == {f \in ToSet(Values(tags, "fks")) : Accepted(ts, t, f)}

\* What the |@ segments write into the index: of equal keys the last counts.
Segments(ts, t, tags) ==
  LET fs == Values(tags, "fks")
      S  == {i \in DOMAIN fs : Accepted(ts, t, fs[i]) /\ fs[i].segments # None}
      key(i) == Key(t, ForeignKey(t, fs[i]))
  IN  [k \in {key(i) : i \in S} |->
         fs[CHOOSE i \in S : key(i) = k /\ \A j \in S : key(j) = k => j <= i].segments]

UniqueKey(u) == [name |-> <<"@unique", u>>, cols |-> u, tags |-> NoTags]

Uniques(t, tags) ==
  t.uniques \cup
  {UniqueKey(u) : u \in {v \in ToSet(Values(tags, "uniques")) : v # <<>> /\ Exist(t, v)}}

PrimaryKey(t, tags) ==
  IF tags # NoTags /\ tags.pk # None /\ t.pk = None /\ Exist(t, tags.pk)
  THEN tags.pk ELSE t.pk

Flagged(t, flag) == {c \in t.cols : t.coltags[c] # NoTags /\ flag \in t.coltags[c].flags}

\* applyTableCatalogTags, with the constraints as they are in the index then.
Applied(ts, t, tags, constraints) ==
  LET kept(S) == {c \in S : ~Everything(Lookup(constraints, Key(t, c)))} IN
  [t EXCEPT
     !.privileges = @ \ Omits(tags),
     !.pk      = PrimaryKey(t, tags),
     !.uniques = kept(Uniques(t, tags)),
     !.fks     = kept(@ \cup {ForeignKey(t, f) : f \in LogicalKeys(ts, t, tags)}),
     !.notnull = (@ \cup Flagged(t, "notNull")) \ Flagged(t, "nullable"),
     !.indexed = @ \cup Flagged(t, "filterable") \cup Flagged(t, "sortable")]

-----------------------------------------------------------------------------
(* A pass over the hooks *)

Nowhere   == [tables |-> {}, functions |-> {}]
NoCatalog == [tables |-> <<>>, functions |-> <<>>]

Init ==
  /\ plugins = <<>> /\ added = <<>>
  /\ pass = <<>> /\ ran = <<>> /\ pc = "idle" /\ todo = Nowhere
  /\ tables = <<>> /\ functions = <<>> /\ given = NoCatalog
  /\ ix = EmptyIndex /\ idx = EmptyIndex

Add(p) ==
  /\ p \notin ToSet(plugins)
  /\ plugins' = Insert(plugins, p)
  /\ added' = Append(added, p)
  /\ UNCHANGED <<walk, pc, todo, ix, idx, tables, functions, given>>

\* Registry.TransformCatalog is called for a new catalog.
Begin(c, disabled) ==
  /\ pc = "idle"
  /\ pc' = "hooks"
  /\ tables' = c.tables /\ functions' = c.functions
  /\ pass' = Enabled(disabled)
  /\ UNCHANGED <<registry, ran, todo, ix, idx, given>>

Call(i) ==
  /\ pc = "hooks" /\ IsFirst(i, DOMAIN pass)
  /\ pass' = Restrict(pass, DOMAIN pass \ {i})
  /\ ran' = Append(ran, pass[i])

\* The pass is over: its catalog is the caller's, to serve or to throw away,
\* while the index stays with the hook.
Over ==
  /\ pc' = "idle"
  /\ pass' = <<>> /\ ran' = <<>>
  /\ tables' = <<>> /\ functions' = <<>> /\ given' = NoCatalog
  /\ UNCHANGED <<registry, todo, ix, idx>>

OtherHook(i) ==
  /\ Call(i) /\ ~pass[i].smart
  /\ \E gone \in {None} \cup {t.key : t \in Range(tables)} :
       tables' = Restrict(tables, {j \in DOMAIN tables : tables[j].key # gone})
  /\ UNCHANGED <<registry, pc, todo, ix, idx, functions, given>>

HookFails(i) ==
  /\ pc = "hooks" /\ IsFirst(i, DOMAIN pass) /\ ~pass[i].smart
  /\ Over

\* Hook.TransformCatalog begins, with BuildIndex.
Index(i) ==
  /\ Call(i) /\ pass[i].smart
  /\ ix' = NewIndex
  /\ given' = [tables |-> tables, functions |-> functions]
  /\ todo' = [tables |-> DOMAIN tables, functions |-> DOMAIN functions]
  /\ pc' = "index"
  /\ UNCHANGED <<registry, idx, tables, functions>>

IndexTable(i) ==
  /\ pc = "index" /\ IsFirst(i, todo.tables)
  /\ LET t == tables[i] IN
     ix' = [ix EXCEPT !.tables = Indexed(@, t.key, t.tags),
                      !.tablesBy = IndexedBy(@, t.key[2], t.tags),
                      !.constraints = Overlay(@, Commented(t))]
  /\ todo' = [todo EXCEPT !.tables = @ \ {i}]
  /\ UNCHANGED <<registry, walk, pc, idx, tables, functions, given>>

IndexFunction(i) ==
  /\ pc = "index" /\ todo.tables = {} /\ IsFirst(i, todo.functions)
  /\ LET f == functions[i] IN
     ix' = [ix EXCEPT !.functions = Indexed(@, f.key, f.tags),
                      !.functionsBy = IndexedBy(@, f.key[2], f.tags)]
  /\ todo' = [todo EXCEPT !.functions = @ \ {i}]
  /\ UNCHANGED <<registry, walk, pc, idx, tables, functions, given>>

\* BuildIndex returns.
Publish ==
  /\ pc = "index" /\ todo = Nowhere
  /\ idx' = ix /\ ix' = EmptyIndex
  /\ pc' = "filter"
  /\ UNCHANGED <<registry, walk, todo, tables, functions, given>>

\* Mutant of Filter: the loop that applies the tags is over the list of before.
FilterLate ==
  /\ pc = "filter"
  /\ tables' = Restrict(tables,
       {i \in DOMAIN tables : ~Everything(Lookup(idx.tables, tables[i].key))})
  /\ todo' = [todo EXCEPT !.tables = DOMAIN tables]
  /\ pc' = "apply"
  /\ UNCHANGED <<registry, walk, ix, idx, functions, given>>

Filter ==
  /\ pc = "filter"
  /\ LET kept == {i \in DOMAIN tables : ~Everything(Lookup(idx.tables, tables[i].key))}
     IN  /\ tables' = Restrict(tables, kept)
         /\ todo' = [todo EXCEPT !.tables = kept]
  /\ pc' = "apply"
  /\ UNCHANGED <<registry, walk, ix, idx, functions, given>>

Apply(i) ==
  /\ pc = "apply" /\ IsFirst(i, todo.tables)
  /\ LET t == tables[i]
         tags == Lookup(idx.tables, t.key)
         cs == Overlay(idx.constraints, Segments(tables, t, tags))
     IN  /\ idx' = [idx EXCEPT !.constraints = cs]
         /\ tables' = [tables EXCEPT ![i] = Applied(tables, t, tags, cs)]
  /\ todo' = [todo EXCEPT !.tables = @ \ {i}]
  /\ UNCHANGED <<registry, walk, pc, ix, functions, given>>

Functions ==
  /\ pc = "apply" /\ todo.tables = {}
  /\ functions' = Restrict(functions,
       {i \in DOMAIN functions : ~Everything(Lookup(idx.functions, functions[i].key))})
  /\ pc' = "hooks"
  /\ UNCHANGED <<registry, walk, todo, ix, idx, tables, given>>

Finish ==
  /\ pc = "hooks" /\ DOMAIN pass = {}
  /\ Over

Next ==
  \/ \E p \in Plugins : Add(p)
  \/ \E c \in Catalogs, d \in Disabled : Begin(c, d)
  \/ \E i \in DOMAIN pass : OtherHook(i) \/ HookFails(i) \/ Index(i)
  \/ \E i \in todo.tables : IndexTable(i) \/ Apply(i)
  \/ \E i \in todo.functions : IndexFunction(i)
  \/ Publish \/ Filter \/ Functions \/ Finish

Spec == Init /\ [][Next]_vars

-----------------------------------------------------------------------------
(* Properties *)

\* The variables have their types; the smart-comments hook is at work between
\* its entry and its return only.
TypeOK ==
  /\ ToSet(plugins) \subseteq Plugins /\ ToSet(added) = ToSet(plugins)
  /\ pc \in {"idle", "hooks", "index", "filter", "apply"}
  /\ pc \in {"index", "filter", "apply"} => ran # <<>> /\ Last(ran).smart
  /\ todo.tables \subseteq DOMAIN tables /\ todo.functions \subseteq DOMAIN functions
  /\ pc \notin {"index", "apply"} => todo = Nowhere
  /\ \A t \in Range(tables) : WellFormed(t)
  /\ DOMAIN ix = Maps /\ DOMAIN idx = Maps

\* With plugins registered in that order, p runs before q.
Before(order, p, q) ==
  \/ p.priority < q.priority
  \/ /\ p.priority = q.priority
     /\ \E i, j \in DOMAIN order : i < j /\ order[i] = p /\ order[j] = q

\* "Lower priority runs earlier; ties break by registration order"
\* (plugin/plugin.go:17), also when plugins are added while a pass is on its
\* way: nothing runs twice, and nothing out of order.
HooksInOrder ==
  /\ \A i, j \in DOMAIN ran : i < j => Before(added, ran[i], ran[j])
  /\ \A i \in DOMAIN ran, j \in DOMAIN pass : Before(added, ran[i], pass[j])
  /\ \A i, j \in DOMAIN pass : i < j => Before(added, pass[i], pass[j])

\* The hook has returned and nothing has run since.
Returned == pc = "hooks" /\ ran # <<>> /\ Last(ran).smart

\* Whatever the comments say, and whatever keys the catalog came with: the
\* columns of a key the hook adds exist, and a foreign key it adds refers to as
\* many columns of a table that is still in the catalog (hook.go:52:
\* "@foreignKey validation must not see tables that are about to vanish").
LogicalKeysHold ==
  Returned =>
    \A i \in DOMAIN tables : LET t == tables[i]  g == given.tables[i] IN
      /\ t.pk # g.pk => Exist(t, t.pk)
      /\ \A u \in t.uniques \ g.uniques : u.cols # <<>> /\ Exist(t, u.cols)
      /\ \A fk \in t.fks \ g.fks :
           /\ fk.cols # <<>> /\ Len(fk.cols) = Len(fk.refcols) /\ Exist(t, fk.cols)
           /\ \E r \in Range(tables) : r.key = fk.ref /\ Exist(r, fk.refcols)

\* All of a table that carries a name of its own in the index.
Carriers(t) ==
  Constraints(t) \cup {ForeignKey(t, f) : f \in ToSet(Values(t.tags, "fks"))}
                 \cup {UniqueKey(u) : u \in ToSet(Values(t.tags, "uniques"))}

\* Constraints, real and logical, that share a key have the same tags, and
\* functions do not share any.
Unambiguous(c) ==
  /\ \A t, u \in Range(c.tables) : \A k \in Carriers(t), m \in Carriers(u) :
       Key(t, k) = Key(u, m) => k.tags = m.tags
  /\ Distinct(c.functions)

Untouched(objects) == {i \in DOMAIN objects : ~Everything(objects[i].tags)}
Kept(S) == {x \in S : ~Everything(x.tags)}

\* Where no two objects share a key of the index, what becomes of an object is
\* a matter of its own comment and of nothing else: not of other comments, of
\* the order of the tables, nor of what an earlier catalog left in the hook.
\* The tags a later lookup finds for a foreign key are its own too.
OwnCommentsDecide ==
  Returned /\ Unambiguous(given) =>
    /\ DOMAIN tables = Untouched(given.tables)
    /\ functions = Restrict(given.functions, Untouched(given.functions))
    /\ \A i \in DOMAIN tables : LET t == tables[i]  g == given.tables[i] IN
         /\ t.key = g.key
         /\ t.uniques = Kept(Uniques(g, g.tags))
         /\ t.fks = Kept(g.fks \cup {ForeignKey(g, f) : f \in LogicalKeys(tables, g, g.tags)})
         /\ t.privileges = g.privileges \ Omits(g.tags)
         /\ t.pk = PrimaryKey(g, g.tags)
         /\ \A fk \in t.fks : Lookup(idx.constraints, Key(t, fk)) = fk.tags

\* Index.Table and Index.Function; a call site without the schema says None.
TagsOf(exact, by, schema, name) ==
  IF schema = None THEN Lookup(by, name) ELSE Lookup(exact, <<schema, name>>)

Namesakes(objects, i) == {j \in DOMAIN objects : objects[j].key[2] = objects[i].key[2]} \ {i}

IsFoundIn(objects, exact, by) ==
  \A i \in DOMAIN objects : LET o == objects[i]  found == TagsOf(exact, by, None, o.key[2]) IN
    o.tags # NoTags =>
      /\ Distinct(objects) => TagsOf(exact, by, o.key[1], o.key[2]) = o.tags
      /\ Namesakes(objects, i) = {} => found = o.tags
      /\ (\E j \in Namesakes(objects, i) : objects[j].tags # NoTags) => found = NoTags

\* Every commented object is found under its key.  Without its schema it is
\* found where no other has its name, and never, neither it nor another, where
\* two or more that are commented share the name (index.go:17).  What becomes
\* of a name shared with objects without a comment is AmbiguousNameIsNil's.
FoundByName ==
  Returned => /\ IsFoundIn(given.tables, idx.tables, idx.tablesBy)
              /\ IsFoundIn(given.functions, idx.functions, idx.functionsBy)

\* "an ambiguous name (same table name in two schemas) maps to nil"
\* (index.go:18), whether or not both tables are commented.
AmbiguousNameIsNil ==
  Returned =>
    \A i \in DOMAIN given.tables :
      Namesakes(given.tables, i) # {} =>
        TagsOf(idx.tables, idx.tablesBy, None, given.tables[i].key[2]) = NoTags

\* "Index holds the parsed tags of every commented catalog object"
\* (index.go:16).
EveryCommentIsIndexed ==
  pc = "filter" =>
    /\ \A t \in Range(given.tables) : \A c \in Constraints(t) :
         c.tags # NoTags => Lookup(idx.constraints, Key(t, c)) = c.tags
    /\ \A f \in Range(given.functions) :
         f.tags # NoTags => Lookup(idx.functions, f.key) = f.tags

===============================================================================
