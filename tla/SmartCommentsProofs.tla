-------------------------- MODULE SmartCommentsProofs --------------------------
(***************************************************************************)
(* Proofs about module SmartComments, for any plugins and catalogs.        *)
(*                                                                         *)
(* The registry is sorted by priority and registration, and a pass is what *)
(* is left of a copy of it (Registered, HooksInOrder).  BuildIndex holds,  *)
(* of the objects it has visited, each under its key (Indexing); from then *)
(* until the hook returns the index holds that of the catalog the hook     *)
(* began with (Published), of the tables visited since also the logical    *)
(* keys accepted (Carried), and every table visited has become what its    *)
(* own comment says (Decided).                                             *)
(***************************************************************************)
EXTENDS SmartComments, SequenceTheorems, FiniteSetTheorems, WellFoundedInduction, TLAPS

Inside == {"index", "filter", "apply"}

Typed ==
  /\ plugins \in Seq(Plugins) /\ added \in Seq(Plugins) /\ ToSet(added) = ToSet(plugins)
  /\ ran \in Seq(Plugins)
  /\ DOMAIN pass \subseteq Nat /\ \A i \in DOMAIN pass : pass[i] \in Plugins
  /\ pc \in {"idle", "hooks"} \cup Inside
  /\ pc \in Inside => ran # <<>> /\ Last(ran).smart
  /\ todo = [tables |-> todo.tables, functions |-> todo.functions]
  /\ todo.tables \subseteq DOMAIN tables /\ todo.functions \subseteq DOMAIN functions
  /\ pc \notin {"index", "apply"} => todo.tables = {}
  /\ pc # "index" => todo.functions = {}
  /\ DOMAIN ix = Maps /\ DOMAIN idx = Maps

Registered == \A i, j \in DOMAIN plugins : i < j => Before(added, plugins[i], plugins[j])

\* A catalog as Introspect returns it, and as hooks leave it.
Proper(ts, fs) ==
  /\ Distinct(ts)
  /\ \A i \in DOMAIN ts : WellFormed(ts[i]) /\ HasSchema(ts[i])
  /\ \A i \in DOMAIN fs : HasSchema(fs[i])

\* The two maps after the objects at positions P have been visited.
Exactly(objects, P, f) ==
  /\ \A k \in DOMAIN f : \E i \in P :
       objects[i].key = k /\ objects[i].tags = f[k] /\ objects[i].tags # NoTags
  /\ \A i \in P : objects[i].tags # NoTags => objects[i].key \in DOMAIN f

Alone(objects, P, i) ==
  \A j \in P : objects[j].key[2] = objects[i].key[2] /\ objects[j].tags # NoTags => j = i

ByName(objects, P, g) ==
  /\ \A n \in DOMAIN g : \E i \in P : objects[i].key[2] = n /\ objects[i].tags # NoTags
  /\ \A i \in P : objects[i].tags # NoTags =>
       /\ objects[i].key[2] \in DOMAIN g
       /\ g[objects[i].key[2]] = IF Alone(objects, P, i) THEN objects[i].tags ELSE NoTags

\* The tags of real constraints after the tables at positions P.
Comments(ts, P, f) ==
  /\ \A k \in DOMAIN f : \E i \in P : \E c \in Constraints(ts[i]) :
       Key(ts[i], c) = k /\ c.tags = f[k]
  /\ \A i \in P : \A c \in Constraints(ts[i]) : c.tags # NoTags => Key(ts[i], c) \in DOMAIN f

Visited(objects, left) == DOMAIN objects \ left

Indexing ==
  pc = "index" =>
    LET P == Visited(tables, todo.tables)
        Q == Visited(functions, todo.functions)
    IN  /\ tables = given.tables /\ functions = given.functions
        /\ Exactly(tables, P, ix.tables) /\ ByName(tables, P, ix.tablesBy)
        /\ Exactly(functions, Q, ix.functions) /\ ByName(functions, Q, ix.functionsBy)
        /\ Comments(tables, P, ix.constraints)

AfterIndex == pc \in {"filter", "apply"} \/ Returned

Published ==
  AfterIndex =>
    LET ts == given.tables  fs == given.functions IN
    /\ Proper(ts, fs)
    /\ Exactly(ts, DOMAIN ts, idx.tables) /\ ByName(ts, DOMAIN ts, idx.tablesBy)
    /\ Exactly(fs, DOMAIN fs, idx.functions) /\ ByName(fs, DOMAIN fs, idx.functionsBy)

Filtering ==
  pc = "filter" => /\ tables = given.tables /\ functions = given.functions
                   /\ Comments(tables, DOMAIN tables, idx.constraints)

\* Two tables that validation and the index cannot tell apart.
Alike(t, u) == t.key = u.key /\ t.cols = u.cols
AllAlike(ts, us) == DOMAIN ts \subseteq DOMAIN us /\ \A i \in DOMAIN ts : Alike(ts[i], us[i])

\* The tags of constraints, real and logical, once the tables of now at
\* positions P have been visited.
Carried(gs, now, P, f) ==
  /\ \A k \in DOMAIN f : \E i \in DOMAIN gs : \E c \in Carriers(gs[i]) :
       Key(gs[i], c) = k /\ c.tags = f[k]
  /\ \A i \in DOMAIN gs : \A c \in Constraints(gs[i]) :
       c.tags # NoTags => Key(gs[i], c) \in DOMAIN f
  /\ \A i \in P : \A l \in LogicalKeys(now, gs[i], gs[i].tags) :
       l.segments # None => Key(gs[i], ForeignKey(gs[i], l)) \in DOMAIN f

\* The keys that were added to the table g, which became t.
LogicalKeysOf(t, g, now) ==
  /\ t.pk # g.pk => Exist(g, t.pk)
  /\ \A u \in t.uniques \ g.uniques : u.cols # <<>> /\ Exist(g, u.cols)
  /\ \A fk \in t.fks \ g.fks :
       /\ fk.cols # <<>> /\ Len(fk.cols) = Len(fk.refcols) /\ Exist(g, fk.cols)
       /\ \E r \in Range(now) : r.key = fk.ref /\ Exist(r, fk.refcols)

AllForeignKeys(g, now) == g.fks \cup {ForeignKey(g, f) : f \in LogicalKeys(now, g, g.tags)}

Decided(t, g, now) ==
  /\ t.uniques = Kept(Uniques(g, g.tags))
  /\ t.fks = Kept(AllForeignKeys(g, now))
  /\ t.privileges = g.privileges \ Omits(g.tags)
  /\ t.pk = PrimaryKey(g, g.tags)

Transforming ==
  pc = "apply" \/ Returned =>
    LET gs == given.tables
        done == Visited(tables, todo.tables)
    IN  /\ DOMAIN tables = Untouched(gs)
        /\ AllAlike(tables, gs)
        /\ \A i \in todo.tables : tables[i] = gs[i]
        /\ Carried(gs, tables, done, idx.constraints)
        /\ \A i \in done : LogicalKeysOf(tables[i], gs[i], tables)
        /\ Unambiguous(given) => \A i \in done : Decided(tables[i], gs[i], tables)

FunctionsLeft ==
  /\ pc = "apply" => functions = given.functions
  /\ Returned /\ Distinct(given.functions) =>
       functions = Restrict(given.functions, Untouched(given.functions))

\* No pass is on its way.
Idle == pc = "idle" => ran = <<>>

Inv ==
  /\ Typed /\ Idle /\ Registered /\ HooksInOrder
  /\ Proper(tables, functions)
  /\ Indexing /\ Published /\ Filtering /\ Transforming /\ FunctionsLeft

-----------------------------------------------------------------------------
(* The registry *)

\* A set of positions has a greatest.
LEMMA Greatest ==
  ASSUME NEW n \in Nat, NEW S, S \subseteq 0 .. n, S # {}
  PROVE  \E i \in S : \A j \in S : j <= i
<1> DEFINE T == {n - j : j \in S}
<1>1. T \subseteq Nat /\ T # {}
  <2>1. \A j \in S : j \in Nat /\ j <= n /\ n - j \in Nat
    OBVIOUS
  <2> QED
    BY <2>1
<1> HIDE DEF T
<1>2. PICK x \in T : \A y \in T : <<y, x>> \notin OpToRel(<, Nat)
  BY <1>1, NatLessThanWellFounded, WFMin
<1>3. \A y \in T : ~(y < x)
  BY <1>1, <1>2 DEF OpToRel
<1>4. PICK i \in S : x = n - i
  BY DEF T
<1>5. ASSUME NEW j \in S PROVE j <= i
  <2>1. n - j \in T
    BY DEF T
  <2>2. i \in Nat /\ j \in Nat
    OBVIOUS
  <2> QED
    BY <1>3, <1>4, <2>1, <2>2
<1> QED
  BY <1>5

\* A set of positions with those before each of them is an interval.
LEMMA InitialSet ==
  ASSUME NEW n \in Nat, NEW S, S \subseteq 1 .. n,
         \A i \in S : \A j \in 1 .. i : j \in S
  PROVE  \E k \in 0 .. n : S = 1 .. k /\ Cardinality(S) = k
<1>1. CASE S = {}
  <2>1. S = 1 .. 0
    BY <1>1
  <2> QED
    BY <1>1, <2>1, FS_EmptySet
<1>2. CASE S # {}
  <2>1. S \subseteq 0 .. n
    OBVIOUS
  <2>2. PICK k \in S : \A j \in S : j <= k
    BY <1>2, <2>1, Greatest
  <2>3. k \in 0 .. n /\ 1 <= k /\ S = 1 .. k
    <3>1. k \in 0 .. n /\ 1 <= k /\ \A j \in S : j \in 1 .. k
      BY <2>2
    <3> QED
      BY <3>1
  <2>4. Cardinality(1 .. k) = k
    BY <2>3, FS_Interval
  <2> QED
    BY <2>3, <2>4
<1> QED
  BY <1>1, <1>2

\* Where Add puts a plugin: after those of its priority, before the others.
LEMMA InsertIs ==
  ASSUME NEW ps \in Seq(Plugins), NEW p \in Plugins,
         \A i, j \in DOMAIN ps : i < j => ps[i].priority <= ps[j].priority
  PROVE  \E k \in 0 .. Len(ps) :
           /\ Insert(ps, p) \in Seq(Plugins) /\ Len(Insert(ps, p)) = Len(ps) + 1
           /\ \A i \in 1 .. Len(ps) + 1 :
                Insert(ps, p)[i] = IF i <= k THEN ps[i] ELSE IF i = k + 1 THEN p ELSE ps[i - 1]
           /\ \A i \in 1 .. Len(ps) : ps[i].priority <= p.priority <=> i <= k
<1> DEFINE n == Len(ps)
           S == {i \in DOMAIN ps : ps[i].priority <= p.priority}
<1>1. n \in Nat /\ DOMAIN ps = 1 .. n /\ \A i \in 1 .. n : ps[i].priority \in Int
  BY PluginsAssumption
<1>2. p.priority \in Int
  BY PluginsAssumption
<1>0. n = Len(ps)
  OBVIOUS
<1> HIDE DEF n
<1>3. PICK k \in 0 .. n : S = 1 .. k /\ Cardinality(S) = k
  <2>1. S \subseteq 1 .. n
    BY <1>1
  <2>2. ASSUME NEW i \in S, NEW j \in 1 .. i PROVE j \in S
    <3>1. i \in 1 .. n /\ j \in 1 .. n /\ (j = i \/ j < i)
      BY <1>1
    <3>2. ps[j].priority <= ps[i].priority
      BY <1>1, <3>1
    <3> QED
      BY <1>1, <1>2, <3>1, <3>2
  <2> HIDE DEF S
  <2> QED
    BY <1>1, <2>1, <2>2, InitialSet
<1>4. Insert(ps, p) = SubSeq(ps, 1, k) \o <<p>> \o SubSeq(ps, k + 1, n)
  <2>1. Cardinality(S) = k /\ 1 + k = k + 1 /\ (k + 1) - 1 = k
    BY <1>3
  <2>2. Insert(ps, p) = InsertAt(ps, 1 + Cardinality(S), p)
    BY DEF Insert
  <2> HIDE DEF S
  <2>3. Insert(ps, p) = InsertAt(ps, k + 1, p)
    BY <2>1, <2>2
  <2> QED
    BY <1>0, <2>1, <2>3 DEF InsertAt
<1>5. /\ SubSeq(ps, 1, k) \in Seq(Plugins) /\ Len(SubSeq(ps, 1, k)) = k
      /\ \A i \in 1 .. k : SubSeq(ps, 1, k)[i] = ps[i]
  <2>1. 1 \in Int /\ k \in Int /\ \A i \in 1 .. k : ps[i] \in Plugins
    BY <1>1, <1>3
  <2>2. /\ SubSeq(ps, 1, k) \in Seq(Plugins)
        /\ Len(SubSeq(ps, 1, k)) = IF 1 <= k THEN k - 1 + 1 ELSE 0
        /\ \A i \in 1 .. k - 1 + 1 : SubSeq(ps, 1, k)[i] = ps[1 + i - 1]
    BY <2>1, SubSeqProperties
  <2>3. k - 1 + 1 = k /\ \A i \in 1 .. k : 1 + i - 1 = i
    BY <1>3
  <2> QED
    BY <1>3, <2>2, <2>3
<1>6. /\ SubSeq(ps, k + 1, n) \in Seq(Plugins) /\ Len(SubSeq(ps, k + 1, n)) = n - k
      /\ \A i \in 1 .. n - k : SubSeq(ps, k + 1, n)[i] = ps[k + i]
  <2>1. k + 1 \in Int /\ n \in Int /\ \A i \in k + 1 .. n : ps[i] \in Plugins
    BY <1>1, <1>3
  <2>2. /\ SubSeq(ps, k + 1, n) \in Seq(Plugins)
        /\ Len(SubSeq(ps, k + 1, n)) = IF k + 1 <= n THEN n - (k + 1) + 1 ELSE 0
        /\ \A i \in 1 .. n - (k + 1) + 1 : SubSeq(ps, k + 1, n)[i] = ps[(k + 1) + i - 1]
    BY <2>1, SubSeqProperties
  <2>3. n - (k + 1) + 1 = n - k /\ \A i \in 1 .. n - k : (k + 1) + i - 1 = k + i
    BY <1>1, <1>3
  <2>4. k \in Int /\ n \in Int /\ k <= n
    BY <1>1, <1>3
  <2>5. (IF k + 1 <= n THEN n - (k + 1) + 1 ELSE 0) = n - k
    BY <2>4
  <2> QED
    BY <2>2, <2>3, <2>5
<1> DEFINE a == SubSeq(ps, 1, k)
           b == SubSeq(ps, k + 1, n)
           q == a \o <<p>> \o b
<1> HIDE DEF a, b
<1>7. /\ q \in Seq(Plugins) /\ Len(q) = n + 1
      /\ \A i \in 1 .. n + 1 :
           q[i] = IF i <= k THEN a[i] ELSE IF i = k + 1 THEN p ELSE b[i - (k + 1)]
  <2>1. a \in Seq(Plugins) /\ Len(a) = k /\ b \in Seq(Plugins) /\ Len(b) = n - k
    BY <1>5, <1>6 DEF a, b
  <2>2. k \in Nat /\ n - k \in Nat /\ (k + 1) + (n - k) = n + 1
    BY <1>1, <1>3
  <2> DEFINE r == a \o <<p>>
  <2>3. /\ r \in Seq(Plugins) /\ Len(r) = k + 1
        /\ \A i \in 1 .. k + 1 : r[i] = IF i <= k THEN a[i] ELSE p
    <3>1. <<p>> \in Seq(Plugins) /\ Len(<<p>>) = 1 /\ <<p>>[1] = p
      OBVIOUS
    <3> QED
      BY <2>1, <2>2, <3>1
  <2> HIDE DEF r
  <2>4. /\ r \o b \in Seq(Plugins) /\ Len(r \o b) = n + 1
        /\ \A i \in 1 .. n + 1 :
             (r \o b)[i] = IF i <= k + 1 THEN r[i] ELSE b[i - (k + 1)]
    <3>1. /\ r \o b \in Seq(Plugins) /\ Len(r \o b) = Len(r) + Len(b)
          /\ \A i \in 1 .. Len(r) + Len(b) :
               (r \o b)[i] = IF i <= Len(r) THEN r[i] ELSE b[i - Len(r)]
      BY <2>1, <2>3, ConcatProperties
    <3> QED
      BY <2>1, <2>2, <2>3, <3>1
  <2>5. q = r \o b
    BY DEF r
  <2> HIDE DEF q
  <2>6. ASSUME NEW i \in 1 .. n + 1
        PROVE  q[i] = IF i <= k THEN a[i] ELSE IF i = k + 1 THEN p ELSE b[i - (k + 1)]
    <3>1. i <= k \/ (i = k + 1 /\ ~(i <= k)) \/ ~(i <= k + 1)
      BY <2>2
    <3>2. i <= k + 1 => q[i] = IF i <= k THEN a[i] ELSE p
      BY <2>2, <2>3, <2>4, <2>5
    <3>3. ~(i <= k + 1) => q[i] = b[i - (k + 1)] /\ ~(i <= k) /\ i # k + 1
      BY <2>2, <2>4, <2>5
    <3> QED
      BY <2>2, <3>1, <3>2, <3>3
  <2> QED
    BY <2>4, <2>5, <2>6
<1>8. \A i \in 1 .. n + 1 :
        q[i] = IF i <= k THEN ps[i] ELSE IF i = k + 1 THEN p ELSE ps[i - 1]
  <2> SUFFICES ASSUME NEW i \in 1 .. n + 1
               PROVE  q[i] = IF i <= k THEN ps[i] ELSE IF i = k + 1 THEN p ELSE ps[i - 1]
    OBVIOUS
  <2>1. i <= k => a[i] = ps[i]
    BY <1>1, <1>3, <1>5 DEF a
  <2>2. i > k + 1 => b[i - (k + 1)] = ps[i - 1]
    <3>1. i > k + 1 => i - (k + 1) \in 1 .. n - k /\ k + (i - (k + 1)) = i - 1
      BY <1>1, <1>3
    <3> QED
      BY <1>6, <3>1 DEF b
  <2> QED
    BY <1>1, <1>3, <1>7, <2>1, <2>2
<1>9. Insert(ps, p) = q
  BY <1>4 DEF a, b
<1> HIDE DEF q
<1>10. \A i \in 1 .. n : ps[i].priority <= p.priority <=> i <= k
  BY <1>1, <1>3
<1> QED
  BY <1>0, <1>7, <1>8, <1>9, <1>10

\* What was added before stays before.
LEMMA BeforeStays ==
  ASSUME added \in Seq(Plugins), NEW p \in Plugins, added' = Append(added, p),
         NEW a, NEW b, Before(added, a, b)
  PROVE  Before(added', a, b)
<1>1. CASE a.priority < b.priority
  BY <1>1 DEF Before
<1>2. CASE a.priority = b.priority /\ \E i, j \in DOMAIN added :
             i < j /\ added[i] = a /\ added[j] = b
  <2>1. PICK i \in DOMAIN added, j \in DOMAIN added : i < j /\ added[i] = a /\ added[j] = b
    BY <1>2
  <2>2. i \in DOMAIN added' /\ j \in DOMAIN added' /\ added'[i] = a /\ added'[j] = b
    BY <2>1
  <2> QED
    BY <1>2, <2>1, <2>2 DEF Before
<1> QED
  BY <1>1, <1>2 DEF Before

\* A plugin added now is after those of its priority.
LEMMA AddedIsAfter ==
  ASSUME added \in Seq(Plugins), NEW p \in Plugins, added' = Append(added, p),
         NEW a \in ToSet(added), a.priority <= p.priority
  PROVE  Before(added', a, p)
<1>1. PICK i \in DOMAIN added : added[i] = a
  BY DEF ToSet
<1>2. /\ i \in DOMAIN added' /\ Len(added) + 1 \in DOMAIN added' /\ i < Len(added) + 1
      /\ added'[i] = a /\ added'[Len(added) + 1] = p
  BY <1>1
<1>3. a \in Plugins /\ a.priority \in Int /\ p.priority \in Int
  BY <1>1, PluginsAssumption
<1>4. a.priority < p.priority \/ a.priority = p.priority
  BY <1>3
<1> QED
  BY <1>2, <1>4 DEF Before

LEMMA PriorityOrder ==
  ASSUME Typed, NEW a, NEW b, Before(added, a, b), a \in Plugins, b \in Plugins
  PROVE  a.priority <= b.priority
<1>1. a.priority \in Int /\ b.priority \in Int
  BY PluginsAssumption
<1> QED
  BY <1>1 DEF Before

\* Neither the catalog nor the hook changes.
LEMMA HookIdle ==
  ASSUME Inv, UNCHANGED <<pc, ran, todo, ix, idx, tables, functions, given>>
  PROVE  /\ Proper(tables, functions)' /\ Indexing' /\ Published' /\ Filtering'
         /\ Transforming' /\ FunctionsLeft'
<1>1. (Returned' <=> Returned) /\ (AfterIndex' <=> AfterIndex)
  BY DEF Returned, AfterIndex
<1>2. Proper(tables, functions)'
  BY DEF Inv
<1>3. Indexing'
  BY DEF Inv, Indexing
<1>4. Published'
  BY <1>1 DEF Inv, Published
<1>5. Filtering'
  BY DEF Inv, Filtering
<1>6. Transforming'
  BY <1>1 DEF Inv, Transforming
<1>7. FunctionsLeft'
  BY <1>1 DEF Inv, FunctionsLeft
<1> QED
  BY <1>2, <1>3, <1>4, <1>5, <1>6, <1>7

\* Outside the hook nothing is promised of its index.
LEMMA OutsideHook ==
  ASSUME pc' \in {"idle", "hooks"}, ~Returned'
  PROVE  Indexing' /\ Published' /\ Filtering' /\ Transforming' /\ FunctionsLeft'
BY DEF Indexing, Published, AfterIndex, Filtering, Transforming, FunctionsLeft

LEMMA AddStep ==
  ASSUME Inv, NEW p \in Plugins, Add(p)
  PROVE  Inv'
<1> DEFINE n == Len(plugins)
<1>1. /\ plugins' = Insert(plugins, p) /\ added' = Append(added, p)
      /\ UNCHANGED <<pass, ran, pc, todo, ix, idx, tables, functions, given>>
  BY DEF Add, walk
<1>2. /\ Typed /\ Registered /\ HooksInOrder
      /\ plugins \in Seq(Plugins) /\ added \in Seq(Plugins) /\ ToSet(added) = ToSet(plugins)
  BY DEF Inv, Typed
<1>3. \A i \in DOMAIN plugins : plugins[i] \in Plugins /\ plugins[i] \in ToSet(added)
  <2>1. \A i \in DOMAIN plugins : plugins[i] \in ToSet(plugins)
    BY DEF ToSet
  <2>2. \A i \in DOMAIN plugins : plugins[i] \in Plugins
    BY <1>2
  <2> QED
    BY <1>2, <2>1, <2>2, Zenon
<1>4. \A i, j \in DOMAIN plugins : i < j => plugins[i].priority <= plugins[j].priority
  BY <1>2, <1>3, PriorityOrder DEF Registered
<1>5. PICK k \in 0 .. n :
        /\ plugins' \in Seq(Plugins) /\ Len(plugins') = n + 1
        /\ \A i \in 1 .. n + 1 :
             plugins'[i] = IF i <= k THEN plugins[i] ELSE IF i = k + 1 THEN p ELSE plugins[i - 1]
        /\ \A i \in 1 .. n : plugins[i].priority <= p.priority <=> i <= k
  <2>1. \E k \in 0 .. Len(plugins) :
           /\ Insert(plugins, p) \in Seq(Plugins) /\ Len(Insert(plugins, p)) = Len(plugins) + 1
           /\ \A i \in 1 .. Len(plugins) + 1 :
                Insert(plugins, p)[i] = IF i <= k THEN plugins[i]
                                        ELSE IF i = k + 1 THEN p ELSE plugins[i - 1]
           /\ \A i \in 1 .. Len(plugins) : plugins[i].priority <= p.priority <=> i <= k
    BY <1>2, <1>4, InsertIs, Zenon
  <2> QED
    BY <1>1, <2>1, Zenon
<1>6. n \in Nat /\ k \in Nat /\ k <= n /\ DOMAIN plugins = 1 .. n /\ DOMAIN plugins' = 1 .. n + 1
  BY <1>2, <1>5
<1> HIDE DEF n
<1>7. Typed'
  <2>1. added' \in Seq(Plugins)
    BY <1>1, <1>2
  <2>2. ToSet(added') = ToSet(added) \cup {p}
    BY <1>1, <1>2 DEF ToSet
  <2>3. ToSet(plugins') = ToSet(plugins) \cup {p}
    <3>1. ASSUME NEW x \in ToSet(plugins') PROVE x \in ToSet(plugins) \cup {p}
      <4>1. PICK i \in 1 .. n + 1 : x = plugins'[i]
        BY <1>6 DEF ToSet
      <4>2. \/ (i <= k /\ i \in 1 .. n /\ x = plugins[i])
            \/ (i = k + 1 /\ x = p)
            \/ (i - 1 \in 1 .. n /\ x = plugins[i - 1])
        BY <1>5, <1>6, <4>1
      <4> QED
        BY <1>6, <4>2 DEF ToSet
    <3>2. p \in ToSet(plugins')
      <4>1. k + 1 \in 1 .. n + 1 /\ plugins'[k + 1] = p
        BY <1>5, <1>6
      <4> QED
        BY <1>6, <4>1 DEF ToSet
    <3>3. ASSUME NEW i \in 1 .. n PROVE plugins[i] \in ToSet(plugins')
      <4>1. \/ (i \in 1 .. n + 1 /\ plugins'[i] = plugins[i])
            \/ (i + 1 \in 1 .. n + 1 /\ plugins'[i + 1] = plugins[i])
        BY <1>5, <1>6
      <4> QED
        BY <1>6, <4>1 DEF ToSet
    <3>4. \A x \in ToSet(plugins) : \E i \in 1 .. n : x = plugins[i]
      BY <1>6 DEF ToSet
    <3> QED
      BY <3>1, <3>2, <3>3, <3>4
  <2> QED
    BY <1>1, <1>2, <1>5, <2>1, <2>2, <2>3 DEF Typed
<1>8. \A a, b : Before(added, a, b) => Before(added', a, b)
  BY <1>1, <1>2, BeforeStays
<1>9. Registered'
  <2> SUFFICES ASSUME NEW i \in 1 .. n + 1, NEW j \in 1 .. n + 1, i < j
               PROVE  Before(added', plugins'[i], plugins'[j])
    BY <1>6 DEF Registered
  <2>1. \A x, y \in 1 .. n : x < y => Before(added', plugins[x], plugins[y])
    BY <1>2, <1>6, <1>8 DEF Registered
  <2>2. \A x \in 1 .. n : x <= k => Before(added', plugins[x], p)
    BY <1>1, <1>2, <1>3, <1>5, <1>6, AddedIsAfter
  <2>3. \A x \in 1 .. n : x > k => Before(added', p, plugins[x])
    <3> SUFFICES ASSUME NEW x \in 1 .. n, x > k PROVE Before(added', p, plugins[x])
      OBVIOUS
    <3>1. p.priority \in Int /\ plugins[x].priority \in Int
      BY <1>3, <1>6, PluginsAssumption
    <3>2. ~(plugins[x].priority <= p.priority)
      BY <1>5, <1>6
    <3>3. p.priority < plugins[x].priority
      BY <3>1, <3>2
    <3> QED
      BY <3>3 DEF Before
  <2>4. \A x \in 1 .. n + 1 :
           \/ (x <= k /\ x \in 1 .. n /\ plugins'[x] = plugins[x])
           \/ (x = k + 1 /\ plugins'[x] = p)
           \/ (x > k + 1 /\ x - 1 \in 1 .. n /\ x - 1 > k
              /\ plugins'[x] = plugins[x - 1])
    <3> TAKE x \in 1 .. n + 1
    <3>1. \/ (x <= k /\ x \in 1 .. n)
          \/ (x = k + 1 /\ ~(x <= k))
          \/ (x > k + 1 /\ x - 1 \in 1 .. n /\ x - 1 > k /\ ~(x <= k) /\ x # k + 1)
      BY <1>6
    <3>2. plugins'[x] = IF x <= k THEN plugins[x] ELSE IF x = k + 1 THEN p ELSE plugins[x - 1]
      BY <1>5
    <3> QED
      BY <3>1, <3>2
  <2>5. CASE i <= k
    <3>1. i \in 1 .. n /\ plugins'[i] = plugins[i]
      BY <1>6, <2>4, <2>5
    <3>2. \/ (j <= k /\ j \in 1 .. n /\ plugins'[j] = plugins[j])
          \/ (j = k + 1 /\ plugins'[j] = p)
          \/ (j - 1 \in 1 .. n /\ i < j - 1 /\ plugins'[j] = plugins[j - 1])
      BY <1>6, <2>4, <2>5
    <3> QED
      BY <2>1, <2>2, <2>5, <3>1, <3>2
  <2>6. CASE i = k + 1
    <3>1. plugins'[i] = p /\ j - 1 \in 1 .. n /\ j - 1 > k /\ plugins'[j] = plugins[j - 1]
      BY <1>6, <2>4, <2>6
    <3> QED
      BY <2>3, <3>1
  <2>7. CASE i > k + 1
    <3>1. /\ i - 1 \in 1 .. n /\ plugins'[i] = plugins[i - 1]
          /\ j - 1 \in 1 .. n /\ plugins'[j] = plugins[j - 1] /\ i - 1 < j - 1
      BY <1>6, <2>4, <2>7
    <3> QED
      BY <2>1, <3>1
  <2> QED
    BY <1>6, <2>5, <2>6, <2>7
<1>10. HooksInOrder'
  BY <1>1, <1>2, <1>8 DEF HooksInOrder
<1> QED
  BY <1>1, <1>7, <1>9, <1>10, HookIdle DEF Inv, Idle

LEMMA RegistryKept ==
  ASSUME Inv, UNCHANGED registry
  PROVE  /\ Registered' /\ plugins' = plugins /\ added' = added
         /\ \A i, j \in DOMAIN plugins : i < j => Before(added, plugins[i], plugins[j])
BY DEF Inv, Registered, registry

\* A catalog that lost some of its tables.
LEMMA ProperRestrict ==
  ASSUME NEW ts, NEW fs, Proper(ts, fs),
         NEW S \in SUBSET DOMAIN ts, NEW T \in SUBSET DOMAIN fs
  PROVE  Proper(Restrict(ts, S), Restrict(fs, T))
BY DEF Proper, Distinct, Restrict

LEMMA NoCatalogProper == Proper(<<>>, <<>>)
BY DEF Proper, Distinct

LEMMA BeginStep ==
  ASSUME Inv, NEW c \in Catalogs, NEW d \in Disabled, Begin(c, d)
  PROVE  Inv'
<1>1. /\ pc = "idle" /\ pc' = "hooks" /\ tables' = c.tables /\ functions' = c.functions
      /\ pass' = Enabled(d) /\ UNCHANGED registry
      /\ UNCHANGED <<plugins, added, ran, todo, ix, idx, given>>
  BY DEF Begin, registry
<1>2. Typed
  BY DEF Inv
<1>3. /\ DOMAIN pass' \subseteq DOMAIN plugins /\ DOMAIN plugins \subseteq Nat
      /\ \A i \in DOMAIN pass' : pass'[i] = plugins[i] /\ plugins[i] \in Plugins
  <2>1. DOMAIN plugins \subseteq Nat /\ \A i \in DOMAIN plugins : plugins[i] \in Plugins
    BY <1>2 DEF Typed
  <2> QED
    BY <1>1, <2>1 DEF Enabled, Restrict
<1>4. ran = <<>>
  BY <1>1 DEF Inv, Idle
<1>5. todo.tables = {} /\ todo.functions = {}
  BY <1>1, <1>2 DEF Typed
<1>6. Typed'
  BY <1>1, <1>2, <1>3, <1>5 DEF Typed, Inside
<1>7. HooksInOrder'
  BY <1>1, <1>3, <1>4, RegistryKept DEF HooksInOrder
<1>8. Proper(tables, functions)'
  BY <1>1, CatalogsAssumption DEF Proper, Range
<1>9. ~Returned'
  BY <1>1, <1>4 DEF Returned
<1> QED
  BY <1>1, <1>6, <1>7, <1>8, <1>9, RegistryKept, OutsideHook DEF Inv, Idle

\* The end of a pass, whether a hook failed or not.
LEMMA OverStep ==
  ASSUME Inv, pc = "hooks", Over
  PROVE  Inv'
<1>1. /\ pc' = "idle" /\ pass' = <<>> /\ ran' = <<>> /\ tables' = <<>> /\ functions' = <<>>
      /\ UNCHANGED registry /\ UNCHANGED <<plugins, added, todo, ix, idx>>
  BY DEF Over, registry
<1>2. Typed /\ todo.tables = {} /\ todo.functions = {}
  BY DEF Inv, Typed
<1>3. Typed'
  <2>1. <<>> \in Seq(Plugins) /\ DOMAIN <<>> = {}
    OBVIOUS
  <2> QED
    BY <1>1, <1>2, <2>1 DEF Typed, Inside
<1>4. HooksInOrder'
  BY <1>1 DEF HooksInOrder
<1>5. Proper(tables, functions)'
  BY <1>1, NoCatalogProper
<1> QED
  BY <1>1, <1>3, <1>4, <1>5, RegistryKept, OutsideHook DEF Inv, Idle, Returned

\* The next plugin of the pass is called.
LEMMA CallIs ==
  ASSUME Inv, NEW i \in DOMAIN pass, Call(i), UNCHANGED registry
  PROVE  /\ HooksInOrder'
         /\ ran' \in Seq(Plugins) /\ ran' # <<>> /\ Last(ran') = pass[i]
         /\ DOMAIN pass' \subseteq Nat /\ \A j \in DOMAIN pass' : pass'[j] \in Plugins
<1> DEFINE n == Len(ran)
<1>1. /\ \A j \in DOMAIN pass : i <= j
      /\ DOMAIN pass' = DOMAIN pass \ {i} /\ \A j \in DOMAIN pass' : pass'[j] = pass[j]
      /\ ran' = Append(ran, pass[i])
  BY DEF Call, IsFirst, Restrict
<1>2. /\ ran \in Seq(Plugins) /\ DOMAIN pass \subseteq Nat
      /\ \A j \in DOMAIN pass : pass[j] \in Plugins
  BY DEF Inv, Typed
<1>3. n \in Nat /\ DOMAIN ran = 1 .. n
  BY <1>2
<1>4. /\ ran' \in Seq(Plugins) /\ Len(ran') = n + 1 /\ DOMAIN ran' = 1 .. n + 1
      /\ ran'[n + 1] = pass[i] /\ \A j \in 1 .. n : ran'[j] = ran[j]
  BY <1>1, <1>2
<1> HIDE DEF n
<1>5. HooksInOrder /\ added' = added
  BY RegistryKept DEF Inv
<1>6. \A j \in 1 .. n + 1 : j \in 1 .. n \/ j = n + 1
  BY <1>3
<1>7. \A j \in DOMAIN pass' : i < j /\ j \in DOMAIN pass /\ j \in Nat
  BY <1>1, <1>2
<1>8. ASSUME NEW x \in 1 .. n + 1, NEW y \in 1 .. n + 1, x < y
      PROVE  Before(added, ran'[x], ran'[y])
  <2>1. x \in 1 .. n
    BY <1>3, <1>8
  <2>2. CASE y \in 1 .. n
    BY <1>3, <1>4, <1>5, <1>8, <2>1, <2>2 DEF HooksInOrder
  <2>3. CASE y = n + 1
    BY <1>3, <1>4, <1>5, <2>1, <2>3 DEF HooksInOrder
  <2> QED
    BY <1>6, <2>2, <2>3
<1>9. ASSUME NEW x \in 1 .. n + 1, NEW j \in DOMAIN pass'
      PROVE  Before(added, ran'[x], pass'[j])
  <2>1. CASE x \in 1 .. n
    BY <1>1, <1>3, <1>4, <1>5, <1>7, <2>1 DEF HooksInOrder
  <2>2. CASE x = n + 1
    BY <1>1, <1>4, <1>5, <1>7, <2>2 DEF HooksInOrder
  <2> QED
    BY <1>6, <2>1, <2>2
<1>10. HooksInOrder'
  BY <1>1, <1>4, <1>5, <1>7, <1>8, <1>9 DEF HooksInOrder
<1>11. ran' # <<>> /\ Last(ran') = pass[i]
  BY <1>3, <1>4 DEF Last
<1> QED
  BY <1>1, <1>2, <1>4, <1>10, <1>11

LEMMA OtherHookStep ==
  ASSUME Inv, NEW i \in DOMAIN pass, OtherHook(i)
  PROVE  Inv'
<1>1. /\ Call(i) /\ ~pass[i].smart /\ UNCHANGED registry /\ pc = "hooks"
      /\ UNCHANGED <<plugins, added, pc, todo, ix, idx, functions, given>>
  BY DEF OtherHook, Call, registry
<1>2. PICK S \in SUBSET DOMAIN tables : tables' = Restrict(tables, S)
  BY DEF OtherHook
<1>3. Typed /\ todo.tables = {} /\ todo.functions = {}
  BY <1>1 DEF Inv, Typed
<1>4. Typed'
  BY <1>1, <1>3, CallIs DEF Typed, Inside
<1>5. Proper(tables, functions)'
  BY <1>1, <1>2 DEF Inv, Proper, Distinct, Restrict
<1>6. ~Returned'
  BY <1>1, CallIs DEF Returned
<1> QED
  BY <1>1, <1>4, <1>5, <1>6, CallIs, RegistryKept, OutsideHook DEF Inv, Idle

-----------------------------------------------------------------------------
(* BuildIndex *)

LEMMA OverlayIs ==
  ASSUME NEW f, NEW g
  PROVE  /\ DOMAIN Overlay(f, g) = DOMAIN f \cup DOMAIN g
         /\ \A k \in DOMAIN g : Overlay(f, g)[k] = g[k]
         /\ \A k \in DOMAIN f \ DOMAIN g : Overlay(f, g)[k] = f[k]
BY DEF Overlay

\* One more object under its key: the last one counts.
LEMMA IndexedExactly ==
  ASSUME NEW objects, NEW P, NEW i, NEW f, Exactly(objects, P, f)
  PROVE  Exactly(objects, P \cup {i}, Indexed(f, objects[i].key, objects[i].tags))
<1> DEFINE o == objects[i]
           g == [x \in {o.key} |-> o.tags]
<1>1. CASE o.tags = NoTags
  BY <1>1 DEF Exactly, Indexed
<1>2. CASE o.tags # NoTags
  <2>1. Indexed(f, o.key, o.tags) = Overlay(f, g)
    BY <1>2 DEF Indexed
  <2> DEFINE h == Overlay(f, g)
  <2>3. /\ DOMAIN h = DOMAIN f \cup {o.key} /\ h[o.key] = o.tags
        /\ \A k \in DOMAIN f : k # o.key => h[k] = f[k]
    BY DEF Overlay
  <2> HIDE DEF h, o
  <2>4. Exactly(objects, P \cup {i}, h)
    BY <1>2, <2>3 DEF Exactly, o
  <2> QED
    BY <2>1, <2>4 DEF h, o
<1> QED
  BY <1>1, <1>2

\* One more object under its name alone: two that are tagged are ambiguous, and
\* stay so.
LEMMA IndexedByName ==
  ASSUME NEW objects, NEW P, NEW i, i \notin P, NEW g, ByName(objects, P, g)
  PROVE  ByName(objects, P \cup {i}, IndexedBy(g, objects[i].key[2], objects[i].tags))
<1> DEFINE o == objects[i]
           n == o.key[2]
           v == IF n \in DOMAIN g THEN NoTags ELSE o.tags
           Q == P \cup {i}
           Tagged(j) == objects[j].tags # NoTags
           Name(j) == objects[j].key[2]
<1>0. /\ \A m \in DOMAIN g : \E j \in P : Name(j) = m /\ Tagged(j)
      /\ \A j \in P : Tagged(j) =>
           /\ Name(j) \in DOMAIN g
           /\ g[Name(j)] = IF Alone(objects, P, j) THEN objects[j].tags ELSE NoTags
  BY DEF ByName
<1>1. \A R, j : Alone(objects, R, j) <=>
        \A k \in R : Name(k) = Name(j) /\ Tagged(k) => k = j
  BY DEF Alone
<1>2. CASE o.tags = NoTags
  <2>1. ~Tagged(i)
    BY <1>2
  <2>2. IndexedBy(g, n, o.tags) = g
    BY <1>2 DEF IndexedBy
  <2> HIDE DEF Tagged, Name
  <2>3. \A j \in P : Alone(objects, Q, j) <=> Alone(objects, P, j)
    BY <1>1, <2>1
  <2>4. /\ \A m \in DOMAIN g : \E j \in Q : Name(j) = m /\ Tagged(j)
        /\ \A j \in Q : Tagged(j) =>
             /\ Name(j) \in DOMAIN g
             /\ g[Name(j)] = IF Alone(objects, Q, j) THEN objects[j].tags ELSE NoTags
    BY <1>0, <2>1, <2>3
  <2> QED
    BY <2>2, <2>4 DEF ByName, Tagged, Name
<1>3. CASE o.tags # NoTags
  <2>1. IndexedBy(g, n, o.tags) = Overlay(g, [x \in {n} |-> v])
    BY <1>3 DEF IndexedBy
  <2> DEFINE h == Overlay(g, [x \in {n} |-> v])
  <2>2. DOMAIN h = DOMAIN g \cup {n} /\ h[n] = v /\ \A m \in DOMAIN g : m # n => h[m] = g[m]
    <3> HIDE DEF v, n
    <3> QED
      BY DEF Overlay
  <2>3. Tagged(i) /\ Name(i) = n
    BY <1>3
  <2> HIDE DEF h, Tagged, Name
  <2>4. \A m \in DOMAIN h : \E j \in Q : Name(j) = m /\ Tagged(j)
    BY <1>0, <2>2, <2>3
  <2>5. ASSUME NEW j \in P, Tagged(j)
        PROVE  h[Name(j)] = IF Alone(objects, Q, j) THEN objects[j].tags ELSE NoTags
    <3>1. CASE Name(j) = n
      <4>1. n \in DOMAIN g /\ h[n] = NoTags
        BY <1>0, <2>2, <2>5, <3>1
      <4>2. ~Alone(objects, Q, j)
        BY <1>1, <2>3, <3>1
      <4> QED
        BY <3>1, <4>1, <4>2
    <3>2. CASE Name(j) # n
      <4>1. h[Name(j)] = g[Name(j)]
        BY <1>0, <2>2, <2>5, <3>2
      <4>2. Alone(objects, Q, j) <=> Alone(objects, P, j)
        BY <1>1, <2>3, <3>2
      <4> QED
        BY <1>0, <2>5, <4>1, <4>2
    <3> QED
      BY <3>1, <3>2
  <2>6. h[n] = IF Alone(objects, Q, i) THEN o.tags ELSE NoTags
    <3>1. CASE n \in DOMAIN g
      <4>1. PICK j \in P : Name(j) = n /\ Tagged(j)
        BY <1>0, <3>1
      <4>2. ~Alone(objects, Q, i)
        BY <1>1, <2>3, <4>1
      <4> QED
        BY <2>2, <3>1, <4>2
    <3>2. CASE n \notin DOMAIN g
      <4>1. Alone(objects, Q, i)
        BY <1>0, <1>1, <2>3, <3>2
      <4> QED
        BY <2>2, <3>2, <4>1
    <3> QED
      BY <3>1, <3>2
  <2>7. \A j \in Q : Tagged(j) =>
          /\ Name(j) \in DOMAIN h
          /\ h[Name(j)] = IF Alone(objects, Q, j) THEN objects[j].tags ELSE NoTags
    BY <1>0, <2>2, <2>3, <2>5, <2>6
  <2>8. ByName(objects, Q, h)
    BY <2>4, <2>7 DEF ByName, Tagged, Name
  <2> QED
    BY <2>1, <2>8 DEF h
<1> QED
  BY <1>2, <1>3

\* The tags of the constraints of one table.
LEMMA CommentedIs ==
  ASSUME NEW t
  PROVE  /\ \A k \in DOMAIN Commented(t) : \E c \in Constraints(t) :
              c.tags # NoTags /\ Key(t, c) = k /\ c.tags = Commented(t)[k]
         /\ \A c \in Constraints(t) : c.tags # NoTags => Key(t, c) \in DOMAIN Commented(t)
<1> DEFINE tagged == {c \in Constraints(t) : c.tags # NoTags}
           pick(k) == CHOOSE c \in tagged : Key(t, c) = k
<1>1. Commented(t) = [k \in {Key(t, c) : c \in tagged} |-> pick(k).tags]
  BY DEF Commented
<1>2. \A k \in {Key(t, c) : c \in tagged} : pick(k) \in tagged /\ Key(t, pick(k)) = k
  OBVIOUS
<1> HIDE DEF pick
<1> QED
  BY <1>1, <1>2

\* One more table's constraints.
LEMMA CommentsGrow ==
  ASSUME NEW ts, NEW P, NEW i, NEW f, Comments(ts, P, f)
  PROVE  Comments(ts, P \cup {i}, Overlay(f, Commented(ts[i])))
<1> DEFINE g == Commented(ts[i])
           h == Overlay(f, g)
<1>1. /\ DOMAIN h = DOMAIN f \cup DOMAIN g
      /\ \A k \in DOMAIN g : h[k] = g[k]
      /\ \A k \in DOMAIN f \ DOMAIN g : h[k] = f[k]
  BY OverlayIs
<1>2. /\ \A k \in DOMAIN g : \E c \in Constraints(ts[i]) : Key(ts[i], c) = k /\ c.tags = g[k]
      /\ \A c \in Constraints(ts[i]) : c.tags # NoTags => Key(ts[i], c) \in DOMAIN g
  BY CommentedIs
<1> HIDE DEF g, h
<1>3. Comments(ts, P \cup {i}, h)
  BY <1>1, <1>2 DEF Comments
<1> QED
  BY <1>3 DEF g, h

\* Inside the hook neither the registry nor the pass is touched by the hook.
LEMMA InsideHook ==
  ASSUME Inv, UNCHANGED registry, UNCHANGED walk
  PROVE  /\ Registered' /\ HooksInOrder'
         /\ UNCHANGED <<plugins, added, pass, ran>>
<1>1. UNCHANGED <<plugins, added, pass, ran>>
  BY DEF registry, walk
<1>2. HooksInOrder'
  BY <1>1 DEF Inv, HooksInOrder
<1> QED
  BY <1>1, <1>2, RegistryKept

LEMMA IndexStep ==
  ASSUME Inv, NEW i \in DOMAIN pass, Index(i)
  PROVE  Inv'
<1>1. /\ Call(i) /\ pass[i].smart /\ UNCHANGED registry /\ pc = "hooks"
      /\ ix' = EmptyIndex /\ given' = [tables |-> tables, functions |-> functions]
      /\ todo' = [tables |-> DOMAIN tables, functions |-> DOMAIN functions]
      /\ pc' = "index" /\ UNCHANGED <<plugins, added, idx, tables, functions>>
  BY DEF Index, NewIndex, Call, registry
<1>2. Typed'
  <2>1. DOMAIN ix' = Maps
    BY <1>1 DEF EmptyIndex
  <2> QED
    BY <1>1, <2>1, CallIs DEF Inv, Typed, Inside
<1>3. Indexing'
  <2>1. /\ ix'.tables = <<>> /\ ix'.tablesBy = <<>> /\ ix'.functions = <<>>
        /\ ix'.functionsBy = <<>> /\ ix'.constraints = <<>>
    BY <1>1 DEF EmptyIndex, Maps
  <2>2. \A objects : Exactly(objects, {}, <<>>) /\ ByName(objects, {}, <<>>)
    BY DEF Exactly, ByName
  <2>3. Comments(tables', {}, <<>>)
    BY DEF Comments
  <2>4. Visited(tables', todo'.tables) = {} /\ Visited(functions', todo'.functions) = {}
    BY <1>1 DEF Visited
  <2>5. tables' = given'.tables /\ functions' = given'.functions
    BY <1>1
  <2> QED
    BY <2>1, <2>2, <2>3, <2>4, <2>5 DEF Indexing
<1>4. ~AfterIndex' /\ ~Returned' /\ pc' # "filter" /\ pc' # "apply" /\ pc' # "idle"
  BY <1>1 DEF AfterIndex, Returned
<1> QED
  BY <1>1, <1>2, <1>3, <1>4, CallIs, RegistryKept
  DEF Inv, Idle, Published, Filtering, Transforming, FunctionsLeft

\* What the steps of BuildIndex have in common.
LEMMA Building ==
  ASSUME Inv, pc = "index", pc' = "index", UNCHANGED registry, UNCHANGED walk,
         UNCHANGED <<idx, tables, functions, given>>,
         DOMAIN ix' = Maps, Indexing',
         todo' = [tables |-> todo'.tables, functions |-> todo'.functions],
         todo'.tables \subseteq todo.tables, todo'.functions \subseteq todo.functions
  PROVE  Inv'
<1>1. Typed'
  BY InsideHook DEF Inv, Typed, Inside
<1>2. ~AfterIndex' /\ ~Returned'
  BY DEF AfterIndex, Returned
<1> QED
  BY <1>1, <1>2, InsideHook
  DEF Inv, Idle, Published, Filtering, Transforming, FunctionsLeft

LEMMA IndexTableStep ==
  ASSUME Inv, NEW i \in todo.tables, IndexTable(i)
  PROVE  Inv'
<1> DEFINE t == tables[i]
           P == Visited(tables, todo.tables)
<1>1. /\ pc = "index" /\ UNCHANGED registry /\ UNCHANGED walk /\ pc' = "index"
      /\ UNCHANGED <<idx, tables, functions, given>>
      /\ ix' = [ix EXCEPT !.tables = Indexed(@, t.key, t.tags),
                          !.tablesBy = IndexedBy(@, t.key[2], t.tags),
                          !.constraints = Overlay(@, Commented(t))]
      /\ todo' = [todo EXCEPT !.tables = @ \ {i}]
  BY DEF IndexTable, registry, walk
<1>2. Typed
  BY DEF Inv
<1>3. /\ ix'.tables = Indexed(ix.tables, t.key, t.tags)
      /\ ix'.tablesBy = IndexedBy(ix.tablesBy, t.key[2], t.tags)
      /\ ix'.constraints = Overlay(ix.constraints, Commented(t))
      /\ ix'.functions = ix.functions /\ ix'.functionsBy = ix.functionsBy
      /\ DOMAIN ix' = Maps
  <2>1. DOMAIN ix = Maps
    BY <1>2 DEF Typed
  <2> HIDE DEF t
  <2> QED
    BY <1>1, <2>1 DEF Maps
<1>4. /\ todo'.tables = todo.tables \ {i} /\ todo'.functions = todo.functions
      /\ todo' = [tables |-> todo'.tables, functions |-> todo'.functions]
  BY <1>1, <1>2 DEF Typed
<1>5. /\ tables = given.tables /\ functions = given.functions
      /\ Exactly(tables, P, ix.tables) /\ ByName(tables, P, ix.tablesBy)
      /\ Exactly(functions, Visited(functions, todo.functions), ix.functions)
      /\ ByName(functions, Visited(functions, todo.functions), ix.functionsBy)
      /\ Comments(tables, P, ix.constraints)
  BY <1>1 DEF Inv, Indexing
<1>6. i \notin P /\ Visited(tables, todo'.tables) = P \cup {i}
  BY <1>2, <1>4 DEF Typed, Visited
<1> HIDE DEF P
<1>7. /\ Exactly(tables, P \cup {i}, ix'.tables)
      /\ ByName(tables, P \cup {i}, ix'.tablesBy)
      /\ Comments(tables, P \cup {i}, ix'.constraints)
  <2>1. Exactly(tables, P \cup {i}, Indexed(ix.tables, t.key, t.tags))
    BY <1>5, IndexedExactly, Zenon
  <2>2. ByName(tables, P \cup {i}, IndexedBy(ix.tablesBy, t.key[2], t.tags))
    BY <1>5, <1>6, IndexedByName, Zenon
  <2>3. Comments(tables, P \cup {i}, Overlay(ix.constraints, Commented(t)))
    BY <1>5, CommentsGrow, Zenon
  <2> QED
    BY <1>3, <2>1, <2>2, <2>3
<1>8. Indexing'
  BY <1>1, <1>3, <1>4, <1>5, <1>6, <1>7 DEF Indexing
<1> QED
  BY <1>1, <1>3, <1>4, <1>8, Building

LEMMA IndexFunctionStep ==
  ASSUME Inv, NEW i \in todo.functions, IndexFunction(i)
  PROVE  Inv'
<1> DEFINE f == functions[i]
           Q == Visited(functions, todo.functions)
           P == Visited(tables, todo.tables)
<1>1. /\ pc = "index" /\ UNCHANGED registry /\ UNCHANGED walk /\ pc' = "index"
      /\ UNCHANGED <<idx, tables, functions, given>>
      /\ ix' = [ix EXCEPT !.functions = Indexed(@, f.key, f.tags),
                          !.functionsBy = IndexedBy(@, f.key[2], f.tags)]
      /\ todo' = [todo EXCEPT !.functions = @ \ {i}]
  BY DEF IndexFunction, registry, walk
<1>2. Typed
  BY DEF Inv
<1>3. /\ ix'.functions = Indexed(ix.functions, f.key, f.tags)
      /\ ix'.functionsBy = IndexedBy(ix.functionsBy, f.key[2], f.tags)
      /\ ix'.tables = ix.tables /\ ix'.tablesBy = ix.tablesBy
      /\ ix'.constraints = ix.constraints
      /\ DOMAIN ix' = Maps
  <2>1. DOMAIN ix = Maps
    BY <1>2 DEF Typed
  <2> HIDE DEF f
  <2> QED
    BY <1>1, <2>1 DEF Maps
<1>4. /\ todo'.functions = todo.functions \ {i} /\ todo'.tables = todo.tables
      /\ todo' = [tables |-> todo'.tables, functions |-> todo'.functions]
  BY <1>1, <1>2 DEF Typed
<1>5. /\ tables = given.tables /\ functions = given.functions
      /\ Exactly(tables, P, ix.tables) /\ ByName(tables, P, ix.tablesBy)
      /\ Exactly(functions, Q, ix.functions) /\ ByName(functions, Q, ix.functionsBy)
      /\ Comments(tables, P, ix.constraints)
  BY <1>1 DEF Inv, Indexing
<1>6. i \notin Q /\ Visited(functions, todo'.functions) = Q \cup {i}
  BY <1>2, <1>4 DEF Typed, Visited
<1> HIDE DEF Q
<1>7. /\ Exactly(functions, Q \cup {i}, ix'.functions)
      /\ ByName(functions, Q \cup {i}, ix'.functionsBy)
  <2>1. Exactly(functions, Q \cup {i}, Indexed(ix.functions, f.key, f.tags))
    BY <1>5, IndexedExactly, Zenon
  <2>2. ByName(functions, Q \cup {i}, IndexedBy(ix.functionsBy, f.key[2], f.tags))
    BY <1>5, <1>6, IndexedByName, Zenon
  <2> QED
    BY <1>3, <2>1, <2>2
<1>8. Indexing'
  BY <1>1, <1>3, <1>4, <1>5, <1>6, <1>7 DEF Indexing
<1> QED
  BY <1>1, <1>3, <1>4, <1>8, Building

\* BuildIndex has visited everything when it returns.
LEMMA PublishStep ==
  ASSUME Inv, Publish
  PROVE  Inv'
<1>1. /\ pc = "index" /\ todo.tables = {} /\ todo.functions = {} /\ pc' = "filter"
      /\ idx' = ix /\ ix' = EmptyIndex /\ UNCHANGED registry /\ UNCHANGED walk
      /\ UNCHANGED <<todo, tables, functions, given>>
  BY DEF Publish, Nowhere, registry, walk
<1>2. Visited(tables, todo.tables) = DOMAIN tables
      /\ Visited(functions, todo.functions) = DOMAIN functions
  BY <1>1 DEF Visited
<1>3. /\ tables = given.tables /\ functions = given.functions
      /\ Exactly(tables, DOMAIN tables, idx'.tables)
      /\ ByName(tables, DOMAIN tables, idx'.tablesBy)
      /\ Exactly(functions, DOMAIN functions, idx'.functions)
      /\ ByName(functions, DOMAIN functions, idx'.functionsBy)
      /\ Comments(tables, DOMAIN tables, idx'.constraints)
  BY <1>1, <1>2 DEF Inv, Indexing
<1>4. Typed'
  <2>1. DOMAIN ix' = Maps
    BY <1>1 DEF EmptyIndex
  <2> QED
    BY <1>1, <2>1, InsideHook DEF Inv, Typed, Inside
<1>5. Proper(tables, functions)' /\ Proper(given.tables, given.functions)'
  BY <1>1, <1>3 DEF Inv
<1>6. Published' /\ Filtering'
  BY <1>1, <1>3, <1>5 DEF Published, Filtering
<1> QED
  BY <1>1, <1>4, <1>5, <1>6, InsideHook
  DEF Inv, Idle, Indexing, Transforming, FunctionsLeft, Returned

-----------------------------------------------------------------------------
(* The tables that stay, and what becomes of them *)

\* Where keys are not shared the index finds for an object its own comment.
LEMMA LookupOwn ==
  ASSUME NEW objects, NEW f, Distinct(objects), Exactly(objects, DOMAIN objects, f),
         NEW i \in DOMAIN objects
  PROVE  Lookup(f, objects[i].key) = objects[i].tags
<1>1. ASSUME objects[i].key \in DOMAIN f
      PROVE  f[objects[i].key] = objects[i].tags /\ objects[i].tags # NoTags
  BY <1>1 DEF Exactly, Distinct
<1>2. objects[i].key \notin DOMAIN f => objects[i].tags = NoTags
  BY DEF Exactly
<1> QED
  BY <1>1, <1>2 DEF Lookup

\* Which logical keys are accepted is a matter of the keys and columns of the
\* tables that are there.
LEMMA AcceptedStable ==
  ASSUME NEW ts, NEW us, DOMAIN ts = DOMAIN us,
         \A i \in DOMAIN ts : Alike(ts[i], us[i])
  PROVE  /\ \A t, f : Accepted(ts, t, f) <=> Accepted(us, t, f)
         /\ \A t, tags : LogicalKeys(ts, t, tags) = LogicalKeys(us, t, tags)
<1>1. ASSUME NEW t, NEW f
      PROVE  Accepted(ts, t, f) <=> Accepted(us, t, f)
  <2> DEFINE Match(r) == r.key = References(t, f) /\ Exist(r, f.refcols)
  <2>1. \A i \in DOMAIN ts : Match(ts[i]) <=> Match(us[i])
    BY DEF Alike, Exist
  <2>2. (\E r \in Range(ts) : Match(r)) <=> (\E r \in Range(us) : Match(r))
    <3> HIDE DEF Match
    <3> QED
      BY <2>1 DEF Range
  <2> QED
    BY <2>2 DEF Accepted
<1> QED
  BY <1>1 DEF LogicalKeys

\* The fields of a table that comments were applied to, and those left alone.
LEMMA AppliedIs ==
  ASSUME NEW ts, NEW t, NEW tags, NEW cs, WellFormed(t), NEW a, a = Applied(ts, t, tags, cs)
  PROVE  /\ DOMAIN a = DOMAIN t
         /\ a.key = t.key /\ a.cols = t.cols /\ a.tags = t.tags /\ a.coltags = t.coltags
         /\ a.privileges = t.privileges \ Omits(tags)
         /\ a.pk = PrimaryKey(t, tags)
         /\ a.uniques = {c \in Uniques(t, tags) : ~Everything(Lookup(cs, Key(t, c)))}
         /\ a.fks = {c \in t.fks \cup {ForeignKey(t, f) : f \in LogicalKeys(ts, t, tags)} :
                       ~Everything(Lookup(cs, Key(t, c)))}
         /\ a.notnull = (t.notnull \cup Flagged(t, "notNull")) \ Flagged(t, "nullable")
         /\ a.indexed = t.indexed \cup Flagged(t, "filterable") \cup Flagged(t, "sortable")
<1>1. {"key", "cols", "tags", "pk", "privileges", "uniques", "fks", "notnull",
       "indexed", "coltags"} \subseteq DOMAIN t
  BY DEF WellFormed
<1> DEFINE kept(S) == {c \in S : ~Everything(Lookup(cs, Key(t, c)))}
           privileges == t.privileges \ Omits(tags)
           uniques == kept(Uniques(t, tags))
           fks == kept(t.fks \cup {ForeignKey(t, f) : f \in LogicalKeys(ts, t, tags)})
           notnull == (t.notnull \cup Flagged(t, "notNull")) \ Flagged(t, "nullable")
           indexed == t.indexed \cup Flagged(t, "filterable") \cup Flagged(t, "sortable")
           pk == PrimaryKey(t, tags)
<1>2. a = [t EXCEPT !.privileges = privileges, !.pk = pk, !.uniques = uniques,
                    !.fks = fks, !.notnull = notnull, !.indexed = indexed]
  BY DEF Applied
<1> HIDE DEF privileges, uniques, fks, notnull, indexed, pk
<1>3. /\ DOMAIN a = DOMAIN t
      /\ a.key = t.key /\ a.cols = t.cols /\ a.tags = t.tags /\ a.coltags = t.coltags
      /\ a.privileges = privileges /\ a.pk = pk /\ a.uniques = uniques /\ a.fks = fks
      /\ a.notnull = notnull /\ a.indexed = indexed
  BY <1>1, <1>2
<1> QED
  BY <1>3 DEF privileges, uniques, fks, notnull, indexed, pk

LEMMA AppliedWellFormed ==
  ASSUME NEW ts, NEW t, NEW tags, NEW cs, WellFormed(t), HasSchema(t)
  PROVE  /\ WellFormed(Applied(ts, t, tags, cs)) /\ HasSchema(Applied(ts, t, tags, cs))
         /\ Alike(Applied(ts, t, tags, cs), t)
<1> DEFINE a == Applied(ts, t, tags, cs)
<1>1. /\ DOMAIN a = DOMAIN t
      /\ a.key = t.key /\ a.cols = t.cols /\ a.tags = t.tags
      /\ a.privileges = t.privileges \ Omits(tags)
      /\ a.notnull = (t.notnull \cup Flagged(t, "notNull")) \ Flagged(t, "nullable")
  BY AppliedIs
<1> HIDE DEF a
<1>2. \A flag : Flagged(t, flag) \subseteq t.cols
  BY DEF Flagged
<1>3. a.notnull \subseteq t.cols
  BY <1>1, <1>2 DEF WellFormed
<1>4. WellFormed(a)
  BY <1>1, <1>3 DEF WellFormed
<1>5. HasSchema(a) /\ Alike(a, t)
  BY <1>1 DEF HasSchema, Alike
<1> QED
  BY <1>4, <1>5 DEF a

LEMMA FilterStep ==
  ASSUME Inv, Filter
  PROVE  Inv'
<1> DEFINE kept == {i \in DOMAIN tables : ~Everything(Lookup(idx.tables, tables[i].key))}
<1>1. /\ pc = "filter" /\ pc' = "apply" /\ tables' = Restrict(tables, kept)
      /\ todo' = [todo EXCEPT !.tables = kept] /\ UNCHANGED registry /\ UNCHANGED walk
      /\ UNCHANGED <<ix, idx, functions, given>>
  BY DEF Filter, registry, walk
<1>2. Typed /\ Proper(tables, functions)
  BY DEF Inv
<1>3. /\ tables = given.tables /\ functions = given.functions
      /\ Comments(tables, DOMAIN tables, idx.constraints)
      /\ Exactly(tables, DOMAIN tables, idx.tables)
  BY <1>1 DEF Inv, Filtering, Published, AfterIndex
<1>4. kept = Untouched(tables)
  <2>1. Distinct(tables)
    BY <1>2 DEF Proper
  <2>2. \A i \in DOMAIN tables : Lookup(idx.tables, tables[i].key) = tables[i].tags
    BY <1>3, <2>1, LookupOwn
  <2> QED
    BY <2>2 DEF Untouched
<1> HIDE DEF kept
<1>5. /\ todo'.tables = kept /\ todo'.functions = todo.functions
      /\ todo' = [tables |-> todo'.tables, functions |-> todo'.functions]
      /\ kept \subseteq DOMAIN tables
  BY <1>1, <1>2, <1>4 DEF Typed, Untouched
<1>6. DOMAIN tables' = kept /\ \A i \in kept : tables'[i] = tables[i]
  BY <1>1 DEF Restrict
<1>7. Typed'
  BY <1>1, <1>2, <1>5, <1>6, InsideHook DEF Typed, Inside
<1>8. Proper(tables, functions)'
  BY <1>1, <1>2, <1>5, <1>6 DEF Proper, Distinct
<1>9. Published'
  BY <1>1 DEF Inv, Published, AfterIndex
<1>10. Transforming'
  <2> DEFINE gs == given.tables
  <2>1. Visited(tables', todo'.tables) = {}
    BY <1>5, <1>6 DEF Visited
  <2>2. DOMAIN tables' = Untouched(gs)
    BY <1>3, <1>4, <1>6
  <2>3. AllAlike(tables', gs) /\ \A i \in todo'.tables : tables'[i] = gs[i]
    BY <1>3, <1>5, <1>6 DEF AllAlike, Alike
  <2>4. Carried(gs, tables', {}, idx.constraints)
    <3>1. \A i \in DOMAIN gs : Constraints(gs[i]) \subseteq Carriers(gs[i])
      BY DEF Carriers
    <3> QED
      BY <1>3, <3>1 DEF Comments, Carried
  <2> QED
    BY <1>1, <2>1, <2>2, <2>3, <2>4 DEF Transforming
<1>11. FunctionsLeft'
  BY <1>1, <1>3 DEF FunctionsLeft, Returned
<1> QED
  BY <1>1, <1>7, <1>8, <1>9, <1>10, <1>11, InsideHook DEF Inv, Idle, Indexing, Filtering

LEMMA FunctionsStep ==
  ASSUME Inv, Functions
  PROVE  Inv'
<1> DEFINE kept == {i \in DOMAIN functions : ~Everything(Lookup(idx.functions, functions[i].key))}
<1>1. /\ pc = "apply" /\ todo.tables = {} /\ functions' = Restrict(functions, kept)
      /\ pc' = "hooks" /\ UNCHANGED registry /\ UNCHANGED walk
      /\ UNCHANGED <<todo, ix, idx, tables, given>>
  BY DEF Functions, registry, walk
<1>2. Typed /\ Proper(tables, functions)
  BY DEF Inv
<1>3. functions = given.functions /\ Exactly(functions, DOMAIN functions, idx.functions)
  BY <1>1 DEF Inv, FunctionsLeft, Published, AfterIndex
<1>4. Distinct(functions) => kept = Untouched(functions)
  <2>1. ASSUME Distinct(functions)
        PROVE  \A i \in DOMAIN functions :
                 Lookup(idx.functions, functions[i].key) = functions[i].tags
    BY <1>3, <2>1, LookupOwn
  <2> QED
    BY <2>1 DEF Untouched
<1>5. kept \subseteq DOMAIN functions
  OBVIOUS
<1> HIDE DEF kept
<1>6. todo.functions = {}
  BY <1>1, <1>2 DEF Typed
<1>7. Typed'
  BY <1>1, <1>2, <1>6, InsideHook DEF Typed, Inside
<1>8. Proper(tables, functions)'
  BY <1>1, <1>2, <1>5 DEF Proper, Restrict
<1>9. Published'
  BY <1>1 DEF Inv, Published, AfterIndex
<1>10. Transforming'
  BY <1>1 DEF Inv, Transforming
<1>11. FunctionsLeft'
  BY <1>1, <1>3, <1>4 DEF FunctionsLeft
<1> QED
  BY <1>1, <1>7, <1>8, <1>9, <1>10, <1>11, InsideHook DEF Inv, Idle, Indexing, Filtering

\* What the |@ segments of a table's accepted keys write into the index.
LEMMA SegmentsIs ==
  ASSUME NEW ts, NEW t, WellFormed(t)
  PROVE  /\ \A k \in DOMAIN Segments(ts, t, t.tags) : \E f \in LogicalKeys(ts, t, t.tags) :
              /\ Key(t, ForeignKey(t, f)) = k
              /\ ForeignKey(t, f).tags = Segments(ts, t, t.tags)[k]
         /\ \A f \in LogicalKeys(ts, t, t.tags) : f.segments # None =>
              Key(t, ForeignKey(t, f)) \in DOMAIN Segments(ts, t, t.tags)
<1> DEFINE fs == Values(t.tags, "fks")
           n == Len(fs)
           S == {i \in DOMAIN fs : Accepted(ts, t, fs[i]) /\ fs[i].segments # None}
           key(i) == Key(t, ForeignKey(t, fs[i]))
           IsLast(i, k) == key(i) = k /\ \A j \in S : key(j) = k => j <= i
           last(k) == CHOOSE i \in S : IsLast(i, k)
<1>1. n \in Nat /\ DOMAIN fs = 1 .. n
  <2>1. CASE t.tags = NoTags
    BY <2>1 DEF Values
  <2>2. CASE t.tags # NoTags
    <3>1. fs = t.tags.fks
      BY <2>2 DEF Values
    <3>2. fs \in Seq(ToSet(t.tags.fks))
      BY <2>2, <3>1 DEF WellFormed
    <3> QED
      BY <3>2
  <2> QED
    BY <2>1, <2>2
<1>2. Segments(ts, t, t.tags) = [k \in {key(i) : i \in S} |-> fs[last(k)].segments]
  BY DEF Segments
<1>3. \A f : f \in LogicalKeys(ts, t, t.tags) <=>
               \E i \in DOMAIN fs : fs[i] = f /\ Accepted(ts, t, fs[i])
  BY DEF LogicalKeys, ToSet
<1>4. \A f : f.segments # None => ForeignKey(t, f).tags = f.segments
  BY DEF ForeignKey
<1>5. /\ S \subseteq 0 .. n
      /\ \A i \in S : i \in DOMAIN fs /\ Accepted(ts, t, fs[i]) /\ fs[i].segments # None
      /\ \A i \in DOMAIN fs : Accepted(ts, t, fs[i]) /\ fs[i].segments # None => i \in S
  BY <1>1
<1> HIDE DEF S, n
<1>6. ASSUME NEW h \in S
      PROVE  \E i \in S : IsLast(i, key(h))
  <2> DEFINE T == {j \in S : key(j) = key(h)}
  <2>1. T \subseteq 0 .. n /\ T # {}
    BY <1>5, <1>6
  <2>2. PICK i \in T : \A j \in T : j <= i
    <3> HIDE DEF T
    <3> QED
      BY <1>1, <2>1, Greatest
  <2> QED
    BY <2>2
<1> HIDE DEF IsLast, fs
<1>7. \A h \in S : last(key(h)) \in S /\ IsLast(last(key(h)), key(h))
  BY <1>6
<1>8. \A h \in S : last(key(h)) \in S /\ key(last(key(h))) = key(h)
  BY <1>7 DEF IsLast
<1> HIDE DEF last
<1>9. /\ DOMAIN Segments(ts, t, t.tags) = {key(i) : i \in S}
      /\ \A h \in S : Segments(ts, t, t.tags)[key(h)] = fs[last(key(h))].segments
  BY <1>2
<1>10. ASSUME NEW h \in S
       PROVE  \E f \in LogicalKeys(ts, t, t.tags) :
                /\ Key(t, ForeignKey(t, f)) = key(h)
                /\ ForeignKey(t, f).tags = Segments(ts, t, t.tags)[key(h)]
  <2>1. fs[last(key(h))] \in LogicalKeys(ts, t, t.tags)
    BY <1>3, <1>5, <1>8
  <2>2. fs[last(key(h))].segments # None
    BY <1>5, <1>8
  <2> QED
    BY <1>4, <1>8, <1>9, <2>1, <2>2
<1>11. ASSUME NEW f \in LogicalKeys(ts, t, t.tags), f.segments # None
       PROVE  Key(t, ForeignKey(t, f)) \in {key(i) : i \in S}
  <2>1. PICK i \in DOMAIN fs : fs[i] = f /\ Accepted(ts, t, fs[i])
    BY <1>3
  <2>2. i \in S
    BY <1>5, <1>11, <2>1
  <2> QED
    BY <2>1, <2>2
<1> QED
  BY <1>9, <1>10, <1>11

\* One more table's segments.
LEMMA CarriedGrows ==
  ASSUME NEW gs, NEW now, NEW P, NEW i \in DOMAIN gs, WellFormed(gs[i]),
         NEW f, Carried(gs, now, P, f)
  PROVE  Carried(gs, now, P \cup {i}, Overlay(f, Segments(now, gs[i], gs[i].tags)))
<1> DEFINE g == gs[i]
           s == Segments(now, g, g.tags)
           h == Overlay(f, s)
<1>1. /\ DOMAIN h = DOMAIN f \cup DOMAIN s
      /\ \A k \in DOMAIN s : h[k] = s[k]
      /\ \A k \in DOMAIN f \ DOMAIN s : h[k] = f[k]
  BY OverlayIs
<1>2. /\ \A k \in DOMAIN s : \E l \in LogicalKeys(now, g, g.tags) :
           Key(g, ForeignKey(g, l)) = k /\ ForeignKey(g, l).tags = s[k]
      /\ \A l \in LogicalKeys(now, g, g.tags) : l.segments # None =>
           Key(g, ForeignKey(g, l)) \in DOMAIN s
  BY SegmentsIs, Zenon
<1>3. \A l \in LogicalKeys(now, g, g.tags) : ForeignKey(g, l) \in Carriers(g)
  BY DEF LogicalKeys, Carriers
<1> HIDE DEF h, s
<1>4. \A k \in DOMAIN h : \E j \in DOMAIN gs : \E c \in Carriers(gs[j]) :
        Key(gs[j], c) = k /\ c.tags = h[k]
  <2> TAKE k \in DOMAIN h
  <2>1. CASE k \in DOMAIN s
    BY <1>1, <1>2, <1>3, <2>1
  <2>2. CASE k \in DOMAIN f \ DOMAIN s
    BY <1>1, <2>2 DEF Carried
  <2> QED
    BY <1>1, <2>1, <2>2
<1>5. Carried(gs, now, P \cup {i}, h)
  BY <1>1, <1>2, <1>4 DEF Carried
<1> QED
  BY <1>5 DEF h, s

\* What a lookup finds for a constraint of g, real or logical, is its own
\* comment.
OwnTags(g, now, f) ==
  /\ \A m \in AllForeignKeys(g, now) : Lookup(f, Key(g, m)) = m.tags
  /\ \A m \in Uniques(g, g.tags) : Lookup(f, Key(g, m)) = m.tags

\* So it is where no two objects share a key.
LEMMA CarriedOwn ==
  ASSUME NEW c, Unambiguous(c), NEW now, NEW P, NEW f, Carried(c.tables, now, P, f),
         NEW i, i \in P, i \in DOMAIN c.tables
  PROVE  OwnTags(c.tables[i], now, f)
<1> DEFINE gs == c.tables
           g == gs[i]
<1>1. ASSUME NEW m \in Carriers(g), Key(g, m) \in DOMAIN f
      PROVE  f[Key(g, m)] = m.tags
  <2>1. PICK j \in DOMAIN gs : \E d \in Carriers(gs[j]) :
               Key(gs[j], d) = Key(g, m) /\ d.tags = f[Key(g, m)]
    BY <1>1 DEF Carried
  <2>2. PICK d \in Carriers(gs[j]) : Key(gs[j], d) = Key(g, m) /\ d.tags = f[Key(g, m)]
    BY <2>1
  <2>3. gs[j] \in Range(gs) /\ g \in Range(gs)
    BY DEF Range
  <2>4. \A t, u \in Range(gs) : \A k \in Carriers(t), l \in Carriers(u) :
          Key(t, k) = Key(u, l) => k.tags = l.tags
    BY DEF Unambiguous
  <2>5. d.tags = m.tags
    BY <1>1, <2>2, <2>3, <2>4
  <2> QED
    BY <2>2, <2>5
<1>2. ASSUME NEW m \in Carriers(g), m.tags # NoTags => Key(g, m) \in DOMAIN f
      PROVE  Lookup(f, Key(g, m)) = m.tags
  BY <1>1, <1>2 DEF Lookup
<1>3. ASSUME NEW m \in Constraints(g)
      PROVE  Lookup(f, Key(g, m)) = m.tags
  <2>1. m \in Carriers(g) /\ (m.tags # NoTags => Key(g, m) \in DOMAIN f)
    BY DEF Carriers, Carried
  <2> QED
    BY <1>2, <2>1
<1>4. ASSUME NEW l \in LogicalKeys(now, g, g.tags)
      PROVE  Lookup(f, Key(g, ForeignKey(g, l))) = ForeignKey(g, l).tags
  <2>1. ForeignKey(g, l) \in Carriers(g)
    BY DEF LogicalKeys, Carriers
  <2>2. l.segments # None => Key(g, ForeignKey(g, l)) \in DOMAIN f
    BY DEF Carried
  <2>3. ForeignKey(g, l).tags # NoTags => l.segments # None
    BY DEF ForeignKey
  <2> QED
    BY <1>2, <2>1, <2>2, <2>3
<1>5. ASSUME NEW u \in ToSet(Values(g.tags, "uniques"))
      PROVE  Lookup(f, Key(g, UniqueKey(u))) = UniqueKey(u).tags
  <2>1. UniqueKey(u) \in Carriers(g) /\ UniqueKey(u).tags = NoTags
    BY DEF Carriers, UniqueKey
  <2> QED
    BY <1>2, <2>1
<1>6. \A m \in AllForeignKeys(g, now) : Lookup(f, Key(g, m)) = m.tags
  BY <1>3, <1>4 DEF AllForeignKeys, Constraints
<1>7. \A m \in Uniques(g, g.tags) : Lookup(f, Key(g, m)) = m.tags
  BY <1>3, <1>5 DEF Uniques, Constraints
<1> QED
  BY <1>6, <1>7 DEF OwnTags

\* What becomes of the table visited.
LEMMA AppliedKeys ==
  ASSUME NEW now, NEW g, WellFormed(g), NEW cs, NEW a, a = Applied(now, g, g.tags, cs)
  PROVE  LogicalKeysOf(a, g, now)
<1>1. /\ a.pk = PrimaryKey(g, g.tags)
      /\ a.uniques \subseteq Uniques(g, g.tags)
      /\ a.fks \subseteq g.fks \cup {ForeignKey(g, f) : f \in LogicalKeys(now, g, g.tags)}
  BY AppliedIs
<1>2. a.pk # g.pk => Exist(g, a.pk)
  BY <1>1 DEF PrimaryKey
<1>3. ASSUME NEW u \in a.uniques \ g.uniques
      PROVE  u.cols # <<>> /\ Exist(g, u.cols)
  <2>1. \A v : UniqueKey(v).cols = v
    BY DEF UniqueKey
  <2>2. PICK v \in ToSet(Values(g.tags, "uniques")) : u = UniqueKey(v) /\ v # <<>> /\ Exist(g, v)
    BY <1>1, <1>3 DEF Uniques
  <2> QED
    BY <2>1, <2>2
<1>4. ASSUME NEW fk \in a.fks \ g.fks
      PROVE  /\ fk.cols # <<>> /\ Len(fk.cols) = Len(fk.refcols) /\ Exist(g, fk.cols)
             /\ \E r \in Range(now) : r.key = fk.ref /\ Exist(r, fk.refcols)
  <2>1. PICK f \in LogicalKeys(now, g, g.tags) : fk = ForeignKey(g, f)
    BY <1>1, <1>4
  <2>2. Accepted(now, g, f)
    BY DEF LogicalKeys
  <2>3. fk.cols = f.cols /\ fk.ref = References(g, f) /\ fk.refcols = f.refcols
    BY <2>1 DEF ForeignKey
  <2> QED
    BY <2>2, <2>3 DEF Accepted
<1> QED
  BY <1>2, <1>3, <1>4 DEF LogicalKeysOf

LEMMA AppliedDecided ==
  ASSUME NEW now, NEW g, WellFormed(g), NEW cs, NEW a, a = Applied(now, g, g.tags, cs),
         OwnTags(g, now, cs)
  PROVE  Decided(a, g, now)
<1>1. /\ a.privileges = g.privileges \ Omits(g.tags)
      /\ a.pk = PrimaryKey(g, g.tags)
      /\ a.uniques = {c \in Uniques(g, g.tags) : ~Everything(Lookup(cs, Key(g, c)))}
      /\ a.fks = {c \in AllForeignKeys(g, now) : ~Everything(Lookup(cs, Key(g, c)))}
  BY AppliedIs DEF AllForeignKeys
<1>2. a.uniques = Kept(Uniques(g, g.tags)) /\ a.fks = Kept(AllForeignKeys(g, now))
  BY <1>1 DEF Kept, OwnTags
<1> QED
  BY <1>1, <1>2 DEF Decided

\* What was said of a table visited before stays true: later tables keep their
\* keys and columns.
LEMMA DecidedStays ==
  ASSUME NEW now, NEW then, DOMAIN now = DOMAIN then,
         \A i \in DOMAIN now : Alike(now[i], then[i]),
         NEW t, NEW g
  PROVE  /\ LogicalKeysOf(t, g, now) => LogicalKeysOf(t, g, then)
         /\ Decided(t, g, now) => Decided(t, g, then)
<1>1. ASSUME NEW ref, NEW cols, \E r \in Range(now) : r.key = ref /\ Exist(r, cols)
      PROVE  \E r \in Range(then) : r.key = ref /\ Exist(r, cols)
  BY <1>1 DEF Range, Alike, Exist
<1>2. LogicalKeysOf(t, g, now) => LogicalKeysOf(t, g, then)
  BY <1>1 DEF LogicalKeysOf
<1>3. AllForeignKeys(g, now) = AllForeignKeys(g, then)
  BY AcceptedStable DEF AllForeignKeys
<1>4. Decided(t, g, now) => Decided(t, g, then)
  BY <1>3 DEF Decided
<1> QED
  BY <1>2, <1>4

LEMMA CarriedStays ==
  ASSUME NEW now, NEW then, DOMAIN now = DOMAIN then,
         \A i \in DOMAIN now : Alike(now[i], then[i]),
         NEW gs, NEW P, NEW f, Carried(gs, now, P, f)
  PROVE  Carried(gs, then, P, f)
<1>1. \A t, tags : LogicalKeys(now, t, tags) = LogicalKeys(then, t, tags)
  BY AcceptedStable
<1> QED
  BY <1>1 DEF Carried

LEMMA ApplyStep ==
  ASSUME Inv, NEW i \in todo.tables, Apply(i)
  PROVE  Inv'
<1> DEFINE gs == given.tables
           g == gs[i]
           cs == Overlay(idx.constraints, Segments(tables, g, g.tags))
           a == Applied(tables, g, g.tags, cs)
           P == Visited(tables, todo.tables)
<1>1. /\ pc = "apply" /\ pc' = "apply" /\ UNCHANGED registry /\ UNCHANGED walk
      /\ UNCHANGED <<ix, functions, given>>
      /\ todo' = [todo EXCEPT !.tables = @ \ {i}]
  BY DEF Apply, registry, walk
<1>2. Typed /\ Proper(tables, functions)
  BY DEF Inv
<1>3. /\ DOMAIN tables = Untouched(gs) /\ AllAlike(tables, gs)
      /\ \A j \in todo.tables : tables[j] = gs[j]
      /\ Carried(gs, tables, P, idx.constraints)
      /\ \A j \in P : LogicalKeysOf(tables[j], gs[j], tables)
      /\ Unambiguous(given) => \A j \in P : Decided(tables[j], gs[j], tables)
  BY <1>1 DEF Inv, Transforming
<1>4. i \in DOMAIN tables /\ i \in DOMAIN gs /\ tables[i] = g
  BY <1>2, <1>3 DEF Typed, AllAlike
<1>5. WellFormed(g) /\ HasSchema(g)
  BY <1>2, <1>4 DEF Proper
<1>6. Lookup(idx.tables, g.key) = g.tags
  <2>1. Distinct(gs) /\ Exactly(gs, DOMAIN gs, idx.tables)
    BY <1>1 DEF Inv, Published, AfterIndex, Proper
  <2> QED
    BY <1>4, <2>1, LookupOwn
<1>7. /\ idx' = [idx EXCEPT !.constraints = cs]
      /\ tables' = [tables EXCEPT ![i] = a]
  BY <1>4, <1>6 DEF Apply
<1>8. /\ DOMAIN idx' = Maps /\ idx'.constraints = cs
      /\ idx'.tables = idx.tables /\ idx'.tablesBy = idx.tablesBy
      /\ idx'.functions = idx.functions /\ idx'.functionsBy = idx.functionsBy
  <2>1. DOMAIN idx = Maps
    BY <1>2 DEF Typed
  <2> HIDE DEF cs
  <2> QED
    BY <1>7, <2>1 DEF Maps
<1>9. WellFormed(a) /\ HasSchema(a) /\ Alike(a, g)
  BY <1>5, AppliedWellFormed
<1>10. Carried(gs, tables, P \cup {i}, cs)
  BY <1>3, <1>4, <1>5, CarriedGrows
<1>11. LogicalKeysOf(a, g, tables)
  BY <1>5, AppliedKeys
<1>12. Unambiguous(given) => Decided(a, g, tables)
  <2>1. ASSUME Unambiguous(given)
        PROVE  OwnTags(g, tables, cs)
    <3>1. /\ i \in P \cup {i} /\ i \in DOMAIN given.tables
          /\ Carried(given.tables, tables, P \cup {i}, cs)
      BY <1>4, <1>10
    <3> HIDE DEF cs, P
    <3> QED
      BY <2>1, <3>1, CarriedOwn
  <2> QED
    BY <1>5, <2>1, AppliedDecided
<1> HIDE DEF a, cs
<1>13. /\ DOMAIN tables' = DOMAIN tables /\ tables'[i] = a
       /\ \A j \in DOMAIN tables : j # i => tables'[j] = tables[j]
  BY <1>4, <1>7
<1>14. \A j \in DOMAIN tables : Alike(tables[j], tables'[j])
  BY <1>4, <1>9, <1>13 DEF Alike
<1>15. /\ todo'.tables = todo.tables \ {i} /\ todo'.functions = todo.functions
       /\ todo' = [tables |-> todo'.tables, functions |-> todo'.functions]
  BY <1>1, <1>2 DEF Typed
<1>16. Visited(tables', todo'.tables) = P \cup {i}
  BY <1>4, <1>13, <1>15 DEF Visited
<1>17. i \notin P
  BY DEF Visited
<1> HIDE DEF P
<1>18. Typed'
  BY <1>1, <1>2, <1>8, <1>13, <1>15, InsideHook DEF Typed, Inside
<1>19. Proper(tables, functions)'
  BY <1>1, <1>2, <1>9, <1>13, <1>14 DEF Proper, Distinct, Alike
<1>20. Published'
  BY <1>1, <1>8 DEF Inv, Published, AfterIndex
<1>21. Transforming'
  <2>1. AllAlike(tables', gs) /\ \A j \in todo'.tables : tables'[j] = gs[j]
    <3>1. AllAlike(tables', gs)
      BY <1>3, <1>13, <1>14 DEF AllAlike, Alike
    <3>2. \A j \in todo'.tables : j \in DOMAIN tables /\ j # i /\ j \in todo.tables
      BY <1>2, <1>15 DEF Typed
    <3> QED
      BY <1>3, <1>13, <3>1, <3>2
  <2>2. Carried(gs, tables', P \cup {i}, idx'.constraints)
    BY <1>8, <1>10, <1>13, <1>14, CarriedStays
  <2>3. \A j \in P : tables'[j] = tables[j]
    BY <1>13, <1>17 DEF P, Visited
  <2>4. \A j \in P \cup {i} : LogicalKeysOf(tables'[j], gs[j], tables')
    BY <1>3, <1>11, <1>13, <1>14, <2>3, DecidedStays
  <2>5. Unambiguous(given) => \A j \in P \cup {i} : Decided(tables'[j], gs[j], tables')
    BY <1>3, <1>12, <1>13, <1>14, <2>3, DecidedStays
  <2> QED
    BY <1>1, <1>3, <1>13, <1>16, <2>1, <2>2, <2>4, <2>5 DEF Transforming
<1>22. FunctionsLeft'
  BY <1>1 DEF Inv, FunctionsLeft, Returned
<1> QED
  BY <1>1, <1>18, <1>19, <1>20, <1>21, <1>22, InsideHook DEF Inv, Idle, Indexing, Filtering

-----------------------------------------------------------------------------
(* The theorems *)

LEMMA InitInv == Init => Inv
<1> SUFFICES ASSUME Init PROVE Inv
  OBVIOUS
<1>1. /\ plugins = <<>> /\ added = <<>> /\ pass = <<>> /\ ran = <<>> /\ pc = "idle"
      /\ todo = [tables |-> {}, functions |-> {}] /\ tables = <<>> /\ functions = <<>>
      /\ ix = EmptyIndex /\ idx = EmptyIndex
  BY DEF Init, Nowhere
<1>2. DOMAIN EmptyIndex = Maps
  BY DEF EmptyIndex
<1>3. <<>> \in Seq(Plugins) /\ DOMAIN <<>> = {}
  OBVIOUS
<1>4. Typed
  BY <1>1, <1>2, <1>3 DEF Typed, Inside
<1>5. Registered /\ HooksInOrder
  BY <1>1, <1>3 DEF Registered, HooksInOrder
<1>6. Proper(tables, functions)
  BY <1>1, NoCatalogProper
<1> QED
  BY <1>1, <1>4, <1>5, <1>6
  DEF Inv, Idle, Indexing, Published, AfterIndex, Filtering, Transforming, FunctionsLeft, Returned

LEMMA InvStep == Inv /\ [Next]_vars => Inv'
<1> SUFFICES ASSUME Inv, [Next]_vars PROVE Inv'
  OBVIOUS
<1>1. CASE \E p \in Plugins : Add(p)
  BY <1>1, AddStep
<1>2. CASE \E c \in Catalogs, d \in Disabled : Begin(c, d)
  BY <1>2, BeginStep
<1>3. CASE \E i \in DOMAIN pass : OtherHook(i)
  BY <1>3, OtherHookStep
<1>4. CASE \E i \in DOMAIN pass : HookFails(i)
  BY <1>4, OverStep DEF HookFails
<1>5. CASE \E i \in DOMAIN pass : Index(i)
  BY <1>5, IndexStep
<1>6. CASE \E i \in todo.tables : IndexTable(i)
  BY <1>6, IndexTableStep
<1>7. CASE \E i \in todo.tables : Apply(i)
  BY <1>7, ApplyStep
<1>8. CASE \E i \in todo.functions : IndexFunction(i)
  BY <1>8, IndexFunctionStep
<1>9. CASE Publish
  BY <1>9, PublishStep
<1>10. CASE Filter
  BY <1>10, FilterStep
<1>11. CASE Functions
  BY <1>11, FunctionsStep
<1>12. CASE Finish
  BY <1>12, OverStep DEF Finish
<1>13. CASE UNCHANGED vars
  <2>1. /\ UNCHANGED registry /\ UNCHANGED walk
        /\ UNCHANGED <<plugins, added, pass, ran>>
        /\ UNCHANGED <<pc, todo, ix, idx, tables, functions, given>>
    BY <1>13 DEF vars, registry, walk
  <2>2. Typed'
    BY <2>1 DEF Inv, Typed
  <2>3. Idle'
    BY <2>1 DEF Inv, Idle
  <2> QED
    BY <2>1, <2>2, <2>3, InsideHook, HookIdle DEF Inv
<1> QED
  BY <1>1, <1>2, <1>3, <1>4, <1>5, <1>6, <1>7, <1>8, <1>9, <1>10, <1>11, <1>12, <1>13
  DEF Next

\* The inductive invariant: what BuildIndex and the loops of
\* Hook.TransformCatalog have done so far, and what is left of the pass of
\* Registry.TransformCatalog.
THEOREM Invariance == Spec => []Inv
<1>1. Init => Inv
  BY InitInv
<1>2. Inv /\ [Next]_vars => Inv'
  BY InvStep
<1> QED
  BY <1>1, <1>2, PTL DEF Spec

\* The variables keep their types, for any catalogs, keys that name columns the
\* table has not included: the loops of Hook.TransformCatalog stay within the
\* lists they range over, and what a hook leaves of a catalog is one still.
THEOREM TypeCorrect == Spec => []TypeOK
<1>1. Inv => TypeOK
  <2> SUFFICES ASSUME Inv PROVE TypeOK
    OBVIOUS
  <2>1. Typed /\ Proper(tables, functions)
    BY DEF Inv
  <2>2. ToSet(plugins) \subseteq Plugins
    BY <2>1 DEF Typed, ToSet
  <2>3. pc \notin {"index", "apply"} => todo = Nowhere
    BY <2>1 DEF Typed, Nowhere
  <2>4. \A t \in Range(tables) : WellFormed(t)
    BY <2>1 DEF Proper, Range
  <2> QED
    BY <2>1, <2>2, <2>3, <2>4 DEF Typed, TypeOK, Inside
<1> QED
  BY <1>1, Invariance, PTL

\* Registry.TransformCatalog calls no hook out of order and none twice, however
\* many plugins Register adds while a pass is on its way.
THEOREM HooksRunInOrder == Spec => []HooksInOrder
<1>1. Inv => HooksInOrder
  BY DEF Inv
<1> QED
  BY <1>1, Invariance, PTL

\* A primary key, unique key or foreign key that Hook.TransformCatalog adds is
\* of columns there are, those of the referenced table included; of the keys the
\* catalog came with nothing is assumed and nothing said.
THEOREM LogicalKeysAreOfRealColumns == Spec => []LogicalKeysHold
<1>1. Inv => LogicalKeysHold
  <2> SUFFICES ASSUME Inv, Returned, NEW i \in DOMAIN tables
               PROVE  LET t == tables[i]  g == given.tables[i] IN
                      /\ t.pk # g.pk => Exist(t, t.pk)
                      /\ \A u \in t.uniques \ g.uniques : u.cols # <<>> /\ Exist(t, u.cols)
                      /\ \A fk \in t.fks \ g.fks :
                           /\ fk.cols # <<>> /\ Len(fk.cols) = Len(fk.refcols) /\ Exist(t, fk.cols)
                           /\ \E r \in Range(tables) : r.key = fk.ref /\ Exist(r, fk.refcols)
    BY DEF LogicalKeysHold
  <2>1. todo.tables = {} /\ i \in Visited(tables, todo.tables)
    BY DEF Inv, Typed, Returned, Visited
  <2>2. /\ LogicalKeysOf(tables[i], given.tables[i], tables)
        /\ tables[i].cols = given.tables[i].cols
    BY <2>1 DEF Inv, Transforming, AllAlike, Alike
  <2> QED
    BY <2>2 DEF LogicalKeysOf, Exist
<1> QED
  BY <1>1, Invariance, PTL

\* After BuildIndex every commented object is found under its key, also under
\* its name alone if no other object has that name; a name alone that two or
\* more commented objects share finds nothing (index.go:52).
THEOREM NamesAreFound == Spec => []FoundByName
<1>1. ASSUME NEW objects, NEW exact, NEW by, \A i \in DOMAIN objects : HasSchema(objects[i]),
             Exactly(objects, DOMAIN objects, exact), ByName(objects, DOMAIN objects, by)
      PROVE  IsFoundIn(objects, exact, by)
  <2> SUFFICES ASSUME NEW i \in DOMAIN objects, objects[i].tags # NoTags
               PROVE  LET o == objects[i]  found == TagsOf(exact, by, None, o.key[2]) IN
                      /\ Distinct(objects) => TagsOf(exact, by, o.key[1], o.key[2]) = o.tags
                      /\ Namesakes(objects, i) = {} => found = o.tags
                      /\ (\E j \in Namesakes(objects, i) : objects[j].tags # NoTags)
                           => found = NoTags
    BY DEF IsFoundIn
  <2>1. TagsOf(exact, by, objects[i].key[1], objects[i].key[2]) = Lookup(exact, objects[i].key)
    BY <1>1 DEF HasSchema, TagsOf
  <2>2. Distinct(objects) => Lookup(exact, objects[i].key) = objects[i].tags
    BY <1>1, LookupOwn
  <2>3. TagsOf(exact, by, None, objects[i].key[2]) = by[objects[i].key[2]]
    BY <1>1 DEF TagsOf, ByName, Lookup
  <2>4. by[objects[i].key[2]] =
          IF Alone(objects, DOMAIN objects, i) THEN objects[i].tags ELSE NoTags
    BY <1>1 DEF ByName
  <2>5. Namesakes(objects, i) = {} => Alone(objects, DOMAIN objects, i)
    BY DEF Namesakes, Alone
  <2>6. (\E j \in Namesakes(objects, i) : objects[j].tags # NoTags)
          => ~Alone(objects, DOMAIN objects, i)
    BY DEF Namesakes, Alone
  <2> QED
    BY <2>1, <2>2, <2>3, <2>4, <2>5, <2>6
<1>2. Inv => FoundByName
  <2> SUFFICES ASSUME Inv, Returned PROVE FoundByName
    BY DEF FoundByName
  <2>1. /\ Proper(given.tables, given.functions)
        /\ Exactly(given.tables, DOMAIN given.tables, idx.tables)
        /\ ByName(given.tables, DOMAIN given.tables, idx.tablesBy)
        /\ Exactly(given.functions, DOMAIN given.functions, idx.functions)
        /\ ByName(given.functions, DOMAIN given.functions, idx.functionsBy)
    BY DEF Inv, Published, AfterIndex
  <2> QED
    BY <1>1, <2>1 DEF Proper, FoundByName
<1> QED
  BY <1>2, Invariance, PTL

\* Where no two objects share a key of the index, Hook.TransformCatalog makes of
\* each what its own comment says: what other comments say, the order of the
\* catalog and what an earlier index held (hook.go:48) are no part of it.
THEOREM CommentsDecide == Spec => []OwnCommentsDecide
<1>1. Inv => OwnCommentsDecide
  <2> SUFFICES ASSUME Inv, Returned, Unambiguous(given) PROVE OwnCommentsDecide
    BY DEF OwnCommentsDecide
  <2> DEFINE gs == given.tables
  <2>1. todo.tables = {} /\ Visited(tables, todo.tables) = DOMAIN tables
    BY DEF Inv, Typed, Returned, Visited
  <2>2. /\ DOMAIN tables = Untouched(gs) /\ AllAlike(tables, gs)
        /\ Carried(gs, tables, DOMAIN tables, idx.constraints)
        /\ \A i \in DOMAIN tables : Decided(tables[i], gs[i], tables)
    BY <2>1 DEF Inv, Transforming
  <2>3. functions = Restrict(given.functions, Untouched(given.functions))
    BY DEF Inv, FunctionsLeft, Unambiguous
  <2>4. ASSUME NEW i \in DOMAIN tables
        PROVE  /\ tables[i].key = gs[i].key
               /\ tables[i].uniques = Kept(Uniques(gs[i], gs[i].tags))
               /\ tables[i].fks = Kept(gs[i].fks \cup
                    {ForeignKey(gs[i], f) : f \in LogicalKeys(tables, gs[i], gs[i].tags)})
               /\ tables[i].privileges = gs[i].privileges \ Omits(gs[i].tags)
               /\ tables[i].pk = PrimaryKey(gs[i], gs[i].tags)
    BY <2>2 DEF AllAlike, Alike, Decided, AllForeignKeys
  <2>5. ASSUME NEW i \in DOMAIN tables, NEW fk \in tables[i].fks
        PROVE  Lookup(idx.constraints, Key(tables[i], fk)) = fk.tags
    <3>1. i \in DOMAIN gs
      BY <2>2 DEF AllAlike
    <3>2. OwnTags(gs[i], tables, idx.constraints)
      BY <2>2, <3>1, CarriedOwn
    <3>3. fk \in AllForeignKeys(gs[i], tables)
      BY <2>4 DEF Kept, AllForeignKeys
    <3>4. Key(tables[i], fk) = Key(gs[i], fk)
      BY <2>4 DEF Key, Schema
    <3> QED
      BY <3>2, <3>3, <3>4 DEF OwnTags
  <2> QED
    BY <2>2, <2>3, <2>4, <2>5 DEF OwnCommentsDecide
<1> QED
  BY <1>1, Invariance, PTL

================================================================================
