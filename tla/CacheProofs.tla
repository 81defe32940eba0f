------------------------------ MODULE CacheProofs ------------------------------
(***************************************************************************)
(* Proofs about module Cache, for any catalogs, files, saves and loads.    *)
(*                                                                         *)
(* What a load has read is of versions it may return (Reading).  While a   *)
(* save has met no other the file is the beginning of its version, and     *)
(* after it the file stays whole until the next is created, so that a load *)
(* that no save overlaps reads a prefix of it (Undisturbed).  Of any two   *)
(* different catalogs every part of Diff that differs tells (DiffTells),   *)
(* and two lists sort to the same exactly if one is the other in some      *)
(* order (SortedReorders, ReorderedNames).                                 *)
(***************************************************************************)
EXTENDS Cache, SequenceTheorems, FiniteSetTheorems, TLAPS

Named == Versions \cup {None}
Piece == Named \X Nat

Types ==
  /\ exists \in BOOLEAN
  /\ file \in Seq(Piece)
  /\ \A i \in 1 .. Len(file) : file[i] = Hole \/ (file[i][1] \in Versions /\ file[i][2] = i)
  /\ save \in [Savers -> Named]
  /\ offset \in [Savers -> Nat]
  /\ \A s \in Savers : IF save[s] = None THEN offset[s] = 0
                                         ELSE offset[s] <= Pieces[save[s]]
  /\ alone \subseteq Savers
  /\ sure \in Named
  /\ load \in [Loaders -> BOOLEAN]
  /\ got \in [Loaders -> Seq(Piece)]
  /\ may \in [Loaders -> SUBSET Named]
  /\ due \in [Loaders -> Named]

Reading ==
  \A r \in Loaders :
    IF load[r]
      THEN /\ Current \subseteq may[r] \cup {None}
           /\ \A i \in 1 .. Len(got[r]) : got[r][i][1] \in may[r] \cup {None}
      ELSE got[r] = <<>> /\ due[r] = None

\* The first n pieces of the file of v.
IsStart(f, v, n) == Len(f) = n /\ \A i \in 1 .. n : f[i] = <<v, i>>

Undisturbed ==
  /\ \A s \in alone : Saving = {s} /\ IsStart(file, save[s], offset[s])
  /\ sure # None => /\ Saving = {} /\ Loadable(sure)
                    /\ IsStart(file, sure, Pieces[sure])
  /\ \A r \in Loaders : due[r] # None => due[r] = sure /\ IsStart(got[r], sure, Len(got[r]))
                                         /\ Len(got[r]) <= Len(file)

Replied == /\ reply.live \in Lives \cup {None}
           /\ LoadedWasSaved /\ SavedIsLoaded /\ DriftIsTold

Inv == Types /\ Reading /\ Undisturbed /\ Replied

-----------------------------------------------------------------------------
(* Files *)

\* Writing a piece: the file as a sequence.
LEMMA PutIs ==
  ASSUME Types, NEW p \in Piece, NEW i \in Nat \ {0}
  PROVE  /\ Put(p, i) \in Seq(Piece)
         /\ Len(Put(p, i)) = IF i > Len(file) THEN i ELSE Len(file)
         /\ \A j \in 1 .. Len(Put(p, i)) :
              Put(p, i)[j] = IF j = i THEN p ELSE IF j <= Len(file) THEN file[j] ELSE Hole
<1> DEFINE n == IF i > Len(file) THEN i ELSE Len(file)
           e(j) == IF j = i THEN p ELSE IF j <= Len(file) THEN file[j] ELSE Hole
           f == [j \in 1 .. n |-> e(j)]
<1>1. n \in Nat /\ Put(p, i) = f
  BY DEF Types, Put
<1>2. \A j \in 1 .. n : e(j) \in Piece
  BY DEF Types, Piece, Named, Hole
<1> HIDE DEF e, n
<1>3. f \in Seq(Piece) /\ Len(f) = n /\ \A j \in 1 .. n : f[j] = e(j)
  BY <1>1, <1>2
<1> QED
  BY <1>1, <1>3 DEF n, e

\* A whole file begins with the first piece of its version.
LEMMA WholeIs ==
  ASSUME NEW v \in Versions, NEW f \in Seq(Piece)
  PROVE  /\ f = Whole(v) <=> IsStart(f, v, Pieces[v])
         /\ f = Whole(v) => Len(f) >= 1 /\ f[1] = <<v, 1>>
<1>1. Pieces[v] \in Nat \ {0}
  BY ConstantsAssumption
<1>2. \A i \in 1 .. Pieces[v] : <<v, i>> \in Piece
  BY <1>1 DEF Piece, Named
<1>3. /\ Whole(v) \in Seq(Piece) /\ Len(Whole(v)) = Pieces[v]
      /\ \A i \in 1 .. Pieces[v] : Whole(v)[i] = <<v, i>>
  BY <1>1, <1>2 DEF Whole
<1>4. IsStart(f, v, Pieces[v]) => f = Whole(v)
  BY <1>3, SeqEqual DEF IsStart
<1> QED
  BY <1>1, <1>3, <1>4 DEF IsStart

\* Load returns the version whose file it read.
LEMMA LoadedIs ==
  ASSUME NEW f \in Seq(Piece)
  PROVE  /\ Loaded(f) # None => /\ Loaded(f) \in Versions /\ Loadable(Loaded(f))
                                /\ f = Whole(Loaded(f))
         /\ \A v \in Versions : Loadable(v) /\ f = Whole(v) => Loaded(f) = v
<1> DEFINE whole == {v \in Versions : Loadable(v) /\ f = Whole(v)}
<1>1. Loaded(f) = IF whole = {} THEN None ELSE CHOOSE v \in whole : TRUE
  BY DEF Loaded
<1>2. whole # {} => Loaded(f) \in whole
  BY <1>1
<1>3. \A v, w \in whole : v = w
  <2>1. \A v \in whole : f[1] = <<v, 1>>
    BY WholeIs
  <2>2. \A v, w : <<v, 1>> = <<w, 1>> => v = w
    OBVIOUS
  <2> QED
    BY <2>1, <2>2
<1> QED
  BY <1>1, <1>2, <1>3

-----------------------------------------------------------------------------
(* Drift *)

\* Two functions that agree are equal.
LEMMA FunctionsAgree ==
  ASSUME NEW f, NEW g, IsFunction(f), IsFunction(g), DOMAIN f = DOMAIN g,
         \A x \in DOMAIN f : f[x] = g[x]
  PROVE  f = g
<1>1. [x \in DOMAIN f |-> f[x]] = [x \in DOMAIN g |-> g[x]]
  OBVIOUS
<1> QED
  BY <1>1, Zenon DEF IsFunction

\* diffNamed names something wherever the two maps differ (diff.go:48-68).
LEMMA DiffNamedTells ==
  ASSUME NEW kind, NEW c, NEW l, IsFunction(c), IsFunction(l), c # l
  PROVE  DiffNamed(kind, c, l) # {}
<1>1. CASE DOMAIN c = DOMAIN l
  <2>1. PICK n \in DOMAIN c : c[n] # l[n]
    BY <1>1, FunctionsAgree
  <2>2. <<kind, n, "changed">> \in DiffNamed(kind, c, l)
    BY <1>1, <2>1 DEF DiffNamed
  <2> QED
    BY <2>2
<1>2. CASE DOMAIN c # DOMAIN l
  <2>1. PICK n : ~(n \in DOMAIN c <=> n \in DOMAIN l)
    BY <1>2
  <2>2. \/ <<kind, n, "removed">> \in DiffNamed(kind, c, l)
        \/ <<kind, n, "added">> \in DiffNamed(kind, c, l)
    BY <2>1 DEF DiffNamed
  <2> QED
    BY <2>2
<1> QED
  BY <1>1, <1>2

\* diffStringSet names something wherever the lists do not hold the same.
LEMMA DiffStringSetTells ==
  ASSUME NEW kind, NEW c, NEW l, ToSet(c) # ToSet(l)
  PROVE  DiffStringSet(kind, c, l) # {}
<1> DEFINE f == [s \in ToSet(c) |-> s]
           g == [s \in ToSet(l) |-> s]
<1>1. DOMAIN f = ToSet(c) /\ DOMAIN g = ToSet(l) /\ IsFunction(f) /\ IsFunction(g)
  BY DEF IsFunction
<1>2. f # g
  BY <1>1
<1> HIDE DEF f, g
<1>3. DiffNamed(kind, f, g) # {}
  BY <1>1, <1>2, DiffNamedTells
<1> QED
  BY <1>3 DEF DiffStringSet, f, g

\* Of two different tables diffTable names something (diff.go:96-129).
LEMMA DiffTableTells ==
  ASSUME NEW n, NEW c, NEW l, c # l
  PROVE  DiffTable(n, c, l) # {}
<1> DEFINE lines == DiffColumns(Columns(c), Columns(l))
<1>1. CASE lines = {}
  <2>1. DiffTable(n, c, l) = {<<"table", n, Aspects(c, l)>>}
    BY <1>1 DEF DiffTable
  <2> QED
    BY <2>1
<1>2. CASE lines # {}
  <2>1. DiffTable(n, c, l) = {<<"table", n, line>> : line \in lines}
    BY <1>2 DEF DiffTable
  <2> QED
    BY <1>2, <2>1
<1> QED
  BY <1>1, <1>2

LEMMA DiffTablesTells ==
  ASSUME NEW c, NEW l, IsFunction(c), IsFunction(l), c # l
  PROVE  DiffTables(c, l) # {}
<1>1. CASE DOMAIN c = DOMAIN l
  <2>1. PICK n \in DOMAIN c : c[n] # l[n]
    BY <1>1, FunctionsAgree
  <2>2. n \in DOMAIN c \cap DOMAIN l /\ DiffTable(n, c[n], l[n]) # {}
    BY <1>1, <2>1, DiffTableTells
  <2>3. DiffTable(n, c[n], l[n]) \subseteq DiffTables(c, l)
    BY <2>2 DEF DiffTables
  <2> QED
    BY <2>2, <2>3
<1>2. CASE DOMAIN c # DOMAIN l
  <2>1. PICK n : ~(n \in DOMAIN c <=> n \in DOMAIN l)
    BY <1>2
  <2>2. \/ <<"table", n, "removed">> \in DiffNamed("table", c, l)
        \/ <<"table", n, "added">> \in DiffNamed("table", c, l)
    BY <2>1 DEF DiffNamed
  <2>3. \/ <<"table", n, "removed">> \in DiffTables(c, l)
        \/ <<"table", n, "added">> \in DiffTables(c, l)
    BY <2>2 DEF DiffTables
  <2> QED
    BY <2>3
<1> QED
  BY <1>1, <1>2

\* How many of the elements up to the i-th have its key.
Rank(keys, i) == Cardinality({j \in 1 .. i : keys[j] = keys[i]})

\* Of two elements with one key the later has the greater rank.
LEMMA RankGrows ==
  ASSUME NEW keys, NEW i \in Nat \ {0}, NEW k \in Nat, i < k, keys[i] = keys[k]
  PROVE  /\ Rank(keys, i) \in Nat /\ Rank(keys, k) \in Nat
         /\ Rank(keys, i) < Rank(keys, k)
<1> DEFINE I == {j \in 1 .. i : keys[j] = keys[i]}
           K == {j \in 1 .. k : keys[j] = keys[k]}
<1>1. IsFiniteSet(K)
  <2>1. IsFiniteSet(1 .. k)
    BY FS_Interval
  <2>2. K \in SUBSET (1 .. k)
    OBVIOUS
  <2> HIDE DEF K
  <2> QED
    BY <2>1, <2>2, FS_Subset
<1>2. I \in SUBSET K /\ k \in K /\ k \notin I
  OBVIOUS
<1>3. Rank(keys, i) = Cardinality(I) /\ Rank(keys, k) = Cardinality(K)
  BY DEF Rank
<1> HIDE DEF I, K
<1>4. /\ IsFiniteSet(I) /\ Cardinality(I) <= Cardinality(K)
      /\ Cardinality(K) = Cardinality(I) => K = I
  BY <1>1, <1>2, FS_Subset
<1>5. Cardinality(I) \in Nat /\ Cardinality(K) \in Nat
  BY <1>1, <1>4, FS_CardinalityType
<1> QED
  BY <1>2, <1>3, <1>4, <1>5

\* Keys that are a matter of the elements.
IsKeyed(s, keys) == \A i, j \in DOMAIN s : s[i] = s[j] => keys[i] = keys[j]

\* No two elements of a list have both their value and their rank in common.
LEMMA RanksDiffer ==
  ASSUME NEW s, s \in Seq(ToSet(s)), NEW keys, IsKeyed(s, keys),
         NEW i \in DOMAIN s, NEW k \in DOMAIN s,
         s[i] = s[k], Rank(keys, i) = Rank(keys, k)
  PROVE  i = k
<1>1. DOMAIN s = 1 .. Len(s) /\ Len(s) \in Nat
  OBVIOUS
<1>2. keys[i] = keys[k]
  BY DEF IsKeyed
<1>3. CASE i < k
  BY <1>1, <1>2, <1>3, RankGrows
<1>4. CASE k < i
  BY <1>1, <1>2, <1>4, RankGrows
<1> QED
  BY <1>1, <1>3, <1>4

\* Lists that are the same when sorted are the same but for the order.
LEMMA SortedReorders ==
  ASSUME NEW s, s \in Seq(ToSet(s)), NEW sk, IsKeyed(s, sk),
         NEW t, t \in Seq(ToSet(t)), NEW tk, IsKeyed(t, tk),
         Sorted(s, sk) = Sorted(t, tk)
  PROVE  Reordered(s, t)
<1>1. /\ Sorted(s, sk) = {<<s[i], Rank(sk, i)>> : i \in DOMAIN s}
      /\ Sorted(t, tk) = {<<t[i], Rank(tk, i)>> : i \in DOMAIN t}
  BY DEF Sorted, Rank
<1>2. \A i \in DOMAIN s : \E k \in DOMAIN t : t[k] = s[i] /\ Rank(tk, k) = Rank(sk, i)
  <2> SUFFICES ASSUME NEW i \in DOMAIN s
               PROVE  \E k \in DOMAIN t : t[k] = s[i] /\ Rank(tk, k) = Rank(sk, i)
    OBVIOUS
  <2>1. <<s[i], Rank(sk, i)>> \in Sorted(t, tk)
    BY <1>1
  <2>2. PICK k \in DOMAIN t : <<t[k], Rank(tk, k)>> = <<s[i], Rank(sk, i)>>
    BY <1>1, <2>1, Zenon
  <2> QED
    BY <2>2
<1>3. \A k \in DOMAIN t : \E i \in DOMAIN s : s[i] = t[k] /\ Rank(sk, i) = Rank(tk, k)
  <2> SUFFICES ASSUME NEW k \in DOMAIN t
               PROVE  \E i \in DOMAIN s : s[i] = t[k] /\ Rank(sk, i) = Rank(tk, k)
    OBVIOUS
  <2>1. <<t[k], Rank(tk, k)>> \in Sorted(s, sk)
    BY <1>1
  <2>2. PICK i \in DOMAIN s : <<s[i], Rank(sk, i)>> = <<t[k], Rank(tk, k)>>
    BY <1>1, <2>1, Zenon
  <2> QED
    BY <2>2
<1> DEFINE Meets(i, k) == t[k] = s[i] /\ Rank(tk, k) = Rank(sk, i)
           p == [i \in DOMAIN s |-> CHOOSE k \in DOMAIN t : Meets(i, k)]
<1>4. \A i \in DOMAIN s : p[i] \in DOMAIN t /\ Meets(i, p[i])
  <2> SUFFICES ASSUME NEW i \in DOMAIN s PROVE p[i] \in DOMAIN t /\ Meets(i, p[i])
    OBVIOUS
  <2>1. \E k \in DOMAIN t : Meets(i, k)
    BY <1>2
  <2> HIDE DEF Meets
  <2> QED
    BY <2>1
<1>5. \A i \in DOMAIN s : p[i] \in DOMAIN t /\ t[p[i]] = s[i] /\ Rank(tk, p[i]) = Rank(sk, i)
  BY <1>4
<1>6. p \in [DOMAIN s -> DOMAIN t]
  BY <1>4
<1> HIDE DEF p
<1>7. \A i, k \in DOMAIN s : p[i] = p[k] => i = k
  <2> SUFFICES ASSUME NEW i \in DOMAIN s, NEW k \in DOMAIN s, p[i] = p[k] PROVE i = k
    OBVIOUS
  <2>1. s[i] = s[k] /\ Rank(sk, i) = Rank(sk, k)
    BY <1>5
  <2> QED
    BY <2>1, RanksDiffer
<1>8. \A k \in DOMAIN t : \E i \in DOMAIN s : p[i] = k
  <2> SUFFICES ASSUME NEW k \in DOMAIN t PROVE \E i \in DOMAIN s : p[i] = k
    OBVIOUS
  <2>1. PICK i \in DOMAIN s : s[i] = t[k] /\ Rank(sk, i) = Rank(tk, k)
    BY <1>3
  <2>2. p[i] \in DOMAIN t /\ t[p[i]] = t[k] /\ Rank(tk, p[i]) = Rank(tk, k)
    BY <1>5, <2>1
  <2>3. p[i] = k
    BY <2>2, RanksDiffer
  <2> QED
    BY <2>3
<1>9. p \in Bijection(DOMAIN s, DOMAIN t)
  BY <1>6, <1>7, <1>8 DEF Bijection, Injection, IsInjective, Surjection
<1> QED
  BY <1>5, <1>9 DEF Reordered

\* Where a name occurs in a list of names.
At(s, x) == {i \in DOMAIN s : s[i] = x}

\* A list of names sorted: each with the ranks up to the number it occurs.
LEMMA SortedNames ==
  ASSUME NEW s, s \in Seq(ToSet(s))
  PROVE  /\ \A x : IsFiniteSet(At(s, x)) /\ Cardinality(At(s, x)) \in Nat
         /\ \A x, n : <<x, n>> \in Sorted(s, s) <=> n \in 1 .. Cardinality(At(s, x))
         /\ \A e \in Sorted(s, s) : \E x, n : e = <<x, n>>
<1>1. DOMAIN s = 1 .. Len(s) /\ Len(s) \in Nat
  OBVIOUS
<1>2. Sorted(s, s) = {<<s[i], Rank(s, i)>> : i \in DOMAIN s}
  BY DEF Sorted, Rank
<1>3. ASSUME NEW x
      PROVE  IsFiniteSet(At(s, x)) /\ Cardinality(At(s, x)) \in Nat
  <2>1. IsFiniteSet(1 .. Len(s))
    BY <1>1, FS_Interval
  <2>2. At(s, x) \in SUBSET (1 .. Len(s))
    BY <1>1 DEF At
  <2> QED
    BY <2>1, <2>2, FS_Subset, FS_CardinalityType
<1>4. ASSUME NEW x, NEW i \in At(s, x)
      PROVE  Rank(s, i) \in 1 .. Cardinality(At(s, x))
  <2> DEFINE I == {j \in 1 .. i : s[j] = s[i]}
  <2>1. i \in I /\ I \in SUBSET At(s, x)
    BY <1>1 DEF At
  <2>2. Rank(s, i) = Cardinality(I)
    BY DEF Rank
  <2> HIDE DEF I
  <2>3. IsFiniteSet(I) /\ Cardinality(I) <= Cardinality(At(s, x))
    BY <1>3, <2>1, FS_Subset
  <2>4. Cardinality(I) \in Nat /\ Cardinality(I) # 0
    BY <2>1, <2>3, FS_CardinalityType, FS_EmptySet
  <2> QED
    BY <1>3, <2>2, <2>3, <2>4
<1>5. ASSUME NEW x, NEW n \in 1 .. Cardinality(At(s, x))
      PROVE  \E i \in At(s, x) : Rank(s, i) = n
  <2> DEFINE N == 1 .. Cardinality(At(s, x))
             f == [i \in At(s, x) |-> Rank(s, i)]
  <2>1. f \in Injection(At(s, x), N)
    <3>1. f \in [At(s, x) -> N]
      BY <1>4
    <3>2. ASSUME NEW i \in At(s, x), NEW k \in At(s, x), f[i] = f[k] PROVE i = k
      <4>1. i \in DOMAIN s /\ k \in DOMAIN s /\ s[i] = s[k] /\ Rank(s, i) = Rank(s, k)
        BY <3>2 DEF At
      <4> QED
        BY <4>1, RanksDiffer DEF IsKeyed
    <3> QED
      BY <3>1, <3>2 DEF Injection, IsInjective
  <2>2. IsFiniteSet(N) /\ Cardinality(N) = Cardinality(At(s, x))
    BY <1>3, FS_Interval
  <2>3. f \in Surjection(At(s, x), N)
    <3> HIDE DEF f, N
    <3> QED
      BY <2>1, <2>2, FS_Injection
  <2>4. PICK i \in At(s, x) : f[i] = n
    BY <2>3 DEF Surjection
  <2> QED
    BY <2>4
<1>6. ASSUME NEW x, NEW n
      PROVE  <<x, n>> \in Sorted(s, s) <=> \E i \in At(s, x) : Rank(s, i) = n
  BY <1>2 DEF At
<1>7. ASSUME NEW x, NEW n
      PROVE  <<x, n>> \in Sorted(s, s) <=> n \in 1 .. Cardinality(At(s, x))
  BY <1>4, <1>5, <1>6
<1> QED
  BY <1>2, <1>3, <1>7

\* Names in another order are the same when sorted.
LEMMA ReorderedNames ==
  ASSUME NEW s, s \in Seq(ToSet(s)), NEW t, t \in Seq(ToSet(t)), Reordered(s, t)
  PROVE  Sorted(s, s) = Sorted(t, t)
<1>1. PICK p \in Bijection(DOMAIN s, DOMAIN t) : \A i \in DOMAIN s : s[i] = t[p[i]]
  BY DEF Reordered
<1>2. /\ p \in [DOMAIN s -> DOMAIN t]
      /\ \A i, k \in DOMAIN s : p[i] = p[k] => i = k
      /\ \A k \in DOMAIN t : \E i \in DOMAIN s : p[i] = k
  BY <1>1 DEF Bijection, Injection, IsInjective, Surjection
<1>3. ASSUME NEW x PROVE Cardinality(At(s, x)) = Cardinality(At(t, x))
  <2> DEFINE f == [i \in At(s, x) |-> p[i]]
  <2>1. f \in [At(s, x) -> At(t, x)]
    BY <1>1, <1>2 DEF At
  <2>2. \A i, k \in At(s, x) : f[i] = f[k] => i = k
    BY <1>2 DEF At
  <2>3. \A k \in At(t, x) : \E i \in At(s, x) : f[i] = k
    <3> SUFFICES ASSUME NEW k \in At(t, x) PROVE \E i \in At(s, x) : p[i] = k
      OBVIOUS
    <3>1. PICK i \in DOMAIN s : p[i] = k
      BY <1>2 DEF At
    <3>2. i \in At(s, x)
      BY <1>1, <3>1 DEF At
    <3> QED
      BY <3>1, <3>2
  <2>4. f \in Bijection(At(s, x), At(t, x))
    <3> HIDE DEF f
    <3> QED
      BY <2>1, <2>2, <2>3 DEF Bijection, Injection, IsInjective, Surjection
  <2>5. ExistsBijection(At(s, x), At(t, x))
    BY <2>4 DEF ExistsBijection
  <2> QED
    BY <2>5, SortedNames, FS_Bijection
<1>4. ASSUME NEW x, NEW n PROVE <<x, n>> \in Sorted(s, s) <=> <<x, n>> \in Sorted(t, t)
  BY <1>3, SortedNames
<1>5. \A e \in Sorted(s, s) : e \in Sorted(t, t)
  BY <1>4, SortedNames
<1>6. \A e \in Sorted(t, t) : e \in Sorted(s, s)
  BY <1>4, SortedNames
<1> QED
  BY <1>5, <1>6

-----------------------------------------------------------------------------
(* Functions *)

IsAlone(fs) == \A i, j \in DOMAIN fs : fs[i].key = fs[j].key => i = j

Keys(fs) == [i \in DOMAIN fs |-> fs[i].key]

\* Without overloads every function has a rank of one, and the sorted list is
\* the set of the functions.
LEMMA SortedIs ==
  ASSUME NEW fs, fs \in Seq(ToSet(fs)), IsAlone(fs)
  PROVE  Sorted(fs, Keys(fs)) = {<<f, 1>> : f \in ToSet(fs)}
<1> DEFINE keys == Keys(fs)
<1>1. ASSUME NEW i \in DOMAIN fs
      PROVE  Cardinality({j \in 1 .. i : keys[j] = keys[i]}) = 1
  <2>1. DOMAIN fs = 1 .. Len(fs) /\ Len(fs) \in Nat /\ i \in Nat /\ 1 <= i
    OBVIOUS
  <2>2. \A j \in 1 .. i : j \in DOMAIN fs
    BY <2>1
  <2>3. {j \in 1 .. i : keys[j] = keys[i]} = {i}
    BY <2>1, <2>2 DEF IsAlone, Keys
  <2> QED
    BY <2>3, FS_Singleton
<1>2. Sorted(fs, keys) = {<<fs[i], 1>> : i \in DOMAIN fs}
  BY <1>1 DEF Sorted
<1> QED
  BY <1>2 DEF ToSet

\* Without overloads Diff's map of the functions holds each of them.
LEMMA FunctionMapIs ==
  ASSUME NEW fs, fs \in Seq(ToSet(fs)), IsAlone(fs)
  PROVE  /\ DOMAIN FunctionMap(fs) = {Signature(f) : f \in ToSet(fs)}
         /\ \A f \in ToSet(fs) : FunctionMap(fs)[Signature(f)] = f
<1> DEFINE named == [i \in DOMAIN fs |-> [sig |-> Signature(fs[i]), f |-> fs[i]]]
<1>1. FunctionMap(fs) = [s \in {x.sig : x \in ToSet(named)} |-> LastOf(named, "sig", s).f]
  BY DEF FunctionMap
<1>2. {x.sig : x \in ToSet(named)} = {Signature(f) : f \in ToSet(fs)}
  <2>1. /\ \A x \in ToSet(named) : \E i \in DOMAIN fs : x = named[i]
        /\ \A i \in DOMAIN fs : named[i] \in ToSet(named) /\ fs[i] \in ToSet(fs)
        /\ \A f \in ToSet(fs) : \E i \in DOMAIN fs : f = fs[i]
    BY DEF ToSet
  <2>2. \A i \in DOMAIN fs : named[i].sig = Signature(fs[i])
    OBVIOUS
  <2> HIDE DEF named
  <2> QED
    BY <2>1, <2>2
<1>3. ASSUME NEW i \in DOMAIN fs
      PROVE  LastOf(named, "sig", Signature(fs[i])).f = fs[i]
  <2> DEFINE Latest(k) == /\ named[k]["sig"] = Signature(fs[i])
                          /\ \A j \in DOMAIN named : named[j]["sig"] = Signature(fs[i]) => j <= k
  <2>1. \A k \in DOMAIN named : named[k]["sig"] = Signature(fs[i]) => k = i
    BY DEF Signature, IsAlone
  <2>2. i \in Nat /\ DOMAIN named = DOMAIN fs /\ named[i]["sig"] = Signature(fs[i])
    OBVIOUS
  <2>3. i \in DOMAIN named /\ Latest(i) /\ \A k \in DOMAIN named : Latest(k) => k = i
    BY <2>1, <2>2
  <2> HIDE DEF Latest
  <2>4. (CHOOSE k \in DOMAIN named : Latest(k)) = i
    BY <2>3
  <2>5. LastOf(named, "sig", Signature(fs[i])) = named[i]
    BY <2>4 DEF LastOf, Latest
  <2> QED
    BY <2>5
<1>4. \A f \in ToSet(fs) : LastOf(named, "sig", Signature(f)).f = f
  BY <1>3 DEF ToSet
<1> HIDE DEF named
<1> QED
  BY <1>1, <1>2, <1>4

LEMMA FunctionMapTells ==
  ASSUME NEW fs, fs \in Seq(ToSet(fs)), NEW gs, gs \in Seq(ToSet(gs)), IsAlone(fs), IsAlone(gs),
         FunctionMap(fs) = FunctionMap(gs)
  PROVE  ToSet(fs) \subseteq ToSet(gs)
<1> SUFFICES ASSUME NEW f \in ToSet(fs) PROVE f \in ToSet(gs)
  OBVIOUS
<1>1. FunctionMap(fs)[Signature(f)] = f /\ Signature(f) \in DOMAIN FunctionMap(fs)
  BY FunctionMapIs
<1>2. DOMAIN FunctionMap(gs) = {Signature(g) : g \in ToSet(gs)}
  BY FunctionMapIs
<1>3. PICK g \in ToSet(gs) : Signature(f) = Signature(g)
  BY <1>1, <1>2
<1>4. FunctionMap(gs)[Signature(g)] = g
  BY FunctionMapIs
<1> QED
  BY <1>1, <1>3, <1>4

\* Lists in another order hold the same.
LEMMA ReorderedSet ==
  ASSUME NEW s, NEW t, Reordered(s, t)
  PROVE  ToSet(s) = ToSet(t)
<1>1. PICK p \in Bijection(DOMAIN s, DOMAIN t) : \A i \in DOMAIN s : s[i] = t[p[i]]
  BY DEF Reordered
<1>2. /\ \A i \in DOMAIN s : p[i] \in DOMAIN t
      /\ \A k \in DOMAIN t : \E i \in DOMAIN s : p[i] = k
  BY <1>1 DEF Bijection, Injection, Surjection
<1>3. \A x : x \in ToSet(s) => x \in ToSet(t)
  BY <1>1, <1>2 DEF ToSet
<1>4. \A x : x \in ToSet(t) => x \in ToSet(s)
  BY <1>1, <1>2 DEF ToSet
<1> QED
  BY <1>3, <1>4

-----------------------------------------------------------------------------
(* Check *)

\* What Check promises of two catalogs, and that it does.
Told(c, l, drift, lines) ==
  /\ ~drift => SameButOrder(c, l)
  /\ c = l => ~drift
  /\ NoOverloads(c) /\ NoOverloads(l) =>
       /\ SameButOrder(c, l) => ~drift
       /\ Covered(c) # Covered(l) => lines # {}

\* A catalog with its two lists replaced, and perhaps its format.
With(c, format, S, F) ==
  [format |-> format, version |-> c.version, schemas |-> S, tables |-> c.tables,
   enums |-> c.enums, composites |-> c.composites, functions |-> F]

Replaced(c, S, F) == [c EXCEPT !.schemas = S, !.functions = F]
Unformatted(c, S, F) == [c EXCEPT !.format = None, !.schemas = S, !.functions = F]

LEMMA WithIs ==
  ASSUME NEW c, IsCatalog(c), NEW S, NEW F
  PROVE  /\ Replaced(c, S, F) = With(c, c.format, S, F)
         /\ Unformatted(c, S, F) = With(c, None, S, F)
<1> DEFINE f1 == c.format
           f2 == c.version
           f3 == c.schemas
           f4 == c.tables
           f5 == c.enums
           f6 == c.composites
           f7 == c.functions
<1>1. c = [format |-> f1, version |-> f2, schemas |-> f3, tables |-> f4, enums |-> f5,
           composites |-> f6, functions |-> f7]
  BY DEF IsCatalog
<1> HIDE DEF f1, f2, f3, f4, f5, f6, f7
<1>2. /\ c.format = f1 /\ c.version = f2 /\ c.tables = f4 /\ c.enums = f5
      /\ c.composites = f6
  BY <1>1
<1> DEFINE e == [c EXCEPT !.schemas = S]
           g == [e EXCEPT !.functions = F]
           n == [g EXCEPT !.format = None]
<1>3. e = [format |-> f1, version |-> f2, schemas |-> S, tables |-> f4, enums |-> f5,
           composites |-> f6, functions |-> f7]
  BY <1>1
<1>4. [c EXCEPT !.schemas = S, !.functions = F] = g
  BY Zenon
<1>5. [c EXCEPT !.format = None, !.schemas = S, !.functions = F] = n
  BY <1>1
<1> HIDE DEF e
<1>6. g = [format |-> f1, version |-> f2, schemas |-> S, tables |-> f4, enums |-> f5,
           composites |-> f6, functions |-> F]
  BY <1>3
<1> HIDE DEF g
<1>7. n = [format |-> None, version |-> f2, schemas |-> S, tables |-> f4, enums |-> f5,
           composites |-> f6, functions |-> F]
  BY <1>6
<1> HIDE DEF n
<1> QED
  BY <1>2, <1>4, <1>5, <1>6, <1>7 DEF With, Replaced, Unformatted

\* The same in everything but the lists and the format.
Alike(c, l) ==
  /\ c.version = l.version /\ c.tables = l.tables
  /\ c.enums = l.enums /\ c.composites = l.composites

LEMMA WithSame ==
  ASSUME NEW c, NEW l, NEW f, NEW g, NEW S, NEW T, NEW F, NEW G
  PROVE  With(c, f, S, F) = With(l, g, T, G)
           <=> Alike(c, l) /\ f = g /\ S = T /\ F = G
  BY DEF With, Alike

\* The parts of a catalog the sum and the comparisons are made of.
LEMMA Parts ==
  ASSUME NEW c, NEW l, IsCatalog(c), IsCatalog(l)
  PROVE  /\ Hash(c) = Hash(l) <=>
              /\ Alike(c, l) /\ c.format = l.format
              /\ Sorted(c.schemas, c.schemas) = Sorted(l.schemas, l.schemas)
              /\ Sorted(c.functions, Keys(c.functions)) = Sorted(l.functions, Keys(l.functions))
         /\ SameButOrder(c, l) <=>
              /\ Alike(c, l) /\ c.format = l.format
              /\ Reordered(c.schemas, l.schemas) /\ Reordered(c.functions, l.functions)
         /\ Covered(c) = Covered(l) <=>
              /\ Alike(c, l) /\ ToSet(c.schemas) = ToSet(l.schemas)
              /\ ToSet(c.functions) = ToSet(l.functions)
<1>1. ASSUME NEW d, IsCatalog(d)
      PROVE  /\ Hash(d) = With(d, d.format, Sorted(d.schemas, d.schemas),
                                            Sorted(d.functions, Keys(d.functions)))
             /\ Covered(d) = With(d, None, ToSet(d.schemas), ToSet(d.functions))
             /\ [d EXCEPT !.schemas = None, !.functions = None]
                  = With(d, d.format, None, None)
  <2>1. Hash(d) = Replaced(d, Sorted(d.schemas, d.schemas), Sorted(d.functions, Keys(d.functions)))
    BY DEF Hash, Keys, Replaced
  <2>2. Covered(d) = Unformatted(d, ToSet(d.schemas), ToSet(d.functions))
    BY DEF Covered, Unformatted
  <2>3. [d EXCEPT !.schemas = None, !.functions = None] = Replaced(d, None, None)
    BY DEF Replaced
  <2> QED
    BY <1>1, <2>1, <2>2, <2>3, WithIs
<1>2. Hash(c) = Hash(l) <=>
        /\ Alike(c, l) /\ c.format = l.format
        /\ Sorted(c.schemas, c.schemas) = Sorted(l.schemas, l.schemas)
        /\ Sorted(c.functions, Keys(c.functions)) = Sorted(l.functions, Keys(l.functions))
  <2> DEFINE S == Sorted(c.schemas, c.schemas)
             F == Sorted(c.functions, Keys(c.functions))
             T == Sorted(l.schemas, l.schemas)
             G == Sorted(l.functions, Keys(l.functions))
  <2>1. Hash(c) = With(c, c.format, S, F) /\ Hash(l) = With(l, l.format, T, G)
    BY <1>1
  <2> HIDE DEF S, F, T, G
  <2>2. With(c, c.format, S, F) = With(l, l.format, T, G)
          <=> Alike(c, l) /\ c.format = l.format /\ S = T /\ F = G
    BY WithSame
  <2> QED
    BY <2>1, <2>2 DEF S, F, T, G
<1>3. SameButOrder(c, l) <=>
        /\ Alike(c, l) /\ c.format = l.format
        /\ Reordered(c.schemas, l.schemas) /\ Reordered(c.functions, l.functions)
  <2>1. /\ [c EXCEPT !.schemas = None, !.functions = None] = With(c, c.format, None, None)
        /\ [l EXCEPT !.schemas = None, !.functions = None] = With(l, l.format, None, None)
    BY <1>1
  <2>2. With(c, c.format, None, None) = With(l, l.format, None, None)
          <=> Alike(c, l) /\ c.format = l.format
    BY WithSame
  <2>3. [c EXCEPT !.schemas = None, !.functions = None]
            = [l EXCEPT !.schemas = None, !.functions = None]
          <=> Alike(c, l) /\ c.format = l.format
    BY <2>1, <2>2
  <2> QED
    BY <2>3, Zenon DEF SameButOrder
<1>4. Covered(c) = Covered(l) <=>
        /\ Alike(c, l) /\ ToSet(c.schemas) = ToSet(l.schemas)
        /\ ToSet(c.functions) = ToSet(l.functions)
  <2>1. /\ Covered(c) = With(c, None, ToSet(c.schemas), ToSet(c.functions))
        /\ Covered(l) = With(l, None, ToSet(l.schemas), ToSet(l.functions))
    BY <1>1
  <2>2. With(c, None, ToSet(c.schemas), ToSet(c.functions))
            = With(l, None, ToSet(l.schemas), ToSet(l.functions))
          <=> /\ Alike(c, l) /\ ToSet(c.schemas) = ToSet(l.schemas)
              /\ ToSet(c.functions) = ToSet(l.functions)
    BY WithSame
  <2> QED
    BY <2>1, <2>2
<1> QED
  BY <1>2, <1>3, <1>4

\* Where something differs that Diff looks at it names something.
LEMMA DiffTells ==
  ASSUME NEW c, NEW l, IsCatalog(c), IsCatalog(l), NoOverloads(c), NoOverloads(l),
         Covered(c) # Covered(l)
  PROVE  Diff(c, l) # {}
<1>1. \/ c.version # l.version \/ ToSet(c.schemas) # ToSet(l.schemas)
      \/ c.tables # l.tables \/ c.enums # l.enums \/ c.composites # l.composites
      \/ ToSet(c.functions) # ToSet(l.functions)
  BY Parts DEF Alike
<1>2. CASE c.version # l.version
  BY <1>2 DEF Diff
<1>3. CASE ToSet(c.schemas) # ToSet(l.schemas)
  BY <1>3, DiffStringSetTells DEF Diff
<1>4. CASE c.tables # l.tables
  BY <1>4, DiffTablesTells DEF Diff, IsCatalog
<1>5. CASE c.enums # l.enums
  BY <1>5, DiffNamedTells DEF Diff, IsCatalog
<1>6. CASE c.composites # l.composites
  BY <1>6, DiffNamedTells DEF Diff, IsCatalog
<1>7. CASE ToSet(c.functions) # ToSet(l.functions)
  <2> DEFINE fs == c.functions
             gs == l.functions
  <2>1. fs \in Seq(ToSet(fs)) /\ gs \in Seq(ToSet(gs)) /\ IsAlone(fs) /\ IsAlone(gs)
    BY DEF IsCatalog, NoOverloads, IsAlone
  <2>2. FunctionMap(fs) # FunctionMap(gs)
    <3> HIDE DEF fs, gs
    <3>1. FunctionMap(fs) = FunctionMap(gs) => ToSet(fs) \subseteq ToSet(gs)
      BY <2>1, FunctionMapTells
    <3>2. FunctionMap(fs) = FunctionMap(gs) => ToSet(gs) \subseteq ToSet(fs)
      BY <2>1, FunctionMapTells
    <3> QED
      BY <1>7, <3>1, <3>2 DEF fs, gs
  <2>3. IsFunction(FunctionMap(fs)) /\ IsFunction(FunctionMap(gs))
    BY DEF IsFunction, FunctionMap
  <2>4. DiffNamed("function", FunctionMap(fs), FunctionMap(gs)) # {}
    BY <2>2, <2>3, DiffNamedTells
  <2> QED
    BY <2>4 DEF Diff
<1> QED
  BY <1>1, <1>2, <1>3, <1>4, <1>5, <1>6, <1>7

\* Catalogs with one sum are the same but for the order.
LEMMA HashTells ==
  ASSUME NEW c, NEW l, IsCatalog(c), IsCatalog(l), Hash(c) = Hash(l)
  PROVE  SameButOrder(c, l)
<1>1. /\ IsKeyed(c.schemas, c.schemas) /\ IsKeyed(l.schemas, l.schemas)
      /\ IsKeyed(c.functions, Keys(c.functions)) /\ IsKeyed(l.functions, Keys(l.functions))
  BY DEF IsKeyed, Keys
<1>2. Reordered(c.schemas, l.schemas) /\ Reordered(c.functions, l.functions)
  BY <1>1, Parts, SortedReorders DEF IsCatalog
<1> QED
  BY <1>2, Parts

\* Without overloads the order does not change the sum.
LEMMA OrderIsNotHashed ==
  ASSUME NEW c, NEW l, IsCatalog(c), IsCatalog(l), NoOverloads(c), NoOverloads(l),
         SameButOrder(c, l)
  PROVE  Hash(c) = Hash(l)
<1>1. Reordered(c.schemas, l.schemas) /\ Reordered(c.functions, l.functions)
  BY DEF SameButOrder
<1>2. Sorted(c.schemas, c.schemas) = Sorted(l.schemas, l.schemas)
  BY <1>1, ReorderedNames DEF IsCatalog
<1>3. IsAlone(c.functions) /\ IsAlone(l.functions)
  BY DEF NoOverloads, IsAlone
<1>4. ToSet(c.functions) = ToSet(l.functions)
  BY <1>1, ReorderedSet
<1>5. /\ Sorted(c.functions, Keys(c.functions)) = {<<f, 1>> : f \in ToSet(c.functions)}
      /\ Sorted(l.functions, Keys(l.functions)) = {<<f, 1>> : f \in ToSet(l.functions)}
  BY <1>3, SortedIs DEF IsCatalog
<1> QED
  BY <1>2, <1>4, <1>5, Parts

LEMMA ComparedTells ==
  ASSUME NEW v \in Versions, NEW l \in Lives, l # None
  PROVE  Told(Content[v], Content[l], Compared(v, l).drift, Compared(v, l).lines)
<1> DEFINE c == Content[v]
           d == Content[l]
           r == Compared(v, l)
<1>1. IsCatalog(c) /\ IsCatalog(d)
  BY ContentAssumption
<1>2. /\ r.drift = (Hash(c) # Hash(d))
      /\ r.lines = IF r.drift THEN Diff(c, d) ELSE {}
  BY ConstantsAssumption DEF Compared, Silent
<1> HIDE DEF c, d, r
<1>3. ~r.drift => SameButOrder(c, d)
  BY <1>1, <1>2, HashTells
<1>4. c = d => ~r.drift
  BY <1>2
<1>5. ASSUME NoOverloads(c), NoOverloads(d), SameButOrder(c, d) PROVE ~r.drift
  BY <1>1, <1>2, <1>5, OrderIsNotHashed
<1>6. ASSUME NoOverloads(c), NoOverloads(d), Covered(c) # Covered(d) PROVE r.lines # {}
  <2>1. ~SameButOrder(c, d)
    <3>1. SameButOrder(c, d) => Covered(c) = Covered(d)
      BY <1>1, Parts, ReorderedSet
    <3> QED
      BY <1>6, <3>1
  <2> QED
    BY <1>1, <1>2, <1>3, <1>6, <2>1, DiffTells
<1>7. Told(c, d, r.drift, r.lines)
  BY <1>3, <1>4, <1>5, <1>6 DEF Told
<1> QED
  BY <1>7 DEF c, d, r

-----------------------------------------------------------------------------
(* The invariant *)

LEMMA InitInv == Init => Inv
<1> SUFFICES ASSUME Init PROVE Inv
  OBVIOUS
<1>1. Types
  <2>1. <<>> \in Seq(Piece) /\ Len(<<>>) = 0 /\ None \in Named
    BY DEF Named
  <2>2. /\ exists \in BOOLEAN /\ file = <<>> /\ sure = None /\ alone = {}
        /\ save \in [Savers -> Named] /\ offset \in [Savers -> Nat]
        /\ \A s \in Savers : save[s] = None /\ offset[s] = 0
    BY <2>1 DEF Init
  <2>3. /\ load \in [Loaders -> BOOLEAN] /\ got \in [Loaders -> Seq(Piece)]
        /\ may \in [Loaders -> SUBSET Named] /\ due \in [Loaders -> Named]
    BY <2>1 DEF Init
  <2> QED
    BY <2>1, <2>2, <2>3 DEF Types
<1>2. Reading
  BY DEF Init, Reading
<1>3. Undisturbed
  BY DEF Init, Undisturbed
<1>4. Replied
  BY DEF Init, Replied, Silent, LoadedWasSaved, SavedIsLoaded, DriftIsTold
<1> QED
  BY <1>1, <1>2, <1>3, <1>4 DEF Inv

LEMMA CreateStep ==
  ASSUME Inv, NEW s \in Savers, NEW v \in Versions, Create(s, v)
  PROVE  Inv'
<1> USE DEF Inv
<1>1. /\ exists' = TRUE /\ file' = <<>> /\ save' = [save EXCEPT ![s] = v]
      /\ offset' = [offset EXCEPT ![s] = 0] /\ save[s] = None
      /\ alone' = (IF Saving = {} THEN {s} ELSE {}) /\ sure' = None
      /\ may' = [r \in Loaders |-> may[r] \cup IF load[r] THEN {v} ELSE {}]
      /\ due' = [r \in Loaders |-> None] /\ load' = load /\ got' = got
      /\ reply' = Silent
  BY DEF Create, Created, Quiet
<1>2. v \in Named /\ v # None
  BY ConstantsAssumption DEF Named
<1>3. Types'
  <2>1. /\ file' \in Seq(Piece) /\ Len(file') = 0 /\ exists' \in BOOLEAN
        /\ save' \in [Savers -> Named] /\ offset' \in [Savers -> Nat]
        /\ alone' \subseteq Savers /\ sure' \in Named
        /\ due' \in [Loaders -> Named] /\ may' \in [Loaders -> SUBSET Named]
    BY <1>1, <1>2 DEF Types, Named
  <2>2. ASSUME NEW q \in Savers
        PROVE  IF save'[q] = None THEN offset'[q] = 0 ELSE offset'[q] <= Pieces[save'[q]]
    BY <1>1, <1>2, ConstantsAssumption DEF Types
  <2> QED
    BY <1>1, <2>1, <2>2 DEF Types
<1>4. Current' \subseteq Current \cup {v}
  BY <1>1 DEF Current, Saving, Types
<1>5. Reading'
  BY <1>1, <1>4 DEF Reading, Types
<1>6. Undisturbed'
  <2>1. Saving = {} => Saving' = {s}
    BY <1>1, <1>2 DEF Saving, Types
  <2>2. s \in Savers /\ save'[s] = v /\ offset'[s] = 0
    BY <1>1 DEF Types
  <2>3. IsStart(<<>>, v, 0)
    BY DEF IsStart
  <2> QED
    BY <1>1, <2>1, <2>2, <2>3 DEF Undisturbed
<1>7. Replied'
  BY <1>1 DEF Replied, Silent, LoadedWasSaved, SavedIsLoaded, DriftIsTold
<1> QED
  BY <1>3, <1>5, <1>6, <1>7

LEMMA WriteStep ==
  ASSUME Inv, NEW s \in Savers, Write(s)
  PROVE  Inv'
<1> USE DEF Inv
<1> DEFINE i == offset[s] + 1
           p == <<save[s], i>>
<1>1. /\ save[s] \in Versions /\ i \in Nat \ {0} /\ i <= Pieces[save[s]]
      /\ Pieces[save[s]] \in Nat
  BY ConstantsAssumption DEF Write, Types, Named
<1>2. /\ offset' = [offset EXCEPT ![s] = i] /\ file' = Put(p, i)
      /\ reply' = Silent
      /\ UNCHANGED <<exists, save, alone, sure, load, got, may, due>>
  BY <1>1 DEF Write, Types, Quiet, loading
<1>3. /\ file' \in Seq(Piece)
      /\ Len(file') = IF i > Len(file) THEN i ELSE Len(file)
      /\ \A j \in 1 .. Len(file') :
           file'[j] = IF j = i THEN p ELSE IF j <= Len(file) THEN file[j] ELSE Hole
  <2>1. p \in Piece
    BY <1>1 DEF Piece, Named
  <2>2. i \in Nat \ {0} /\ file' = Put(p, i)
    BY <1>1, <1>2
  <2> HIDE DEF i, p
  <2> QED
    BY <2>1, <2>2, PutIs
<1> HIDE DEF i
<1>4. Types'
  <2>1. \A j \in 1 .. Len(file') :
          file'[j] = Hole \/ (file'[j][1] \in Versions /\ file'[j][2] = j)
    <3> TAKE j \in 1 .. Len(file')
    <3>1. CASE j = i
      BY <1>1, <1>3, <3>1
    <3>2. CASE j # i
      <4>1. file'[j] = IF j <= Len(file) THEN file[j] ELSE Hole
        BY <1>3, <3>2
      <4>2. j \in Nat /\ 1 <= j /\ Len(file) \in Nat
        BY <1>1, <1>3 DEF Types
      <4>3. j <= Len(file) => j \in 1 .. Len(file)
        BY <4>2
      <4> QED
        BY <4>1, <4>3 DEF Types
    <3> QED
      BY <3>1, <3>2
  <2>2. /\ offset' \in [Savers -> Nat]
        /\ \A q \in Savers : IF save'[q] = None THEN offset'[q] = 0
                             ELSE offset'[q] <= Pieces[save'[q]]
    BY <1>1, <1>2, ConstantsAssumption DEF Types
  <2> QED
    BY <1>2, <1>3, <2>1, <2>2 DEF Types
<1>5. Current' \subseteq Current \cup {None}
  <2>1. Saving' = Saving /\ s \in Saving
    BY <1>1, <1>2, ConstantsAssumption DEF Saving
  <2>2. ASSUME NEW j \in DOMAIN file'
        PROVE  file'[j][1] \in Current \cup {None}
    <3>1. j \in 1 .. Len(file') /\ j \in Nat
      BY <1>3, <2>2
    <3>2. \/ file'[j] = p \/ file'[j] = Hole
          \/ (j \in DOMAIN file /\ file'[j] = file[j])
      <4>1. Len(file) \in Nat /\ DOMAIN file = 1 .. Len(file) /\ 1 <= j
        BY <1>1, <1>3, <3>1 DEF Types
      <4>2. j <= Len(file) => j \in DOMAIN file
        BY <3>1, <4>1
      <4> QED
        BY <1>3, <3>1, <4>2, Zenon
    <3> QED
      BY <2>1, <3>2 DEF Current, Hole
  <2> QED
    BY <1>2, <2>1, <2>2 DEF Current
<1>6. Reading'
  BY <1>2, <1>5 DEF Reading
<1>7. Undisturbed'
  <2>1. Saving' = Saving /\ s \in Saving
    BY <1>1, <1>2, ConstantsAssumption DEF Saving
  <2>2. ASSUME NEW q \in alone
        PROVE  Saving' = {q} /\ IsStart(file', save'[q], offset'[q])
    <3>1. q = s /\ Saving = {s} /\ IsStart(file, save[s], offset[s])
      BY <2>1, <2>2 DEF Undisturbed
    <3>2. Len(file) = offset[s] /\ offset[s] \in Nat
      BY <3>1 DEF IsStart, Types
    <3>3. Len(file') = i
      BY <1>3, <3>2 DEF i
    <3>4. \A j \in 1 .. i : file'[j] = <<save[s], j>>
      BY <1>3, <3>1, <3>2, <3>3 DEF IsStart, i
    <3>5. offset'[s] = i /\ save' = save
      BY <1>2 DEF Types
    <3> QED
      BY <2>1, <3>1, <3>3, <3>4, <3>5 DEF IsStart
  <2>3. sure = None /\ \A r \in Loaders : due[r] = None
    BY <2>1 DEF Undisturbed
  <2> QED
    BY <1>2, <2>2, <2>3 DEF Undisturbed
<1>8. Replied'
  BY <1>2 DEF Replied, Silent, LoadedWasSaved, SavedIsLoaded, DriftIsTold
<1> QED
  BY <1>4, <1>6, <1>7, <1>8

\* The end of a save, whether it succeeded or not.
LEMMA GoneStep ==
  ASSUME Inv, NEW s \in Savers, Saved(s) \/ SaveFails(s)
  PROVE  Inv'
<1> USE DEF Inv
<1>1. /\ save[s] \in Versions /\ s \in Saving
      /\ save' = [save EXCEPT ![s] = None] /\ offset' = [offset EXCEPT ![s] = 0]
      /\ alone' = alone \ {s} /\ reply' = Silent
      /\ UNCHANGED <<exists, file, load, got, may, due>>
  BY DEF Saved, SaveFails, Gone, Quiet, loading, Types, Named, Saving
<1>2. \/ sure' = sure
      \/ s \in alone /\ Loadable(save[s]) /\ sure' = save[s] /\ offset[s] = Pieces[save[s]]
  BY DEF Saved, SaveFails
<1>3. Saving' = Saving \ {s}
  BY <1>1 DEF Saving, Types
<1>4. Types'
  BY <1>1, <1>2 DEF Types, Named
<1>5. Current' \subseteq Current
  BY <1>1, <1>3 DEF Current, Types
<1>6. Reading'
  BY <1>1, <1>5 DEF Reading
<1>7. sure = None /\ \A r \in Loaders : due[r] = None
  BY <1>1 DEF Undisturbed
<1>8. \A q \in alone : q = s
  BY <1>1 DEF Undisturbed
<1>9. Undisturbed'
  <2>1. alone' = {} /\ \A r \in Loaders : due'[r] = None
    BY <1>1, <1>7, <1>8
  <2>2. ASSUME sure' # None
        PROVE  Saving' = {} /\ Loadable(sure') /\ IsStart(file', sure', Pieces[sure'])
    BY <1>1, <1>2, <1>3, <1>7, <2>2 DEF Undisturbed
  <2> QED
    BY <2>1, <2>2 DEF Undisturbed
<1>10. Replied'
  BY <1>1 DEF Replied, Silent, LoadedWasSaved, SavedIsLoaded, DriftIsTold
<1> QED
  BY <1>4, <1>6, <1>9, <1>10

LEMMA OpenStep ==
  ASSUME Inv, NEW r \in Loaders, Open(r)
  PROVE  Inv'
<1> USE DEF Inv
<1>1. /\ ~load[r] /\ load' = [load EXCEPT ![r] = TRUE]
      /\ may' = [may EXCEPT ![r] = Current] /\ due' = [due EXCEPT ![r] = sure]
      /\ reply' = Silent
      /\ UNCHANGED <<exists, file, save, offset, alone, sure, got>>
  BY DEF Open, Quiet, saving
<1>2. Current \subseteq Named
  BY DEF Current, Types, Piece, Saving
<1>3. Types'
  BY <1>1, <1>2 DEF Types
<1>4. Current' = Current /\ Saving' = Saving
  BY <1>1 DEF Current, Saving
<1>5. got[r] = <<>>
  BY <1>1 DEF Reading
<1>6. Reading'
  BY <1>1, <1>4, <1>5 DEF Reading, Types
<1>7. Undisturbed'
  <2>1. \A q \in Loaders : due'[q] # None => due'[q] = sure /\ IsStart(got[q], sure, Len(got[q]))
                                             /\ Len(got[q]) <= Len(file)
    BY <1>1, <1>5 DEF Undisturbed, Types, IsStart
  <2> QED
    BY <1>1, <1>4, <2>1 DEF Undisturbed
<1>8. Replied'
  BY <1>1 DEF Replied, Silent, LoadedWasSaved, SavedIsLoaded, DriftIsTold
<1> QED
  BY <1>3, <1>6, <1>7, <1>8

LEMMA ReadStep ==
  ASSUME Inv, NEW r \in Loaders, Read(r)
  PROVE  Inv'
<1> USE DEF Inv
<1> DEFINE n == Len(got[r])
           g == Append(got[r], file[n + 1])
<1>1. /\ load[r] /\ n < Len(file) /\ got' = [got EXCEPT ![r] = g]
      /\ reply' = Silent
      /\ UNCHANGED <<exists, file, save, offset, alone, sure, load, may, due>>
  BY DEF Read, Quiet, saving
<1>2. n \in Nat /\ Len(file) \in Nat /\ n + 1 \in 1 .. Len(file)
      /\ n + 1 \in DOMAIN file /\ file[n + 1] \in Piece
  BY <1>1 DEF Types
<1>3. /\ g \in Seq(Piece) /\ Len(g) = n + 1
      /\ \A i \in 1 .. n : g[i] = got[r][i]
      /\ g[n + 1] = file[n + 1]
  BY <1>2 DEF Types
<1> HIDE DEF g
<1>4. Types'
  BY <1>1, <1>3 DEF Types
<1>5. Current' = Current /\ Saving' = Saving
  BY <1>1 DEF Current, Saving
<1>6. file[n + 1][1] \in Current
  BY <1>2 DEF Current
<1>7. \A i \in 1 .. n + 1 : i \in 1 .. n \/ i = n + 1
  BY <1>2
<1>8. Reading'
  <2>1. ASSUME NEW i \in 1 .. Len(g) PROVE g[i][1] \in may[r] \cup {None}
    BY <1>1, <1>3, <1>6, <1>7 DEF Reading
  <2>2. \A q \in Loaders : got'[q] = IF q = r THEN g ELSE got[q]
    BY <1>1 DEF Types
  <2> QED
    BY <1>1, <1>5, <2>1, <2>2 DEF Reading
<1>9. Undisturbed'
  <2>1. ASSUME due[r] # None
        PROVE  IsStart(g, sure, Len(g)) /\ Len(g) <= Len(file)
    <3>1. IsStart(got[r], sure, n) /\ sure # None /\ IsStart(file, sure, Len(file))
      BY <2>1 DEF Undisturbed, IsStart
    <3>2. file[n + 1] = <<sure, n + 1>>
      BY <1>2, <3>1 DEF IsStart
    <3>3. \A i \in 1 .. n : g[i] = <<sure, i>>
      BY <1>3, <3>1 DEF IsStart
    <3>4. \A i \in 1 .. n + 1 : g[i] = <<sure, i>>
      BY <1>3, <1>7, <3>2, <3>3, Zenon
    <3>5. Len(g) = n + 1 /\ n + 1 <= Len(file)
      BY <1>2, <1>3
    <3> QED
      BY <3>4, <3>5 DEF IsStart
  <2>2. \A q \in Loaders : got'[q] = IF q = r THEN g ELSE got[q]
    BY <1>1 DEF Types
  <2> QED
    BY <1>1, <1>5, <2>1, <2>2 DEF Undisturbed
<1>10. Replied'
  BY <1>1 DEF Replied, Silent, LoadedWasSaved, SavedIsLoaded, DriftIsTold
<1> QED
  BY <1>4, <1>8, <1>9, <1>10

LEMMA ReturnStep ==
  ASSUME Inv, NEW r \in Loaders, NEW l \in Lives \cup {None}, Return(r, l)
  PROVE  Inv'
<1> USE DEF Inv
<1>1. /\ load[r] /\ Len(got[r]) >= Len(file)
      /\ reply' = [Compared(Loaded(got[r]), l) EXCEPT !.may = may[r], !.due = due[r]]
      /\ load' = [load EXCEPT ![r] = FALSE] /\ got' = [got EXCEPT ![r] = <<>>]
      /\ may' = [may EXCEPT ![r] = {}] /\ due' = [due EXCEPT ![r] = None]
      /\ UNCHANGED <<exists, file, save, offset, alone, sure>>
  BY DEF Return, saving
<1>2. /\ reply'.version = Loaded(got[r]) /\ reply'.live = l
      /\ reply'.may = may[r] /\ reply'.due = due[r]
  BY <1>1 DEF Compared, Silent
<1>3. Types'
  BY <1>1 DEF Types, Named
<1>4. Current' = Current /\ Saving' = Saving
  BY <1>1 DEF Current, Saving
<1>5. Reading'
  BY <1>1, <1>4 DEF Reading, Types
<1>6. Undisturbed'
  BY <1>1, <1>4 DEF Undisturbed, Types
<1>7. got[r] \in Seq(Piece)
  BY DEF Types
<1>8. ASSUME Loaded(got[r]) # None
      PROVE  Loaded(got[r]) \in may[r] /\ Loadable(Loaded(got[r]))
  <2> DEFINE v == Loaded(got[r])
  <2>1. v \in Versions /\ Loadable(v) /\ got[r] = Whole(v)
    BY <1>7, <1>8, LoadedIs
  <2>2. Len(got[r]) >= 1 /\ got[r][1] = <<v, 1>>
    BY <1>7, <2>1, WholeIs
  <2>3. got[r][1][1] \in may[r] \cup {None}
    BY <1>1, <1>7, <2>2 DEF Reading
  <2> HIDE DEF v
  <2>4. v \in may[r] \cup {None} /\ v # None
    BY <2>1, <2>2, <2>3, ConstantsAssumption
  <2> QED
    BY <2>1, <2>4 DEF v
<1>9. ASSUME due[r] # None PROVE Loaded(got[r]) = due[r]
  <2>1. /\ due[r] = sure /\ sure \in Versions /\ Loadable(sure)
        /\ IsStart(got[r], sure, Len(got[r])) /\ Len(got[r]) <= Len(file)
        /\ IsStart(file, sure, Pieces[sure])
    BY <1>9 DEF Undisturbed, Types, Named
  <2>2. Len(got[r]) = Pieces[sure]
    BY <1>1, <1>7, <2>1 DEF IsStart, Types
  <2> QED
    BY <1>7, <2>1, <2>2, WholeIs, LoadedIs
<1>10. DriftIsTold'
  <2> SUFFICES ASSUME reply'.version # None, reply'.live # None PROVE DriftIsTold'
    BY DEF DriftIsTold
  <2> DEFINE v == Loaded(got[r])
  <2>1. v \in Versions /\ l \in Lives /\ l # None
    BY <1>2, <1>7, LoadedIs
  <2>2. /\ reply'.version = v /\ reply'.live = l
        /\ reply'.drift = Compared(v, l).drift /\ reply'.lines = Compared(v, l).lines
    BY <1>1 DEF Compared, Silent
  <2> HIDE DEF v
  <2>3. Told(Content[v], Content[l], Compared(v, l).drift, Compared(v, l).lines)
    BY <2>1, ComparedTells
  <2> QED
    BY <2>2, <2>3 DEF Told, DriftIsTold
<1>11. Replied'
  BY <1>2, <1>8, <1>9, <1>10 DEF Replied, LoadedWasSaved, SavedIsLoaded
<1> QED
  BY <1>3, <1>5, <1>6, <1>11

\* The inductive invariant.
THEOREM Invariance == Spec => []Inv
<1>1. Inv /\ [Next]_vars => Inv'
  <2> SUFFICES ASSUME Inv, [Next]_vars PROVE Inv'
    OBVIOUS
  <2>1. CASE UNCHANGED vars
    BY <2>1 DEF vars, saving, loading, Inv, Types, Reading, Undisturbed, Replied,
                Current, Saving, LoadedWasSaved, SavedIsLoaded, DriftIsTold
  <2>2. CASE Next
    BY <2>2, CreateStep, WriteStep, GoneStep, OpenStep, ReadStep, ReturnStep DEF Next
  <2> QED
    BY <2>1, <2>2
<1> QED
  BY <1>1, InitInv, PTL DEF Spec

-----------------------------------------------------------------------------
(* Theorems *)

\* Type correctness, and nobody writes past the end of its file
\* (cache.go:30-54).
THEOREM TypeCorrect == Spec => []TypeOK
<1>1. Inv => TypeOK
  <2> SUFFICES ASSUME Inv PROVE TypeOK
    OBVIOUS
  <2>1. \A i \in DOMAIN file : file[i] = Hole \/ \E v \in Versions :
          file[i][1] = v /\ file[i][2] = i
    <3>1. DOMAIN file = 1 .. Len(file)
      BY DEF Inv, Types
    <3>2. \A i \in 1 .. Len(file) :
            file[i] = Hole \/ (file[i][1] \in Versions /\ file[i][2] = i)
      BY DEF Inv, Types
    <3> QED
      BY <3>1, <3>2, Zenon
  <2>2. ASSUME NEW s \in Savers
        PROVE  /\ save[s] \in Versions \cup {None}
               /\ offset[s] \in 0 .. IF save[s] = None THEN 0 ELSE Pieces[save[s]]
    BY ConstantsAssumption DEF Inv, Types, Named
  <2>3. alone \subseteq Saving
    BY DEF Inv, Undisturbed
  <2> QED
    BY <2>1, <2>2, <2>3 DEF Inv, Types, Named, Replied, TypeOK
<1> QED
  BY <1>1, Invariance, PTL

\* However saves overlap, fail and are killed, a load returns an error or one
\* whole catalog of a Save that the file held something of when the load began,
\* or that began since (cache.go:55-93).
THEOREM LoadsWereSaved == Spec => []LoadedWasSaved
  BY Invariance, PTL DEF Inv, Replied

\* What an undisturbed Save left is what every load returns that no Save
\* overlaps (cache.go:30-93).
THEOREM SavesAreLoaded == Spec => []SavedIsLoaded
  BY Invariance, PTL DEF Inv, Replied

\* Whatever the catalogs hold, Check says that there is no drift only of those
\* that are the same but for the order of their lists, and without overloads it
\* says so of all of these, and names something wherever anything differs that
\* Diff looks at (cache.go:97-118, diff.go, Hash at catalog.go:227).
THEOREM DriftsAreTold == Spec => []DriftIsTold
  BY Invariance, PTL DEF Inv, Replied

=============================================================================
