----------------------------- MODULE MCIntrospect -----------------------------
(***************************************************************************)
(* Instances of Introspect for TLC: an @enum table in many shapes, a table *)
(* that refers to it in many ways, and a second @enum table.               *)
(***************************************************************************)
EXTENDS Introspect

CONSTANTS a, null, none, x, y

Kinds  == 1
Events == 2
Levels == 3

Empty == [c \in {1, 2} |-> {}]
Full  == [c \in {1, 2} |-> {a}]

Plain == [readable |-> TRUE, tagged |-> TRUE, cols |-> {1, 2},
          text |-> {1, 2}, desc |-> {}, pk |-> {1}, keys |-> {},
          fks |-> {}, indexes |-> {}, rows |-> Full]

Unique(n, cs, g) == [name |-> n, cols |-> cs, tagged |-> g]

\* Keyed by text; by a unique label, and one with a missing label; with two
\* labels commented; numbered; without rows; without the comment; unreadable;
\* with a pair as its key.
Shapes ==
  {Plain,
   [Plain EXCEPT !.keys = {Unique(1, {2}, TRUE)}],
   [Plain EXCEPT !.keys = {Unique(1, {2}, TRUE)}, !.rows[2] = {a, null}],
   [Plain EXCEPT !.keys = {Unique(1, {2}, TRUE), Unique(2, {1}, TRUE)},
                 !.text = {1}, !.desc = {2}],
   [Plain EXCEPT !.text = {2}, !.keys = {Unique(1, {1, 2}, TRUE)}],
   [Plain EXCEPT !.rows = Empty],
   [Plain EXCEPT !.tagged = FALSE],
   [Plain EXCEPT !.readable = FALSE],
   [Plain EXCEPT !.cols = {1}, !.text = {1}, !.indexes = {x}]}

To(n, cs, r, rs) == [name |-> n, cols |-> cs, ref |-> r, refcols |-> rs]

\* No reference; by key; by label; by a pair; to both enums from one column.
References ==
  {{}, {To(1, {1}, Kinds, {1})}, {To(1, {1}, Kinds, {2})},
   {To(1, {1, 2}, Kinds, {1, 2})},
   {To(1, {1}, Kinds, {1}), To(2, {1}, Levels, {1})}}

Schema(f) == [rel |-> f, enums |-> {}, composites |-> {y},
              functions |-> {x, y}, unnamed |-> {y}]

Referring(ks) == [Plain EXCEPT !.tagged = FALSE, !.pk = {}, !.fks = ks]

Candidate ==
  {Schema([t \in {Events} |-> Referring({})])} \cup
  {Schema([t \in {Kinds} |-> s]) : s \in Shapes} \cup
  {Schema([t \in {Kinds, Events} |->
             IF t = Kinds THEN s ELSE Referring(ks)]) :
     s \in Shapes, ks \in References} \cup
  {Schema([t \in {Kinds, Events, Levels} |->
             IF t = Kinds THEN s ELSE IF t = Levels THEN Plain
                                      ELSE Referring(ks)]) :
     s \in Shapes, ks \in References}

\* A foreign key refers to a key of a relation that is there.
Consistent(d) ==
  \A t \in DOMAIN d.rel : \A k \in d.rel[t].fks :
    /\ k.ref \in DOMAIN d.rel
    /\ \/ d.rel[k.ref].pk = k.refcols
       \/ \E u \in d.rel[k.ref].keys : u.cols = k.refcols

Schemas == {d \in Candidate : Consistent(d)}
=============================================================================
