---------------------------- MODULE MCSmartComments ----------------------------
(* SmartComments on two tables of one schema and one of another, with       *)
(* comments that meet in every way their keys can.                          *)
EXTENDS SmartComments

Bare == [Tag EXCEPT !.omit = {{}}]
Omit(as) == [Tag EXCEPT !.omit = {as}]
Field(f) == [Tag EXCEPT !.fieldName = f]

Spec1(segs) == [cols |-> <<"x">>, schema |-> None, table |-> "b",
                refcols |-> <<"x">>, segments |-> segs]
\* A tag that no pattern matches, an unknown column, lists of two lengths.
Garbage  == [Spec1(None) EXCEPT !.cols = <<>>]
NoColumn == [Spec1(None) EXCEPT !.refcols = <<"w">>]
Lengths  == [Spec1(None) EXCEPT !.cols = <<"x", "y">>]
Abroad   == [Spec1(Field("out")) EXCEPT !.schema = "t"]

Real(name, tags) == [name |-> <<name>>, cols |-> <<"y">>, ref |-> <<"s", "b">>,
                     refcols |-> <<"x">>, tags |-> tags]
Unique(name, tags) == [name |-> <<name>>, cols |-> <<"y">>, tags |-> tags]

Table(s, n) ==
  [key |-> <<s, n>>, cols |-> {"x", "y"}, tags |-> NoTags, pk |-> None,
   privileges |-> {"create", "update", "delete"}, uniques |-> {}, fks |-> {},
   notnull |-> {"y"}, indexed |-> {}, coltags |-> [c \in {"x", "y"} |-> NoTags]]

Commenting(t) ==
  { t,
    [t EXCEPT !.tags = Bare],
    [t EXCEPT !.tags = [Omit({"create"}) EXCEPT !.behavior = {"update", "select"}]],
    [t EXCEPT !.tags = [Tag EXCEPT !.fks = <<Spec1(Field("own")), Garbage, Lengths>>]],
    [t EXCEPT !.tags = [Tag EXCEPT !.fks = <<Spec1(None), NoColumn, Abroad>>]],
    [t EXCEPT !.tags = [Tag EXCEPT !.fks = <<Spec1(Bare)>>]] }

ForA ==
  Commenting(Table("s", "a")) \cup
  { [Table("s", "a") EXCEPT !.fks = {Real("f", Bare)}, !.uniques = {Unique("u", Bare)}],
    [Table("s", "a") EXCEPT !.fks = {Real("f", Field("a"))},
       !.pk = <<"x">>, !.tags = [Tag EXCEPT !.pk = <<"y">>, !.uniques = <<<<"x">>, <<"w">>, <<>>>>],
       !.coltags["x"] = [Tag EXCEPT !.flags = {"notNull", "sortable"}],
       !.coltags["y"] = [Tag EXCEPT !.flags = {"nullable"}]] }

\* The keys of column w were read after another migration than the columns.
ForB ==
  Commenting(Table("s", "b")) \cup
  { [Table("s", "b") EXCEPT !.fks = {Real("f", NoTags)}, !.pk = <<"w">>,
       !.uniques = {[Unique("v", NoTags) EXCEPT !.cols = <<"w">>]}],
    [Table("s", "b") EXCEPT !.uniques = {Unique("f", Field("b"))}, !.tags = [Tag EXCEPT !.pk = <<"w">>]] }

Function(args, tags) == [key |-> <<"s", "fn">>, args |-> args, tags |-> tags]
ForF ==
  { <<>>, <<Function("int", Bare)>>,
    <<Function("int", Bare), Function("text", NoTags)>> }

\* Namesakes in three schemas.
Renamed(s) == [Table(s, "b") EXCEPT !.tags = Field(s)]
Called(s) == [key |-> <<s, "fn">>, args |-> "int", tags |-> Field(s)]

MCCatalogs ==
  { [tables |-> <<a, b, Table("t", "b")>>, functions |-> <<>>] : a \in ForA, b \in ForB }
  \cup { [tables |-> <<Table("s", "a")>>, functions |-> f] : f \in ForF }
  \cup { [tables |-> <<Renamed("s"), t, Renamed("u")>>,
           functions |-> <<Called("s"), Called("t")>>] : t \in {Renamed("t"), Table("t", "b")} }

Smart == [name |-> "smart-comments", priority |-> 50, smart |-> TRUE]
Early == [name |-> "early", priority |-> 50, smart |-> FALSE]
Late  == [name |-> "late", priority |-> 100, smart |-> FALSE]
MCPlugins  == {Smart, Early, Late}
MCDisabled == {{}, {"late"}}

===============================================================================
