-------------------------------- MODULE MCCache --------------------------------
(* Cache with two savers and a loader of files of one to three pieces,   *)
(* and a live catalog for every line Diff knows.                            *)
EXTENDS Cache

Col(n, t, r) == [name |-> n, type |-> t, rest |-> r]
Fn(k, args, b) == [key |-> k, args |-> args, body |-> b]
Arg(t, s) == [type |-> t, schema |-> s]

Tab == [kind |-> "table", cols |-> <<Col("x", "int", 1), Col("y", "text", 1)>>,
        aspects |-> [indexes |-> 1, privileges |-> 1]]

Base ==
  [format |-> 3, version |-> 1, schemas |-> <<"s", "t">>, tables |-> [t |-> Tab, v |-> Tab],
   enums |-> [e |-> 1], composites |-> [c |-> 1],
   functions |-> <<Fn("f", <<Arg("int", "pg")>>, 1), Fn("g", <<>>, 1)>>]

Overloaded ==
  [Base EXCEPT !.functions = <<Fn("f", <<Arg("a", "s1")>>, 1), Fn("f", <<Arg("a", "s2")>>, 1)>>]

MCContent ==
  [a |-> Base,
   b |-> Overloaded,
   big |-> [Base EXCEPT !.enums = [e |-> 1, e2 |-> 1]],
   old |-> [Base EXCEPT !.format = 2],
   server   |-> [Base EXCEPT !.version = 2],
   schema   |-> [Base EXCEPT !.schemas = <<"s", "t", "u">>],
   sorted   |-> [Base EXCEPT !.schemas = <<"t", "s">>],
   repeated |-> [Base EXCEPT !.schemas = <<"s", "t", "s">>],
   removed  |-> [Base EXCEPT !.tables = [t |-> Tab]],
   aspect   |-> [Base EXCEPT !.tables.t.aspects.indexes = 2],
   order    |-> [Base EXCEPT !.tables.t.cols = <<Tab.cols[2], Tab.cols[1]>>],
   type     |-> [Base EXCEPT !.tables.t.cols[1].type = "bigint"],
   default  |-> [Base EXCEPT !.tables.v.cols[2].rest = 2],
   column   |-> [Base EXCEPT !.tables.v.cols = <<Tab.cols[1]>>],
   enum     |-> [Base EXCEPT !.enums = [e |-> 2]],
   function |-> [Base EXCEPT !.functions[1].body = 2],
   argument |-> [Base EXCEPT !.functions[1].args[1].schema = "s"],
   shuffled |-> [Base EXCEPT !.functions = <<Base.functions[2], Base.functions[1]>>],
   overload |-> [Overloaded EXCEPT !.functions[1].body = 2],
   turned   |-> [Overloaded EXCEPT !.functions = <<@[2], @[1]>>]]

MCLives == DOMAIN MCContent \ {"big", "old"}
MCPieces == [a |-> 2, b |-> 3, big |-> 1, old |-> 1]

===============================================================================
