--------------------------- MODULE MCFilterContext ---------------------------
(* Four tables of a model: sales, products, their categories, and dates, which
   are related to sales twice.                                                *)
EXTENDS FilterContext

R(id, from, to, active, both, card) ==
  [id |-> id, from |-> from, to |-> to, active |-> active, both |-> both, card |-> card]
M1(id, from, to) == R(id, from, to, TRUE, FALSE, "manyToOne")

sp == M1("sp", "sales", "products")
pc == M1("pc", "products", "categories")
sd == M1("sd", "sales", "dates")
ship == [sd EXCEPT !.id = "ship", !.active = FALSE]

MCTables == {"sales", "products", "categories", "dates"}
MCRegistries ==
  {<<sp, pc, sd, ship>>,                                   \* a snowflake
   <<ship, sd, [sp EXCEPT !.both = TRUE], pc,              \* both directions, and a
     R("sc", "sales", "categories", FALSE, FALSE, "manyToOne")>>,   \* shorter way
   <<R("ps", "products", "sales", TRUE, FALSE, "oneToMany"),
     R("pc", "products", "categories", TRUE, FALSE, "manyToMany"), sd>>}
MCFacts == {"sales", "products"}

P(c) == <<"products", c>>
Day == <<"dates", "day">>
MCColumns == {P("a"), P("b"), Day}
MCRoles == {"categories" :> {1}}

F(level, key, accept, keep) == [level |-> level, key |-> key, accept |-> accept, keep |-> keep, here |-> TRUE]
MCFilterLists == {{}, {F("report", P("a"), {1, 2}, FALSE), F("pageSlicer", P("a"), {2}, TRUE),
                       F("interaction", Day, {1}, FALSE)}}

MCArguments ==
  {Argument("ALL", P("a")), Argument("ALLSELECTED", <<"products">>),
   [Argument("USERELATIONSHIP", Day) EXCEPT !.rel = "ship"],
   [Argument("period", Day) EXCEPT !.accept = {2}],
   [FilterOn(P("b"), {2}, FALSE) EXCEPT !.all = TRUE]}
O(mode, on, accept) == [mode |-> mode, on |-> on, accept |-> accept]
MCOverrides ==
  {O("remove_all", <<>>, {}), O("remove_specific", P("a"), {}), O("ignore_except", P("a"), {}),
   O("ignore_visual", <<>>, {}), O("keep_intersect", P("a"), {1, 2}), O("fixed_value", P("a"), {1})}
MCDimSets == {{}, {"products"}}
=============================================================================
