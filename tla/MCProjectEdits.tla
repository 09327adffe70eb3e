----------------------------- MODULE MCProjectEdits -----------------------------
(* ProjectEdits for TLC: one project in which everything refers to something,
   and the contents that clients send.                                        *)
EXTENDS ProjectEdits, TLC

CONSTANTS sales, dates, x, y, z, total, axis, first, second, group, key, p1, csv, lake, import, direct

MCFits == {<<import, csv>>, <<import, lake>>, <<direct, lake>>}
MCEnds == {<<<<sales, x>>, <<dates, x>>>>, <<<<sales, y>>, <<dates, x>>>>}
MCHierarchyDefs == {[table |-> sales, levels |-> {x, y}], [table |-> dates, levels |-> {x}]}

BothItems == axis :> [items |-> (first :> <<sales, x>> @@ second :> total), default |-> first]
OneItem   == axis :> [items |-> (second :> total), default |-> second]
Nothing   == [a \in {} |-> a]
MCParamFiles == {Nothing, BothItems, OneItem}
MCGroupFiles == {Nothing, group :> {key}}

ByAxis  == [Empty EXCEPT !.fields = {total}, !.dimensions = {axis},
                         !.values = axis :> first, !.keys = group :> key]
OfAxis  == [Empty EXCEPT !.fields = {<<sales, y>>}, !.measures = {axis},
                         !.values = axis :> second, !.mentions = {axis}]
MCEncodings == {Empty, ByAxis, OfAxis}

\* What the browser sends, what a client sends that has selections, and both.
Laid(encs, ps) == UNION {[vs -> [page : ps, enc : encs]] : vs \in SUBSET Visuals}
MCPayloads ==
  [roles : {{}, {<<dates, x>>}}, visuals : Laid(MCEncodings, Pages), pages : (SUBSET Pages) \ {{}}]
  \cup [keys : SUBSET (Groups \X Keys), items : SUBSET (Params \X Items)]
  \cup [keys : SUBSET (Groups \X Keys), items : {{}, {<<axis, first>>}},
        visuals : Laid({ByAxis}, {p1}), pages : {{p1}}]

Col(calc, by) == [calc |-> calc, sortBy |-> by]
MCFirstProject ==
  [tables |->
     (sales :> [calc |-> FALSE, source |-> lake, mode |-> direct, notes |-> {"type", "text"},
                cols |-> (x :> Col(FALSE, NoCol) @@ y :> Col(TRUE, x) @@ z :> Col(FALSE, NoCol))]
      @@ dates :> [calc |-> TRUE, source |-> NoSource, mode |-> NoMode, notes |-> {},
                   cols |-> x :> Col(FALSE, NoCol)]),
   measures |-> {total},
   rels |-> {[id |-> <<<<sales, x>>, <<dates, x>>>>, ends |-> <<<<sales, x>>, <<dates, x>>>>]},
   hierarchies |-> {[table |-> sales, levels |-> {x, y}]},
   params |-> BothItems, groups |-> group :> {key},
   secured |-> {<<dates, x>>},
   pages |-> {p1},
   visuals |-> CHOOSE f \in [Visuals -> {[page |-> p1, enc |-> ByAxis]}] : TRUE,
   chosen |-> [items |-> {<<axis, first>>}, keys |-> {<<group, key>>}]]
================================================================================
