---------------------------- MODULE MCVisualRequests ----------------------------
(* A chart with a hierarchy, one that no click affects and that has items of its
   own, a matrix and a text box; payloads that take each turn of the routes.  The
   days are ends of months around the 29th of February 2024.  The matrix is the one
   of three row and three column levels: a month is open beside a closed one, a day
   is cut, a month is blank; a fact outside the drill has the path of one inside.  *)
EXTENDS VisualRequests

MCColumns == {"day", "city", "at"}
MCDays == {759, 760, 761, 789, 790}
Noon(d) == 86400 * d + 43200
MCValues == {1, 2, 731, 760, 761, 789, Noon(760) - 600}
MCLevelColumn == [Day |-> "day"]
MCWithin == {<<1, 1>>, <<2, 1>>, <<2, 2>>}

\* The measure of a default says another city when cities are filtered.
MCEvaluate(s, passing) ==
  IF s.default = "date_range" THEN <<760, NoBound>>
  ELSE IF 2 \in passing["city"] THEN {2} ELSE {1}

None == [calc |-> <<>>, param |-> <<>>]
Chart == [type |-> "chart", page |-> "p1", levels |-> <<"year", "month", "day">>,
          affected |-> TRUE, own |-> None]
Apart == [type |-> "chart", page |-> "p1", levels |-> <<"year", "month">>,
          affected |-> FALSE, own |-> [calc |-> "Time" :> "ytd", param |-> "Measure" :> <<"cost">>]]
Table == [type |-> "matrix", page |-> "p1", levels |-> <<"l1", "l2", "l3">>,
          options |-> [rowSubs |-> TRUE, colSubs |-> TRUE, rowGrand |-> TRUE, colGrand |-> TRUE]]
Text == [type |-> "textbox"]
MCDefinitions == {Chart, Apart, Table, Text}

\* Selections.
MCGroups == "Time" :> {"ytd"}
MCParameters == "Measure" :> {"sales", "cost"}
MCWhatIfs == {"Rate" :> 0..2, "Rate" :> 0..1, <<>>}
One(name, leaf) == name :> leaf
Choice(scope, target, name, leaf) == [scope |-> scope, target |-> target, name |-> name, leaf |-> leaf]
MCPuts ==
  [calc |-> {ByScope([NoSelections EXCEPT !.report = One("Time", "ytd"),
                                          !.page = "p1" :> One("Time", IllItem)]),
             ByScope([NoSelections EXCEPT !.report = One("Time", "gone"),
                                          !.visual = VisualId :> One("Time", "ytd")]),
             Listed(<<Choice("page", "p1", "Time", "gone"), Choice("visual", "", "Time", "ytd"),
                      Choice("visual", VisualId, "Time", "ytd")>>),
             Listed(<<Choice("report", "", "Time", "gone")>>)},
   param |-> {ByScope([NoSelections EXCEPT !.report = One("Measure", Leaf("selected", <<"sales">>)),
                                           !.page = "p1" :> One("Measure", Leaf("selected", <<IllItem, "cost">>))]),
              ByScope([NoSelections EXCEPT !.report = One("Measure", Leaf("selected", <<"sales", "sales">>))]),
              ByScope([NoSelections EXCEPT !.report = One("Measure", Leaf("value", <<"sales", "cost">>))]),
              Listed(<<Choice("report", "", "Measure", Leaf("value", <<"cost", "cost">>))>>)},
   whatIf |-> {ByScope([NoSelections EXCEPT !.report = One("Rate", 2)]),
               ByScope([NoSelections EXCEPT !.report = One("Rate", 3)]),
               ByScope([NoSelections EXCEPT !.report = One("Rate", IllNumber)]),
               ByScope([NoSelections EXCEPT !.page = "p1" :> One("Rate", 3)]),
               Listed(<<Choice("report", "", "Rate", 2)>>)}]

\* Slicers.
Slicer(id, type, on, scope, sync) ==
  [id |-> id, type |-> type, on |-> on, scope |-> scope, sync |-> sync, target |-> "p1",
   op |-> "in", writes |-> FALSE, mode |-> "all", values |-> {}, range |-> <<NoBound, NoBound>>,
   relative |-> [direction |-> "last", unit |-> "month", count |-> 1, current |-> TRUE, whole |-> FALSE],
   default |-> "none", onLoad |-> TRUE]
Cities(vs) == [Slicer("s1", "list", "city", "page", {"p1", "p2"}) EXCEPT !.mode = "values", !.values = vs]
Recent == [Slicer("s2", "date", "day", "report", {}) EXCEPT !.mode = "relative"]
LastHour == [Slicer("s3", "date", "at", "report", {}) EXCEPT !.mode = "relative", !.relative.unit = "hour"]
Since(d) == [Slicer("s4", "date", "day", "report", {}) EXCEPT !.mode = "range", !.range = <<d, NoBound>>]
Backwards == [Since(761) EXCEPT !.range = <<761, 760>>]
Input(writes) == [Slicer("s5", "input", "city", "page", {}) EXCEPT
                    !.mode = "values", !.values = {1}, !.op = "contains", !.writes = writes]
ByMeasure == [Slicer("s6", "list", "city", "report", {}) EXCEPT !.default = "measure"]
BySet == [Slicer("s7", "list", "day", "report", {}) EXCEPT !.default = "measure_set"]
ByEnds == [Slicer("s8", "date", "day", "report", {}) EXCEPT !.default = "date_range"]
MCReports ==
  {[file |-> Chart, slicers |-> <<Cities({1}), Recent, LastHour>>],
   [file |-> Chart, slicers |-> <<ByMeasure, ByEnds, Input(FALSE), Input(TRUE)>>],
   [file |-> Apart, slicers |-> <<Cities({1}), Recent, LastHour>>],
   [file |-> NoDef, slicers |-> <<>>], [file |-> Table, slicers |-> <<>>]}

\* Payloads.
Plain == [inline |-> NoDef, filters |-> <<>>, clicks |-> <<>>, slicers |-> <<>>,
          level |-> 0, drilled |-> <<>>, expand |-> 1]
Filter(scope, target, on, op, vs) == Item(scope, target, on, op, vs, FALSE, "none")
OnPage == Filter("page", "p1", "city", "not_in", {1})
OnVisual == Filter("visual", VisualId, "city", "=", {2})
MCPayloads ==
  {Plain, [Plain EXCEPT !.expand = 2], [Plain EXCEPT !.level = 1],
   [Plain EXCEPT !.level = 1, !.drilled = <<[column |-> "day", value |-> 760]>>],
   [Plain EXCEPT !.level = 3, !.drilled = <<[column |-> "day", value |-> 760]>>, !.filters = <<OnPage>>],
   [Plain EXCEPT !.filters = <<OnVisual, OnPage>>, !.clicks = <<Click("city", {1, Null})>>],
   [Plain EXCEPT !.filters = <<Filter("report", Nobody, "Day", ">", {731}),
                               Filter("report", Nobody, "measure", ">", {1}),
                               Filter("page", "p2", "city", "isblank", {})>>,
                 !.clicks = <<Click("day", {760})>>],
   [Plain EXCEPT !.filters = <<Filter("report", Nobody, "city", "<", {Null})>>],
   [Plain EXCEPT !.filters = <<Filter("sheet", Nobody, "city", "=", {1})>>],
   [Plain EXCEPT !.slicers = <<Since(760), BySet>>, !.filters = <<OnVisual>>],
   [Plain EXCEPT !.slicers = <<Backwards>>],
   [Plain EXCEPT !.inline = Apart, !.clicks = <<Click("city", {2})>>]}

\* The matrix.
F(row, col) == [row |-> row, col |-> col]
MCFacts == {F(<<1, 1, 1>>, <<1, 1, 1>>), F(<<1, 1, 2>>, <<1, 1, 2>>),
            F(<<1, 2, 1>>, <<1, 2, 3>>),
            F(<<2, 1, 1>>, <<2, 1, 1>>), F(<<2, 1, 1>>, <<1, 0, 1>>)}
MCRowExpansions == {{}, {<<1, 1>>}}
MCColExpansions == {{}, {<<1>>}, {<<1, 1>>}}
MCDrills == {NoDrill, 1}

\* A measure that is never BLANK, one that is BLANK in all totals of two row levels or
\* fewer, and one that is BLANK in the totals of columns.
MCBlanks == {{}, {<<>>, <<1>>, <<2>>, <<1, 1>>} \X {<<>>, <<1>>, <<1, 1>>},
             {<<>>, <<1>>, <<1, 1>>, <<1, 1, 1>>} \X {<<>>, <<1>>}}

\* Row subtotals are an option, column subtotals a toggle, the grand totals either
\* the definition's or none.
Asks(row, col, into, rowSubs, colSubs, grand) ==
  [inline |-> NoDef, rowExp |-> row, colExp |-> col, old |-> [rowExp |-> {<<1, 1>>}, colExp |-> {}],
   into |-> into, mode |-> "expand", level |-> 0,
   options |-> IF grand THEN [rowSubs |-> rowSubs]
               ELSE [rowSubs |-> rowSubs, rowGrand |-> FALSE, colGrand |-> FALSE],
   toggles |-> [colSubs |-> colSubs, rowSubs |-> TRUE]]
MCMatrixPayloads ==
  {Asks(row, col, into, rowSubs, colSubs, grand) :
     row \in MCRowExpansions, col \in MCColExpansions, into \in MCDrills,
     rowSubs \in BOOLEAN, colSubs \in BOOLEAN, grand \in BOOLEAN}
  \cup {[Asks({}, {}, into, TRUE, TRUE, TRUE) EXCEPT !.inline = Table, !.mode = "drill", !.level = 1] : into \in MCDrills}
=============================================================================
