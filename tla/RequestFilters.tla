---------------------------- MODULE RequestFilters ----------------------------
(* The filters of one request, from the payload and the slicers to what is let
   through per column: _filters.py parses the payload, the slicers of the report
   are made into items of the same kind (_materialize_slicer_defs_...), and
   filters_ir.py picks those that are for this page and visual and applies them.

   Values are numbers; Null stands for the NULL of SQL.  An item has a scope, a target, what it is
   on (a column, a level of a hierarchy, or a measure), an operator with values,
   and its source.  Lists keep their order: a filter may take the place of one
   before it.                                                                 *)
EXTENDS RelativeDates, Lists

CONSTANTS
  Columns, Values,
  LevelColumn,      \* the column of each level of a hierarchy
  Within,           \* pairs of a value and a text that is found in it
  Clock,            \* the second of the day at which requests come
  Evaluate(_, _)    \* the values of a default measure, given what is let through

Null == 0
Nobody == "nobody"    \* no target
ASSUME ValuesAssumption == Values \subseteq Nat \ {Null}

All == Values \cup {Null}
Scopes == {"report", "page", "visual", "interaction", "drillthrough"}
Sources == {"manual", "slicer", "interaction", "drillthrough"}

-----------------------------------------------------------------------------
(* compile_filter_condition_to_sql: the values an operator lets through.  NULL
   passes no comparison but those that ask for it.                            *)
Comparisons == {"=", "!=", "<", "<=", ">", ">="}
TextOps == {"contains", "contains_any", "contains_all", "notcontains_any"}

Compiles(op, vs) ==
  CASE op \in {"=", "!="} -> Cardinality(vs) = 1
    [] op \in Comparisons -> Cardinality(vs) = 1 /\ Null \notin vs
    [] op \in {"in", "not_in"} -> vs # {}
    [] op \in TextOps -> vs # {} /\ (op = "contains" => Cardinality(vs) = 1)
    [] op \in {"isblank", "isnotblank"} -> vs = {}
    [] OTHER -> FALSE

Holds(op, v, w) ==
  CASE op = "<" -> v < w [] op = "<=" -> v <= w [] op = ">" -> v > w [] op = ">=" -> v >= w

HasText(v, w) == v # Null /\ <<v, w>> \in Within

LetsThrough(op, vs) ==
  CASE op \in {"=", "in"} -> vs
    [] op \in {"!=", "not_in"} -> Values \ vs
    [] op \in Comparisons -> {v \in Values : \A w \in vs : Holds(op, v, w)}
    [] op \in {"contains", "contains_any"} -> {v \in All : \E w \in vs : HasText(v, w)}
    [] op = "contains_all" -> {v \in All : \A w \in vs : HasText(v, w)}
    [] op = "notcontains_any" -> {v \in All : \A w \in vs : ~ HasText(v, w)}
    [] op = "isblank" -> {Null}
    [] op = "isnotblank" -> Values

-----------------------------------------------------------------------------
(* The payload.                                                               *)
Item(scope, target, on, op, values, keep, source) ==
  [scope |-> scope, target |-> target, on |-> on, op |-> op, values |-> values,
   keep |-> keep, source |-> source, slicer |-> Nobody]

\* Neither a column nor a level: a measure cannot be in a WHERE.
ColumnOf(on) == IF on \in DOMAIN LevelColumn THEN LevelColumn[on] ELSE on

\* _parse_scoped_filters_payload: one bad item fails the request; what cannot be
\* lowered is skipped.
WellFormed(items) ==
  \A i \in DOMAIN items :
    /\ items[i].scope \in Scopes
    /\ items[i].source \in Sources \cup {"none"}
    /\ items[i].on \in Columns \cup DOMAIN LevelColumn \cup {"measure"}

Parsed(items) ==
  LET kept == Among(items, {x \in ToSet(items) : x.on # "measure" /\ x.op \notin {"exists", "topn"}})
      source(x) == IF x.source # "none" THEN x.source
                   ELSE IF x.scope = "interaction" THEN "interaction" ELSE "manual"
  IN [i \in DOMAIN kept |->
        [kept[i] EXCEPT !.on = ColumnOf(@), !.source = source(kept[i]),
                        !.scope = IF source(kept[i]) = "interaction" THEN "interaction" ELSE @]]

\* _parse_interaction_filters_payload: what is selected in other visuals.
Click(column, values) == [column |-> column, values |-> values]
ParsedClicks(clicks) ==
  [i \in DOMAIN clicks |->
     Item("interaction", Nobody, clicks[i].column, "in", clicks[i].values, FALSE, "interaction")]

-----------------------------------------------------------------------------
(* What applies to a visual, and in which order.                              *)
Applicable(f, page, visual) ==
  CASE f.scope = "report" -> TRUE
    [] f.scope = "interaction" -> f.target \in {Nobody, visual}
    [] f.scope = "page" -> page # Nobody /\ f.target = page
    [] OTHER -> visual # Nobody /\ f.target = visual

Heard(fs, page, visual) == Among(fs, {f \in ToSet(fs) : Applicable(f, page, visual)})

\* The groups of apply_scoped_filters_to_context; a drillthrough is in none.
Group(fs, scope, slicers) ==
  Among(fs, {f \in ToSet(fs) : f.scope = scope /\ (f.source = "slicer") = slicers})
Overlays(fs) == Among(fs, {f \in ToSet(fs) : f.scope = "interaction"})

\* Mutant of Ordered: the slicers of a page come before its filters.
OrderedSlicersFirst(fs) ==
  Group(fs, "report", FALSE) \o Group(fs, "report", TRUE)
    \o Group(fs, "page", TRUE) \o Group(fs, "page", FALSE) \o Group(fs, "visual", FALSE)
    \o Overlays(fs)

Ordered(fs) ==
  Group(fs, "report", FALSE) \o Group(fs, "report", TRUE)
    \o Group(fs, "page", FALSE) \o Group(fs, "page", TRUE) \o Group(fs, "visual", FALSE)
    \o Overlays(fs)

Effective(fs, page, visual) == Ordered(Heard(fs, page, visual))

\* A filter of a visual cannot come from a slicer, and each has to compile.
Applies(fs, page, visual) ==
  /\ \A i \in DOMAIN fs : fs[i].scope = "visual" /\ fs[i].source = "slicer" => fs[i].target # visual
  /\ \A i \in DOMAIN Effective(fs, page, visual) :
       LET f == Effective(fs, page, visual)[i] IN Compiles(f.op, f.values)

Open == [c \in Columns |-> All]
Narrowed(passing, f) ==
  [passing EXCEPT ![f.on] = IF f.keep THEN @ \cap LetsThrough(f.op, f.values)
                                     ELSE LetsThrough(f.op, f.values)]

\* Each filter is applied to what those before it have left.
Through(fs) ==
  LET passing[n \in 0..Len(fs)] == IF n = 0 THEN Open ELSE Narrowed(passing[n - 1], fs[n])
  IN passing[Len(fs)]

Passing(fs, page, visual) == Through(Effective(fs, page, visual))

-----------------------------------------------------------------------------
(* Slicers.  A slicer is for the report, for the pages it is synced to, or for
   its target page.  Its selection has values, a range, or a period that ends or
   begins today; without a selection a measure may give it a default.          *)
TargetsOf(s) ==
  IF s.scope # "page" THEN {Nobody} ELSE IF s.sync # {} THEN s.sync ELSE {s.target}

SlicerItem(s, target, op, values) ==
  [Item(s.scope, target, s.on, op, values, TRUE, "slicer") EXCEPT !.slicer = s.id]

\* One item for each target, in some order.
ToTargets(s, op, values) ==
  LET targets == SetToSeq(TargetsOf(s))
  IN [i \in DOMAIN targets |-> SlicerItem(s, targets[i], op, values)]

\* An empty selection is none.
IsInput(s) == s.type = "input" /\ s.writes
RangeOf(s, today) ==
  IF s.mode # "relative" THEN s.range
  ELSE IF s.relative.unit \in TimeUnits THEN TimeRange(86400 * today + Clock, s.relative)
  ELSE DateRange(today, s.relative)
NoBound == -1
Selects(s) ==
  IF s.type = "date" THEN s.mode = "relative" \/ (s.mode = "range" /\ s.range # <<NoBound, NoBound>>)
                     ELSE s.mode = "values" /\ s.values # {}
SlicerFails(s) == s.type = "date" /\ s.mode = "range" /\ NoBound \notin {s.range[1], s.range[2]}
                  /\ s.range[1] > s.range[2]

Bound(s, op, n) == IF n = NoBound THEN <<>> ELSE ToTargets(s, op, {n})
Bounds(s, range) == Bound(s, ">=", range[1]) \o Bound(s, "<=", range[2])
Static(s, today) ==
  IF IsInput(s) \/ ~ Selects(s) THEN <<>>
  ELSE IF s.type = "date" THEN Bounds(s, RangeOf(s, today))
  ELSE ToTargets(s, s.op, s.values)

StaticOf(slicers, today) == FlattenSeq([i \in DOMAIN slicers |-> Static(slicers[i], today)])

\* A default is evaluated under the filters of the request and the selections of
\* the other slicers, not under their defaults, and not under its own.
Defaults == {"measure", "measure_set", "date_range"}
HasDefault(s) == ~ IsInput(s) /\ ~ Selects(s) /\ s.default \in Defaults /\ s.onLoad
Others(items, s) == Among(items, {x \in ToSet(items) : x.slicer # s.id})

\* What a measure says is a value or none, a set, or the ends of a range.
DefaultItems(s, values) ==
  CASE s.default = "measure"     -> ToTargets(s, "in", IF values = {} THEN {Null} ELSE values)
    [] s.default = "measure_set" -> IF values = {} THEN <<>> ELSE ToTargets(s, "in", values)
    [] s.default = "date_range"  -> Bounds(s, values)

Default(s, filters, statics, page, visual) ==
  DefaultItems(s, Evaluate(s, Passing(filters \o Others(statics, s), page, visual)))

WithDefaults(slicers, statics, filters, page, visual) ==
  statics \o FlattenSeq([i \in DOMAIN slicers |->
                           IF HasDefault(slicers[i])
                           THEN Default(slicers[i], filters, statics, page, visual) ELSE <<>>])

\* _materialize_slicer_defs_to_filter_payload_items; `page` and `visual` are what
\* the route passes on for the defaults.
Materialized(slicers, today, filters, page, visual) ==
  WithDefaults(slicers, StaticOf(slicers, today), filters, page, visual)
================================================================================
