---------------------------- MODULE FilterContext ----------------------------
(***************************************************************************)
(* The filter context of one visual's query: row-level security, then the  *)
(* filters of report, page, visual and interaction, then the measures one  *)
(* by one, with what their CALCULATE arguments make of the filters, and at *)
(* last the rows each of them is computed from.                            *)
(*                                                                         *)
(* A context has the filters of the query and of CALCULATE (inner), those  *)
(* the query came with (outer, for ALLSELECTED), those of the role, and    *)
(* the relationships that USERELATIONSHIP has activated.  A filter is the  *)
(* set of values it lets through, per column; conditions joined by AND are *)
(* the intersection.  The key of a security rule is a column of its own.   *)
(*                                                                         *)
(* SUMMARIZECOLUMNS computes its measures from one set of rows.  The       *)
(* arguments of a CALCULATE at the head of a measure are applied to the    *)
(* context of that set of rows (hoisted); a CALCULATE further inside is a  *)
(* query of its own.                                                       *)
(*                                                                         *)
(* Left out: filters within the visual's encodings, windows and iterators, *)
(* grouping by several levels at once (ROLLUP), and the text of            *)
(* predicates.                                                             *)
(***************************************************************************)
EXTENDS Relationships

CONSTANTS
  Columns,       \* pairs of a table and a name
  RLS,           \* the name of the column that stands for the rule of a role
  Values,
  Registries,    \* sequences of relationships a model may have
  Roles,         \* rules of roles: functions from tables to sets of values
  FilterLists,   \* sets of filters that a visual may have to do with
  DimSets,       \* sets of tables a visual may group by; none: a card
  Facts,         \* tables that the measures aggregate
  Arguments,     \* arguments of CALCULATE in measures
  Overrides,     \* scope overrides of a measure in a visual
  MaxMeasures, MaxArguments  \* bounds of a query

Keys == Columns \cup {<<t, RLS>> : t \in Tables}
KeysOf(t) == {k \in Keys : k[1] = t}

ASSUME RegistriesAssumption == \A reg \in Registries : IsRegistry(reg)
ASSUME ColumnsAssumption == \A k \in Columns : k[1] \in Tables /\ k[2] # RLS
ASSUME RolesAssumption ==
  \A role \in Roles : DOMAIN role \subseteq Tables /\ \A t \in DOMAIN role : role[t] \subseteq Values
ASSUME FactsAssumption == Facts \subseteq Tables
ASSUME BoundsAssumption == MaxMeasures \in Nat /\ MaxArguments \in Nat

VARIABLES
  registry,   \* the relationships of the model
  dims,       \* the tables the visual groups by
  filters,    \* filters that are still to be applied
  stage,      \* what the compiler is at
  local,      \* the context of the rows all measures share
  scalar,     \* aggregates are queries of their own (agg_as_scalar)
  frame,      \* the CALCULATE whose arguments are being read
  mentioned,  \* tables the measures mention
  rows,       \* the context and root of the query made last
  measures,   \* number of measures
  arguments,  \* number of CALCULATE arguments
  entered,    \* history: the context before the measures
  lifted,     \* history: keys that ALL and its kind have removed filters of
  captured,   \* history: filters of a CALCULATE became the outer ones
  plain       \* history: some measure is an aggregate without CALCULATE

vars == <<registry, dims, filters, stage, local, scalar, frame, mentioned, rows,
          measures, arguments, entered, lifted, captured, plain>>

-----------------------------------------------------------------------------
(* Contexts (dax_engine/context.py).                                          *)
None == [k \in {} |-> {}]
One(key, accept) == [k \in {key} |-> accept]
Over(low, high) == [k \in DOMAIN low \cup DOMAIN high |->
                      IF k \in DOMAIN high THEN high[k] ELSE low[k]]
Both(f, g) == [k \in DOMAIN f \cup DOMAIN g |->
                 IF k \notin DOMAIN g THEN f[k] ELSE IF k \notin DOMAIN f THEN g[k] ELSE f[k] \cap g[k]]
Without(f, K) == [k \in DOMAIN f \ K |-> f[k]]

Empty == [inner |-> None, outer |-> None, security |-> None, used |-> {}]

\* set_outer_from_current: "at query entry, copy inner filters into outer once".
SetOuter(c) == IF c.outer # None THEN c ELSE [c EXCEPT !.outer = c.inner]

\* _effective_predicates
Effective(c) == Both(Over(c.outer, c.inner), c.security)

Applied(c, f)     == [c EXCEPT !.inner = Over(@, f)]
AppliedKeep(c, f) == [c EXCEPT !.inner = Both(@, f)]

\* Mutant of Removed: rules of the role are removed, too.
RemovedRules(c, K) == [c EXCEPT !.inner = Without(@, K), !.outer = Without(@, K),
                                !.security = Without(@, K)]

Removed(c, K)     == [c EXCEPT !.inner = Without(@, K), !.outer = Without(@, K)]
Activating(c, rels) == [c EXCEPT !.used = @ \cup rels]
FilterTables(c)   == {k[1] : k \in DOMAIN Effective(c)}

\* A CALCULATE whose arguments are being read, and the table of what it computes.
Frame(kind, home, c) ==
  [kind |-> kind, home |-> home, context |-> c, start |-> c, read |-> {},
   replaced |-> None, kept |-> None, selected |-> {}]

\* The query a figure comes from: one of its own, the one that measures share, or
\* none, if an aggregate is left without FROM.
Rows(kind, root, c, needed) == [kind |-> kind, root |-> root, context |-> c, needed |-> needed]
NoRows == Rows("none", CHOOSE t \in Tables : TRUE, Empty, {})
Nowhere(home) == Rows("nowhere", home, Empty, {})

\* Mutant of Needed: tables of outer filters and of rules are not asked for.
NeededInner(home, c) == {home} \cup {k[1] : k \in DOMAIN c.inner}

Needed(home, c) == {home} \cup FilterTables(c)
Own(home, c)    == Rows("own", home, c, Needed(home, c))

-----------------------------------------------------------------------------
(* Filters of the report, the page and the visual (filters_ir.py).            *)
Levels == <<"report", "reportSlicer", "page", "pageSlicer", "visual", "interaction">>
Level(f) == CHOOSE n \in 1..Len(Levels) : Levels[n] = f.level

\* Those for this page and visual; a visual may be spared the interactions.
Applicable(fs, spared) == {f \in fs : f.here /\ ~(spared /\ f.level = "interaction")}

\* The rules of the role come first; the context is made, and the filters that
\* matter are sorted out.
Init ==
  /\ registry \in Registries
  /\ dims \in DimSets
  /\ \E fs \in FilterLists, spared \in BOOLEAN : filters = Applicable(fs, spared)
  /\ \E role \in Roles :
       local = [Empty EXCEPT !.security = [k \in {<<t, RLS>> : t \in DOMAIN role} |-> role[k[1]]]]
  /\ stage = "filters"
  /\ scalar = (dims = {})
  /\ frame = Frame("none", CHOOSE t \in Tables : TRUE, Empty)
  /\ rows = NoRows /\ entered = Empty
  /\ mentioned = {} /\ lifted = {}
  /\ measures = 0 /\ arguments = 0
  /\ captured = FALSE /\ plain = FALSE

\* apply_scoped_filters_to_context: level by level, each filter in place of what
\* its column had, or with it.
ApplyScopedFilter ==
  /\ stage = "filters"
  /\ \E f \in filters :
       /\ \A g \in filters : Level(f) <= Level(g)
       /\ local' = IF f.keep THEN AppliedKeep(local, One(f.key, f.accept))
                             ELSE Applied(local, One(f.key, f.accept))
       /\ filters' = filters \ {f}
  /\ UNCHANGED <<registry, dims, stage, scalar, frame, mentioned, rows, measures,
                 arguments, entered, lifted, captured, plain>>

\* compile_table_expr is called.
Enter ==
  /\ stage = "filters" /\ filters = {}
  /\ stage' = "measure"
  /\ local' = SetOuter(local)
  /\ entered' = local'
  /\ UNCHANGED <<registry, dims, filters, scalar, frame, mentioned, rows, measures,
                 arguments, lifted, captured, plain>>

-----------------------------------------------------------------------------
(* Measures (lowering_table.py, SUMMARIZECOLUMNS).                            *)
CountMeasure == measures < MaxMeasures /\ measures' = measures + 1
Mention(tables) == mentioned' = mentioned \cup tables

\* SetOuter on the way into a CALCULATE or a query of its own.
Captures(c) == captured' = (captured \/ SetOuter(c) # c)

\* An aggregate without CALCULATE is computed from the shared rows; on a card it
\* reads its own table.
PlainMeasure(home) ==
  /\ stage = "measure" /\ CountMeasure
  /\ Mention({home})
  /\ plain' = TRUE
  /\ rows' = IF dims # {} THEN NoRows ELSE IF scalar THEN Own(home, local) ELSE Nowhere(home)
  /\ UNCHANGED <<registry, dims, filters, stage, local, scalar, frame, arguments, entered,
                 lifted, captured>>

\* A measure that is a CALCULATE, by its formula or because the visual wraps it in
\* scope overrides: the arguments go to the context of the shared rows.
HoistedMeasure(home) ==
  /\ stage = "measure" /\ CountMeasure
  /\ arguments < MaxArguments
  /\ Mention({home})
  /\ frame' = Frame("hoisted", home, local)
  /\ stage' = "arguments"
  /\ rows' = NoRows
  /\ UNCHANGED <<registry, dims, filters, local, scalar, arguments, entered, lifted,
                 captured, plain>>

\* A CALCULATE within the formula of a measure.
NestedMeasure(home) ==
  /\ stage = "measure" /\ CountMeasure
  /\ Mention({home})
  /\ Captures(local)
  /\ frame' = Frame("nested", home, SetOuter(local))
  /\ stage' = "arguments"
  /\ rows' = NoRows
  /\ UNCHANGED <<registry, dims, filters, local, scalar, arguments, entered, lifted, plain>>

-----------------------------------------------------------------------------
(* The arguments of CALCULATE (_rewrite_calculate_like_context).  An argument
   has a function, what it is on (nothing, a table, or a column), and what else
   its kind needs.                                                            *)
Argument(fn, on) == [fn |-> fn, on |-> on, accept |-> {}, keep |-> FALSE, all |-> FALSE,
                     except |-> {}, rel |-> ""]
FilterOn(k, accept, keep) == [Argument("filter", k) EXCEPT !.accept = accept, !.keep = keep]

\* _scope_override_to_ir
OverrideArgument(o) ==
  CASE o.mode = "remove_all"      -> Argument("ALL", <<>>)
    [] o.mode = "remove_specific" -> Argument("REMOVEFILTERS", o.on)
    [] o.mode = "ignore_except"   -> [Argument("ALLEXCEPT", <<o.on[1]>>) EXCEPT !.except = {o.on}]
    [] o.mode = "ignore_visual"   -> Argument("ALLSELECTED", <<>>)
    [] o.mode = "keep_intersect"  -> FilterOn(o.on, o.accept, TRUE)
    [] o.mode \in {"fixed_value", "cross_table"} -> FilterOn(o.on, o.accept, FALSE)

\* The keys a function of the ALL family takes filters off: ALL of a column is ALL
\* of its table.
ClearedBy(a) ==
  IF a.fn = "REMOVEFILTERS" /\ Len(a.on) = 2 THEN {a.on}
  ELSE IF a.fn \in {"REMOVEFILTERS", "ALL"} THEN IF a.on = <<>> THEN Keys ELSE KeysOf(a.on[1])
  ELSE IF a.fn = "ALLEXCEPT" THEN KeysOf(a.on[1]) \ a.except
  ELSE IF a.fn = "filter" /\ a.all THEN KeysOf(a.on[1])
  ELSE {}

\* The keys of ALLSELECTED; without an argument it does nothing.
SelectedBy(a) ==
  IF a.fn # "ALLSELECTED" \/ a.on = <<>> THEN {}
  ELSE IF Len(a.on) = 2 THEN {a.on} ELSE KeysOf(a.on[1])

\* The next argument is read; `changed` is the frame after it.
Reading(a, changed) ==
  /\ stage = "arguments"
  /\ arguments < MaxArguments /\ arguments' = arguments + 1
  /\ frame' = [changed EXCEPT !.read = @ \cup {a}]
  /\ Mention(IF a.on = <<>> THEN {} ELSE {a.on[1]})
  /\ lifted' = lifted \cup ClearedBy(a)
  /\ UNCHANGED <<registry, dims, filters, stage, local, scalar, rows, measures, entered,
                 captured, plain>>

RemovingArgument(a) ==
  /\ a.fn \in {"REMOVEFILTERS", "ALL", "ALLEXCEPT"}
  /\ Reading(a, [frame EXCEPT !.context = Removed(@, ClearedBy(a))])

AllSelectedArgument(a) ==
  /\ a.fn = "ALLSELECTED"
  /\ Reading(a, [frame EXCEPT !.selected = @ \cup SelectedBy(a)])

\* USERELATIONSHIP: the relationship between the two columns, if there is one.
RelationshipArgument(a) ==
  /\ a.fn = "USERELATIONSHIP"
  /\ Reading(a, [frame EXCEPT !.context =
                   Activating(@, {r.id : r \in {q \in Range(registry) : q.id = a.rel}})])

\* Time intelligence: a filter on the date column that is applied at once.
PeriodArgument(a) ==
  /\ a.fn = "period"
  /\ Reading(a, [frame EXCEPT !.context = IF a.keep THEN AppliedKeep(@, One(a.on, a.accept))
                                                    ELSE Applied(@, One(a.on, a.accept))])

\* Mutant of FilterArgument: the filter replaces what there is at once.
FilterArgumentAtOnce(a) ==
  /\ a.fn = "filter"
  /\ Reading(a, [frame EXCEPT !.context = Applied(Removed(@, ClearedBy(a)), One(a.on, a.accept))])

\* A condition, TREATAS, FILTER or a table as a filter: kept for the end.  FILTER
\* of ALL clears its table first.
FilterArgument(a) ==
  /\ a.fn = "filter"
  /\ Reading(a, [frame EXCEPT !.context  = Removed(@, ClearedBy(a)),
                              !.replaced = IF a.keep THEN @ ELSE Both(@, One(a.on, a.accept)),
                              !.kept     = IF a.keep THEN Both(@, One(a.on, a.accept)) ELSE @])

\* Mutant of Restored: what was selected is forgotten, too.
RestoredNothing(c, selected) == Removed(c, selected)

\* ALLSELECTED: the filters since the query was entered are removed, and the outer
\* ones show again.
Restored(c, selected) == [c EXCEPT !.inner = Without(@, selected)]

\* All arguments are read: filters replace, then narrow, then ALLSELECTED.
FinishArguments ==
  /\ stage = "arguments"
  /\ frame.kind = "hoisted" => frame.read # {}
  /\ LET c == Restored(AppliedKeep(Applied(frame.context, frame.replaced), frame.kept),
                       frame.selected)
     IN /\ frame' = [frame EXCEPT !.context = c]
        /\ local' = IF frame.kind = "hoisted" THEN c ELSE local
  /\ scalar' = (scalar /\ frame.kind = "nested")
  /\ stage' = "inner"
  /\ UNCHANGED <<registry, dims, filters, mentioned, rows, measures, arguments, entered,
                 lifted, captured, plain>>

-----------------------------------------------------------------------------
\* What the CALCULATE computes is an aggregate: of the shared rows if it was
\* hoisted, else a query of its own (compile_measure).
InnerAggregate ==
  /\ stage = "inner"
  /\ stage' = "measure"
  /\ IF frame.kind = "nested"
     THEN /\ Captures(frame.context)
          /\ rows' = Own(frame.home, SetOuter(frame.context))
     ELSE /\ UNCHANGED captured
          /\ rows' = IF dims # {} THEN NoRows ELSE Nowhere(frame.home)
  /\ frame' = Frame("none", CHOOSE t \in Tables : TRUE, Empty)
  /\ UNCHANGED <<registry, dims, filters, local, scalar, mentioned, measures, arguments,
                 entered, lifted, plain>>

\* ... or another CALCULATE.
InnerCalculate ==
  /\ stage = "inner"
  /\ stage' = "arguments"
  /\ Captures(frame.context)
  /\ frame' = Frame("nested", frame.home, SetOuter(frame.context))
  /\ UNCHANGED <<registry, dims, filters, local, scalar, mentioned, rows, measures,
                 arguments, entered, lifted, plain>>

\* All measures are compiled: the shared rows are those of the context as the last
\* of them has left it, from the first table in the alphabet that any mentions.
Finish ==
  /\ stage = "measure" /\ measures > 0
  /\ stage' = "done"
  /\ IF dims = {} THEN rows' = NoRows
     ELSE \E root \in mentioned :
            rows' = Rows("shared", root, local, dims \cup mentioned \cup Needed(root, local))
  /\ UNCHANGED <<registry, dims, filters, local, scalar, frame, mentioned, measures,
                 arguments, entered, lifted, captured, plain>>

Done == stage = "done" /\ UNCHANGED vars

\* Arguments of formulas and of overrides.
AllArguments == Arguments \cup {OverrideArgument(o) : o \in Overrides}

ASSUME ArgumentsAssumption ==
  \A a \in AllArguments :
    a.keep \in BOOLEAN /\ a.accept \subseteq Values /\ (a.on = <<>> \/ a.on[1] \in Tables)

Next ==
  \/ ApplyScopedFilter \/ Enter
  \/ \E home \in Facts : PlainMeasure(home) \/ HoistedMeasure(home) \/ NestedMeasure(home)
  \/ \E a \in AllArguments :
       \/ RemovingArgument(a) \/ AllSelectedArgument(a) \/ RelationshipArgument(a)
       \/ PeriodArgument(a) \/ FilterArgument(a)
  \/ FinishArguments \/ InnerAggregate \/ InnerCalculate \/ Finish \/ Done

Spec == Init /\ [][Next]_vars

-----------------------------------------------------------------------------
(* The statement of a query: what is joined, and the many-to-many tables that only
   filter, which become EXISTS in the query that measures share.              *)
RowsetOf(r, needed) ==
  Rowset(registry, r.context.used, r.root, needed, FilterTables(r.context))

FilterOnly(r) ==
  IF r.kind # "shared" THEN {}
  ELSE SemiJoins(RowsetOf(r, r.needed)) \ (dims \cup mentioned)

Statement(r) == RowsetOf(r, r.needed \ FilterOnly(r))

-----------------------------------------------------------------------------
(* Properties.                                                                *)
IsQuery == rows.kind \in {"own", "shared"}

\* A filter or a rule that is in effect on a table is in the WHERE of every query
\* whose root it can reach, whatever CALCULATE did before: rules of a role are
\* "non-removable", and a table that is needed for its filter alone is joined or
\* asked by EXISTS.
FiltersReachTheRoot ==
  IsQuery =>
    \A t \in FilterTables(rows.context) \cap Propagating(registry, rows.context.used, rows.root) :
      t \in Statement(rows).joined \cup FilterOnly(rows)

\* The rules of a role as they were at the start are in effect in every query.
RulesStay ==
  IsQuery =>
    \A k \in DOMAIN entered.security :
      k \in DOMAIN Effective(rows.context) /\ Effective(rows.context)[k] \subseteq entered.security[k]

\* Tables are related in one way at most, and filters go in one direction.
Ties(used) == UNION {{<<r.from, r.to>>, <<r.to, r.from>>} : r \in Range(used)}
Straight(used) ==
  \A i \in DOMAIN used :
    LET others == [j \in DOMAIN used \ {i} |-> used[j]]
    IN /\ used[i].to \notin Reached(Ties(others), used[i].from)
       /\ ~used[i].both /\ used[i].card \in {"manyToOne", "oneToMany"}

\* Where tables are related in one way and in one direction, the joins of a query
\* of its own go the way its filters come: no row is counted twice, and no
\* relationship is used that is not active or activated.
JoinsFollowFilters ==
  rows.kind = "own" /\ Straight(Used(registry, rows.context.used)) =>
    LET s == Statement(rows)
    IN \A t \in DOMAIN s.edge : ~Multiplies(s, t) /\ Enabled(s.edge[t], rows.context.used)

Same(f, g, k) == /\ k \in DOMAIN f <=> k \in DOMAIN g
                 /\ k \in DOMAIN f => f[k] = g[k]

\* After ALLSELECTED of a table or a column its filters are those the query came
\* with, however deep the CALCULATE is and whatever the ones around it set: "at
\* query entry, copy inner filters into outer once".  Not if one of them took the
\* filters off, and not if there were none (left), so that the filters of a
\* CALCULATE were copied.
AllSelectedRestores ==
  stage = "inner" /\ ~captured =>
    \A k \in frame.selected \ lifted : Same(Effective(frame.context), Effective(entered), k)

(* What the arguments of CALCULATE mean together, in no order.                *)
Conditions(A, keep) ==
  LET on == {a.on : a \in {b \in A : b.fn = "filter" /\ b.keep = keep}}
  IN [k \in on |-> {v \in Values : \A a \in A : a.fn = "filter" /\ a.keep = keep /\ a.on = k => v \in a.accept}]

Meaning(c, A) ==
  LET cleared  == Removed(c, UNION {ClearedBy(a) : a \in A})
      narrowed == AppliedKeep(Applied(cleared, Conditions(A, FALSE)), Conditions(A, TRUE))
      rels     == {a.rel : a \in {b \in A : b.fn = "USERELATIONSHIP"}} \cap {r.id : r \in Range(registry)}
  IN Activating(Restored(narrowed, UNION {SelectedBy(a) : a \in A}), rels)

\* The order of the arguments of CALCULATE makes no difference, unless one of them
\* is a period, whose filter a removal after it takes off again.
OrderMakesNoDifference ==
  stage = "inner" /\ (\A a \in frame.read : a.fn # "period") =>
    frame.context = Meaning(frame.start, frame.read)

\* "Scope overrides control the filter context for a specific measure", and so
\* does CALCULATE: a measure without either is computed under the filters of the
\* query.
MeasuresAreIndependent ==
  stage = "done" /\ dims # {} /\ plain => Effective(local) = Effective(entered)
=============================================================================
