---------------------------- MODULE VisualRequests ----------------------------
(* The requests that ask for the data of one visual, route by route: a render, a
   highlight, a batch, a tooltip page, an export, and the matrix, whose totals
   MatrixTotals fills (_routes_visuals.py).

   A route picks a definition (the file of the visual, or the one that the client
   sends along), the filters, and how far the visual is drilled; the report adds
   its slicers and the stored selections of calculation groups, parameters and
   what-ifs.  What is asked of the compiler is a question.  The plan of a question
   is cached under a key that does not have all of it.

   A visual groups by a hierarchy; what else its encodings have is left out, and
   so are security, which pipeline and filter context model, and what is drawn.  *)
EXTENDS MatrixTotals, RequestFilters, Selections

CONSTANTS
  VisualId,
  Reports,        \* the file of the visual and the stored slicers at first
  Definitions,    \* contents of the visual
  WhatIfs,        \* the sets of what-if parameters, each with its range
  Puts,           \* for each kind, the selections that clients store
  Payloads,       \* what clients send along
  MatrixPayloads, \* what clients send along for a matrix
  Days,           \* the days of a behaviour
  PlansKept,      \* bound: plans in the cache
  MaxChanges      \* bound: changes of files, and days

\* Lists are lists, and nothing has the name of nobody.  A slicer of another scope
\* is refused before anything is asked.
SlicersAre(list) ==
  /\ IsList(list)
  /\ \A s \in ToSet(list) : s.scope \in {"report", "page"} /\ IsFiniteSet(s.sync)
ASSUME RequestsAssumption ==
  /\ VisualId # Nobody
  /\ \A r \in Reports : SlicersAre(r.slicers)
  /\ \A p \in Payloads : /\ IsList(p.filters) /\ IsList(p.clicks) /\ IsList(p.drilled)
                         /\ SlicersAre(p.slicers)
  /\ \A put \in Puts["param"] : \A x \in AllPairs(put.selections) : IsList(x[2].items)

\* The calendar reaches two years and more to either side of every day.
ASSUME DaysAssumption ==
  /\ Years > 4 /\ Days # {}
  /\ Days \subseteq StartOfMonth(24) .. (StartOfMonth(12 * Years - 24) - 1)

VARIABLES
  file,      \* the visual on disk, or NoDef
  selected,  \* the stored selections of each kind
  slicers,   \* the stored slicers
  known,     \* the parameters of what-ifs that the model has
  today,
  plans,     \* _sql_cache: entries of a key, a question and the time of its planning
  answer,    \* the last answer
  changes,   \* number of changes
  picks,     \* history: number of changes of the selections
  unchecked  \* history: selections were stored unchecked, or lost what they select

stores == <<file, selected, slicers, known, today>>
requestVars == <<file, selected, slicers, known, today, plans, answer, changes, picks, unchecked>>
allVars == <<vars, requestVars>>

NoDef == [type |-> "none"]
NoAnswer == [kind |-> "none"]

-----------------------------------------------------------------------------
(* Stored selections.  A PUT replaces the file of one kind.                   *)
Kinds == {"calc", "param", "whatIf"}

Flat(kind, selections) ==
  CASE kind = "calc" -> CalcFlat(selections)
    [] kind = "param" -> ParamFlat(selections)
    [] kind = "whatIf" -> WhatIfFlat(selections)
Valid(kind, pairs) ==
  CASE kind = "calc" -> CalcValid(pairs)
    [] kind = "param" -> ParamValid(pairs)
    [] kind = "whatIf" -> WhatIfValid(pairs, known)
Saved(kind, put) ==
  CASE kind = "calc" -> CalcSaved(put)
    [] kind = "param" -> ParamSaved(put)
    [] kind = "whatIf" -> WhatIfSaved(put)
Loaded(kind) ==
  CASE kind = "calc" -> CalcLoaded(selected["calc"])
    [] kind = "param" -> ParamLoaded(selected["param"])
    [] kind = "whatIf" -> WhatIfLoaded(selected["whatIf"])

\* The definition may have items of its own.
EffectiveOf(def, kind) ==
  CASE kind = "calc" -> Over(def.own["calc"], CalcEffective(Loaded("calc"), def.page, VisualId))
    [] kind = "param" -> Over(def.own["param"], ParamEffective(Loaded("param"), def.page, VisualId))
    [] kind = "whatIf" -> WhatIfEffective(Loaded("whatIf"))

\* One request at a time: what runs beside it is in RenderPipeline.
Idle == pass = "idle" /\ answer = NoAnswer
Change == changes < MaxChanges /\ changes' = changes + 1
Changed == Change /\ Idle /\ UNCHANGED <<vars, plans, answer>>

\* What flatten does not see of what is stored: a list, and leaves under "value".
Unseen(kind, put) ==
  \/ put.listed
  \/ kind = "param" /\ \E x \in AllPairs(put.selections) : x[2].key # "selected"

Store(kind, put) ==
  /\ selected' = [selected EXCEPT ![kind] = Saved(kind, put)]
  /\ picks' = picks + 1
  /\ unchecked' = (unchecked \/ Unseen(kind, put))
  /\ UNCHANGED <<file, slicers, known, today>>

\* Mutant of PutSelections: saved before they are validated.
PutSelectionsFirst(kind, put) ==
  /\ Changed
  /\ kind = "whatIf" => WhatIfSaves(put)
  /\ Store(kind, put)

\* PUT /runtime/..._selections: flattened, validated, then saved.
PutSelections(kind, put) ==
  /\ Changed
  /\ Valid(kind, Flat(kind, put.selections))
  /\ kind = "whatIf" => WhatIfSaves(put)
  /\ Store(kind, put)

\* GET /runtime/..._selections: loaded, flattened, validated.
GetSelections(kind) ==
  /\ Idle
  /\ answer' = [kind |-> IF Valid(kind, Flat(kind, Loaded(kind))) THEN "selections" ELSE "failed",
                of |-> kind, route |-> "selections"]
  /\ UNCHANGED <<vars, stores, plans, changes, picks, unchecked>>

\* PUT /runtime/what_if_parameters: selections of one that goes stay stored.  All
\* caches are cleared.
PutParameters(parameters) ==
  /\ Change /\ Idle
  /\ known' = parameters /\ known # parameters
  /\ unchecked' = (unchecked \/ ~ WhatIfValid(WhatIfFlat(selected["whatIf"]), parameters))
  /\ plans' = {}
  /\ UNCHANGED <<vars, file, selected, slicers, today, answer, picks>>

-----------------------------------------------------------------------------
(* The file of the visual, and the day.                                       *)
SaveVisual(def) ==
  /\ Changed
  /\ file' = def /\ file # def
  /\ UNCHANGED <<selected, slicers, known, today, picks, unchecked>>

DayPasses ==
  /\ Changed
  /\ today' \in {d \in Days : d > today}
  /\ UNCHANGED <<file, selected, slicers, known, picks, unchecked>>

\* Entries expire, are evicted, or all are cleared.
ForgetPlans ==
  /\ Idle /\ plans # {}
  /\ plans' = {}
  /\ UNCHANGED <<vars, stores, answer, changes, picks, unchecked>>

-----------------------------------------------------------------------------
(* What a route asks for.                                                     *)
Statics == {"button", "shape", "textbox", "image", "group", "actionbutton", "slicer"}

\* The type that decides what render does is that of the file, if there is one;
\* the definition is the client's, if it sends one.
TypeFrom(p) == IF file # NoDef THEN file.type ELSE p.inline.type
Rendered(p) == IF p.inline # NoDef THEN p.inline ELSE file

SlicersOf(p) == IF p.slicers # <<>> THEN p.slicers ELSE slicers

\* The filters of a request with its slicers.  `page` and `visual` are passed on to
\* the defaults of slicers.
WithSlicers(p, filters, page, visual) ==
  filters \o Parsed(Materialized(SlicersOf(p), today, filters, page, visual))

\* What render asks under, alone and as the baseline of a highlight.
RenderFilters(p) == WithSlicers(p, Parsed(p.filters), Nobody, VisualId)

\* Mutant of BatchFilters: only the slicers that the client sends along.
BatchFiltersSent(p) ==
  LET filters == Parsed(p.filters)
  IN filters \o Parsed(Materialized(p.slicers, today, filters, Nobody, Nobody))
       \o ParsedClicks(p.clicks)

\* In a batch what is selected elsewhere is a filter; no visual is named to defaults.
BatchFilters(p) == WithSlicers(p, Parsed(p.filters), Nobody, Nobody) \o ParsedClicks(p.clicks)

DrillItems(p) ==
  [i \in DOMAIN p.drilled |->
     Item("visual", VisualId, p.drilled[i].column, "in", {p.drilled[i].value}, FALSE, "drill")]

\* _get_visual_result_rows: the filters of the drill are added to others only.
Asked(def, fs, drill) ==
  LET heeded == IF def.affected THEN fs ELSE Among(fs, {f \in ToSet(fs) : f.scope # "interaction"})
  IN IF fs = <<>> THEN <<>> ELSE heeded \o DrillItems(drill)

\* The levels of a hierarchy from the one drilled to.
LevelsShown(def, drill) ==
  LET n == Len(def.levels)
      base == IF drill.level < n THEN drill.level ELSE n - 1
      last == IF base + drill.expand < n THEN base + drill.expand ELSE n
  IN IF n = 0 THEN <<>> ELSE SubSeq(def.levels, base + 1, last)

Question(def, fs, drill) ==
  [levels  |-> LevelsShown(def, drill),
   passing |-> Passing(Asked(def, fs, drill), def.page, VisualId),
   items   |-> [kind \in Kinds |-> EffectiveOf(def, kind)]]

\* What fails before or in the planning.
Answerable(def, fs, drill) ==
  /\ def.type = "chart"
  /\ \A kind \in Kinds : Valid(kind, Pairs(EffectiveOf(def, kind)))
  /\ Applies(Asked(def, fs, drill), def.page, VisualId)

-----------------------------------------------------------------------------
(* The cache of plans.                                                        *)
\* Mutant of KeyOf: the level is not in the key.
KeyOfFlat(def, fs, drill) ==
  [def |-> def, filters |-> fs, level |-> 0, drilled |-> drill.drilled]

KeyOf(def, fs, drill) ==
  [def |-> def, filters |-> fs, level |-> drill.level, drilled |-> drill.drilled]

PlanOf(def, fs, drill) ==
  [key |-> KeyOf(def, fs, drill), question |-> Question(def, fs, drill),
   expand |-> drill.expand, picks |-> picks]

Found(cache, def, fs, drill) == {e \in cache : e.key = KeyOf(def, fs, drill)}
Used(cache, def, fs, drill) ==
  IF Found(cache, def, fs, drill) # {} THEN CHOOSE e \in Found(cache, def, fs, drill) : TRUE
                                       ELSE PlanOf(def, fs, drill)
Kept(cache, e) ==
  IF e \in cache THEN cache ELSE IF Cardinality(cache) < PlansKept THEN cache \cup {e} ELSE {e}

-----------------------------------------------------------------------------
(* The routes.                                                                *)
Undrilled == [level |-> 0, drilled |-> <<>>, expand |-> 1]
DrillOf(p) == [level |-> p.level, drilled |-> p.drilled, expand |-> p.expand]

Answered(a) ==
  /\ answer' = a
  /\ UNCHANGED <<vars, stores, changes, picks, unchecked>>

Fails(route, p) == [kind |-> "failed", route |-> route, payload |-> p]
Drawn(route) == [kind |-> "static", route |-> route]
Figures(route, p, def, fs, drill, e, base) ==
  [kind |-> "data", route |-> route, payload |-> p, def |-> def, filters |-> fs,
   drill |-> drill, entry |-> e, base |-> base]

\* One question is asked.
AskOne(route, p, def, fs, drill) ==
  IF Answerable(def, fs, drill)
  THEN LET e == Used(plans, def, fs, drill)
       IN plans' = Kept(plans, e) /\ Answered(Figures(route, p, def, fs, drill, e, e))
  ELSE UNCHANGED plans /\ Answered(Fails(route, p))

\* A payload that cannot be parsed, or a slicer that fails.
Bad(p) == ~ WellFormed(p.filters) \/ \E i \in DOMAIN SlicersOf(p) : SlicerFails(SlicersOf(p)[i])

\* render_visual, in normal mode.
Render(p) ==
  /\ Idle
  /\ IF file = NoDef /\ p.inline = NoDef THEN UNCHANGED plans /\ Answered(Fails("render", p))
     ELSE IF TypeFrom(p) \in Statics THEN UNCHANGED plans /\ Answered(Drawn("render"))
     ELSE /\ TypeFrom(p) # "matrix"
          /\ IF Bad(p) THEN UNCHANGED plans /\ Answered(Fails("render", p))
             ELSE AskOne("render", p, Rendered(p), RenderFilters(p), DrillOf(p))

\* render_visual in highlight mode: without any drill, first without and then with
\* what is selected elsewhere.
AskTwo(p, def, base, both) ==
  LET first == Used(plans, def, base, Undrilled)
      second == Used(Kept(plans, first), def, both, Undrilled)
  IN IF p.clicks = <<>> \/ ~ def.affected \/ ~ Answerable(def, both, Undrilled)
     THEN plans' = Kept(plans, first)
          /\ Answered(Figures("highlight", p, def, base, Undrilled, first, first))
     ELSE plans' = Kept(Kept(plans, first), second)
          /\ Answered(Figures("highlight", p, def, both, Undrilled, second, first))
Highlight(p) ==
  /\ Idle
  /\ TypeFrom(p) = "chart"
  /\ IF ~ Bad(p) /\ Answerable(Rendered(p), RenderFilters(p), Undrilled)
     THEN AskTwo(p, Rendered(p), RenderFilters(p), RenderFilters(p) \o ParsedClicks(p.clicks))
     ELSE UNCHANGED plans /\ Answered(Fails("highlight", p))

\* render_batch: the files of visuals.
Batch(p) ==
  /\ Idle
  /\ p.inline = NoDef
  /\ IF Bad(p) THEN UNCHANGED plans /\ Answered(Fails("batch", p))
     ELSE IF file.type \in Statics \cup {"matrix"}
          THEN UNCHANGED plans /\ Answered(Drawn("batch"))
     ELSE AskOne("batch", p, file, BatchFilters(p), Undrilled)

\* render_tooltip_page: no slicers; what is hovered becomes filters of a visual
\* that is not named, and a payload that cannot be parsed is none.
HoverItems(p) ==
  [i \in DOMAIN p.drilled |->
     Item("visual", Nobody, p.drilled[i].column, "in", {p.drilled[i].value}, FALSE, "tooltip")]
Tooltip(p) ==
  /\ Idle
  /\ file.type = "chart" /\ p.inline = NoDef
  /\ AskOne("tooltip", p, file,
            (IF WellFormed(p.filters) THEN Parsed(p.filters) ELSE <<>>) \o HoverItems(p), Undrilled)

\* export_visual_excel: the file of the visual, and no filters at all.
Export(p) ==
  /\ Idle
  /\ file.type = "chart" /\ p.inline = NoDef
  /\ AskOne("export", p, file, <<>>, Undrilled)

-----------------------------------------------------------------------------
(* The matrix: its own file before the client's definition, the payload's options
   before its toggles before the definition's.                                *)
MatrixDef(p) == IF file # NoDef THEN file ELSE p.inline
Option(def, p, name) ==
  IF name \in DOMAIN p.options THEN p.options[name]
  ELSE IF name \in DOMAIN p.toggles THEN p.toggles[name] ELSE def.options[name]

\* Paths as an older client sends them count if there are none of the other kind.
Expanded(p, axis) == IF p.rowExp \cup p.colExp # {} THEN p[axis] ELSE p.old[axis]

\* _apply_drill_to_axis, and the levels that have been drilled through.
AxisAtLevel(levels, p) ==
  LET n == IF p.level < Len(levels) THEN p.level ELSE Len(levels) - 1
  IN IF p.mode = "expand" \/ levels = <<>> THEN levels ELSE <<levels[n + 1]>>

RowAxis(levels, p) ==
  LET axis == AxisAtLevel(levels, p)
  IN IF p.into = NoDrill THEN axis ELSE SubSeq(axis, 2, Len(axis))

SpecOf(def, p) ==
  [rowExp |-> Expanded(p, "rowExp"), colExp |-> Expanded(p, "colExp"), drill |-> p.into,
   rowSubs |-> Option(def, p, "rowSubs"), colSubs |-> Option(def, p, "colSubs"),
   rowGrand |-> Option(def, p, "rowGrand"), colGrand |-> Option(def, p, "colGrand")]

\* The matrix of MatrixTotals has all levels, or those below the one drilled into;
\* the facts are any that the filters leave.  It is asked before any change.
RenderMatrix(p) ==
  /\ Idle /\ changes = 0 /\ plans = {}
  /\ MatrixDef(p).type = "matrix"
  /\ LET def == MatrixDef(p)
         axis == RowAxis(def.levels, p)
     IN /\ answer' = [kind |-> "matrix", payload |-> p, def |-> def, axis |-> axis]
        /\ IF Len(axis) = RowDepth - (IF p.into = NoDrill THEN 0 ELSE 1) /\ p.mode = "expand"
           THEN /\ table' \in (SUBSET Facts) \ {{}}
                /\ spec' = SpecOf(def, p)
                /\ pass' = "query"
                /\ UNCHANGED <<fetched, failed, blank, cells>>
           ELSE UNCHANGED vars
  /\ UNCHANGED <<stores, plans, changes, picks, unchecked>>

\* The client has the answer.
Receive ==
  /\ pass = "idle" /\ answer # NoAnswer
  /\ answer' = NoAnswer
  /\ UNCHANGED <<vars, stores, plans, changes, picks, unchecked>>

FillMatrix ==
  /\ Next
  /\ UNCHANGED requestVars

-----------------------------------------------------------------------------
RequestInit ==
  /\ \E r \in Reports : file = r.file /\ slicers = r.slicers
  /\ selected = [kind \in Kinds |-> NoSelections]
  /\ known = CHOOSE w \in WhatIfs : \A v \in WhatIfs : DOMAIN v \subseteq DOMAIN w
  /\ today = CHOOSE d \in Days : \A e \in Days : d <= e
  /\ plans = {} /\ answer = NoAnswer
  /\ changes = 0 /\ picks = 0 /\ unchecked = FALSE
  /\ table = {} /\ spec = [drill |-> NoDrill] /\ pass = "idle"
  /\ fetched = {} /\ failed = FALSE /\ blank = {} /\ cells = <<>>

ChangeStep ==
  \/ \E kind \in Kinds : \E put \in Puts[kind] : PutSelections(kind, put)
  \/ \E parameters \in WhatIfs : PutParameters(parameters)
  \/ \E def \in Definitions : SaveVisual(def)
  \/ DayPasses \/ ForgetPlans

RequestStep ==
  \/ \E p \in Payloads : Render(p) \/ Highlight(p) \/ Batch(p) \/ Tooltip(p) \/ Export(p)
  \/ \E kind \in Kinds : GetSelections(kind)
  \/ \E p \in MatrixPayloads : RenderMatrix(p)

RequestNext == ChangeStep \/ RequestStep \/ Receive \/ FillMatrix
RequestSpec == RequestInit /\ [][RequestNext]_allVars

-----------------------------------------------------------------------------
(* Properties *)

\* Whatever was planned before, the plan of an answer lets through what the request
\* asks for.  It shows other levels only if an earlier request expanded others, and
\* uses other items of groups, parameters and what-ifs only if selections were
\* stored since: neither is in the key of the cache of plans.
PlansFitTheirRequests ==
  answer.kind = "data" =>
    LET asked == Question(answer.def, answer.filters, answer.drill)
        planned == answer.entry.question
    IN /\ planned.passing = asked.passing
       /\ planned.levels # asked.levels => answer.entry.expand # answer.drill.expand
       /\ planned.items # asked.items => answer.entry.picks # picks

\* What a slicer selects for the page holds in every answer that has slicers, unless
\* a filter of the visual, a click elsewhere, the drill or, over a slicer of the
\* report, a filter of the page takes the place of what is let through of the column;
\* or an item that a client declares to be a slicer's, without `keep`, which those of
\* the server have.  A drillthrough is applied to nothing, whatever its source.
Replaces(f, slicer) ==
  /\ f.on = slicer.on /\ ~ f.keep
  /\ \/ f.scope \in {"visual", "interaction"} \/ f.source = "slicer"
     \/ f.scope = "page" /\ slicer.scope = "report"
SlicersHold ==
  answer.kind = "data" =>
    LET heard == Heard(Asked(answer.def, answer.filters, answer.drill), answer.def.page, VisualId)
    IN \A c \in Columns, i \in DOMAIN heard :
         heard[i].on = c /\ heard[i].source = "slicer" /\ heard[i].scope \in Scopes \ {"drillthrough"} =>
           \/ answer.entry.question.passing[c] \subseteq LetsThrough(heard[i].op, heard[i].values)
           \/ \E j \in DOMAIN heard : Replaces(heard[j], heard[i])

\* A batch asks for a visual of the page what the render and the highlight of the
\* visual ask for.  They differ only by the default of a slicer, which the render, and
\* not the batch, evaluates under the filters that are for the visual, too.
RoutesAgree ==
  answer.kind = "data" /\ answer.route = "batch" =>
    LET p == answer.payload
        lets(fs) == Passing(Asked(file, fs, Undrilled), file.page, VisualId)
        waiting == \E i \in DOMAIN SlicersOf(p) : HasDefault(SlicersOf(p)[i])
        apart == \E f \in ToSet(Parsed(p.filters)) : f.target = VisualId
    IN \/ answer.entry.question.passing = lets(RenderFilters(p) \o ParsedClicks(p.clicks))
       \/ waiting /\ apart

\* A request with sound filters fails for what is selected, and the stored selections
\* cannot be read back, only after a list, or a leaf under the other key, was stored,
\* which is not validated, or a what-if parameter was replaced.
FailsOnlyBy ==
  answer.kind = "failed" =>
    \/ unchecked
    \/ /\ answer.route # "selections"
       /\ \/ file.type # "chart" \/ answer.payload.inline # NoDef \/ Bad(answer.payload)
          \/ \E kind \in {"calc", "param"} : ~ Valid(kind, Pairs(file.own[kind]))
          \/ \E fs \in {RenderFilters(answer.payload), BatchFilters(answer.payload),
                        Parsed(answer.payload.filters)} :
               ~ Applies(Asked(file, fs, DrillOf(answer.payload)), file.page, VisualId)

\* As days pass, no relative range ever begins or ends earlier than before, although
\* months differ in length; the last, this and the next whole unit adjoin, and so do
\* the days before and after today.
Relatives == [direction : Directions, unit : DateUnits, count : 1..2,
              current : BOOLEAN, whole : BOOLEAN]
Adjoin(d, unit, whole) ==
  LET range(direction) == DateRange(d, [direction |-> direction, unit |-> unit, count |-> 1,
                                        current |-> FALSE, whole |-> whole])
      now == IF whole THEN range("this") ELSE <<d, d>>
  IN range("last")[2] + 1 = now[1] /\ now[2] + 1 = range("next")[1]
RangesMoveOn ==
  [][today' # today =>
       /\ \A sel \in Relatives :
            /\ DateRange(today, sel)[1] <= DateRange(today', sel)[1]
            /\ DateRange(today, sel)[2] <= DateRange(today', sel)[2]
       /\ \A unit \in DateUnits, whole \in BOOLEAN : Adjoin(today', unit, whole)]_today
================================================================================
