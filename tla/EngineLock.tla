------------------------------ MODULE EngineLock ------------------------------
(* The threads that contend for _ENGINE_LOCK, and what each does while it holds
   it.  threading.Lock is not reentrant: a holder that asks again waits.

   Request threads serve single renders, slicer values, selection states and
   edits; the event loop runs the front half of a batch itself (render_batch is
   a coroutine that takes the lock without awaiting) and pool workers render the
   visuals of the batch.  Before a plan, each of these materializes the slicer
   definitions, and that evaluates the slicer defaults that are measures: under
   the lock, then on the thread's cached DuckDB connection, which the evaluation
   closes when it is done.  A selection state asks for this while it holds the
   lock.

   The other users: a matrix plans its main query and then one query after
   another for its measure blocks; playbooks and forecasts prepare the engine
   once and plan many times; calculated tables, drafts of measures and columns,
   single measures, exports and the analysis of measures plan and run; the data
   view and the export of a matrix only run.                                  *)
EXTENDS Naturals

CONSTANTS
  Http,      \* request threads
  Loop,      \* the thread of the event loop
  Pool,      \* workers of _BATCH_POOL
  Slicers,   \* slicer definitions, each on a field of its own
  Defaults,  \* those whose default is a measure, to be applied on load
  Kinds,     \* the kinds of request that come in
  Visuals,   \* the data visuals of a batch
  Parts,     \* bound: statements of a matrix, a playbook, an export, an analysis
  Nobody     \* the lock is free, a request has no slicer of its own

Threads   == Http \cup Pool \cup {Loop}

\* The kinds whose payload is checked against the role before anything else.
Checked   == {"evaluate", "table", "tableEdit", "rows", "matrixExport"}
\* Those that go on with the next item when one fails.
Series    == {"export", "analyze"}
HttpKinds == {"visual", "values", "selection", "edit", "matrix", "playbook", "check"}
             \cup Checked \cup Series

ASSUME ThreadsAssumption ==
  /\ Loop \notin Http \cup Pool /\ Http \cap Pool = {}
  /\ Nobody \notin Threads \cup Slicers \cup Visuals
ASSUME SlicersAssumption == Defaults \subseteq Slicers
ASSUME KindsAssumption   == Kinds \subseteq HttpKinds \cup {"batch"}
ASSUME PartsAssumption   == Parts \in Nat

VARIABLES
  lock,     \* the holder of _ENGINE_LOCK
  waiting,  \* the threads blocked in its acquire
  pc,       \* per thread, where it is
  req,      \* per thread, the request it serves
  con,      \* per thread, its cached connection: "none", "open" or "closed"
  batch     \* per visual, its part of the one batch under way

vars == <<lock, waiting, pc, req, con, batch>>

\* own: the slicer whose field is asked for, which must not filter itself;
\* left: the statements that are still to be planned.
NoRequest == [kind |-> "none", own |-> Nobody, defs |-> {}, fields |-> {},
              visual |-> Nobody, left |-> 0]

Init ==
  /\ lock = Nobody /\ waiting = {}
  /\ pc  = [t \in Threads |-> "idle"]
  /\ req = [t \in Threads |-> NoRequest]
  /\ con = [t \in Threads |-> "none"]
  /\ batch = [v \in Visuals |-> "none"]

Go(t, to) == pc' = [pc EXCEPT ![t] = to]
Keep(t, r) == req' = [req EXCEPT ![t] = r]
Cached(t, state) == con' = [con EXCEPT ![t] = state]

\* `with _ENGINE_LOCK:` first asks; `At` is in its body.
Ask(t, section) == Go(t, section) /\ waiting' = waiting \cup {t}
At(t, section)  == pc[t] = section /\ t \notin waiting
Release         == lock' = Nobody

Finish(t) == Go(t, "idle") /\ Keep(t, NoRequest)

\* The error or the rows of one statement: a series goes on behind it.
Answer(t) == IF req[t].kind \in Series THEN Go(t, "nextItem") /\ UNCHANGED req
                                      ELSE Finish(t)

\* The slicers whose default a request evaluates: its own is excluded.
Candidates(r) == Defaults \ {r.own}
Selecting(t)  == req[t].kind = "selection"

Acquire(t) ==
  /\ t \in waiting
  /\ lock = Nobody
  /\ lock' = t
  /\ waiting' = waiting \ {t}
  /\ UNCHANGED <<pc, req, con, batch>>

-----------------------------------------------------------------------------
(* A request comes in.  Security comes first (_build_runtime_security_state);
   an edit goes straight to the invalidation of the engine cache.             *)
Begin(t) ==
  /\ pc[t] = "idle"
  /\ \/ /\ t \in Http /\ "visual" \in Kinds
        /\ Keep(t, [NoRequest EXCEPT !.kind = "visual"])
     \/ /\ t \in Http /\ "values" \in Kinds
        /\ \E s \in Slicers : Keep(t, [NoRequest EXCEPT !.kind = "values", !.own = s])
     \/ /\ t \in Http /\ "selection" \in Kinds
        /\ \E affected \in (SUBSET Slicers) \ {{}} :
             Keep(t, [NoRequest EXCEPT !.kind = "selection", !.fields = affected])
     \/ /\ t = Loop /\ "batch" \in Kinds
        /\ \A v \in Visuals : batch[v] = "none"
        /\ Keep(t, [NoRequest EXCEPT !.kind = "batch"])
  /\ Ask(t, "security")
  /\ UNCHANGED <<lock, con, batch>>

BeginEdit(t) ==
  /\ pc[t] = "idle" /\ t \in Http /\ "edit" \in Kinds
  /\ Keep(t, [NoRequest EXCEPT !.kind = "edit"])
  /\ Ask(t, "invalidate")
  /\ UNCHANGED <<lock, con, batch>>

\* A worker takes a visual whose result and plan are in no cache.
BeginVisual(t) ==
  /\ pc[t] = "idle" /\ t \in Pool
  /\ \E v \in Visuals :
       /\ batch[v] = "queued"
       /\ batch' = [batch EXCEPT ![v] = "rendering"]
       /\ Keep(t, [NoRequest EXCEPT !.kind = "part", !.visual = v])
  /\ Ask(t, "plan")
  /\ UNCHANGED <<lock, con>>

\* A selection state has its connection before it looks at a field.
AfterSecurity(kind) ==
  IF kind = "selection" THEN "connect" ELSE IF kind \in Checked THEN "checked" ELSE "defaults"

Secured(t) ==
  /\ At(t, "security")
  /\ Release
  /\ Go(t, AfterSecurity(req[t].kind))
  /\ Keep(t, [req[t] EXCEPT !.defs = IF req[t].kind \in Checked THEN {}
                                                               ELSE Candidates(req[t])])
  /\ UNCHANGED <<waiting, con, batch>>

SecurityFails(t) ==
  /\ At(t, "security")
  /\ Release
  /\ Finish(t)
  /\ UNCHANGED <<waiting, con, batch>>

Invalidate(t) ==
  /\ At(t, "invalidate")
  /\ Release
  /\ Finish(t)
  /\ Cached(t, "none")
  /\ UNCHANGED <<waiting, batch>>

-----------------------------------------------------------------------------
(* _materialize_slicer_defs_to_filter_payload_items: one default after another,
   each planned under the lock and run outside it.  The first that fails ends
   the request, except in a selection state, which then filters by no slicer. *)
NextDefault(t) ==
  /\ pc[t] = "defaults"
  /\ \E d \in req[t].defs : Keep(t, [req[t] EXCEPT !.defs = @ \ {d}])
  /\ Ask(t, "default")
  /\ UNCHANGED <<lock, con, batch>>

\* A definition is malformed, or its default names no visible measure.
SlicersInvalid(t) ==
  /\ pc[t] = "defaults"
  /\ IF Selecting(t) THEN Go(t, "fieldPlan") /\ UNCHANGED req ELSE Finish(t)
  /\ UNCHANGED <<lock, waiting, con, batch>>

PlanDefault(t) ==
  /\ At(t, "default")
  /\ Release
  /\ Go(t, "defaultConnect")
  /\ UNCHANGED <<waiting, req, con, batch>>

PlanDefaultFails(t) ==
  /\ At(t, "default")
  /\ Release
  /\ IF Selecting(t) THEN Go(t, "fieldPlan") /\ UNCHANGED req ELSE Finish(t)
  /\ UNCHANGED <<waiting, con, batch>>

\* Mutant of Connect: the cached connection is returned without being tried.
ConnectUntried(t, from, to) ==
  /\ pc[t] = from
  /\ Go(t, to)
  /\ Cached(t, IF con[t] = "none" THEN "open" ELSE con[t])
  /\ UNCHANGED <<lock, waiting, req, batch>>

\* _get_cached_duckdb_connection tries a cached connection before it returns it.
Connect(t, from, to) ==
  /\ pc[t] = from
  /\ Go(t, to)
  /\ Cached(t, "open")
  /\ UNCHANGED <<lock, waiting, req, batch>>

ConnectDefault(t) == Connect(t, "defaultConnect", "defaultQuery")

\* The database cannot be opened or a source cannot be loaded.
ConnectDefaultFails(t) ==
  /\ pc[t] = "defaultConnect"
  /\ IF Selecting(t) THEN Go(t, "fieldPlan") /\ UNCHANGED req ELSE Finish(t)
  /\ UNCHANGED <<lock, waiting, con, batch>>

QueryDefault(t) ==
  /\ pc[t] = "defaultQuery"
  /\ Go(t, "defaults")
  /\ Cached(t, "closed")
  /\ UNCHANGED <<lock, waiting, req, batch>>

QueryDefaultFails(t) ==
  /\ pc[t] = "defaultQuery"
  /\ IF Selecting(t) THEN Go(t, "fieldPlan") /\ UNCHANGED req ELSE Finish(t)
  /\ Cached(t, "closed")
  /\ UNCHANGED <<lock, waiting, batch>>

-----------------------------------------------------------------------------
(* Renders and slicer values: plan under the lock, run on the connection.  The
   handler of values closes the connection; a render whose plan is cached skips
   the lock; the coroutine of a batch only hands its visuals to the pool.     *)
AskPlan(t) ==
  /\ pc[t] = "defaults" /\ req[t].defs = {}
  /\ req[t].kind \in {"visual", "values"}
  /\ Ask(t, "plan")
  /\ UNCHANGED <<lock, req, con, batch>>

PlanCached(t) ==
  /\ pc[t] = "defaults" /\ req[t].defs = {}
  /\ req[t].kind = "visual"
  /\ Go(t, "connect")
  /\ UNCHANGED <<lock, waiting, req, con, batch>>

Submit(t) ==
  /\ pc[t] = "defaults" /\ req[t].defs = {}
  /\ req[t].kind = "batch"
  /\ Finish(t)
  /\ batch' = [v \in Visuals |-> "queued"]
  /\ UNCHANGED <<lock, waiting, con>>

Plan(t) ==
  /\ At(t, "plan")
  /\ Release
  /\ Go(t, "connect")
  /\ UNCHANGED <<waiting, req, con, batch>>

\* What a worker could not render is an error result of the batch.
Delivered(t) ==
  batch' = [v \in Visuals |-> IF v = req[t].visual THEN "done" ELSE batch[v]]

\* Mutant of PlanFails: the exception of a worker is lost.
PlanFailsSilently(t) ==
  /\ At(t, "plan")
  /\ Release
  /\ Answer(t)
  /\ UNCHANGED <<waiting, con, batch>>

PlanFails(t) ==
  /\ At(t, "plan")
  /\ Release
  /\ Answer(t)
  /\ Delivered(t)
  /\ UNCHANGED <<waiting, con>>

AfterConnect(kind) ==
  IF kind = "selection" THEN "nextField"
  ELSE IF kind \in {"matrix", "playbook"} THEN "connected" ELSE "query"

ConnectRequest(t) == Connect(t, "connect", AfterConnect(req[t].kind))

ConnectRequestFails(t) ==
  /\ pc[t] = "connect"
  /\ Answer(t)
  /\ Delivered(t)
  /\ UNCHANGED <<lock, waiting, con>>

\* The rows, or the error of a query that DuckDB rejects.
Query(t) ==
  /\ pc[t] = "query"
  /\ Answer(t)
  /\ Cached(t, IF req[t].kind \in {"values", "rows"} THEN "closed" ELSE con[t])
  /\ Delivered(t)
  /\ UNCHANGED <<lock, waiting>>

\* The coroutine goes on when every visual has its result and the loop is free.
AnswerBatch(t) ==
  /\ t = Loop /\ pc[t] = "idle"
  /\ Visuals # {} /\ \A v \in Visuals : batch[v] = "done"
  /\ batch' = [v \in Visuals |-> "none"]
  /\ UNCHANGED <<lock, waiting, pc, req, con>>

-----------------------------------------------------------------------------
(* Selection state: field after field, each with one section that prepares the
   engine, materializes the other slicers and plans two queries; a field that
   fails is answered with an error and the next one is tried.                 *)
NextField(t) ==
  /\ pc[t] = "nextField"
  /\ \E f \in req[t].fields :
       Keep(t, [req[t] EXCEPT !.own = f, !.fields = @ \ {f}])
  /\ Ask(t, "field")
  /\ UNCHANGED <<lock, con, batch>>

AnswerSelection(t) ==
  /\ pc[t] = "nextField" /\ req[t].fields = {}
  /\ Finish(t)
  /\ Cached(t, "closed")
  /\ UNCHANGED <<lock, waiting, batch>>

\* Still inside the section.
PrepareField(t) ==
  /\ At(t, "field")
  /\ Go(t, "defaults")
  /\ Keep(t, [req[t] EXCEPT !.defs = Candidates(req[t])])
  /\ UNCHANGED <<lock, waiting, con, batch>>

PrepareFieldFails(t) ==
  /\ At(t, "field")
  /\ Release
  /\ Go(t, "nextField")
  /\ UNCHANGED <<waiting, req, con, batch>>

DefaultsDone(t) ==
  /\ pc[t] = "defaults" /\ req[t].defs = {}
  /\ Selecting(t)
  /\ Go(t, "fieldPlan")
  /\ UNCHANGED <<lock, waiting, req, con, batch>>

PlanField(t) ==
  /\ pc[t] = "fieldPlan"
  /\ Release
  /\ Go(t, "fieldQuery")
  /\ UNCHANGED <<waiting, req, con, batch>>

\* Mutant of PlanFieldFails: the error path keeps the lock.
PlanFieldFailsHolding(t) ==
  /\ pc[t] = "fieldPlan"
  /\ Go(t, "nextField")
  /\ UNCHANGED <<lock, waiting, req, con, batch>>

PlanFieldFails(t) ==
  /\ pc[t] = "fieldPlan"
  /\ Release
  /\ Go(t, "nextField")
  /\ UNCHANGED <<waiting, req, con, batch>>

QueryField(t) ==
  /\ pc[t] = "fieldQuery"
  /\ Go(t, "nextField")
  /\ UNCHANGED <<lock, waiting, req, con, batch>>

-----------------------------------------------------------------------------
(* The other requests.  Some are secured first, then check what is asked for. *)
Comes(t, r, section) ==
  /\ pc[t] = "idle" /\ t \in Http /\ r.kind \in Kinds
  /\ Keep(t, r)
  /\ Ask(t, section)
  /\ UNCHANGED <<lock, con, batch>>

Asked(kind)         == [NoRequest EXCEPT !.kind = kind]
AskedFor(kind, n)   == [NoRequest EXCEPT !.kind = kind, !.left = n]

BeginEvaluate(t)     == Comes(t, Asked("evaluate"), "security")
BeginTable(t)        == \E k \in {"table", "tableEdit"} : Comes(t, Asked(k), "security")
BeginRows(t)         == Comes(t, Asked("rows"), "security")
BeginMatrixExport(t) == Comes(t, Asked("matrixExport"), "security")
BeginMatrix(t)       == \E n \in 0 .. Parts : Comes(t, AskedFor("matrix", n), "security")

\* The draft of a measure or a column, the row filter of a role, a saved measure.
BeginCheck(t)        == Comes(t, Asked("check"), "plan")

Starts(t, r, to) ==
  /\ pc[t] = "idle" /\ t \in Http /\ r.kind \in Kinds
  /\ Keep(t, r)
  /\ Go(t, to)
  /\ UNCHANGED <<lock, waiting, con, batch>>

BeginExport(t)   == \E n \in 0 .. Parts : Starts(t, AskedFor("export", n), "nextItem")
BeginAnalyze(t)  == \E n \in 0 .. Parts : Starts(t, AskedFor("analyze", n), "nextItem")
BeginPlaybook(t) == \E n \in 0 .. Parts : Starts(t, AskedFor("playbook", n), "connect")

\* What is asked for is hidden from the role, malformed, or known without a query.
CheckAnswers(t) ==
  /\ pc[t] = "checked"
  /\ Finish(t)
  /\ UNCHANGED <<lock, waiting, con, batch>>

\* One measure: as the default of a slicer is evaluated.
Evaluate(t) ==
  /\ pc[t] = "checked" /\ req[t].kind = "evaluate"
  /\ Ask(t, "default")
  /\ UNCHANGED <<lock, req, con, batch>>

AnswerEvaluation(t) ==
  /\ pc[t] = "defaults" /\ req[t].kind = "evaluate"
  /\ Finish(t)
  /\ UNCHANGED <<lock, waiting, con, batch>>

CompileTable(t) ==
  /\ pc[t] = "checked" /\ req[t].kind \in {"table", "tableEdit"}
  /\ Ask(t, "plan")
  /\ UNCHANGED <<lock, req, con, batch>>

\* Its columns are known: the table is saved and the caches are invalidated.
SaveTable(t) ==
  /\ pc[t] = "query" /\ req[t].kind = "tableEdit"
  /\ Ask(t, "invalidate")
  /\ UNCHANGED <<lock, req, con, batch>>

\* The table sources are read from the engine without its lock.
ReadRows(t) ==
  /\ pc[t] = "checked" /\ req[t].kind = "rows"
  /\ Go(t, "connect")
  /\ UNCHANGED <<lock, waiting, req, con, batch>>

\* The statement and those of its totals are planned without the lock.
ExportMatrix(t) ==
  /\ pc[t] = "checked" /\ req[t].kind = "matrixExport"
  /\ Go(t, "connect")
  /\ UNCHANGED <<lock, waiting, req, con, batch>>

TakeItem(t) == pc[t] = "nextItem" /\ req[t].left > 0
               /\ Keep(t, [req[t] EXCEPT !.left = @ - 1])

\* The next visual of a page, the next measure of an analysis.
PlanItem(t) ==
  /\ TakeItem(t)
  /\ Ask(t, "plan")
  /\ UNCHANGED <<lock, con, batch>>

ItemCached(t) ==
  /\ TakeItem(t) /\ req[t].kind = "export"
  /\ Go(t, "connect")
  /\ UNCHANGED <<lock, waiting, con, batch>>

AnswerSeries(t) ==
  /\ pc[t] = "nextItem" /\ req[t].left = 0
  /\ Finish(t)
  /\ UNCHANGED <<lock, waiting, con, batch>>

-----------------------------------------------------------------------------
(* A matrix connects, plans and runs its main query with the queries of its
   totals, and then, block after block, plans under the lock and runs on the
   same connection.  A playbook connects, prepares the engine, and does the same
   for its measures.  A part that fails is left out or ends the request.  What
   opened the connection of a playbook also closes it.                        *)
ConnectMatrix(t) ==
  /\ pc[t] = "defaults" /\ req[t].defs = {} /\ req[t].kind = "matrix"
  /\ Go(t, "connect")
  /\ UNCHANGED <<lock, waiting, req, con, batch>>

NothingToShow(t) ==
  /\ pc[t] = "connected" /\ req[t].kind = "matrix"
  /\ Finish(t)
  /\ UNCHANGED <<lock, waiting, con, batch>>

AskMain(t) ==
  /\ pc[t] = "connected"
  /\ Ask(t, "main")
  /\ UNCHANGED <<lock, req, con, batch>>

PlanMain(t) ==
  /\ At(t, "main")
  /\ Release
  /\ Go(t, IF req[t].kind = "matrix" THEN "mainQuery" ELSE "nextPart")
  /\ UNCHANGED <<waiting, req, con, batch>>

\* The end of a matrix or of a playbook, with its result or with an error.
Leave(t) == Finish(t) /\ Cached(t, IF req[t].kind = "playbook" THEN "closed" ELSE con[t])

PlanMainFails(t) ==
  /\ At(t, "main")
  /\ Release
  /\ Leave(t)
  /\ UNCHANGED <<waiting, batch>>

QueryMain(t) ==
  /\ pc[t] = "mainQuery"
  /\ Go(t, "nextPart")
  /\ UNCHANGED <<lock, waiting, req, con, batch>>

QueryMainFails(t) ==
  /\ pc[t] = "mainQuery"
  /\ Leave(t)
  /\ UNCHANGED <<lock, waiting, batch>>

NextPart(t) ==
  /\ pc[t] = "nextPart" /\ req[t].left > 0
  /\ Keep(t, [req[t] EXCEPT !.left = @ - 1])
  /\ Ask(t, "part")
  /\ UNCHANGED <<lock, con, batch>>

PlanPart(t) ==
  /\ At(t, "part")
  /\ Release
  /\ Go(t, "partQuery")
  /\ UNCHANGED <<waiting, req, con, batch>>

PartIsLeftOut(t) ==
  /\ At(t, "part")
  /\ Release
  /\ Go(t, "nextPart")
  /\ UNCHANGED <<waiting, req, con, batch>>

PartFails(t) ==
  /\ At(t, "part")
  /\ Release
  /\ Leave(t)
  /\ UNCHANGED <<waiting, batch>>

\* With its rows or with an error: the next part is tried.
QueryPart(t) ==
  /\ pc[t] = "partQuery"
  /\ Go(t, "nextPart")
  /\ UNCHANGED <<lock, waiting, req, con, batch>>

QueryPartFails(t) ==
  /\ pc[t] = "partQuery"
  /\ Leave(t)
  /\ UNCHANGED <<lock, waiting, batch>>

AnswerParts(t) ==
  /\ pc[t] = "nextPart" /\ req[t].left = 0
  /\ Leave(t)
  /\ UNCHANGED <<lock, waiting, batch>>

-----------------------------------------------------------------------------
DefaultStep(t) ==
  \/ NextDefault(t) \/ SlicersInvalid(t) \/ PlanDefault(t) \/ PlanDefaultFails(t)
  \/ ConnectDefault(t) \/ ConnectDefaultFails(t)
  \/ QueryDefault(t) \/ QueryDefaultFails(t)

PlanStep(t) ==
  \/ AskPlan(t) \/ PlanCached(t) \/ Submit(t) \/ Plan(t) \/ PlanFails(t)
  \/ ConnectRequest(t) \/ ConnectRequestFails(t) \/ Query(t)

FieldStep(t) ==
  \/ NextField(t) \/ AnswerSelection(t) \/ PrepareField(t) \/ PrepareFieldFails(t)
  \/ DefaultsDone(t) \/ PlanField(t) \/ PlanFieldFails(t) \/ QueryField(t)

CheckedStep(t) ==
  \/ CheckAnswers(t) \/ Evaluate(t) \/ AnswerEvaluation(t) \/ CompileTable(t)
  \/ SaveTable(t) \/ ReadRows(t) \/ ExportMatrix(t)
  \/ PlanItem(t) \/ ItemCached(t) \/ AnswerSeries(t)

PartStep(t) ==
  \/ ConnectMatrix(t) \/ NothingToShow(t) \/ AskMain(t) \/ PlanMain(t) \/ PlanMainFails(t)
  \/ QueryMain(t) \/ QueryMainFails(t) \/ NextPart(t) \/ PlanPart(t) \/ PartIsLeftOut(t)
  \/ PartFails(t) \/ QueryPart(t) \/ QueryPartFails(t) \/ AnswerParts(t)

ServeStep(t) ==
  \/ Secured(t) \/ SecurityFails(t) \/ Invalidate(t)
  \/ DefaultStep(t) \/ PlanStep(t) \/ FieldStep(t) \/ CheckedStep(t) \/ PartStep(t)

BeginStep(t) == Begin(t) \/ BeginEdit(t)

BeginOther(t) ==
  \/ BeginEvaluate(t) \/ BeginTable(t) \/ BeginRows(t) \/ BeginMatrixExport(t)
  \/ BeginMatrix(t) \/ BeginCheck(t)
  \/ BeginExport(t) \/ BeginAnalyze(t) \/ BeginPlaybook(t)

Next == \E t \in Threads :
  BeginStep(t) \/ BeginOther(t) \/ BeginVisual(t) \/ Acquire(t) \/ ServeStep(t) \/ AnswerBatch(t)

Spec == Init /\ [][Next]_vars

(* Nobody has to send a request.  A thread that runs goes on running, a worker
   takes what is queued, the loop resumes a coroutine that is ready; a thread
   that waits for the lock gets it if the lock is free again and again.       *)
Fairness == \A t \in Threads : /\ WF_vars(ServeStep(t) \/ BeginVisual(t))
                               /\ WF_vars(AnswerBatch(t))
                               /\ SF_vars(Acquire(t))

FairSpec == Spec /\ Fairness
-----------------------------------------------------------------------------
Sections == {"security", "invalidate", "default", "plan", "field", "main", "part"}
Labels   == Sections \cup {"idle", "defaults", "defaultConnect", "defaultQuery",
                           "connect", "query", "nextField", "fieldPlan",
                           "fieldQuery", "checked", "connected", "mainQuery",
                           "nextPart", "partQuery", "nextItem"}

Requests == [kind : HttpKinds \cup {"none", "batch", "part"},
             own : Slicers \cup {Nobody}, defs : SUBSET Slicers,
             fields : SUBSET Slicers, visual : Visuals \cup {Nobody}, left : Nat]

(* Every variable has its type: no thread is at a label the code does not have,
   and the coroutine knows the outcome of each of its visuals.                *)
TypeOK ==
  /\ lock \in Threads \cup {Nobody} /\ waiting \subseteq Threads
  /\ pc \in [Threads -> Labels]
  /\ req \in [Threads -> Requests]
  /\ con \in [Threads -> {"none", "open", "closed"}]
  /\ batch \in [Visuals -> {"none", "queued", "rendering", "done"}]

\* Where a thread is while it is in the body of `with _ENGINE_LOCK:`.
Inside(t) ==
  \/ pc[t] \in Sections /\ t \notin waiting
  \/ Selecting(t) /\ pc[t] \in {"defaults", "default", "fieldPlan"}

(* "callers must hold _ENGINE_LOCK across planning": of all threads exactly the
   one inside a section holds the lock, and none leaves a section, by a result
   or by any of the errors, without giving it back.                           *)
LockHeldExactlyInside == \A t \in Threads : lock = t <=> Inside(t)

(* The evaluation of a default and the handler of slicer values close the
   connection that stays cached in their thread, and so do the data view and the
   playbooks: no query of a later step or part, or of a later request of the
   thread, runs on a connection that was closed.                              *)
QueriesRunOnOpenConnections ==
  \A t \in Threads :
    pc[t] \in {"query", "defaultQuery", "fieldQuery", "mainQuery", "partQuery"} =>
      con[t] = "open"

(* Every request is answered, and so is the batch that the event loop handed to
   the pool, whichever of its visuals fail.                                   *)
RequestsAnswered ==
  /\ \A t \in Threads : pc[t] # "idle" ~> pc[t] = "idle"
  /\ \A v \in Visuals : batch[v] = "queued" ~> batch[v] = "none"

(* "Safe fallback: all values are possible": a selection state is answered, its
   fields with values or with an error.  Violated with the default of another
   slicer to evaluate: the thread asks for the lock it holds.                 *)
SelectionsAnswered ==
  \A t \in Threads : Selecting(t) ~> pc[t] = "idle"
===============================================================================
