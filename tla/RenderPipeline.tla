--------------------------- MODULE RenderPipeline ---------------------------
(* The render path of the Python sidecar and the edits that run beside it.

   One project, one visual, one role and one filter set, so that a cache key is
   a project signature and nothing else.  File contents are version counters:
   a write replaces a file by its successor, and whatever a thread computes
   carries the versions it was computed from.

     eng  measures.yaml, relationships.yaml and tables/*.yaml: the files that
          _project_signature looks at
     aux  the other model files that load_project parses (calculation groups,
          parameters, hierarchies, security)
     sel  the selections of calculation groups, field parameters and what-if
          parameters: read by every render, covered by no signature

   A batch worker answers from the result cache or runs the whole path; a
   request thread runs the path without the result cache, and also runs the
   edits.  Between any two steps another thread may run.                      *)
EXTENDS Naturals

CONSTANTS
  Pool,        \* worker threads of _BATCH_POOL
  Http,        \* request threads: single renders and edits
  Edits,       \* the kinds of edit the users make, a subset of EditKinds
  CalcTables,  \* versions of the model, in memory, that have calculated tables
  MaxWrites,   \* bound: number of edits of a behaviour
  Absent,      \* no entry, no value
  Free         \* _ENGINE_LOCK has no holder

Threads   == Pool \cup Http
Version   == 0 .. MaxWrites
EditKinds == {"measure", "aux", "security", "selection"}

Files  == [eng : Version, aux : Version, sel : Version]
Model  == [eng : Version, aux : Version]
Load   == [sig : Model, model : Model]
Engine == [sig : Version, meas : Version]
\* meas: the compiled measures; eng, aux, sel: what the plan was shaped by.
Plan   == [meas : Version, eng : Version, aux : Version, sel : Version]
Result == [plan : Plan, conn : Version]

ASSUME BoundAssumption   == MaxWrites \in Nat
ASSUME ThreadsAssumption == Pool \cap Http = {} /\ Free \notin Threads
ASSUME EditsAssumption   == Edits \subseteq EditKinds /\ CalcTables \subseteq Version
ASSUME AbsentAssumption  ==
  Absent \notin Version \cup Load \cup Engine \cup Plan \cup Result

VARIABLES
  disk,       \* the versions on disk
  settled,    \* the versions whose edit has finished, invalidation included
  overlapped, \* some edit and some render have run at the same time
  lp,         \* _LP_CACHE[project]
  engine,     \* _ENGINE_CACHE[project]
  active,     \* the signature in _ACTIVE_ENGINE
  registry,   \* the measures in the process-global compiler registry
  lock,       \* the holder of _ENGINE_LOCK
  sqlc,       \* sql_cache: signature -> plan
  resc,       \* result_cache: signature -> result
  conn,       \* per thread, the sources its cached DuckDB connection holds
  pc,         \* per thread, its next step
  loc         \* per thread, the locals of the request it serves

files  == <<disk, settled, overlapped>>
caches == <<lp, engine, active, registry, sqlc, resc>>
vars   == <<disk, settled, overlapped, lp, engine, active, registry, lock,
            sqlc, resc, conn, pc, loc>>

NoEntries == [v \in Version |-> Absent]
NoFiles   == [eng |-> 0, aux |-> 0, sel |-> 0]
NoModel   == [eng |-> 0, aux |-> 0]

\* asked: what was settled when the request came in; wrote: what an edit left.
NoLocals == [job |-> "none", asked |-> NoFiles, wrote |-> NoFiles, rsig |-> 0,
             lpsig |-> NoModel, model |-> NoModel, sel |-> 0, psig |-> 0,
             plan |-> Absent, result |-> Absent]

Editing(t)   == loc[t].job \in EditKinds
Rendering(t) == loc[t].job \in {"batch", "single"}

\* An edit that has written and has not finished invalidating.
Unsettled(t) == pc[t] \in {"invEngine", "invLoad", "invConn", "invResult",
                           "invPlan", "settle"}

ModelFiles == [eng |-> disk.eng, aux |-> disk.aux]

Init ==
  /\ disk = NoFiles /\ settled = NoFiles /\ overlapped = FALSE
  /\ lp = Absent /\ engine = Absent /\ active = Absent /\ registry = Absent
  /\ lock = Free
  /\ sqlc = NoEntries /\ resc = NoEntries
  /\ conn = [t \in Threads |-> Absent]
  /\ pc   = [t \in Threads |-> "idle"]
  /\ loc  = [t \in Threads |-> NoLocals]

\* A step of a thread: from one label to the next.
Step(t, from, to) == pc[t] = from /\ pc' = [pc EXCEPT ![t] = to]
Keep(t, locals) == loc' = [loc EXCEPT ![t] = locals]
Return(t, from) == Step(t, from, "idle") /\ Keep(t, NoLocals)

-----------------------------------------------------------------------------
(* A request comes in.  A batch worker first computes the signature that keys
   the result cache.                                                         *)
Begin(t, job, to) ==
  /\ Step(t, "idle", to)
  /\ Keep(t, [NoLocals EXCEPT !.job = job, !.asked = settled, !.rsig = disk.eng])
  /\ overlapped' = (overlapped \/ \E u \in Threads : Unsettled(u))
  /\ UNCHANGED <<disk, settled, caches, lock, conn>>

BeginBatch(t)  == t \in Pool /\ Begin(t, "batch", "resultGet")
BeginSingle(t) == t \in Http /\ Begin(t, "single", "loadSig")

(* RenderResultCache.get: an entry that has expired is deleted and missed, and
   eviction may have removed any entry, so a present entry may be missed.    *)
ResultHit(t) ==
  /\ resc[loc[t].rsig] # Absent
  /\ Step(t, "resultGet", "reply")
  /\ Keep(t, [loc[t] EXCEPT !.result = resc[loc[t].rsig]])
  /\ UNCHANGED <<files, caches, lock, conn>>

ResultMiss(t) ==
  /\ Step(t, "resultGet", "loadSig")
  /\ resc' = [resc EXCEPT ![loc[t].rsig] = Absent]
  /\ UNCHANGED <<files, lp, engine, active, registry, sqlc, lock, conn, loc>>

-----------------------------------------------------------------------------
(* load_project: signature first, then the cache, then the files one by one,
   and the entry is stored under the signature taken at the beginning.       *)
AfterLoad(t) == IF Rendering(t) THEN "selections"
                ELSE IF loc[t].wrote = NoFiles THEN "write" ELSE "finish"

LoadCached(t) == lp # Absent /\ lp.sig = loc[t].lpsig

LoadSignature(t) ==
  /\ Step(t, "loadSig", "loadGet")
  /\ Keep(t, [loc[t] EXCEPT !.lpsig = ModelFiles])
  /\ UNCHANGED <<files, caches, lock, conn>>

LoadHit(t) ==
  /\ LoadCached(t)
  /\ Step(t, "loadGet", AfterLoad(t))
  /\ Keep(t, [loc[t] EXCEPT !.model = lp.model])
  /\ UNCHANGED <<files, caches, lock, conn>>

LoadMiss(t) ==
  /\ ~ LoadCached(t)
  /\ Step(t, "loadGet", "parseModel")
  /\ UNCHANGED <<files, caches, lock, conn, loc>>

ParseModel(t) ==
  /\ Step(t, "parseModel", "parseAux")
  /\ Keep(t, [loc[t] EXCEPT !.model = [@ EXCEPT !.eng = disk.eng]])
  /\ UNCHANGED <<files, caches, lock, conn>>

ParseAux(t) ==
  /\ Step(t, "parseAux", "loadPut")
  /\ Keep(t, [loc[t] EXCEPT !.model = [@ EXCEPT !.aux = disk.aux]])
  /\ UNCHANGED <<files, caches, lock, conn>>

\* Mutant of LoadStore: the entry is stored under the signature of this moment.
LoadStoreLate(t) ==
  /\ Step(t, "loadPut", AfterLoad(t))
  /\ lp' = [sig |-> ModelFiles, model |-> loc[t].model]
  /\ UNCHANGED <<files, engine, active, registry, sqlc, resc, lock, conn, loc>>

LoadStore(t) ==
  /\ Step(t, "loadPut", AfterLoad(t))
  /\ lp' = [sig |-> loc[t].lpsig, model |-> loc[t].model]
  /\ UNCHANGED <<files, engine, active, registry, sqlc, resc, lock, conn, loc>>

\* A file is missing or does not parse, or the model does not validate.
LoadFails(t) ==
  /\ \E at \in {"parseModel", "parseAux", "loadPut"} : Return(t, at)
  /\ UNCHANGED <<files, caches, lock, conn>>

-----------------------------------------------------------------------------
(* The selections are read from disk on every render; then the plan cache is
   asked, under a signature computed only now.                               *)
ReadSelections(t) ==
  /\ Step(t, "selections", "planKey")
  /\ Keep(t, [loc[t] EXCEPT !.sel = disk.sel])
  /\ UNCHANGED <<files, caches, lock, conn>>

PlanKey(t) ==
  /\ Step(t, "planKey", "planGet")
  /\ Keep(t, [loc[t] EXCEPT !.psig = disk.eng])
  /\ UNCHANGED <<files, caches, lock, conn>>

PlanHit(t) ==
  /\ sqlc[loc[t].psig] # Absent
  /\ Step(t, "planGet", "connect")
  /\ Keep(t, [loc[t] EXCEPT !.plan = sqlc[loc[t].psig]])
  /\ UNCHANGED <<files, caches, lock, conn>>

PlanMiss(t) ==
  /\ Step(t, "planGet", "acquire")
  /\ sqlc' = [sqlc EXCEPT ![loc[t].psig] = Absent]
  /\ UNCHANGED <<files, lp, engine, active, registry, resc, lock, conn, loc>>
-----------------------------------------------------------------------------
(* get_prepared_engine, under _ENGINE_LOCK.  The signature is that of the disk
   now; what is built under it is the model the caller loaded before.        *)
EngineCached == engine # Absent /\ (active = disk.eng \/ engine.sig = disk.eng)

PreparedEngine(t) ==
  IF EngineCached THEN engine ELSE [sig |-> disk.eng, meas |-> loc[t].model.eng]

\* Mutant of PrepareEngine: get_prepared_engine called outside the lock.
PrepareEngineUnlocked(t) ==
  /\ Step(t, "acquire", "compile")
  /\ lock' = t
  /\ engine' = PreparedEngine(t)
  /\ registry' = PreparedEngine(t).meas
  /\ active' = disk.eng
  /\ UNCHANGED <<files, lp, sqlc, resc, conn, loc>>

PrepareEngine(t) ==
  /\ lock = Free
  /\ Step(t, "acquire", "compile")
  /\ lock' = t
  /\ engine' = PreparedEngine(t)
  /\ registry' = PreparedEngine(t).meas
  /\ active' = disk.eng
  /\ UNCHANGED <<files, lp, sqlc, resc, conn, loc>>

\* A measure does not compile; nothing has been replaced yet.
PrepareFails(t) ==
  /\ lock = Free
  /\ ~ EngineCached
  /\ Return(t, "acquire")
  /\ UNCHANGED <<files, caches, lock, conn>>

\* Planning reads the registry, and leaves the lock.
Compile(t) ==
  /\ registry # Absent
  /\ Step(t, "compile", "planPut")
  /\ Keep(t, [loc[t] EXCEPT
               !.plan = [meas |-> registry, eng |-> loc[t].model.eng,
                         aux |-> loc[t].model.aux, sel |-> loc[t].sel]])
  /\ lock' = Free
  /\ UNCHANGED <<files, caches, conn>>

\* A plan can fail, and does on an emptied registry: the lock is left.
CompileFails(t) ==
  /\ Return(t, "compile")
  /\ lock' = Free
  /\ UNCHANGED <<files, caches, conn>>

PlanStore(t) ==
  /\ Step(t, "planPut", "connect")
  /\ sqlc' = [sqlc EXCEPT ![loc[t].psig] = loc[t].plan]
  /\ UNCHANGED <<files, lp, engine, active, registry, resc, lock, conn, loc>>

-----------------------------------------------------------------------------
(* The query runs on the thread's own connection (one per thread, in a
   threading.local), which no other thread reads.  A new connection loads the
   sources of the caller's model; in memory and with calculated tables, that
   resets and refills the compiler registry, outside _ENGINE_LOCK.           *)
AfterExecute(t) == IF loc[t].job = "batch" THEN "resultPut" ELSE "reply"

Executed(t, sources) ==
  Keep(t, [loc[t] EXCEPT !.result = [plan |-> loc[t].plan, conn |-> sources]])

ExecuteOnCached(t) ==
  /\ conn[t] # Absent
  /\ Step(t, "connect", AfterExecute(t))
  /\ Executed(t, conn[t])
  /\ UNCHANGED <<files, caches, lock, conn>>

ExecuteOnNew(t) ==
  /\ conn[t] = Absent
  /\ loc[t].model.eng \notin CalcTables
  /\ Step(t, "connect", AfterExecute(t))
  /\ conn' = [conn EXCEPT ![t] = loc[t].model.eng]
  /\ Executed(t, loc[t].model.eng)
  /\ UNCHANGED <<files, caches, lock>>

ResetRegistry(t) ==
  /\ conn[t] = Absent
  /\ loc[t].model.eng \in CalcTables
  /\ Step(t, "connect", "materialize")
  /\ registry' = Absent
  /\ UNCHANGED <<files, lp, engine, active, sqlc, resc, lock, conn, loc>>

ExecuteOnMaterialized(t) ==
  /\ Step(t, "materialize", AfterExecute(t))
  /\ registry' = loc[t].model.eng
  /\ conn' = [conn EXCEPT ![t] = loc[t].model.eng]
  /\ Executed(t, loc[t].model.eng)
  /\ UNCHANGED <<files, lp, engine, active, sqlc, resc, lock>>

ResultStore(t) ==
  /\ Step(t, "resultPut", "reply")
  /\ resc' = [resc EXCEPT ![loc[t].rsig] = loc[t].result]
  /\ UNCHANGED <<files, lp, engine, active, registry, sqlc, lock, conn, loc>>

\* Selections that name what is gone, or a query that DuckDB rejects.
RenderFails(t) ==
  /\ \E at \in {"selections", "connect"} : Return(t, at)
  /\ UNCHANGED <<files, caches, lock, conn>>

Reply(t) ==
  /\ Return(t, "reply")
  /\ UNCHANGED <<files, caches, lock, conn>>

-----------------------------------------------------------------------------
(* Edits.  Most handlers load the project to check the request, some write at
   once; each writes one file.  The handlers of the model files then call
   _invalidate_engine_cache_for_project; the roles handler only loads the
   project again; Save All and the selection handlers do neither.            *)
BeginEdit(t) ==
  /\ t \in Http
  /\ \E to \in {"loadSig", "write"} : Step(t, "idle", to)
  /\ \E kind \in Edits : Keep(t, [NoLocals EXCEPT !.job = kind])
  /\ UNCHANGED <<files, caches, lock, conn>>

\* A conflict, a name not found, an invalid payload or a failed write.
RejectEdit(t) ==
  /\ Return(t, "write")
  /\ UNCHANGED <<files, caches, lock, conn>>

WrittenBy(kind) == CASE kind = "measure" -> [disk EXCEPT !.eng = @ + 1]
                     [] kind \in {"aux", "security"} -> [disk EXCEPT !.aux = @ + 1]
                     [] kind = "selection" -> [disk EXCEPT !.sel = @ + 1]
Invalidates(kind) == kind \in {"measure", "aux"}

Write(t) ==
  /\ disk.eng + disk.aux + disk.sel < MaxWrites
  /\ Step(t, "write", IF Invalidates(loc[t].job) THEN "invEngine" ELSE "settle")
  /\ disk' = WrittenBy(loc[t].job)
  /\ Keep(t, [loc[t] EXCEPT !.wrote = WrittenBy(loc[t].job)])
  /\ overlapped' = (overlapped \/ \E u \in Threads : Rendering(u))
  /\ UNCHANGED <<settled, caches, lock, conn>>

InvalidateEngine(t) ==
  /\ lock = Free
  /\ Step(t, "invEngine", "invLoad")
  /\ engine' = Absent
  /\ active' = Absent
  /\ UNCHANGED <<files, lp, registry, sqlc, resc, lock, conn, loc>>

InvalidateLoad(t) ==
  /\ Step(t, "invLoad", "invConn")
  /\ lp' = Absent
  /\ UNCHANGED <<files, engine, active, registry, sqlc, resc, lock, conn, loc>>

\* threading.local: the entry cleared is that of the calling thread.
InvalidateConnection(t) ==
  /\ Step(t, "invConn", "invResult")
  /\ conn' = [conn EXCEPT ![t] = Absent]
  /\ UNCHANGED <<files, caches, lock, loc>>

\* Mutant of InvalidateResults: the result cache is forgotten.
InvalidateResultsNot(t) ==
  /\ Step(t, "invResult", "invPlan")
  /\ UNCHANGED <<files, caches, lock, conn, loc>>

InvalidateResults(t) ==
  /\ Step(t, "invResult", "invPlan")
  /\ resc' = NoEntries
  /\ UNCHANGED <<files, lp, engine, active, registry, sqlc, lock, conn, loc>>

InvalidatePlans(t) ==
  /\ Step(t, "invPlan", "settle")
  /\ sqlc' = NoEntries
  /\ UNCHANGED <<files, lp, engine, active, registry, resc, lock, conn, loc>>

Later(a, b) == IF a > b THEN a ELSE b

\* The edit is done; creating and updating handlers load the project again.
Settle(t) ==
  /\ \E to \in {"loadSig", "finish"} : Step(t, "settle", to)
  /\ settled' = [eng |-> Later(settled.eng, loc[t].wrote.eng),
                 aux |-> Later(settled.aux, loc[t].wrote.aux),
                 sel |-> Later(settled.sel, loc[t].wrote.sel)]
  /\ UNCHANGED <<disk, overlapped, caches, lock, conn, loc>>

FinishEdit(t) ==
  /\ Return(t, "finish")
  /\ UNCHANGED <<files, caches, lock, conn>>
-----------------------------------------------------------------------------
RenderStep(t) ==
  \/ BeginBatch(t) \/ BeginSingle(t) \/ ResultHit(t) \/ ResultMiss(t)
  \/ ReadSelections(t) \/ PlanKey(t) \/ PlanHit(t) \/ PlanMiss(t)
  \/ PrepareEngine(t) \/ PrepareFails(t) \/ Compile(t) \/ CompileFails(t)
  \/ PlanStore(t) \/ RenderFails(t)
  \/ ExecuteOnCached(t) \/ ExecuteOnNew(t) \/ ResetRegistry(t)
  \/ ExecuteOnMaterialized(t) \/ ResultStore(t) \/ Reply(t)

LoadStep(t) ==
  \/ LoadSignature(t) \/ LoadHit(t) \/ LoadMiss(t)
  \/ ParseModel(t) \/ ParseAux(t) \/ LoadStore(t) \/ LoadFails(t)

EditStep(t) ==
  \/ BeginEdit(t) \/ RejectEdit(t) \/ Write(t)
  \/ InvalidateEngine(t) \/ InvalidateLoad(t) \/ InvalidateConnection(t)
  \/ InvalidateResults(t) \/ InvalidatePlans(t) \/ Settle(t) \/ FinishEdit(t)

Next == \E t \in Threads : RenderStep(t) \/ LoadStep(t) \/ EditStep(t)

Spec == Init /\ [][Next]_vars
-----------------------------------------------------------------------------
Labels == {"idle", "resultGet", "loadSig", "loadGet", "parseModel", "parseAux",
           "loadPut", "selections", "planKey", "planGet", "acquire", "compile",
           "planPut", "connect", "materialize", "resultPut", "reply", "write",
           "invEngine", "invLoad", "invConn", "invResult", "invPlan", "settle",
           "finish"}

Locals == [job : EditKinds \cup {"none", "batch", "single"},
           asked : Files, wrote : Files, rsig : Version, lpsig : Model,
           model : Model, sel : Version, psig : Version,
           plan : Plan \cup {Absent}, result : Result \cup {Absent}]

\* Every variable has its type: in particular no cache holds half an entry.
TypeOK ==
  /\ disk \in Files /\ settled \in Files /\ overlapped \in BOOLEAN
  /\ lp \in Load \cup {Absent}
  /\ engine \in Engine \cup {Absent}
  /\ active \in Version \cup {Absent}
  /\ registry \in Version \cup {Absent}
  /\ lock \in Threads \cup {Free}
  /\ sqlc \in [Version -> Plan \cup {Absent}]
  /\ resc \in [Version -> Result \cup {Absent}]
  /\ conn \in [Threads -> Version \cup {Absent}]
  /\ pc \in [Threads -> Labels]
  /\ loc \in [Threads -> Locals]

(* load_project takes its signature before it parses, file by file, while
   others write: an entry whose signature is that of the disk still holds what
   is on the disk, whatever was written between signature, parse and store.   *)
LoadCacheFaithful ==
  lp # Absent /\ lp.sig = ModelFiles => lp.model = ModelFiles

(* get_prepared_engine trusts _ACTIVE_ENGINE without looking at the signature
   of the cache entry: the marker never outlives the entry it stands for.     *)
ActiveNamesEntry ==
  active # Absent => engine # Absent /\ engine.sig = active

(* "callers must hold _ENGINE_LOCK across planning": while a thread plans, it
   alone holds the lock, the marker is that of the engine entry it prepared, and
   the process-global registry has its measures, unless another thread has,
   without the lock, opened a connection on a model with calculated tables.    *)
PlansUseTheEntry ==
  /\ ActiveNamesEntry
  /\ \A t \in Threads : pc[t] = "compile" =>
       /\ lock = t /\ active # Absent
       /\ \/ registry = engine.meas
          \/ \E u \in Threads \ {t} : pc[u] = "materialize" \/ conn[u] \in CalcTables

(* An edit of the model files whose handler does not overlap a render takes
   effect: no render that comes in later is answered from older measures,
   relationships, tables or groups, whichever of the four caches answers it.  *)
QuietEditsTakeEffect ==
  ~ overlapped =>
    \A t \in Threads : pc[t] = "reply" =>
      LET answered == loc[t].result.plan IN
      /\ answered.meas >= loc[t].asked.eng
      /\ answered.eng  >= loc[t].asked.eng
      /\ answered.aux  >= loc[t].asked.aux
=============================================================================
