# A TLA+ development for the DAX-to-DuckDB BI engine

The repository is a desktop BI tool: a Tauri window, a React frontend that
holds the report being edited, and a Python sidecar (FastAPI, threads) that
loads a project from YAML and JSON files, compiles DAX measures to SQL, runs
the SQL on DuckDB and answers with figures. This directory holds
specifications of the parts of it that keep state and share it, the TLC
configurations that check them, and proofs that TLAPS checks.

## 1. Inventory

| Part | State it keeps | Operations | Interacts with |
|---|---|---|---|
| Prepared engine (`dax_ui/server/_engine.py`, `dax_engine/compiler.py`) | `_ENGINE_CACHE` per project, `_ACTIVE_ENGINE`, the process-global compiler registry, `_ENGINE_LOCK` | `get_prepared_engine`, `_invalidate_engine_cache_for_project`, planning | every render, slicer, selection, security and edit request, in threads |
| Load cache (`dax_project/loader.py`) | `_LP_CACHE`: signature and model per project | `load_project`, `invalidate_load_project_cache` | the files; every request |
| Render caches (`_render_cache.py`) | result and plan entries with expiry | get, put, invalidate | the render path, the edits |
| DuckDB connections (`_duckdb.py`) | one connection per thread, in a `threading.local` | connect, materialize sources and calculated tables, invalidate | the render path; default evaluation closes the connection it shares |
| Render endpoints (`_routes_visuals.py`) | a pool of 4 workers | single render, batch (a coroutine that submits to the pool) | all of the above |
| Slicer, selection and security endpoints (`_routes_core.py`, `_routes_selection.py`, `_security.py`) | none of their own | take the engine lock, evaluate defaults, plan, query | engine lock, connections |
| Writers (`dax_project/save.py`, `_visual_io.py`, CRUD routes) | the project files | read-modify-write of YAML files, files of visuals, Save All | the loader, the caches they must invalidate; each other, in threads |
| Model and report edits (`_routes_model_ext.py`, `_routes_core.py`, `_routes_visuals.py`, `loader.py`) | the project as a web of references: tables, columns, sort orders, measures, relationships, hierarchies, parameters, groups, roles, pages, visuals, selections | one handler per edit; the loader validates the whole | the next load, by any request |
| Slicers (`save.py`, `_routes_core.py`, `useSlicers.ts`, `SyncSlicersPanel.tsx`) | a file of definitions and instances per page, with sync and visibility | three APIs over one file: legacy slicers, definitions and instances, the sync panel; Save All | the browser's view, which computes what it sends |
| Matrix totals (`planner/matrix_planner.py`) | the cells of one answer | drill, block query, column subtotals, collapsed columns, row subtotals, grand totals, a query per total | compiler, DuckDB |
| Requests for a visual (`_routes_visuals.py`, `_filters.py`, `filters_ir.py`, `_routes_core.py`) | the cache of plans | render, highlight, batch, tooltip page, export, matrix: each puts definition, filters, slicers, drill and selections together | the files, the caches, the planners |
| Stored selections (`save.py`, `_routes_core.py`) | three files: calculation groups, field parameters, what-ifs, by report, page and visual | GET, PUT of each, PUT of the what-if parameters | every request for a visual |
| Report store (`frontend/src/stores/report-store.ts`, `hooks/useRuntimeState.ts`, `hooks/useSaveAll.ts`) | pages, visuals with an `_unsaved` flag, current page, saved page ids, clipboard | edit, navigate (a fetch), Save All, role switch, open, close | GET `/runtime`, POST `/runtime/save_all` |
| Render scheduling (`hooks/useVisualRender.ts`, `Canvas.tsx`, `VisualCard.tsx`) | tokens, abort controllers and fingerprints per hook; what each visual shows | render, render all in batches, coalesced or debounced; cancel | the stores of filters, drills and visuals; loads of state; the render endpoints |
| Undo and redo (`stores/undo-redo-store.ts`, `hooks/useUndoRedo.ts`) | past, present, future snapshots | capture (throttled), undo, redo | the report store |
| Request middleware (`_security_middleware.py`) | token bucket per address | consume, evict | every request |
| Desktop shell (`src-tauri/src/main.rs`) | the sidecar process | spawn, kill on close | the sidecar |
| Filter context (`dax_engine/context.py`, `filters_ir.py`, `compiler.py`, `lowering_table.py`) | per query: inner and outer filters, rules of the role, activated relationships | scoped filters, CALCULATE and its arguments, scope overrides, the set of rows the measures share | relationships; the render path |
| Relationships (`dax_engine/relationships.py`) | the registry of relationships | choice per pair, propagation, joins | filter context; the edits that replace the registry |
| Parser, rest of lowering, planners (`dax_parser`, `dax_engine`) | none | text to AST to SQL | called under the engine lock |
| Report import (`dax_project/report_transfer.py`, `report_documentation_canonical.py`, `_routes_report_transfer.py`) | none of its own | transfer of a report directory or of a documentation workbook, merged or not; verification by counts | the report files and hierarchies, which every other part reads |
| Crawlers, dbt bridge, project manager, release tools | files | sequential conversions | none at run time |

What is hard in it: renders run in threads, beside edits, over five caches and
one process-global registry, each guarded (or not) by a lock of its own, and
an edit invalidates them one after another. One non-reentrant lock is taken by
request threads, workers and the event loop. The browser edits a partial copy
of the report while fetches and saves are on their way, and Save All takes
that copy for the whole. The sidecar is killed when the window closes, between
any two writes. `PROJECT.json` lists each hazard at its line with the
properties that cover it, or why none does yet.

What makes each part correct:

- engine: plans are made with the registry of the entry that was prepared for
  them; the marker `_ACTIVE_ENGINE` never outlives its entry; an edit takes
  effect in the renders that follow.
- load cache: an entry is what its signature says.
- lock: held exactly inside its sections, every request gets its turn and its
  answer.
- connections: no query on a closed connection; sources follow the edits.
- caches: bounded, and never wrong, only forgetful.
- writers: a file is whole whenever it can be read; no acknowledged update is
  lost to another one.
- edits: none leaves a model the next load refuses, or one in which what was
  checked when it was set (a sort order, a pair of relationship ends, a fit of
  source and storage mode, a selection) no longer holds.
- slicers: ids name one instance; an operation changes the slicer it is about
  and keeps the layout; removing a placement never widens what is filtered.
- requests: what is planned is what was asked for, by whichever route; what a
  slicer selects holds; a selection that is stored can be used.
- matrix: a total is over the facts it stands for, each of them once, and a sum
  stands only where the measure said nothing.
- filter context: a measure is computed under the filters that are in effect for
  it, the rules of the role always among them, and each row counts once.
- render scheduling: what a visual shows when all is answered was asked for with
  the filters of now; no spinner is left without a request; passes end.
- report import: the files it leaves can be read, refer to what is there, and
  keep what the user asked to keep.
- report store and Save All: what the user made is there until it is removed;
  an acknowledged save is its payload; a saved project loads.

## 2. The modules

| Module | Models | Read with |
|---|---|---|
| `RenderPipeline` | the path of a render through all caches, and the edits beside it | `_routes_visuals.py`, `_engine.py`, `loader.py`, `_runtime_helpers.py`, `_duckdb.py` |
| `EngineLock` | who takes `_ENGINE_LOCK`, in which order, and the connections: every kind of request | all the route modules, `_engine.py`, `_security.py`, `_duckdb.py` |
| `LossyCache` | abstract: a map that may forget | what `RenderPipeline` assumes of its two caches |
| `RenderCache` | the two caches with expiry, bound and eviction; refines `LossyCache` | `_render_cache.py` |
| `ReportSession` | editing sessions: store, fetches, Save All, close and reopen | `report-store.ts`, `useRuntimeState.ts`, `useSaveAll.ts`, `_routes_core.py`, `_visual_io.py`, `save.py` |
| `FileWriters` | the handlers that read, change and write a project file, in threads | `save.py`, `_visual_io.py`, `_routes_visuals.py`, `_routes_core.py`, `_routes_model_ext.py` |
| `ProjectEdits` | what each edit does to the references of a project, and what the loader says of the result | `_routes_model_ext.py`, `_routes_core.py`, `_routes_visuals.py`, `loader.py` |
| `SlicerStore` | the file of slicers under its three APIs and Save All, with the browser's views | `save.py`, `_routes_core.py`, `useSlicers.ts`, `SyncSlicersPanel.tsx` |
| `RelativeDates` | the ranges that slicers of relative dates and times select | `_routes_core.py` |
| `RequestFilters` | the filters of a request: payloads, clicks, slicers and their defaults, what applies, and in which order | `_filters.py`, `filters_ir.py`, `_routes_core.py` |
| `Selections` | the three files of selections: two forms, canonical, flat and effective | `save.py`, `_routes_core.py` |
| `Lists` | comprehensions with a condition and lists without repetition, as recursive functions that theorems can be about | `filters_ir.py`, `save.py` |
| `VisualRequests` | the routes that ask for a visual, the plans they share, the stores they read; composes `RelativeDates`, `RequestFilters`, `Selections` and `MatrixTotals` | `_routes_visuals.py`, `_visual_io.py`, `_routes_core.py` |
| `MatrixTotals` | the assembly of a matrix and its totals, as a pure function of facts and expansions | `matrix_planner.py` |
| `Relationships` | which tables filter a root and which are joined to it, as operators on a registry | `relationships.py` |
| `FilterContext` | the filter context of one visual's query, from the rules of the role to the rows of each measure | `context.py`, `filters_ir.py`, `compiler.py`, `lowering_table.py`, `visual_planner.py`, `_routes_visuals.py` |
| `ReportTransfer` | the import of reports and workbooks, file by file, into a project in use | `report_transfer.py`, `report_documentation_canonical.py`, `report_crawlers.py`, `_routes_report_transfer.py`, `_routes_visuals.py` |
| `VisualRender` | how the browser keeps the visuals of a page up to date: passes, batches, tokens, aborts, and the cards that render themselves | `useVisualRender.ts`, `Canvas.tsx`, `VisualCard.tsx`, `useRuntimeState.ts`, `useInteractions.ts` |
| `MC*` | constants and symmetry sets of the runs | |
| `EngineLock_proofs`, `ProjectEdits_proofs`, `SlicerStore_proofs`, `FilterContext_proofs`, `ReportTransfer_proofs` | the theorems of the module they are named for | |
| `RenderPath_proofs` | the theorems of `RenderPipeline` and `RenderCache` | |
| `ProjectFiles_proofs` | the theorems of `ReportSession` and `FileWriters` | |
| `Visuals_proofs` | the theorems of `VisualRender`, `VisualRequests` and `MatrixTotals` | |

Where one module of proofs extends two models, the second has names of its own
for its behaviour: `CacheSpec`, `WritersSpec`, `PageSpec`, `RequestSpec`.

`PROJECT.json` (`"map"`) gives the source lines of every definition that stands
for code.

**RenderPipeline.** One project, one visual, one role and one filter set, so
that a cache key is a project signature and nothing else; two renders that
differ in any of those do not share entries. The content of a file is a
version, a write replaces it by the next, and everything computed carries the
versions it came from; "stale" is then a comparison. `pc[t]` is the next step
of a thread; two steps of a thread are apart exactly where the code reads or
writes something another thread can change (a file, a cache, the registry),
and one step is what the code does under one lock. `get_prepared_engine`
followed by planning is two steps under `lock`, because `_duckdb.py` changes
the registry without it. Caches may miss at any time (`ResultMiss`, `PlanMiss`
have no guard on the entry): that is `LossyCache`, which `RenderCache`
implements. `settled` is what an edit that has finished, invalidation
included, has left; a render remembers in `asked` what was settled when it
came in. `overlapped` turns true when an edit and a render run at the same
time: the promise of the invalidation, `QuietEditsTakeEffect`, is about edits
that overlap no render. It is a promise of the handlers that invalidate: a
change of roles does not (`_routes_meta_security.py:505`), and is in `Edits` of
no run that asks for it.

**EngineLock.** Here the sections under the lock are the subject. `Ask(t, s)`
is the call of `acquire` in front of a section, `Acquire` its return, and
`At(t, s)` the body. A selection state holds the lock from `PrepareField` to
`PlanField`, through the materialization of the other slicers. The event loop
is a thread like any other that serves the front half of a batch, which is
what the code makes of it by taking a `threading.Lock` in a coroutine. The
other users differ in what they do first and in what they close. Evaluations,
calculated tables and columns, the data view and the export of a matrix are
secured and then checked (`Checked`); exports of pages and the analysis of
measures go on with the next item when one fails (`Series`); a matrix connects
before it plans, and plans each measure block in a section of its own; playbooks,
subscriptions, forecasts and regime changes prepare the engine once and plan
their measures one after another (`playbook`), and close what they opened. What
they share is that a block, a driver or an item that fails is left out, or ends
the request, outside the lock.

The comment on the lock says "callers must hold `_ENGINE_LOCK` across planning"
(`_engine.py:74`). `LockHeldExactlyInside` says that no section leaks or is
entered twice; it does not say that all planning is in a section, and not all of
it is. The totals of a matrix (`matrix_planner.py:1294`, `:2049`) and the whole
plan of its export (`_routes_visuals.py:4423`, `ExportMatrix`) are planned
without the lock; so are the sources the data view reads (`_engine.py:187`,
`ReadRows`). Previews of calculated tables and of columns compile under the lock
but on whatever the registry holds, without preparing it; the blocks of a matrix
and the steps of a playbook plan in a later section than the one that prepared
the registry, and another request may have prepared it for another project in
between. `render_matrix` prepares with the model of the role
(`_routes_visuals.py:3363`), so the entry it leaves for the project lacks the
measures that role may not see. All of these need two projects or two roles, which
`RenderPipeline` does not have.

**RenderCache.** `Put` models the whole method: room is made (expired entries,
then the oldest quarter), even if the key is there already, and the entry is
stored. Both caches of the program are this code with different payloads.

**ReportSession.** A visual is `<<page, i>>`, and its contents are left out. The
steps of a save are those of the handler between which the sidecar can be
killed or another request can run: load, each deletion, the two halves of each
`write_text`, `pages.yaml` (a rename, one step), the rest. The window has one
save in flight at most (`saveInProgress`). `kept`, `shown`, `emptied`,
`dropped`, `taken`, `partial` and `quiet` are history variables: they say what a
user may rely on and no guard reads them, except that ids drawn at random are new
(`NewPage`, `NewVisual`). `addPage` empties the store for the whole report
(`report-store.ts:183`); `emptied` has what it took until a fetch brings it back,
and is the one exception, visual by visual, to what a quiet session keeps.
`taken` has the pages that a load for another role took out of the store, while a
save or a fetch that was on its way still held visuals of them. Loading a project is one step because an overlay
covers the window until it is done (`App.tsx:214`).

**FileWriters.** `Begin`, `Read`, `OpenTemp` or `OpenLive`, `WriteTemp` or
`WriteLive`, `Replace` and `Answer` are the steps of one request; they are apart
where another thread of the pool can run. `pages.yaml` and `measures.yaml` go
through a temporary file named by the process (`save.py:1018`), so that two
threads that save one file write to one temporary; `relationships.yaml` is
emptied and written in place; a visual is a file of its own, with a number
taken from a listing. `overlap[f]` is a history variable that splits the
promise in two, as in `RenderPipeline`.

**ProjectEdits.** One action per handler, on variables that stand for the files
and what the loader makes of them. Each handler loads the project first
(`LoadedEdit`), except those that repair (`Edit`); a request on a project that
does not load is an error answer and no step. `ModelHolds` and `VisualsHold` are what the
loader refuses. The contents that clients send (`Encodings`, `ParamFiles`, ...)
are small sets of the MC module, one of each kind the properties tell apart.
Left out: `update_measure`, renaming and patching columns, the data type of a
column, what-if parameters, Power Query, references to the virtual table of a
field parameter, and case: names are model values. What the code does and a
reader may not expect, all in the model: `update_table_source` keeps the old
storage mode without validating the pair (`_routes_model_ext.py:4591`);
`set_storage_mode` writes the table anew and drops expressions, sort orders,
formats and notes although its comment says "Preserve existing fields"
(`:4524`); deletes look at no dependency; a relationship keeps its id when its
ends change; parameters and groups are not checked against the visuals that
name them; Save All stores selections before it validates them, and takes the
visuals and pages of its payload for those there are without a look at what they
name (`SaveAll`; a payload is a function of the parts that it has);
`create_visual` with an id that exists replaces the visual; `update_visual`
writes encodings unchecked.

**SlicerStore.** A slicer is a body and one entry per page, with sync, visibility
and layout. `seen` is what the hook of the canvas last got, `panel` what the
sync panel last got: requests are computed from them, however old they are. The
model has the legacy files and their migration, the definitions and instances
that are made of the one file and written back, the scope inferred from the
entries, a definition posted for a page that becomes report-wide (the scope is
dropped), `PUT /runtime/slicers`, which loads nothing, and the validation that
refuses every edit of a definition once a page it aims at was deleted.
`PUT /runtime/slicers/defs` and `/instances` are called by no client and are not
actions. The id of an instance is `instance_id` of its entry or the text made of
slicer and page (`PlaceId`, any function of both: slicer `a_b` on page `c` and
slicer `a` on page `b_c` have the same); an instance is created with any id, of
the client or drawn. `spread` remembers the ids that a request gave to a second
place while the file, or the view that the hook will write back, used them at
another. `removeInstance` takes slicer and page out of the text again, at the last
underscore: taking `a` off `b_c` takes `a_b` off `c`.

**MatrixTotals.** The steps of `execute_matrix_query` for one request, in their
order: `Init` ranges over tables and requests, `Query` and `Totals` may miss,
and each pass fills `cells` from what the passes before it left. A value is
what went into it: how often each fact is counted (so that counting twice
shows), and by what it came to be: the measure evaluated with the parameters of
the request (leaves) or with their defaults (totals), or cells that were added;
`Summed` counts a fact once per cell that counts it, as the size of a disjoint
union. `blank` holds the contexts in which the measure is BLANK although there
are facts (`ISINSCOPE`, say), or its query fails; where it is, the total is None,
which the later passes take for missing. The doc string (1118) promises totals
that are re-evaluated, NOT summed; column subtotals of leaf rows and collapsed
rows and columns are sums, which is why `TotalsAreEvaluated` names those that are
not. It also says where else sums appear: at a BLANK total of a subtotal row or a
subtotal column, and in the header that repeats it; a BLANK total elsewhere stays
empty. Known and left in the model: totals ignore the filters of a drill, and the
parameters and what-ifs of the request (2095), which the leaves and the sums of
leaves follow; a column member that is blank, or cut by `max_cols`, is missing from
the column subtotal; a total whose query failed is summed without notice. A leaf
that is BLANK, or 0, which `or` takes for None (1273), adds nothing to a sum and is
not told apart from one without facts. Left out: formatting, conditional formats, the debug inflation, `max_cells`, empty
axes, block queries, keys that contain `__`, filters of a column drill;
`max_rows` never reaches the SQL.

**VisualRequests, RequestFilters, RelativeDates, Selections.** One request at a time for one
visual: what runs beside a request is `RenderPipeline`, here the question is what
is asked. A question is what the planner is given: the levels to group by, what
is let through per column, and the items of groups, parameters and what-ifs. An
entry of the cache has its key and the question it was made for, so that
`PlansFitTheirRequests` can compare that question with the one of whoever finds it.
A route is one action with its order of defaults and error paths: render prefers the
definition that the client sends, but takes the type from the file; a matrix
prefers its own file; a batch and a tooltip page have the files only; an export
has no filters. `Changed` is what may happen between two requests. A matrix that
shows all its levels, or those below one drilled into, goes on with `Next` of
`MatrixTotals`, for any facts. `picks` and `unchecked` are history. Not as one
may expect, all in the model:

- "Same inputs as the result cache — if any input changes, SQL may differ"
  (`_render_cache.py`, on the cache of plans): the number of expanded levels and the
  stored selections are in no key;
- "Validate BEFORE saving (prevent invalid data on disk)" (`_routes_core.py:2264`):
  `flatten_...` sees no lists, and only one of the two keys of a field
  parameter; what was stored so fails every render of the visual, and GET too;
- selections of a what-if for a page or a visual are saved under `page` and
  `visual` and read under `pages` and `visuals` (`save.py:3034`), that is, never;
- drill filters are added to other filters only (`_routes_visuals.py:1065`): a
  drilled chart without any filter shows all rows of the level;
- what is hovered becomes filters of a visual without a name, which apply to none
  (`:2738`): a tooltip page shows the same for every data point;
- `drill` and `flat` of a matrix show one level, and drilling into a member takes the
  next one away, so that the axis is empty;
- the default of a slicer is evaluated under the filters of the visual by a render,
  and without them by a batch;
- a window of `n` minutes or hours is a second longer than that.

Left out: security (`RenderPipeline`, `FilterContext`), visual calculations, cards,
sorting, what else encodings hold, overrides of axes and values in the payload of a
matrix, drills of columns, `starts with` and `ends with` (which differ from `contains` in the
text only), and the cache of results of a batch, which is that of `RenderPipeline`.

**Relationships and FilterContext.** A filter is the set of values it lets
through, per column, so that conditions joined by AND are intersections and
`Effective(c)` is what the WHERE of a query says, if the table is joined. What a
search of `relationships.py` finds is written as the code finds it, one table per
step (`Visit`, `Search`, `Queue`), and `Reached` is what it ends with. `local` is
`local_ctx` of `SUMMARIZECOLUMNS`; `frame` is one call of
`_rewrite_calculate_like_context` with its local variables, and its arguments
are read one by one in any order: what a formula or the scope overrides of the
visual say. `HoistedMeasure` is a measure whose formula is a CALCULATE (or is wrapped
in one by an override): its arguments change `local`, for all measures.
`NestedMeasure` has the CALCULATE further inside, where it becomes a query of its
own (`Own`, `compile_measure`). `rows` is the query made last: its root, its
context, the tables it asks for; `Statement` and `FilterOnly` are its joins and
its EXISTS. `entered`, `lifted`, `captured` and `plain` are history. Names of
tables are model values, so that the root, the first table in the alphabet that
the measures mention, is any of them. What the code does and a reader may not
expect, all in the model: the tables that CALCULATE arguments name count as mentioned,
so that a measure over sales that removes a filter on products may be rooted at
products (although `lowering_table.py:1577` prefers "the measure's fact table"),
and filters that do not reach that root are not in its WHERE; ALL of a column is ALL of
its table; ALLSELECTED without an argument does nothing; ALLSELECTED also takes
off the filters of its own CALCULATE; when the filters of the query are gone, the
ones a CALCULATE sets become the outer ones (`captured`); on a card a
hoisted CALCULATE leaves an aggregate without FROM (`Nowhere`), because
`agg_as_scalar` is lost with the first copy of the context; the shortest way
to a table may use an inactive relationship.

**ReportTransfer.** A transfer is a thread of the server that writes one file
after the other, in the `Order` of the code; `Fail` is an exception anywhere, after which
nothing is undone. The files that are made of what is there (`pages.yaml`, and
`slicers.yaml` and `hierarchies.yaml` of a report) are read, opened and written
in three steps each (`ReadPages`, `OpenPages`, `PutPages`); `text` is what an
importer has read, and a file that has been opened and not written counts as empty for
everybody, which `_read_yaml` makes of a file it cannot read. The slicers of a
workbook are one step, for `save_slicers` replaces the file. A source says what decides where its parts end up: the pages
and types of its visuals, which are filtered, linked or have defaults, the levels
of the hierarchies they use. Names of visuals are sequences of which `Short`
keeps the first part, as `vis_id[:12]` does. `started`, `overlapped`, `whole`
and `torn` are history: what was ever begun, whether two writers were at work at once,
the last transfer if it ran to its end by itself, and the files that were read, or left
for good, between opening and writing. The last three properties say
what the requests promise, with what they do not keep as exceptions:

- "Clean stale visual files from a previous transfer" (`report_transfer.py:707`)
  removes all visuals, those of the user too, also with `merge_existing`, and
  before the source has been read;
- a merge keeps the pages, slicers and hierarchies of the user, unless a transfer
  reads a file that another has opened and not written yet, or fails there
  (`:768-778`, `Lost` in `MergesKeep`): two transfers at once, each of which says
  it merges, can leave a `pages.yaml` without any page of the user;
- "avoid overwriting user-created ones" (`:1901`) is true of slicers of a report
  that is merged, but for that; a workbook that is merged replaces slicers, filters and
  bookmarks (as `documentation_bookmarks`, which no reader knows);
- files for which a report has nothing (slicers, selections, bookmarks) keep
  what they had, with references to pages and visuals that are gone, and
  selections of the user's slicers find their way into the report's;
- a workbook that is not merged replaces the pages and keeps the visuals of
  reports, after which the project does not load;
- a hierarchy level that is no column of its table is written all the same, a
  hierarchy may have one level, a report filter may lack the operator that
  `load_report_filters` demands, and slicers whose names begin alike have one
  id, which `load_slicers` refuses;
- "ensures nothing is lost during transfer" (`:3489`) is a comparison of counts:
  it does tell of visuals that fell together or were skipped, which is
  `VerifiedIsComplete`.

Left out: the conversion of encodings, formats, filter conditions, titles and
locales; the theme, which is written by itself and best effort; the coverage
report of a workbook; previews (the one of reports counts nested bookmarks only).

**VisualRender.** Canvas answers each change with a pass (`renderAll`) that keeps
the filters it read when it began; passes overlap. `passes[p]` is the state of
one, `owner[v]` the pass whose token for a visual is the latest (tokens are only
ever compared with the latest), `stamp` and `pending` are the two maps of
fingerprints. A step is what runs between two `await`s of the code: choosing
(`LaunchBatch`, `LaunchSingles`), the next visual of `pAll` (`Skip`, `Ask`), an
answer. An aborted request comes back as an error, because `apiRequest`
(`lib/api.ts:99`) turns the exception into one. Filters of the report, role and
page are one number, selections the set of visuals clicked; `deep` are drilled
charts. Cards have a hook, and so tokens, of their own: one request per card, of
which only the latest answer counts, stands in `cards`. `excused` is history: it
records, per visual, the ways in which the code leaves a visual to itself, until
an answer puts it right:

- a request is skipped when its fingerprint equals that of the last answer, also
  while another request is in flight ("the newer request must abort/replace the
  stale one instead of being skipped", `useVisualRender.ts:202`): select and
  deselect before the answer, and the visual stays filtered; a single request
  that a batch supersedes leaves its fingerprint in `pendingFingerprints`, and
  later requests for the same filters are skipped although nothing is in flight
  (`:530` clears it for the current token only);
- "the non-interaction render will cover everything" (`:931`): the flag of the
  debounced call whose timer is cleared sticks, so the merged pass leaves out
  what an interaction pass leaves out; a change of role always merges, since it
  runs all three effects of Canvas;
- "Skip the source visual" because "its effective filters don't change" (`:607`):
  they do when there are two sources;
- tokens belong to one hook ("Race-proof render tokens", `:194`): a card and
  Canvas do not see each other's, a card sends no filters, and a pass that began
  earlier may ask for a visual later than a newer one did, with its old filters;
- "Silently ignore aborted requests" (`:513`): aborts are errors by then, so
  one visual that is rendered anew aborts its batch, and the others show an error;
- "Filter load failure is non-fatal; visuals render without filters"
  (`useRuntimeState.ts:178`): the states were cleared, and nothing renders.

Left out: static visuals, drillthrough, the expansion of matrices, highlighting,
other pages, and the hooks of the top bar, the focus mode and the performance
analyzer, which are cards in all that matters here.

## 3. The runs

Twelve runs; every passing one finishes its state space.

| Run | Distinct states | Result |
|---|---|---|
| `pipeline_safety` | 2.9 M | `LoadCacheFaithful`, `PlansUseTheEntry`, `QuietEditsTakeEffect` hold |
| `engine_lock` | 19 k | `LockHeldExactlyInside`, `QueriesRunOnOpenConnections`, `RequestsAnswered` hold |
| `selection_lock` | | `SelectionsAnswered` is violated |
| `render_cache` | 1.6 k | `EvictsOldestWhenFull`, `ImplementsLossyCache` hold |
| `report_session` | 1.4 M | `SaveWritesPayload`, `UnloadableOnlyBy`, `QuietWorkStays`, `QuietSavesKeep` hold |
| `file_writers` | 193 k | `QuietUpdatesKept` holds |
| `project_edits` | 289 k | `ChecksOutlast`, `BreaksOnlyBy`, `CalculatedColumnsStay`, `SelectionsGoStaleOnlyBy` hold |
| `slicer_store` | 654 k | `IdsCollideOnlyBy`, `OthersStayAsTheyWere`, `RemovalNarrowsWhileSynced` hold |
| `visual_requests` | 110 k | `CountsEachFactOnce`, `CompleteWhenWhole`, `TotalsAreEvaluated`, `PlansFitTheirRequests`, `SlicersHold`, `RoutesAgree`, `FailsOnlyBy`, `RangesMoveOn` hold |
| `filter_context` | 223 k | `FiltersReachTheRoot`, `RulesStay`, `JoinsFollowFilters`, `AllSelectedRestores`, `OrderMakesNoDifference` hold |
| `report_transfer` | 1.7 M | `UnreadableOnlyBy`, `MergesKeep`, `ReferencesResolve`, `VerifiedIsComplete` hold |
| `visual_render` | 164 k | `StaleOnlyBy`, `SpinsOnlyBy` hold, `Settles` holds under `FairSpec` |

The violation: in `selection_lock` a selection state that must evaluate the default of
another slicer takes the lock twice and waits for itself; from then on every
request that needs the lock waits too.

Known to be so in the model, as exceptions named in the properties that hold
(`...OnlyBy`, `Quiet...`), without a run of their own:

- a render that loaded the model before an edit stores its old plan after the
  invalidation, under the signature of after the edit: the renders that come in
  later hit it for up to ten minutes (`QuietEditsTakeEffect` is about edits that
  overlap no render);
- opening a connection to a model with calculated tables resets the registry and
  fills it again while another thread plans under the lock, which then plans with
  no measures or those of another entry (the last alternative of
  `PlansUseTheEntry`; without it TLC shows this in `pipeline_safety`);
- Save All sends the visuals of the pages that were visited, and the server deletes the
  rest (`QuietSavesKeep` is about what was shown);
- adding a page (or duplicating one, which adds an empty page) empties the store of
  the visuals of all pages, and fetches come page by page: to look at a page, add
  another and save deletes the files of the first, with nothing overlapping
  (`emptied` in `QuietWorkStays` and `QuietSavesKeep`; without it TLC shows this in
  `report_session`);
- selections are in no signature and in no key, and neither Save All nor the
  selection endpoints clear a cache;
- `invalidate_duckdb_connection_cache` assigns a `threading.local`, so it
  reaches the thread of the edit only;
- a copy of a saved visual that is pasted without the flag, or a visual added
  while a save runs, is dropped by the answer of a page fetch;
- deleting a page keeps its visuals, Save All writes both, and the loader
  rejects the result;
- removing the last visible placement of a slicer makes it report-wide;
- an instance that is moved, or created with an id that a hidden or an absent entry
  has, and two places whose slicer and page join to one text, make the list of
  instances hold an id twice: reading it and every change of it are refused
  (`IdsCollideOnlyBy`);
- two requests that overlap on one file lose the update of one, and one of them fails
  when both replace the file by the temporary that they share;
- a total of a matrix at which the measure is BLANK is shown as the sum of what is below
  it, in subtotals and the headers of open rows (`TotalsAreEvaluated`; without the
  alternative TLC shows it in `visual_requests`), although `matrix_planner.py:1118` says
  "Subtotals and grand totals are computed by RE-EVALUATING the measure", "NOT by summing
  visible cells";
- of two measures of a visual, one with a scope override, both are computed under
  the override, because the CALCULATE it becomes is moved into the context that all
  measures of the query share (`lowering_table.py:1525`). `ScopeOverrideEditor.tsx:4` says
  "Scope overrides control the filter context for a specific measure":
  that is `MeasuresAreIndependent`; name it in `filter_context.cfg`, and TLC
  shows the visual;
- the ways in which a visual is left to itself, listed under VisualRender, and what
  a transfer does not keep, listed under ReportTransfer.

**Bounds.** `pipeline_safety`: one worker and one request thread, because every
interleaving here is of one render with another or with one edit; two edits
(`MaxWrites`), so that an entry can be one and two versions old and an edit can
follow another one; the model has calculated tables from its second version on, so
that a thread may fill the registry while another one plans, and both edits run with and without.
`engine_lock`: one
request thread, the loop and a worker for a batch of two visuals, so that three
threads can wait at once; `Parts = 2`, so that a block, a driver or an item can
follow another one on the connection it left; one slicer with a default, so the nested
acquire of `selection_lock` cannot happen and liveness can be asked of the
rest. With it nothing is answered any more, which is what `selection_lock`
shows with two slicers. `render_cache`: capacity 4 is the least at which a
quarter is one entry, five keys overflow it, three ticks with a TTL of one let
entries expire, be renewed and coexist with younger ones. `report_session`: two
pages with one visual id each and two edits between any number of loads,
fetches, saves, failures and closes; with three (5.4 M
states) the properties hold too, but too slowly for the routine run. Its
`VIEW` leaves the histories of visuals out of a state once `quiet` is false, from
where on nothing reads them.
`file_writers`: two
threads and three requests, so that two race and a third finds what they left.
`project_edits`: one project in which everything refers to something, three
edits in a row. `slicer_store`: two slicers on two pages, named so that two places have the
same id, an id that is no place's, two operations after
any file and any view of it that the APIs can leave. `visual_requests`: three row
and three column levels of the matrix, so that inside a drill a collapsed, an open and a cut
level stand side by side; measures that are BLANK in the totals of rows, in those of
columns, or never; three columns, slicers of each kind, five reports, a
payload for each turn a route can take, one plan in the cache (a second would only
be found, too) and one change (`MaxChanges`), which is enough to come between two
requests; with two changes and two plans nothing else was found in the 1.1 M states that five minutes allow. Days are
the ends of months around a 29th of February, where lengths differ most. `filter_context`: four tables, so that there are dates
related to sales twice and categories two steps away; a snowflake, one with a
direction both ways and a shorter inactive way, and one with a many-to-many
relationship; a card and a visual by product; a filter replaced and one kept on one
column, so that both kinds of arguments find something; two measures and two
arguments, so that one measure can disturb another, a CALCULATE stand in
another, and any two arguments be swapped. `visual_render`: three visuals, of which one
is not affected by selections and one is a matrix that no batch holds; two
requests and two passes at once, so that one pass has a queue while the other
answers, and a batch is aborted by half; two things the user does (or the server
refuses) after the page was opened, because the ways above take one selection and
its end, or a role and a load. By hand: three events with the safety properties,
and random walks with seven events and three passes. `report_transfer`: two
transfers, so that one finds what the other left, or half of it; two reports and a
workbook with one of each case (a slicer id twice, an unknown type, a level that
is no column), and a project in which the user has one of everything. `MaxChanges`, `PlansKept`, `MaxMeasures`, `MaxArguments`, `MaxWrites`, `MaxTime`, `PerPage`, `MaxEdits`,
`MaxRequests`, `MaxOps`, `MaxEvents`, `MaxTransfers` and the sets of passes and threads are the only bounds; fetches are bounded to one in
flight per page by a guard in `ChangePage`.

**Deadlock** is checked except in the `ReportSession` runs (a project that does
not load cannot be opened again: with the window closed nothing is left to do),
in `file_writers`, `project_edits`, `slicer_store`, `report_transfer` and `visual_render` (which end
when the bounded requests or events are used up) and in `selection_lock`, where the deadlock is the finding.

**Symmetry** is used for runs of safety properties (and of `ImplementsLossyCache`,
an abstract specification without liveness), over sets no formula tells apart.

**Fairness.** Nobody has to send a request. In `EngineLock!Fairness` a
thread that serves one takes its next step (weak fairness: the operating system
runs it), and it gets `_ENGINE_LOCK` if the lock is free again and again
(strong fairness; `threading.Lock` has no queue, so nothing better can be
assumed, and less would let one thread starve forever, which a real scheduler
does not do); a worker takes what is
queued (an executor does), and the loop resumes a coroutine whose futures are
done. `VisualRender!Fairness` is weak: timers fire, promises continue,
and the server answers each request, if only with an error; a user need not do
anything. The other modules state no liveness: a user may do
nothing for ever, and `RenderPipeline` has its lock from `EngineLock`.

Each property of a passing run has a mutant in `PROJECT.json`: a definition
and a variant of it with a bug that is easy to make (a dropped guard, an error
path that keeps the lock, an invalidation that is left out), under which TLC
finds the property violated. The variants stand before the definitions in the
modules, marked "Mutant of".

## 4. What is proved

All theorems hold for every value of the constants that satisfies the named
assumptions of the modules: disjoint sets of threads, model values that are no
data, bounds that are numbers, `MaxSize >= 4`; finite tables, visuals and passes; a
page opened with the first of the passes; registries that are sequences of
relationships, whose order and ids are free; sources whose visuals are on their
pages; lists of filters, slicers, clicks and items that are lists, slicers of the report or of
pages (`_materialize_slicer_defs_to_filter_payload_items` refuses others before anything is asked,
`_routes_core.py:1125`), a visual that has not the name of nobody; days from which the calendar reaches
two years further on both sides; and a project that its own readers take when the first transfer begins. None of
them says anything about what an operation does.

- `RenderPath_proofs`, of `RenderPipeline`. `TypeCorrect` needs `LocalsReady`: a plan or result
  is in the locals when the step that stores or runs it is next.
  `LoadCacheCorrect`: the entry of the load cache is what its signature says.
  The invariant (`LoadInv`) says of the entry, and of every thread inside
  `load_project`, that its signature is not ahead of the disk and that, file
  by file, a signature that is still that of the disk has the content of the
  disk; it is needed because the signature is taken before the files are read
  and the files change in between. `ActiveMarkerCorrect` and `PlanningCorrect`
  share `LockInv`: whoever plans holds the lock, the marker is set, and the
  registry is the entry's unless another thread is filling it (`Refilling`), for
  any set of versions with calculated tables. Each step that leaves the registry
  alone has the lemma `LockInvQuiet`.
  `QuietEditsApply`: what an edit has settled is in every render that comes in
  later, as long as none overlapped an edit, provided that the edits invalidate
  (`"security" \notin Edits`: the handler of roles does not, and the property would be
  false of it). Its invariant says what is on the disk has been settled or is the
  work of an edit that has not finished (`SettledInv`); the caches that a
  signature keys hold what their key says, and what no signature covers is that
  of the disk but for the time between a write and its invalidation
  (`CachesFit`); and a render has, from each step on that computed something,
  that of now (`UpToDate`, both in `CalmInv`).
- `RenderPath_proofs`, of `RenderCache`. `RenderCacheTypes`, `RenderCacheBounded` (eviction frees
  `MaxSize \div 4 >= 1` places), `RenderCacheEvictsOldest` (no entry expires
  later than one put now would, `ExpiryInv`), and `RenderCacheIsLossy`, the
  refinement: each step of the cache is a step of `LossyCache` or a stutter.
- `EngineLock_proofs`. `EngineLockTypes`, `EngineLockExclusive` and
  `ConnectionsOpen`, from one inductive invariant that adds where a request of
  each kind can be (`PlaceInv`) and from which step on a thread has a
  connection open (`ConnectionInv`), for every kind of request and any `Parts`. Mutual exclusion includes the selection
  states that block on themselves.
- `ProjectFiles_proofs`, of `ReportSession`. `ReportTypes`, `SaveIsPayload`, `QuietEditor`,
  `QuietDisk` and `UnloadableCauses`, all from `SessionInv`: what a save under
  way has still to write (`SaveInv`), that in a quiet session what is in the
  store without a flag is on disk and that saves and fetches carry all of what
  was shown and adding a page did not take (`QuietInv`), and, with any overlap and
  paste, that every visual of the store, of a payload and of a fetch is on a page
  of the store or one that was deleted or taken (`PageInv`).
- `ProjectFiles_proofs`, of `FileWriters`. `WritersTypeCorrect`, `AlwaysWhole` (a file that is replaced is
  never seen torn, which no run repeats: whoever renames has finished the temporary, or another
  thread has) and `UpdatesKept`: while no two requests overlapped on a file, a
  file holds exactly the acknowledged updates.
- `ProjectEdits_proofs`. `TypeCorrect`; `ChecksAlwaysOutlast`, from `SortStaysShallow` (no column sorts by
  one that is itself sorted) and `RelationshipsStayDistinct`, both inductive
  with the handlers' own checks; and, as action properties, `BrokenForever` (a
  project that does not load is changed by the repairing handlers only),
  `CalculatedColumnsKept`, `BreaksOnly` and `SelectionsGoStaleOnly`, which name
  the edits after which the next load refuses the project or a selection names
  what is gone.
- `SlicerStore_proofs`. `TypeCorrect`; `IdsAreDistinct`: an id names one instance, unless slicer
  and page of two join to it or a request gave it to a second place. Not inductive
  by itself, because requests are computed from what the hook last got, which may be
  older than the file, and because a place without an entry may get one: `IdInv`
  says that an id that was not spread is used by one place only, counting the
  entries of the file, those of the hook and the ids that the places have by
  their names, unless these are the same. As action properties `OthersStay` (an operation on a slicer leaves the
  placements of all others), `LayoutsStay` (neither the panel nor a definition
  changes a layout, which no run repeats) and `RemovalNarrows`.
- `FilterContext_proofs`. `RulesAlwaysStay`: the rules of the role are in effect in
  every query. The invariant (`RulesInv`) says that the shared context, that of
  the CALCULATE at hand and that of the query made last all have the rules of the
  start. `ArgumentsHaveNoOrder`: whatever was read of the arguments of a CALCULATE,
  its context is what the set of them means; each argument has a lemma that adding
  it to the set is what reading it does. `AllSelectedAlwaysRestores` (`OuterInv`: the
  outer filters are those the query came with, but for those that were taken off).
  `FiltersAlwaysReach` and `JoinsAlwaysFollow`, for any registry: the search of
  `relationships.py` reaches what is related to the root, whatever is on a way from
  the root is in the queue before it, and a table through which a filter comes is
  joined with it. Induction along ways and queues is done by hand: of the numbers
  for which a claim fails there is a least one (`Least`, from `WFMin`).
  `JoinsAlwaysFollow` assumes in its statement, as the property does, that tables are related in one
  way and in one direction (`Straight`); with a diamond of relationships it is false.
- `ReportTransfer_proofs`. `FilesReadable` and `MergesLoseNothingElse`, from
  `CauseInv`: what no reader takes, and what the user lost, has a cause among the
  transfers that were begun, each file by itself, however transfers overlap. A file
  that is rewritten is made of what was read of it, so the invariant says of the text
  an importer has in hand what it says of the file: that the work of the user is in
  it, or that the file was torn when it was read (`PagesSafe`, `SlicersSafe`,
  `HierarchiesSafe`); and a file that is `Lost` is so until somebody writes what
  he has in hand (`LostFacts`). `NothingDangles` and
  `CountsSuffice` are about a report that was transferred by itself: `Alone` (one
  transfer at a time while nobody has come in between), `Progress` (what it has
  left in each file when it is at a stage) and `WholeInv` (that of the last
  stage, while no other has begun). `CountsSuffice` ends in the pigeonhole: a map onto a
  finite set of the same size is one to one (`AsMany`).
- `Visuals_proofs`, of `VisualRender`. `TypeCorrect` and `SpinnersAreKept`: a visual that loads
  has a request whose answer will be heeded, or is still to be asked for, but for
  the ways that are listed. The invariant says that the pass that holds the token
  of a visual has a request for it (`OwnersRun`), and that a visual that loads
  without one was cancelled, so its fingerprint is gone and a pass has it to do
  (`Cancelled`): without a fingerprint it cannot be skipped. `VisualsAreFresh`: at
  rest, what a visual shows is what is wanted, but for the ways that are listed.
  `FreshInv` says of a visual that is not excused that it is due in a pass which
  has the filters of now, or on its way in a request of one, or has been shown
  (`Due`, `OnItsWay`), and that what it shows is what its fingerprint says
  (`ShowsStamp`, `LevelAsked`).
- `Visuals_proofs`, of `VisualRequests`. `PlansAlwaysFit`, from `PlansInv`: what the
  key of a plan lacks is either the same, or the plan remembers that it was not
  (`expand`, `picks`), for every payload, definition, selection and size of the cache.
  `SlicersLast`: nothing is let through that a slicer of the page does not let through,
  but for what takes its place. An answer remembers what it was asked for (`AnswersInv`), and what it
  shows was let through for that, even when it is from the cache (`PlansInv`); filters are applied one
  after the other, so each holds at the end unless one that replaces comes later
  on its column (by induction along the list, `ThroughGot`); and only those that the
  property names come after a slicer in the order of `apply_scoped_filters_to_context`
  (`SlicerLasts`). `RoutesAlwaysAgree`: a render asks with the visual's name and a batch without one,
  which makes a difference to the defaults of slicers only; if no filter is for the
  visual they are evaluated under the same filters (`NoneApart`).
  `FailuresHaveCauses`: selections that were validated when they were stored fail no
  request and can be read back. `PickedInv` says that what is stored, unless
  something was stored unchecked, is valid for what there is; the step that needs work is that
  it stays so when it is made canonical, saved, loaded, flattened and merged over the scopes.
  `RangesAlwaysMoveOn`: for any calendar and any days, relative ranges never move
  back and leave no gap. Months follow each other (`NextMonth`, for leap years by the rule of 4, 100 and
  400), so a date that was not before another is not before it when both are put
  the same number of months on, although its day may be cut to the last one of
  the month (`MonthsKeepOrder`); a range of whole units begins and ends a fixed number of
  units from that of today (`WholeUnits`).
- `Visuals_proofs`, of `MatrixTotals`, within the behaviour of `VisualRequests`.
  `FactsCountOnce`, `WholeIsComplete` and `EvaluatedTotalsStay`, for every table, depth of the
  axes, expansion and drill, and whatever contexts the measure is BLANK in. `MatrixInv` follows
  the passes: totals that were evaluated stay and those at which the measure is BLANK are
  nothing or a sum that counts no fact but theirs (`TotalsInv`), the cells of leaves are those of the facts under them
  (`LeavesInv`), which cells there are after each pass (`PlacedInv`), and the headers
  of open rows repeat their subtotal (`HeadersInv`). A pass that adds is correct because the cells it adds are
  of disjoint sets of facts, so that the size of the disjoint union is one or none per fact.

The type invariants of `RenderPipeline`, `RenderCache`, `EngineLock`, `ReportSession`,
`FileWriters`, `ProjectEdits`, `SlicerStore` and `VisualRender`, and `ActiveNamesEntry`, are proved and therefore not repeated by the runs.

Every invariant and every action property of a passing run is stated by a theorem.
Only model-checked are the liveness properties `RequestsAnswered`, `SelectionsAnswered`
(violated) and `Settles`, with their `ENABLED`: liveness under fairness is out of the
prover's reach. The library's induction theorems take an operator as a parameter, which no
prover here can instantiate; induction along lists, ways, queues and
months is done by hand, from the least number for which a claim fails (`Least`,
`LeastNumber`, `UpTo`). What a recursive definition computes is therefore proved only as far as
a property needs it. No module has RECURSIVE operators: a filter is applied to what the others left
by a recursive function (`Through`), and lists are read by those of `Lists`. The fold over the
entries of a list of selections (`Sent`) needs no lemma, because nobody validates a list.

## 5. What is not modelled, and the plan

Not modelled: the translation of DAX to SQL (parser, lowering, planners, matrix and
tablix compilers) beyond what `MatrixTotals` and `FilterContext` have of it, pure conversions whose correctness is about text;
figures; the crawlers and the dbt bridge, which are sequential, and the conversions of the report import; the
updater and the port and token handover of the shell; contents of visuals,
page titles, filters, roles, layouts and theme within Save All. `ReportSession`
leaves out undo, and a save whose answer is lost between sidecar and window
(one machine, no timeout). `RenderPipeline` leaves out a second project on the
same registry, a second role, and `project/refresh`.

Order of work. Done: (1) `RenderPipeline`, where a wrong step gives wrong
numbers; (2) `EngineLock`; (3) `RenderCache` with `LossyCache`; (4)
`ReportSession`; (5) `FileWriters`, `ProjectEdits`, `SlicerStore` for the project
files; (6) `MatrixTotals`; (7) `Relationships` and `FilterContext`; (8) `VisualRender`; (9)
`ReportTransfer`; (10) `VisualRequests` with `RequestFilters`, `RelativeDates` and
`Selections`. To come:

11. Undo and redo in `ReportSession`: a restored snapshot lacks what was fetched
   after it, and Save All then deletes it.
12. `RenderPipeline` with a second project and a second role: table sources read
   outside the lock, a roles edit that invalidates nothing.
13. `RateLimit`: the token bucket and its eviction, integer arithmetic.

Proofs to come: the safety properties of the modules to come; refinements of abstract
specifications beside `LossyCache`: one of the lock with its queue, and one of the stored
selections as a map from scopes to items.
