------------------------------ MODULE SlicerStore ------------------------------
(* The slicers of a report: reports/slicers.yaml, the two legacy views of it
   that the API still offers (definitions and instances), the migration of the
   legacy files, the panel that sets sync and visibility per page, and the hook
   that every part of the window has its own copy of.

   A slicer is a body (column, type, selection, defaults, behaviour, looks) and
   one entry for each page it is placed on.  A slicer with entries filters the
   pages it is synced to, or its target page if it is synced to none; a slicer
   without an entry filters the whole report.

   The order of the entries of a slicer is not kept: where the code takes the
   first of several entries or items, the model takes any of them.            *)
EXTENDS Naturals, FiniteSets

CONSTANTS
  Slicers,     \* ids of slicers
  PageIds,     \* ids of pages
  PlainPages,  \* those of them without an underscore
  Bodies,      \* contents of a slicer other than its placement
  Layouts,     \* places and sizes on a page
  DefaultLayout,
  Ids,         \* ids of instances
  PlaceId,     \* "si_", slicer, "_" and page: the id an entry has by its place
  NoInst,      \* an entry that has no instance_id of its own
  NoPage,
  MaxOps       \* bound: requests that write, in a behaviour

ASSUME SlicersAssumption == Slicers # {}
ASSUME LayoutAssumption == DefaultLayout \in Layouts
ASSUME NoPageAssumption == NoPage \notin PageIds
ASSUME IdsAssumption    == NoInst \notin Ids /\ PlaceId \in [Slicers \X PageIds -> Ids]
\* Two places may have the same id ("a_b" on "c", "a" on "b_c"); what follows the
\* last underscore tells those on plain pages apart.
ASSUME PlainAssumption  ==
  /\ PlainPages \subseteq PageIds
  /\ \A x, y \in Slicers \X PlainPages : PlaceId[x] = PlaceId[y] => x = y
ASSUME MaxOpsAssumption == MaxOps \in Nat

VARIABLES
  exists,   \* reports/slicers.yaml is there
  slicers,  \* its content
  legacy,   \* slicer_defs.yaml and slicer_instances.yaml
  pageIds,  \* the pages of the report
  seen,     \* what the hook of the canvas last got
  panel,    \* what the sync panel last got or set
  ops,      \* number of requests that wrote
  last,     \* history: the API of the last request
  spread    \* history: ids that a request gave to a second place

APIs == {"hook", "removal", "panel", "defs", "instances", "pages", "bulk"}
vars == <<exists, slicers, legacy, pageIds, seen, panel, ops, last, spread>>

None == [x \in {} |-> x]
With(f, k, v)  == [x \in DOMAIN f \cup {k} |-> IF x = k THEN v ELSE f[x]]
Without(f, K)  == [x \in DOMAIN f \ K |-> f[x]]
Maps(K, V)     == UNION {[S -> V] : S \in SUBSET K}
IsMap(f, K, V) == DOMAIN f \in SUBSET K /\ f \in [DOMAIN f -> V]

-----------------------------------------------------------------------------
(* Entries and slicers.                                                       *)
InstIds == {NoInst} \cup Ids
Entries == [visible : BOOLEAN, sync : BOOLEAN, layout : Layouts, inst : InstIds]
Flags   == [visible : BOOLEAN, sync : BOOLEAN]

IsPlacement(pages) == IsMap(pages, PageIds, Entries)
AreSlicers(all) ==
  /\ DOMAIN all \in SUBSET Slicers
  /\ all = [s \in DOMAIN all |-> [body |-> all[s].body, pages |-> all[s].pages]]
  /\ \A s \in DOMAIN all : all[s].body \in Bodies /\ IsPlacement(all[s].pages)

Entry(visible, sync, layout) ==
  [visible |-> visible, sync |-> sync, layout |-> layout, inst |-> NoInst]
FlagsOf(entry) == [visible |-> entry.visible, sync |-> entry.sync]

(* The legacy definition of a slicer: its flags per page, and its target, which
   is the first visible page, else the first page.                            *)
SyncPages(pages) == [p \in DOMAIN pages |-> FlagsOf(pages[p])]
VisibleOn(pages) == {p \in DOMAIN pages : pages[p].visible}
Targets(pages)   == IF VisibleOn(pages) # {} THEN VisibleOn(pages) ELSE DOMAIN pages

(* _materialize_slicer_defs_to_filter_payload_items: the pages that the filter
   of a slicer can be aimed at.                                               *)
SyncedTo(pages) == {p \in DOMAIN pages : pages[p].sync}

\* Mutant of Reaches: a page where the slicer is hidden does not count as synced.
ReachesVisible(pages) ==
  LET both == SyncedTo(pages) \cap VisibleOn(pages)
  IN IF pages = None THEN {pageIds}
     ELSE IF both # {} THEN {both \cap pageIds}
     ELSE {{t} \cap pageIds : t \in Targets(pages)}

Reaches(pages)  ==
  IF pages = None THEN {pageIds}
  ELSE IF SyncedTo(pages) # {} THEN {SyncedTo(pages) \cap pageIds}
  ELSE {{t} \cap pageIds : t \in Targets(pages)}

-----------------------------------------------------------------------------
(* The legacy files and their migration.                                      *)
LegacyDefs == [body : Bodies, sync : Maps(PageIds, Flags), target : PageIds \cup {NoPage}]
LegacyInstances == [def : Slicers, page : PageIds, layout : Layouts]
NoLegacy == [defs |-> None, instances |-> {}]

\* What the migration puts on a page: the flags of sync_pages, the layout of an
\* instance; the target only if there is nothing else.
MigratedPages(l, s, layouts) ==
  LET def    == l.defs[s]
      placed == {i.page : i \in {j \in l.instances : j.def = s}}
      flags(p) == IF p \in DOMAIN def.sync THEN def.sync[p]
                                           ELSE [visible |-> TRUE, sync |-> TRUE]
  IN IF DOMAIN def.sync \cup placed = {} /\ def.target # NoPage
     THEN [p \in {def.target} |-> Entry(TRUE, TRUE, DefaultLayout)]
     ELSE [p \in DOMAIN def.sync \cup placed |->
             Entry(flags(p).visible, flags(p).sync,
                   IF p \in placed THEN layouts[<<s, p>>] ELSE DefaultLayout)]

\* The layouts that may win when a slicer has several instances on one page.
LayoutChoices(l) ==
  {c \in [Slicers \X PageIds -> Layouts] :
     \A i \in l.instances :
       \E j \in l.instances : j.def = i.def /\ j.page = i.page /\ j.layout = c[<<i.def, i.page>>]}

Migrated(l, layouts) ==
  [s \in DOMAIN l.defs |-> [body |-> l.defs[s].body, pages |-> MigratedPages(l, s, layouts)]]

(* load_slicers: the content of the file; without it, the migrated content of
   the legacy files, which is saved at once.                                  *)
Loaded ==
  IF exists THEN {slicers}
  ELSE {Migrated(legacy, c) : c \in
          IF legacy.instances = {} THEN {[x \in Slicers \X PageIds |-> DefaultLayout]}
                                   ELSE LayoutChoices(legacy)}

(* save_slicers: the file is replaced, then the legacy files are removed; what a
   process that ends in between leaves of them is not read again.             *)
Saved(new) ==
  /\ exists' = TRUE
  /\ slicers' = new
  /\ legacy' = NoLegacy

\* A request that only loads.
LoadedAs(content) ==
  IF exists \/ legacy = NoLegacy THEN UNCHANGED <<exists, slicers, legacy>>
                                 ELSE Saved(content)

\* A request that writes, through one of the APIs.
Counted(api) == ops < MaxOps /\ ops' = ops + 1 /\ last' = api

-----------------------------------------------------------------------------
(* The unified API, as the hook of the canvas uses it: every answer carries all
   slicers and replaces what the hook has.                                    *)
Answered(new) == Saved(new) /\ seen' = new

LoadAll ==
  \E all \in Loaded :
    /\ LoadedAs(all)
    /\ seen' = all
    /\ UNCHANGED <<pageIds, panel, ops, last, spread>>

\* runtime_create_slicer: an id that is taken is refused.
CreateSlicer(s, body, pages) ==
  /\ Counted("hook")
  /\ \E all \in Loaded :
       /\ s \notin DOMAIN all
       /\ Answered(With(all, s, [body |-> body, pages |-> pages]))
  /\ UNCHANGED <<pageIds, panel, spread>>

\* runtime_update_slicer with a body, which leaves the pages.
UpdateBody(s, body) ==
  /\ Counted("hook")
  /\ \E all \in Loaded :
       /\ s \in DOMAIN all
       /\ Answered(With(all, s, [all[s] EXCEPT !.body = body]))
  /\ UNCHANGED <<pageIds, panel, spread>>

\* runtime_update_slicer with pages, which replaces all entries.
UpdatePages(api, s, pages) ==
  /\ Counted(api)
  /\ \E all \in Loaded :
       /\ s \in DOMAIN all
       /\ Answered(With(all, s, [all[s] EXCEPT !.pages = pages]))
  /\ UNCHANGED <<pageIds, panel, spread>>

\* saveInstance: the entry of one page, among the entries the hook has.
SaveInstance(s, p, layout) ==
  /\ s \in DOMAIN seen
  /\ LET old == seen[s].pages
         sync == IF p \in DOMAIN old THEN old[p].sync ELSE TRUE
     IN UpdatePages("hook", s, With(old, p, Entry(TRUE, sync, layout)))

\* removeInstance: without the entry of one page.  It takes slicer and page out
\* of the id of the place, the page as what follows the last underscore, which
\* may be another slicer on another page.
RemoveInstance(s, p) ==
  /\ s \in DOMAIN seen /\ p \in VisibleOn(seen[s].pages)
  /\ \E t \in DOMAIN seen, q \in PlainPages :
       /\ PlaceId[<<t, q>>] = PlaceId[<<s, p>>]
       /\ UpdatePages("removal", t, Without(seen[t].pages, {q}))

\* duplicateIndependent: a copy of what the hook has, on one page.
DuplicateIndependent(s, new, p, layout) ==
  /\ s \in DOMAIN seen /\ p \in VisibleOn(seen[s].pages)
  /\ CreateSlicer(new, seen[s].body, [q \in {p} |-> Entry(TRUE, TRUE, layout)])

DeleteSlicer(s) ==
  /\ Counted("hook")
  /\ \E all \in Loaded : Answered(Without(all, {s}))
  /\ UNCHANGED <<pageIds, panel, spread>>

\* runtime_put_slicers, which loads nothing, and Save All with slicers, which
\* ignores an empty list: the payload is some of what the hook has.
PutSlicers(S) ==
  /\ Counted("bulk")
  /\ Answered([s \in S |-> seen[s]])
  /\ UNCHANGED <<pageIds, panel, spread>>

-----------------------------------------------------------------------------
(* The sync panel.  A page that a slicer has no entry for shows as neither
   synced nor visible.                                                        *)
Shown(pages) ==
  [p \in pageIds |-> IF p \in DOMAIN pages THEN FlagsOf(pages[p])
                     ELSE [visible |-> FALSE, sync |-> FALSE]]

LoadSync ==
  \E all \in Loaded :
    /\ LoadedAs(all)
    /\ panel' = [s \in DOMAIN all |-> Shown(all[s].pages)]
    /\ UNCHANGED <<pageIds, seen, ops, last, spread>>

\* Mutant of Synced: entries are made anew from their flags.
SyncedAnew(pages, flags) ==
  [p \in DOMAIN pages \cup {q \in DOMAIN flags : flags[q].visible \/ flags[q].sync} |->
     IF p \notin DOMAIN flags THEN pages[p]
     ELSE Entry(flags[p].visible, flags[p].sync, DefaultLayout)]

\* What runtime_update_slicer_sync makes of the entries.
Synced(pages, flags) ==
  [p \in DOMAIN pages \cup {q \in DOMAIN flags : flags[q].visible \/ flags[q].sync} |->
     IF p \notin DOMAIN flags THEN pages[p]
     ELSE IF p \in DOMAIN pages
          THEN [pages[p] EXCEPT !.visible = flags[p].visible, !.sync = flags[p].sync]
          ELSE Entry(flags[p].visible, flags[p].sync, DefaultLayout)]

PutSync(s, flags) ==
  /\ Counted("panel")
  /\ \E all \in Loaded :
       /\ s \in DOMAIN all
       /\ Saved(With(all, s, [all[s] EXCEPT !.pages = Synced(@, flags)]))
  /\ panel' = With(panel, s, flags)
  /\ UNCHANGED <<pageIds, seen, spread>>

\* handleToggle: one flag of one page; the request has the flags of all pages
\* that the panel shows.
Toggle(s, p, field) ==
  /\ s \in DOMAIN panel /\ p \in DOMAIN panel[s]
  /\ PutSync(s, [panel[s] EXCEPT ![p][field] = ~ @])

\* handleToggleAll.
ToggleAll(s, field, on) ==
  /\ s \in DOMAIN panel
  /\ PutSync(s, [p \in DOMAIN panel[s] |-> [panel[s][p] EXCEPT ![field] = on]])

-----------------------------------------------------------------------------
(* Definitions: the view that load_slicer_defs makes, and its way back.       *)
NoSync == [on |-> FALSE, flags |-> None]
SyncIs(flags) == [on |-> TRUE, flags |-> flags]

DefOf(slicer) ==
  [body |-> slicer.body,
   sync |-> IF slicer.pages = None THEN NoSync ELSE SyncIs(SyncPages(slicer.pages))]
DefsOf(all) == [s \in DOMAIN all |-> DefOf(all[s])]

\* Mutant of PagesFromDef: the default layout is not filled in for a new page.
PagesFromDefBare(def, old) ==
  IF def.sync.on
  THEN [p \in DOMAIN def.sync.flags |->
          Entry(def.sync.flags[p].visible, def.sync.flags[p].sync,
                IF p \in DOMAIN old THEN old[p].layout ELSE NoPage)]
  ELSE old

\* Mutant of PagesFromDef: the layouts of the file are not looked up.
PagesFromDefReset(def, old) ==
  IF def.sync.on
  THEN [p \in DOMAIN def.sync.flags |->
          Entry(def.sync.flags[p].visible, def.sync.flags[p].sync, DefaultLayout)]
  ELSE old

\* save_slicer_defs: flags from sync_pages, layouts from the file; scope and
\* target are dropped.
PagesFromDef(def, old) ==
  IF def.sync.on
  THEN [p \in DOMAIN def.sync.flags |->
          Entry(def.sync.flags[p].visible, def.sync.flags[p].sync,
                IF p \in DOMAIN old THEN old[p].layout ELSE DefaultLayout)]
  ELSE old

SaveDefs(all, defs) ==
  Saved([s \in DOMAIN defs |->
           [body  |-> defs[s].body,
            pages |-> PagesFromDef(defs[s], IF s \in DOMAIN all THEN all[s].pages ELSE None)]])

\* _validate_slicer_defs_against_model: the target of a page-scoped definition
\* is a page of the report, for every definition that is sent.
OnKnownPages(all) ==
  \A s \in DOMAIN all : all[s].pages = None \/ Targets(all[s].pages) \cap pageIds # {}

\* POST of a definition, with its scope: a page, or the report (NoPage).
CreateDef(s, body, target) ==
  /\ Counted("defs")
  /\ \E all \in Loaded :
       /\ s \notin DOMAIN all
       /\ OnKnownPages(all) /\ target \in pageIds \cup {NoPage}
       /\ SaveDefs(all, With(DefsOf(all), s, [body |-> body, sync |-> NoSync]))
  /\ UNCHANGED <<pageIds, seen, panel, spread>>

\* PUT of a definition: other fields stay; a scope of the report spares this
\* definition the check of its target.
UpdateDef(s, def) ==
  /\ Counted("defs")
  /\ \E all \in Loaded :
       /\ s \in DOMAIN all
       /\ OnKnownPages(all) \/ OnKnownPages(Without(all, {s}))
       /\ SaveDefs(all, With(DefsOf(all), s, def))
  /\ UNCHANGED <<pageIds, seen, panel, spread>>

UpdateDefBody(s, body) ==
  \E all \in Loaded : s \in DOMAIN all /\ UpdateDef(s, [DefOf(all[s]) EXCEPT !.body = body])

UpdateDefSync(s, flags) ==
  \E all \in Loaded : s \in DOMAIN all /\ UpdateDef(s, [DefOf(all[s]) EXCEPT !.sync = SyncIs(flags)])

\* DELETE of a definition: not while an instance, a visible entry, refers to it.
DeleteDef(s) ==
  /\ Counted("defs")
  /\ \E all \in Loaded :
       /\ s \in DOMAIN all => VisibleOn(all[s].pages) = {}
       /\ SaveDefs(all, Without(DefsOf(all), {s}))
  /\ UNCHANGED <<pageIds, seen, panel, spread>>

\* Save All with the legacy definitions, some of them left out, but not all.
SaveAllDefs(S) ==
  /\ Counted("bulk")
  /\ S # {}
  /\ \E all \in Loaded :
       /\ S \subseteq DOMAIN all
       /\ OnKnownPages([s \in S |-> all[s]])
       /\ SaveDefs(all, [s \in S |-> DefOf(all[s])])
  /\ UNCHANGED <<pageIds, seen, panel, spread>>

-----------------------------------------------------------------------------
(* Instances: one for each visible entry.                                     *)
InstanceId(s, p, entry) == IF entry.inst = NoInst THEN PlaceId[<<s, p>>] ELSE entry.inst

InstancesOf(all) ==
  UNION {{[id |-> InstanceId(s, p, all[s].pages[p]), def |-> s, page |-> p,
           layout |-> all[s].pages[p].layout] : p \in VisibleOn(all[s].pages)} :
         s \in DOMAIN all}

\* _validate_slicer_instances_against_defs.
DistinctIds(list) == \A i, j \in list : i.id = j.id => i = j
KnownDefs(list, all) == \A i \in list : i.def \in DOMAIN all

(* save_slicer_instances: an entry for each item of the list, which a hidden
   entry is and stays; entries that no item mentions are left.  Of the items of
   one entry the first gives the id and the last the layout; `first` and `final`
   are preferred items, since at most one entry has several.                  *)
Items(list, s, p) == {i \in list : i.def = s /\ i.page = p}
Among(items, preferred) == IF preferred \in items THEN preferred ELSE CHOOSE i \in items : TRUE

\* Mutant of Placed: every item of a slicer goes to each of its entries.
PlacedAnywhere(pages, s, list, first, final) ==
  LET own == {i \in list : i.def = s}
  IN [p \in DOMAIN pages \cup {i.page : i \in own} |->
        IF own = {} THEN pages[p]
        ELSE [visible |-> p \in DOMAIN pages => pages[p].visible,
              sync    |-> p \in DOMAIN pages => pages[p].sync,
              layout  |-> Among(own, final).layout,
              inst    |-> Among(own, first).id]]

Placed(pages, s, list, first, final) ==
  [p \in DOMAIN pages \cup {i.page : i \in {j \in list : j.def = s}} |->
     IF Items(list, s, p) = {} THEN pages[p]
     ELSE [visible |-> p \in DOMAIN pages => pages[p].visible,
           sync    |-> p \in DOMAIN pages => pages[p].sync,
           layout  |-> Among(Items(list, s, p), final).layout,
           inst    |-> Among(Items(list, s, p), first).id]]

SaveInstances(all, list) ==
  /\ KnownDefs(list, all)
  /\ \E first, final \in list \cup {NoInst} :
       Saved([s \in DOMAIN all |->
                [all[s] EXCEPT !.pages = Placed(@, s, list, first, final)]])

\* An entry on a page has the id, or its place has it, and it would have it
\* as soon as it shows and has no other.
HasId(all, s, p, id) == s \in DOMAIN all /\ p \in DOMAIN all[s].pages /\ all[s].pages[p].inst = id
Uses(all, s, p, id)  == HasId(all, s, p, id) \/ id = PlaceId[<<s, p>>]

\* History: the id, if this place is given it, which is not its own, while
\* another place uses it in the file or in what the hook will write back.
Spreads(all, id, s, p) ==
  {i \in {id} \ {PlaceId[<<s, p>>]} :
     \E x \in (Slicers \X PageIds) \ {<<s, p>>} :
       Uses(all, x[1], x[2], i) \/ Uses(seen, x[1], x[2], i)}

\* An instance gets a place: the others, with it, are checked and saved.
PutInstance(all, others, new) ==
  LET list == others \cup {new}
  IN /\ DistinctIds(list)
     /\ SaveInstances(all, list)
     /\ spread' = spread \cup Spreads(all, new.id, new.def, new.page)

\* POST of an instance, with an id of the client or one that is drawn at random.
CreateInstance(id, s, p, layout) ==
  /\ Counted("instances")
  /\ \E all \in Loaded :
       PutInstance(all, InstancesOf(all), [id |-> id, def |-> s, page |-> p, layout |-> layout])
  /\ UNCHANGED <<pageIds, seen, panel>>

\* PUT of an instance: another layout, page or slicer.
UpdateInstance(i, new) ==
  /\ Counted("instances")
  /\ new.id = i.id
  /\ \E all \in Loaded : i \in InstancesOf(all) /\ PutInstance(all, InstancesOf(all) \ {i}, new)
  /\ UNCHANGED <<pageIds, seen, panel>>

\* DELETE of an instance: the others are saved.
DeleteInstance(id) ==
  /\ Counted("instances")
  /\ \E all \in Loaded : SaveInstances(all, {i \in InstancesOf(all) : i.id # id})
  /\ UNCHANGED <<pageIds, seen, panel, spread>>

-----------------------------------------------------------------------------
(* Pages come and go without a look at the slicers; the last one stays.       *)
DeletePage(p) ==
  /\ Counted("pages")
  /\ p \in pageIds /\ pageIds # {p}
  /\ pageIds' = pageIds \ {p}
  /\ UNCHANGED <<exists, slicers, legacy, seen, panel, spread>>

CreatePage(p) ==
  /\ Counted("pages")
  /\ p \notin pageIds
  /\ pageIds' = pageIds \cup {p}
  /\ UNCHANGED <<exists, slicers, legacy, seen, panel, spread>>

-----------------------------------------------------------------------------
\* Bounds of the legacy files: one definition, with flags for at most one page,
\* and one instance.
Init ==
  /\ exists = FALSE /\ slicers = None
  /\ \E S \in SUBSET Slicers : legacy \in
       [defs : [S -> LegacyDefs], instances : SUBSET LegacyInstances]
  /\ Cardinality(legacy.instances) <= 1
  /\ Cardinality(DOMAIN legacy.defs) <= 1
  /\ \A s \in DOMAIN legacy.defs : Cardinality(DOMAIN legacy.defs[s].sync) <= 1
  /\ pageIds = PageIds
  /\ seen = None /\ panel = None
  /\ ops = 0 /\ last = "pages" /\ spread = {}

HookStep ==
  \/ LoadAll
  \/ \E s \in Slicers :
       \/ \E b \in Bodies : CreateSlicer(s, b, None) \/ UpdateBody(s, b)
       \/ \E p \in PageIds, l \in Layouts :
            \/ SaveInstance(s, p, l)
            \/ \E t \in Slicers : DuplicateIndependent(s, t, p, l)
       \/ \E p \in PageIds : RemoveInstance(s, p)
       \/ DeleteSlicer(s)
  \/ \E S \in SUBSET DOMAIN seen : PutSlicers(S)

PanelStep ==
  \/ LoadSync
  \/ \E s \in Slicers, field \in {"visible", "sync"} :
       \/ \E p \in PageIds : Toggle(s, p, field)
       \/ \E on \in BOOLEAN : ToggleAll(s, field, on)

DefStep ==
  \/ \E s \in Slicers :
       \/ \E b \in Bodies, t \in PageIds \cup {NoPage} : CreateDef(s, b, t)
       \/ \E b \in Bodies : UpdateDefBody(s, b)
       \/ \E flags \in Maps(PageIds, Flags) : UpdateDefSync(s, flags)
       \/ DeleteDef(s)
  \/ \E S \in SUBSET Slicers : SaveAllDefs(S)

InstanceStep ==
  \E all \in Loaded :
    \/ \E id \in Ids, s \in Slicers, p \in PageIds, l \in Layouts :
         CreateInstance(id, s, p, l)
    \/ \E i \in InstancesOf(all), s \in Slicers, p \in PageIds, l \in Layouts :
         UpdateInstance(i, [id |-> i.id, def |-> s, page |-> p, layout |-> l])
    \/ \E id \in {i.id : i \in InstancesOf(all)} : DeleteInstance(id)

PageStep == \E p \in PageIds : DeletePage(p) \/ CreatePage(p)

Next == HookStep \/ PanelStep \/ DefStep \/ InstanceStep \/ PageStep

Spec == Init /\ [][Next]_vars

-----------------------------------------------------------------------------
(* Properties.                                                                *)

\* Every variable has its type: the content of slicers.yaml is what
\* _canonicalize_unified_slicer makes of a list of slicers with different ids.
TypeOK ==
  /\ exists \in BOOLEAN /\ spread \in SUBSET Ids
  /\ AreSlicers(slicers) /\ AreSlicers(seen)
  /\ IsMap(legacy.defs, Slicers, LegacyDefs)
  /\ legacy.instances \in SUBSET LegacyInstances
  /\ pageIds \in SUBSET PageIds
  /\ IsMap(panel, Slicers, Maps(PageIds, Flags))
  /\ ops \in Nat /\ last \in APIs

\* Two instances have the same id, which makes the list of instances and every
\* creation and update of one fail, in two ways only: slicer and page of both
\* join to that id ("a_b" on "c", "a" on "b_c"); or a request gave that very id
\* to a second place.  A move does so always, since the entry that it leaves
\* keeps the id (save_slicer_instances), the creation of an instance when the
\* client chose an id that a hidden entry, an absent one or one of the hook has.
IdsCollideOnlyBy ==
  \A i, j \in InstancesOf(slicers) :
    i.id = j.id /\ i # j =>
      \/ i.id = PlaceId[<<i.def, i.page>>] /\ j.id = PlaceId[<<j.def, j.page>>]
      \/ i.id \in spread

(* What a slicer is, but for the ids of its instances.                        *)
Bare(slicer) ==
  [body  |-> slicer.body,
   pages |-> [p \in DOMAIN slicer.pages |-> [slicer.pages[p] EXCEPT !.inst = NoInst]]]
SameBare(s, all, new) ==
  /\ s \in DOMAIN all <=> s \in DOMAIN new
  /\ s \in DOMAIN all => Bare(all[s]) = Bare(new[s])

\* A request about one slicer, through whichever of the three APIs and however
\* old the view it was computed from, leaves every other slicer as it was in
\* the file, or in the legacy files that it migrates: content, pages, flags and
\* layouts.
OthersStayAsTheyWere ==
  [][exists' /\ last' # "bulk" =>
       \E all \in Loaded, s \in Slicers :
         \A t \in Slicers \ {s} : SameBare(t, all, slicers')]_vars

\* No request of the sync panel or of the definitions API gives an entry that
\* stays another place or size.
PanelAndDefsKeepLayouts ==
  [][last' \in {"panel", "defs"} /\ ops' # ops =>
       \A s \in DOMAIN slicers \cap DOMAIN slicers' :
         \A p \in DOMAIN slicers[s].pages \cap DOMAIN slicers'[s].pages :
           slicers'[s].pages[p].layout = slicers[s].pages[p].layout]_vars

(* The pages that the filter of a slicer can be aimed at.                     *)
Reach(s, all) == UNION Reaches(all[s].pages)

Removed(s) ==
  /\ last' = "removal" /\ ops' # ops
  /\ s \in DOMAIN slicers \cap DOMAIN seen /\ seen[s] = slicers[s]

\* Taking a slicer off a page makes its filter reach no page it did not reach,
\* as long as an entry is left that is synced.
RemovalNarrowsWhileSynced ==
  [][\A s \in Slicers :
       Removed(s) /\ SyncedTo(slicers'[s].pages) # {}
       => Reach(s, slicers') \subseteq Reach(s, slicers)]_vars
================================================================================
