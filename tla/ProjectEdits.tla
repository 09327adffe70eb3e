------------------------------ MODULE ProjectEdits ------------------------------
(* The files of a project as a web of references, the handlers that edit them
   one at a time, and the checks of load_project, which most handlers run first.

   Tables have columns, which sort by one another; relationships, hierarchies,
   field parameters, security roles and visuals name tables, columns and
   measures; visuals name pages, parameters and calculation groups; the stored
   selections name items of parameters and groups.  A handler edits one of these
   files.  What refers to it is checked by the next load of the project, which
   then refuses every request that loads.

   Names are compared as model values: that they are the same in upper and lower
   case is left out, and so are the texts of expressions, which no load checks. *)
EXTENDS Naturals, FiniteSets

CONSTANTS
  Tables, Cols, Measures, Params, Items, Groups, Keys, Pages, Visuals,
  Sources,        \* kinds of sources of physical tables
  Modes,          \* storage modes
  Fits,           \* pairs of a mode and a source that go together
  Ends,           \* pairs of columns that a client may relate
  HierarchyDefs,  \* hierarchies that a client may send
  ParamFiles,     \* contents of field_parameters.yaml that a client may send
  GroupFiles,     \* contents of calc_groups.yaml that a client may send
  Encodings,      \* contents of a visual that a client may send
  Payloads,       \* bodies of a Save All that a client may send
  NoCol, NoSource, NoMode,
  FirstProject,   \* the project before the first edit
  MaxEdits        \* bound: requests that write, in a behaviour

ASSUME FitsAssumption == Fits \subseteq Modes \X Sources
ASSUME NoAssumption == NoCol \notin Cols /\ NoSource \notin Sources /\ NoMode \notin Modes

VARIABLES
  tables, measures, rels, hierarchies, params, groups, secured, pages, visuals,
  chosen,      \* the stored selections of parameters and of groups
  edits,       \* number of requests that wrote
  last,        \* history: the handler of the last one
  redirected   \* history: a relationship was given other ends

model == <<tables, measures, rels, hierarchies, params, groups, secured>>
report == <<pages, visuals, chosen>>
vars == <<tables, measures, rels, hierarchies, params, groups, secured, pages,
          visuals, chosen, edits, last, redirected>>

With(f, k, v)  == [x \in DOMAIN f \cup {k} |-> IF x = k THEN v ELSE f[x]]
Without(f, k)  == [x \in DOMAIN f \ {k} |-> f[x]]
IsMap(f, K, V) == DOMAIN f \in SUBSET K /\ f \in [DOMAIN f -> V]

-----------------------------------------------------------------------------
(* What the files hold.                                                       *)
ColRefs == Tables \X Cols
Column  == [calc : BOOLEAN, sortBy : Cols \cup {NoCol}]
Notes   == SUBSET {"type", "text"}   \* table_type; description and folder

AreTables(all) ==
  /\ DOMAIN all \in SUBSET Tables
  /\ all = [t \in DOMAIN all |-> [calc |-> all[t].calc, source |-> all[t].source,
                                  mode |-> all[t].mode, notes |-> all[t].notes,
                                  cols |-> all[t].cols]]
  /\ \A t \in DOMAIN all :
       /\ all[t].calc \in BOOLEAN
       /\ all[t].source \in Sources \cup {NoSource}
       /\ all[t].mode \in Modes \cup {NoMode}
       /\ all[t].notes \in Notes
       /\ IsMap(all[t].cols, Cols, Column)

Relationships == [id : Ends, ends : Ends]
Placed == [page : Pages, enc : Encodings]

\* Selections are pairs of a parameter and an item, or of a group and a key.
Selections == [items : SUBSET (Params \X Items), keys : SUBSET (Groups \X Keys)]

Physical(cols) == [c \in cols |-> [calc |-> FALSE, sortBy |-> NoCol]]

-----------------------------------------------------------------------------
(* The checks of load_project.                                                *)
ColumnsOf(all) == {r \in ColRefs : r[1] \in DOMAIN all /\ r[2] \in DOMAIN all[r[1]].cols}
Objects == DOMAIN tables \cup ColumnsOf(tables) \cup measures

\* _load_tables: a storage mode goes with the source of its table.
StorageHolds ==
  \A t \in DOMAIN tables :
    tables[t].mode # NoMode /\ tables[t].source # NoSource
    => <<tables[t].mode, tables[t].source>> \in Fits

\* _load_security: row filters and hidden objects name what exists.
SecurityHolds == secured \subseteq Objects

\* _validate_hierarchies.
HierarchiesHold == \A h \in hierarchies : {h.table} \X h.levels \subseteq ColumnsOf(tables)

ModelHolds == StorageHolds /\ SecurityHolds /\ HierarchiesHold

(* _validate_visuals.  The encodings of a visual: the columns and measures it
   names in any slot, filter or sort; the parameters it uses as a dimension and
   as a measure; those it only mentions; its own choices of items and keys.    *)
ItemOf(enc, p) == IF p \in DOMAIN enc.values THEN enc.values[p] ELSE params[p].default
Resolves(enc, p, fields) ==
  /\ p \in DOMAIN params
  /\ ItemOf(enc, p) \in DOMAIN params[p].items
  /\ params[p].items[ItemOf(enc, p)] \in fields

VisualHolds(v) ==
  LET enc == v.enc
  IN /\ v.page \in pages
     /\ \A p \in DOMAIN enc.values :
          p \in DOMAIN params /\ enc.values[p] \in DOMAIN params[p].items
     /\ \A g \in DOMAIN enc.keys : g \in DOMAIN groups /\ enc.keys[g] \in groups[g]
     /\ enc.fields \subseteq ColumnsOf(tables) \cup measures
     /\ \A p \in enc.dimensions : Resolves(enc, p, ColumnsOf(tables))
     /\ \A p \in enc.measures : Resolves(enc, p, measures)
     /\ enc.mentions \subseteq DOMAIN params

VisualsHold == \A v \in DOMAIN visuals : VisualHolds(visuals[v])

Loads == ModelHolds /\ VisualsHold

\* What GET of the selections demands of them.
ItemsHold(items) == \A s \in items : s[1] \in DOMAIN params /\ s[2] \in DOMAIN params[s[1]].items
KeysHold(keys)   == \A s \in keys : s[1] \in DOMAIN groups /\ s[2] \in groups[s[1]]

-----------------------------------------------------------------------------
(* Handlers.  One that writes counts; one that is refused changes nothing.    *)
Edit(handler) == edits < MaxEdits /\ edits' = edits + 1 /\ last' = handler
LoadedEdit(handler) == Edit(handler) /\ Loads

SetTables(new) ==
  /\ tables' = new
  /\ UNCHANGED <<measures, rels, hierarchies, params, groups, secured, report, redirected>>

(* Measures.                                                                  *)
SetMeasures(new) ==
  /\ measures' = new
  /\ UNCHANGED <<tables, rels, hierarchies, params, groups, secured, report, redirected>>

CreateMeasure(m) ==
  /\ LoadedEdit("createMeasure")
  /\ m \notin measures
  /\ SetMeasures(measures \cup {m})

\* Nothing is loaded, and nobody is asked whether the measure is in use.
DeleteMeasure(m) ==
  /\ Edit("deleteMeasure")
  /\ m \in measures
  /\ SetMeasures(measures \ {m})

(* Tables.  upsert_table_yaml: what it is not given is removed, and the columns
   are replaced.                                                              *)
Upserted(t, calc, source, mode, notes, cols) ==
  With(tables, t, [calc |-> calc, source |-> source, mode |-> mode, notes |-> notes,
                   cols |-> Physical(cols)])

CreateCalculatedTable(t, cols, notes) ==
  /\ LoadedEdit("createTable")
  /\ t \notin DOMAIN tables
  /\ SetTables(Upserted(t, TRUE, NoSource, NoMode, notes \ {"type"}, cols))

UpdateCalculatedTable(t, cols, notes) ==
  /\ LoadedEdit("updateTable")
  /\ t \in DOMAIN tables /\ tables[t].calc
  /\ SetTables(Upserted(t, TRUE, NoSource, NoMode, notes \ {"type"}, cols))

ImportTable(t, source, mode, cols, notes) ==
  /\ LoadedEdit("createTable")
  /\ t \notin DOMAIN tables
  /\ mode # NoMode => <<mode, source>> \in Fits
  /\ SetTables(Upserted(t, FALSE, source, mode, notes, cols))

\* A mode in the payload is checked against the new source; the old mode, which
\* is kept if there is none, is not.
UpdateSource(t, source, mode, cols) ==
  /\ LoadedEdit("source")
  /\ t \in DOMAIN tables /\ ~ tables[t].calc
  /\ mode # NoMode => <<mode, source>> \in Fits
  /\ SetTables(Upserted(t, FALSE, source, IF mode = NoMode THEN tables[t].mode ELSE mode,
                        tables[t].notes, cols))

\* The columns are passed on by name and type, the notes not at all.
SetStorageMode(t, mode) ==
  /\ LoadedEdit("mode")
  /\ t \in DOMAIN tables /\ ~ tables[t].calc
  /\ tables[t].source # NoSource => <<mode, tables[t].source>> \in Fits
  /\ SetTables(Upserted(t, FALSE, tables[t].source, mode, {}, DOMAIN tables[t].cols))

SetTableType(t, typed) ==
  /\ Edit("type")
  /\ t \in DOMAIN tables
  /\ SetTables([tables EXCEPT ![t].notes = IF typed THEN @ \cup {"type"} ELSE @ \ {"type"}])

DeleteTable(t) ==
  /\ LoadedEdit("deleteTable")
  /\ t \in DOMAIN tables
  /\ SetTables(Without(tables, t))

(* Columns.  upsert_column_yaml keeps the sort order of a column it replaces.  *)
CreateColumn(t, c) ==
  /\ LoadedEdit("createColumn")
  /\ t \in DOMAIN tables /\ c \notin DOMAIN tables[t].cols
  /\ SetTables([tables EXCEPT ![t].cols = With(@, c, [calc |-> TRUE, sortBy |-> NoCol])])

DeleteColumn(t, c) ==
  /\ LoadedEdit("deleteColumn")
  /\ t \in DOMAIN tables /\ c \in DOMAIN tables[t].cols /\ tables[t].cols[c].calc
  /\ SetTables([tables EXCEPT ![t].cols = Without(@, c)])

\* Mutant of SortFits: another column may sort by the one that gets an order.
SortFitsTarget(cols, c, d) ==
  d \in DOMAIN cols \ {c} /\ cols[d].sortBy = NoCol

\* The target exists, has no order of its own, by c least of all, which would be
\* a cycle, and no other column sorts by c.
SortFits(cols, c, d) ==
  /\ d \in DOMAIN cols \ {c} /\ cols[d].sortBy = NoCol
  /\ \A e \in DOMAIN cols \ {c} : cols[e].sortBy # c

\* Mutant of SetSortBy: the entry of the column is written anew.
SetSortByAnew(t, c, d) ==
  /\ Edit("sortBy")
  /\ t \in DOMAIN tables /\ c \in DOMAIN tables[t].cols
  /\ d # NoCol => SortFits(tables[t].cols, c, d)
  /\ SetTables([tables EXCEPT ![t].cols[c] = [calc |-> FALSE, sortBy |-> d]])

SetSortBy(t, c, d) ==
  /\ Edit("sortBy")
  /\ t \in DOMAIN tables /\ c \in DOMAIN tables[t].cols
  /\ d # NoCol => SortFits(tables[t].cols, c, d)
  /\ SetTables([tables EXCEPT ![t].cols[c].sortBy = d])

-----------------------------------------------------------------------------
(* Relationships: their file is read by itself, the load is for the columns.   *)
EndsExist(e) == e[1] \in ColumnsOf(tables) /\ e[2] \in ColumnsOf(tables)

SetRels(new) ==
  /\ rels' = new
  /\ UNCHANGED <<tables, measures, hierarchies, params, groups, secured, report>>

\* The id is made of the ends.
CreateRelationship(e) ==
  /\ LoadedEdit("relationship")
  /\ EndsExist(e)
  /\ \A r \in rels : r.ends # e
  /\ SetRels(rels \cup {[id |-> e, ends |-> e]})
  /\ UNCHANGED redirected

\* The id stays when the ends change.
UpdateRelationship(r, e) ==
  /\ LoadedEdit("relationship")
  /\ r \in rels /\ EndsExist(e)
  /\ \A other \in rels \ {r} : other.ends # e
  /\ SetRels((rels \ {r}) \cup {[id |-> r.id, ends |-> e]})
  /\ redirected' = (redirected \/ e # r.ends)

DeleteRelationship(r) ==
  /\ Edit("relationship")
  /\ r \in rels
  /\ SetRels(rels \ {r})
  /\ UNCHANGED redirected

-----------------------------------------------------------------------------
(* Files that a request replaces as a whole.                                  *)
\* Mutant of PutHierarchies: only the tables are loaded, not the project.
PutHierarchiesUnloaded(new) ==
  /\ Edit("hierarchies")
  /\ \A h \in new : {h.table} \X h.levels \subseteq ColumnsOf(tables)
  /\ hierarchies' = new
  /\ UNCHANGED <<tables, measures, rels, params, groups, secured, report, redirected>>

PutHierarchies(new) ==
  /\ LoadedEdit("hierarchies")
  /\ \A h \in new : {h.table} \X h.levels \subseteq ColumnsOf(tables)
  /\ hierarchies' = new
  /\ UNCHANGED <<tables, measures, rels, params, groups, secured, report, redirected>>

\* The items and the default are checked; the visuals that use them are not.
ParamsFit(new) ==
  \A p \in DOMAIN new :
    /\ DOMAIN new[p].items # {}
    /\ \A i \in DOMAIN new[p].items : new[p].items[i] \in ColumnsOf(tables) \cup measures
    /\ new[p].default \in DOMAIN new[p].items

PutParams(new) ==
  /\ LoadedEdit("params")
  /\ ParamsFit(new)
  /\ params' = new
  /\ UNCHANGED <<tables, measures, rels, hierarchies, groups, secured, report, redirected>>

PutGroups(new) ==
  /\ Edit("groups")
  /\ groups' = new
  /\ UNCHANGED <<tables, measures, rels, hierarchies, params, secured, report, redirected>>

\* Mutant of PutRoles: the roles are saved as they come.
PutRolesUnchecked(new) ==
  /\ LoadedEdit("roles")
  /\ secured' = new
  /\ UNCHANGED <<tables, measures, rels, hierarchies, params, groups, report, redirected>>

\* PUT of the roles.
PutRoles(new) ==
  /\ LoadedEdit("roles")
  /\ new \subseteq Objects
  /\ secured' = new
  /\ UNCHANGED <<tables, measures, rels, hierarchies, params, groups, report, redirected>>

-----------------------------------------------------------------------------
(* The report.                                                                *)
SetReport(p, v, c) == pages' = p /\ visuals' = v /\ chosen' = c /\ UNCHANGED <<model, redirected>>

CreatePage(p) ==
  /\ LoadedEdit("createPage")
  /\ p \notin pages
  /\ SetReport(pages \cup {p}, visuals, chosen)

\* The visuals of the page stay.
DeletePage(p) ==
  /\ LoadedEdit("deletePage")
  /\ p \in pages /\ pages # {p}
  /\ SetReport(pages \ {p}, visuals, chosen)

Empty == [fields |-> {}, dimensions |-> {}, measures |-> {}, mentions |-> {},
          values |-> [p \in {} |-> p], keys |-> [g \in {} |-> g]]

\* An id in the payload may be that of a visual there is, which is replaced.
CreateVisual(v, p) ==
  /\ LoadedEdit("createVisual")
  /\ p \in pages
  /\ SetReport(pages, With(visuals, v, [page |-> p, enc |-> Empty]), chosen)

\* Without a page in the payload nothing is loaded; what the encodings name is
\* never checked.
UpdateVisual(v, enc) ==
  /\ Edit("updateVisual")
  /\ v \in DOMAIN visuals
  /\ SetReport(pages, [visuals EXCEPT ![v].enc = enc], chosen)

MoveVisual(v, p, enc) ==
  /\ LoadedEdit("updateVisual")
  /\ v \in DOMAIN visuals /\ p \in pages
  /\ SetReport(pages, With(visuals, v, [page |-> p, enc |-> enc]), chosen)

DeleteVisual(v) ==
  /\ Edit("deleteVisual")
  /\ v \in DOMAIN visuals
  /\ SetReport(pages, Without(visuals, v), chosen)

\* Mutant of PutItems: saved first and validated afterwards, as Save All does.
PutItemsFirst(items) ==
  /\ LoadedEdit("selections")
  /\ SetReport(pages, visuals, [chosen EXCEPT !.items = items])

PutItems(items) ==
  /\ LoadedEdit("selections")
  /\ ItemsHold(items)
  /\ SetReport(pages, visuals, [chosen EXCEPT !.items = items])

PutKeys(keys) ==
  /\ LoadedEdit("selections")
  /\ KeysHold(keys)
  /\ SetReport(pages, visuals, [chosen EXCEPT !.keys = keys])

(* Save All.  A payload has any of the parts "roles", "keys", "items", "visuals"
   and "pages", and they are taken in this order.  The roles are validated before
   anything is written; the keys and the items are each saved, then validated, and
   one that fails ends the request; the visuals and the pages take the place of
   those there are, and nobody asks what they name.                            *)
Has(payload, part) == part \in DOMAIN payload
Part(payload, part, there) == IF Has(payload, part) THEN payload[part] ELSE there

KeysFit(payload)  == Has(payload, "keys") => KeysHold(payload["keys"])
ItemsFit(payload) == Has(payload, "items") => ItemsHold(payload["items"])

SaveAll(payload) ==
  /\ LoadedEdit("saveAll")
  /\ Has(payload, "roles") => payload["roles"] \subseteq Objects
  /\ secured' = Part(payload, "roles", secured)
  /\ chosen' = [keys |-> Part(payload, "keys", chosen.keys),
                items |-> IF KeysFit(payload) THEN Part(payload, "items", chosen.items)
                                              ELSE chosen.items]
  /\ IF KeysFit(payload) /\ ItemsFit(payload)
       THEN /\ visuals' = Part(payload, "visuals", visuals)
            /\ pages' = Part(payload, "pages", pages)
       ELSE UNCHANGED <<visuals, pages>>
  /\ UNCHANGED <<tables, measures, rels, hierarchies, params, groups, redirected>>

-----------------------------------------------------------------------------
(* The project at the start has its types, and its sort orders and relationships
   are as the handlers leave them.                                            *)
SortedOnce(all) ==
  \A t \in DOMAIN all : \A c \in DOMAIN all[t].cols :
    LET d == all[t].cols[c].sortBy
    IN d \in DOMAIN all[t].cols => d # c /\ all[t].cols[d].sortBy = NoCol

ASSUME EmptyAssumption == Empty \in Encodings

(* A list of no pages is left out: the loader reads it as one page, with an id of
   its own.                                                                   *)
ASSUME PayloadsAssumption ==
  \A payload \in Payloads :
    /\ Has(payload, "roles") => payload["roles"] \in SUBSET (Tables \cup Measures \cup ColRefs)
    /\ Has(payload, "keys") => payload["keys"] \in SUBSET (Groups \X Keys)
    /\ Has(payload, "items") => payload["items"] \in SUBSET (Params \X Items)
    /\ Has(payload, "visuals") => IsMap(payload["visuals"], Visuals, Placed)
    /\ Has(payload, "pages") => payload["pages"] \in (SUBSET Pages) \ {{}}
ASSUME FirstAssumption ==
  /\ AreTables(FirstProject.tables) /\ SortedOnce(FirstProject.tables)
  /\ FirstProject.measures \in SUBSET Measures
  /\ FirstProject.rels \in SUBSET {r \in Relationships : r.id = r.ends}
  /\ FirstProject.hierarchies \in SUBSET HierarchyDefs
  /\ FirstProject.params \in ParamFiles /\ FirstProject.groups \in GroupFiles
  /\ FirstProject.secured \in SUBSET (Tables \cup Measures \cup ColRefs)
  /\ FirstProject.pages \in SUBSET Pages /\ FirstProject.pages # {}
  /\ IsMap(FirstProject.visuals, Visuals, Placed)
  /\ FirstProject.chosen \in Selections

Init ==
  /\ tables = FirstProject.tables /\ measures = FirstProject.measures
  /\ rels = FirstProject.rels /\ hierarchies = FirstProject.hierarchies
  /\ params = FirstProject.params /\ groups = FirstProject.groups
  /\ secured = FirstProject.secured /\ pages = FirstProject.pages
  /\ visuals = FirstProject.visuals /\ chosen = FirstProject.chosen
  /\ edits = 0 /\ last = "none" /\ redirected = FALSE

TableStep ==
  \E t \in Tables :
    \/ \E cols \in (SUBSET Cols) \ {{}}, notes \in {{}, {"text"}} :
         \/ CreateCalculatedTable(t, cols, notes)
         \/ UpdateCalculatedTable(t, cols, notes)
         \/ \E s \in Sources, m \in Modes \cup {NoMode} : ImportTable(t, s, m, cols, notes)
    \/ \E cols \in (SUBSET Cols) \ {{}}, s \in Sources, m \in Modes \cup {NoMode} :
         UpdateSource(t, s, m, cols)
    \/ \E m \in Modes : SetStorageMode(t, m)
    \/ \E typed \in BOOLEAN : SetTableType(t, typed)
    \/ DeleteTable(t)
    \/ \E c \in Cols :
         \/ CreateColumn(t, c) \/ DeleteColumn(t, c)
         \/ \E d \in Cols \cup {NoCol} : SetSortBy(t, c, d)

ModelStep ==
  \/ \E m \in Measures : CreateMeasure(m) \/ DeleteMeasure(m)
  \/ \E e \in Ends : CreateRelationship(e) \/ \E r \in rels : UpdateRelationship(r, e)
  \/ \E r \in rels : DeleteRelationship(r)
  \/ \E new \in SUBSET HierarchyDefs : PutHierarchies(new)
  \/ \E new \in ParamFiles : PutParams(new)
  \/ \E new \in GroupFiles : PutGroups(new)
  \/ \E new \in SUBSET (Tables \cup Measures \cup ColRefs) :
       Cardinality(new) <= 1 /\ PutRoles(new)

ReportStep ==
  \/ \E p \in Pages : CreatePage(p) \/ DeletePage(p)
  \/ \E v \in Visuals :
       \/ \E p \in Pages : CreateVisual(v, p)
       \/ \E enc \in Encodings :
            UpdateVisual(v, enc) \/ \E p \in Pages : MoveVisual(v, p, enc)
       \/ DeleteVisual(v)
  \/ \E items \in SUBSET (Params \X Items) : PutItems(items)
  \/ \E keys \in SUBSET (Groups \X Keys) : PutKeys(keys)

SaveAllStep == \E payload \in Payloads : SaveAll(payload)

Next == TableStep \/ ModelStep \/ ReportStep \/ SaveAllStep

Spec == Init /\ [][Next]_vars

-----------------------------------------------------------------------------
(* Properties.                                                                *)

\* Every variable has its type.
TypeOK ==
  /\ AreTables(tables)
  /\ measures \in SUBSET Measures
  /\ rels \in SUBSET Relationships
  /\ hierarchies \in SUBSET HierarchyDefs
  /\ params \in ParamFiles /\ groups \in GroupFiles
  /\ secured \in SUBSET (Tables \cup Measures \cup ColRefs)
  /\ pages \in SUBSET Pages /\ pages # {}
  /\ IsMap(visuals, Visuals, Placed)
  /\ chosen \in Selections
  /\ edits \in Nat /\ redirected \in BOOLEAN

\* Columns sort by columns that have no sort order of their own, whatever was
\* deleted, created anew, or replaced in between: runtime_set_column_sort_by
\* allows "only one level of sort-by indirection".
SortDepthOne == SortedOnce(tables)

\* No two relationships have the same ends; they have the same id, so that the
\* second cannot be reached, only after one was given other ends and its old
\* ends were related again.
RelationshipsDistinct ==
  /\ \A r, s \in rels : r.ends = s.ends => r = s
  /\ (\A r, s \in rels : r.id = s.id => r = s) \/ redirected

\* What these two handlers check when a sort order or a relationship is set
\* outlasts every later edit of what it refers to.
ChecksOutlast == SortDepthOne /\ RelationshipsDistinct

Narrowing == {"deleteTable", "updateTable", "source", "deleteColumn"}

\* A project that loads is made one that does not by these handlers only, each
\* through the references it does not look at: nothing that creates,
\* patches, sorts, relates or replaces a file that the loader checks on its own
\* does it.  Save All is among them for the visuals and pages it writes as they
\* come, and for no roles, which it validates first.
BreaksOnlyBy ==
  [][/\ HierarchiesHold /\ ~ HierarchiesHold' => last' \in Narrowing
     /\ SecurityHolds /\ ~ SecurityHolds' => last' \in Narrowing \cup {"deleteMeasure"}
     /\ StorageHolds /\ ~ StorageHolds' => last' = "source"
     /\ VisualsHold /\ ~ VisualsHold'
        => last' \in Narrowing \cup {"deleteMeasure", "params", "groups", "deletePage",
                                     "updateVisual", "saveAll"}]_vars

\* Once a hierarchy, a role or a storage mode names what is not there, no
\* sequence of requests mends it: every handler that could loads the project
\* first, which fails.
BrokenModelStays == [][~ ModelHolds => ~ ModelHolds']_vars

\* A calculated column stays one with its name, unless it or its table is
\* deleted, the columns of its table are derived anew, or the storage mode of
\* its table is set, which forgets its expression.
CalculatedColumnsStay ==
  [][\A t \in DOMAIN tables : \A c \in DOMAIN tables[t].cols :
       tables[t].cols[c].calc /\ last' \notin Narrowing
       => /\ t \in DOMAIN tables' /\ c \in DOMAIN tables'[t].cols
          /\ tables'[t].cols[c].calc \/ last' = "mode"]_vars

\* Stored selections that name items and keys there are go stale only when the
\* parameters or groups are replaced, or by a Save All, which validates them
\* after it has saved them.
SelectionsGoStaleOnlyBy ==
  [][/\ ItemsHold(chosen.items) /\ ~ ItemsHold(chosen.items)' => last' \in {"params", "saveAll"}
     /\ KeysHold(chosen.keys) /\ ~ KeysHold(chosen.keys)' => last' \in {"groups", "saveAll"}]_vars
================================================================================
