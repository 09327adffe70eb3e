---------------------------- MODULE ProjectEdits_proofs ----------------------------
(* Proofs about ProjectEdits, for any names, any contents that clients send and
   any number of edits.

   Most steps write one file; the lemmas about With, Upserted and one changed
   table say what that does to the tables, their columns and their sort orders. *)
EXTENDS ProjectEdits, TLAPS

LEMMA WithFacts ==
  ASSUME NEW f, NEW k, NEW v
  PROVE  /\ DOMAIN With(f, k, v) = DOMAIN f \cup {k}
         /\ With(f, k, v)[k] = v
         /\ \A x \in DOMAIN f \ {k} : With(f, k, v)[x] = f[x]
         /\ With(f, k, v) = [x \in DOMAIN With(f, k, v) |-> With(f, k, v)[x]]
BY DEF With

LEMMA WithoutFacts ==
  ASSUME NEW f, NEW k
  PROVE  /\ DOMAIN Without(f, k) = DOMAIN f \ {k}
         /\ \A x \in DOMAIN f \ {k} : Without(f, k)[x] = f[x]
         /\ Without(f, k) = [x \in DOMAIN Without(f, k) |-> Without(f, k)[x]]
BY DEF Without

LEMMA WithMap ==
  ASSUME NEW K, NEW V, NEW f, IsMap(f, K, V), NEW k \in K, NEW v \in V
  PROVE  IsMap(With(f, k, v), K, V)
<1> DEFINE g == With(f, k, v)
<1>1. /\ DOMAIN g = DOMAIN f \cup {k} /\ g[k] = v /\ \A x \in DOMAIN f \ {k} : g[x] = f[x]
      /\ g = [x \in DOMAIN g |-> g[x]]
  BY DEF With
<1> HIDE DEF g
<1>2. DOMAIN g \in SUBSET K /\ \A x \in DOMAIN g : g[x] \in V
  BY <1>1 DEF IsMap
<1>3. IsMap(g, K, V)
  BY <1>1, <1>2 DEF IsMap
<1> QED
  BY <1>3 DEF g

LEMMA WithoutMap ==
  ASSUME NEW K, NEW V, NEW f, IsMap(f, K, V), NEW k
  PROVE  IsMap(Without(f, k), K, V)
<1> DEFINE g == Without(f, k)
<1>1. /\ DOMAIN g = DOMAIN f \ {k} /\ \A x \in DOMAIN f \ {k} : g[x] = f[x]
      /\ g = [x \in DOMAIN g |-> g[x]]
  BY WithoutFacts
<1> HIDE DEF g
<1>2. DOMAIN g \in SUBSET K /\ \A x \in DOMAIN g : g[x] \in V
  BY <1>1 DEF IsMap
<1>3. IsMap(g, K, V)
  BY <1>1, <1>2 DEF IsMap
<1> QED
  BY <1>3 DEF g

\* AreTables, one table at a time.
IsTable(r) ==
  /\ r = [calc |-> r.calc, source |-> r.source, mode |-> r.mode, notes |-> r.notes, cols |-> r.cols]
  /\ r.calc \in BOOLEAN /\ r.source \in Sources \cup {NoSource} /\ r.mode \in Modes \cup {NoMode}
  /\ r.notes \in Notes /\ IsMap(r.cols, Cols, Column)

LEMMA TableByTable ==
  ASSUME NEW all
  PROVE  AreTables(all) <=> /\ DOMAIN all \in SUBSET Tables
                            /\ all = [t \in DOMAIN all |-> all[t]]
                            /\ \A t \in DOMAIN all : IsTable(all[t])
BY DEF AreTables, IsTable

LEMMA PhysicalType ==
  ASSUME NEW cols \in SUBSET Cols
  PROVE  /\ IsMap(Physical(cols), Cols, Column) /\ DOMAIN Physical(cols) = cols
         /\ \A c \in cols : Physical(cols)[c].sortBy = NoCol /\ Physical(cols)[c].calc = FALSE
BY DEF Physical, IsMap, Column

\* One table is written anew: its columns are physical, the others stay.
LEMMA UpsertedFacts ==
  ASSUME AreTables(tables), SortedOnce(tables), NEW t \in Tables, NEW calc \in BOOLEAN,
         NEW source \in Sources \cup {NoSource}, NEW mode \in Modes \cup {NoMode},
         NEW notes \in Notes, NEW cols \in SUBSET Cols,
         tables' = Upserted(t, calc, source, mode, notes, cols)
  PROVE  /\ AreTables(tables') /\ SortedOnce(tables')
         /\ DOMAIN tables' = DOMAIN tables \cup {t}
         /\ \A u \in DOMAIN tables \ {t} : tables'[u] = tables[u]
         /\ DOMAIN tables'[t].cols = cols /\ tables'[t].source = source /\ tables'[t].mode = mode
<1> DEFINE new == [calc |-> calc, source |-> source, mode |-> mode, notes |-> notes,
                   cols |-> Physical(cols)]
<1>1. IsTable(new)
  BY PhysicalType DEF IsTable
<1>0. tables' = With(tables, t, new)
  BY DEF Upserted
<1>5. new.source = source /\ new.mode = mode /\ new.cols = Physical(cols)
  OBVIOUS
<1> HIDE DEF new
<1>2. /\ DOMAIN tables' = DOMAIN tables \cup {t} /\ tables'[t] = new
      /\ \A u \in DOMAIN tables \ {t} : tables'[u] = tables[u]
      /\ tables' = [u \in DOMAIN tables' |-> tables'[u]]
  BY <1>0 DEF With
<1>3. AreTables(tables')
  BY <1>1, <1>2, TableByTable
<1>4. SortedOnce(tables')
  <2> SUFFICES ASSUME NEW u \in DOMAIN tables', NEW c \in DOMAIN tables'[u].cols,
                      tables'[u].cols[c].sortBy \in DOMAIN tables'[u].cols
               PROVE  /\ tables'[u].cols[c].sortBy # c
                      /\ tables'[u].cols[tables'[u].cols[c].sortBy].sortBy = NoCol
    BY DEF SortedOnce
  <2>1. CASE u = t
    <3>1. tables'[u].cols = Physical(cols) /\ DOMAIN Physical(cols) = cols
      BY <1>2, <1>5, <2>1, PhysicalType
    <3>2. \A d \in cols : Physical(cols)[d].sortBy = NoCol
      BY PhysicalType
    <3> QED
      BY <3>1, <3>2, NoAssumption
  <2>2. CASE u # t
    BY <1>2, <2>2 DEF SortedOnce
  <2> QED
    BY <2>1, <2>2
<1> QED
  BY <1>2, <1>3, <1>4, <1>5, PhysicalType

\* The columns of one table change, and nothing else.
LEMMA ColsFacts ==
  ASSUME AreTables(tables), NEW t \in DOMAIN tables, NEW cols, IsMap(cols, Cols, Column),
         tables' = [tables EXCEPT ![t].cols = cols]
  PROVE  /\ AreTables(tables') /\ DOMAIN tables' = DOMAIN tables
         /\ \A u \in DOMAIN tables \ {t} : tables'[u] = tables[u]
         /\ tables'[t].cols = cols /\ tables'[t].source = tables[t].source
         /\ tables'[t].mode = tables[t].mode
<1>1. IsTable(tables[t]) /\ tables = [u \in DOMAIN tables |-> tables[u]]
  BY TableByTable
<1>2. /\ DOMAIN tables' = DOMAIN tables /\ tables' = [u \in DOMAIN tables' |-> tables'[u]]
      /\ \A u \in DOMAIN tables \ {t} : tables'[u] = tables[u]
      /\ tables'[t] = [calc |-> tables[t].calc, source |-> tables[t].source, mode |-> tables[t].mode,
                       notes |-> tables[t].notes, cols |-> cols]
  BY <1>1 DEF IsTable
<1>3. IsTable(tables'[t])
  BY <1>1, <1>2 DEF IsTable
<1> QED
  BY <1>2, <1>3, TableByTable

-----------------------------------------------------------------------------
(* The tables keep their types and their sort orders.                         *)
LEMMA SortedCols ==
  ASSUME AreTables(tables), SortedOnce(tables), NEW t \in DOMAIN tables, NEW cols, IsMap(cols, Cols, Column),
         tables' = [tables EXCEPT ![t].cols = cols],
         \A c \in DOMAIN cols : cols[c].sortBy \in DOMAIN cols =>
            cols[c].sortBy # c /\ cols[cols[c].sortBy].sortBy = NoCol
  PROVE  AreTables(tables') /\ SortedOnce(tables')
<1>1. /\ AreTables(tables') /\ DOMAIN tables' = DOMAIN tables /\ tables'[t].cols = cols
      /\ \A u \in DOMAIN tables \ {t} : tables'[u] = tables[u]
  BY ColsFacts
<1>2. SortedOnce(tables')
  BY <1>1 DEF SortedOnce
<1> QED
  BY <1>1, <1>2

LEMMA ColsType ==
  ASSUME AreTables(tables), NEW t \in DOMAIN tables
  PROVE  /\ t \in Tables /\ IsMap(tables[t].cols, Cols, Column) /\ DOMAIN tables[t].cols \in SUBSET Cols
         /\ tables[t].notes \in Notes /\ tables[t].mode \in Modes \cup {NoMode}
         /\ tables[t].source \in Sources \cup {NoSource}
         /\ \A c \in DOMAIN tables[t].cols : tables[t].cols[c] \in Column
BY DEF AreTables, IsMap

LEMMA TableStepKeeps ==
  ASSUME AreTables(tables), SortedOnce(tables), TableStep
  PROVE  AreTables(tables') /\ SortedOnce(tables')
<1>1. PICK t \in Tables :
        \/ \E cols \in SUBSET Cols, notes \in {{}, {"text"}} :
             \/ CreateCalculatedTable(t, cols, notes)
             \/ UpdateCalculatedTable(t, cols, notes)
             \/ \E s \in Sources, m \in Modes \cup {NoMode} : ImportTable(t, s, m, cols, notes)
        \/ \E cols \in SUBSET Cols, s \in Sources, m \in Modes \cup {NoMode} : UpdateSource(t, s, m, cols)
        \/ \E m \in Modes : SetStorageMode(t, m)
        \/ \E typed \in BOOLEAN : SetTableType(t, typed)
        \/ DeleteTable(t)
        \/ \E c \in Cols : \/ CreateColumn(t, c) \/ DeleteColumn(t, c)
                          \/ \E d \in Cols \cup {NoCol} : SetSortBy(t, c, d)
  BY DEF TableStep
<1>2. CASE \E cols \in SUBSET Cols, notes \in {{}, {"text"}} :
             CreateCalculatedTable(t, cols, notes) \/ UpdateCalculatedTable(t, cols, notes)
  <2>1. PICK cols \in SUBSET Cols, notes \in {{}, {"text"}} :
               tables' = Upserted(t, TRUE, NoSource, NoMode, notes \ {"type"}, cols)
    BY <1>2 DEF CreateCalculatedTable, UpdateCalculatedTable, SetTables
  <2>2. notes \ {"type"} \in Notes
    BY DEF Notes
  <2> QED
    BY <2>1, <2>2, UpsertedFacts
<1>3. CASE \E cols \in SUBSET Cols, notes \in {{}, {"text"}}, s \in Sources, m \in Modes \cup {NoMode} :
             ImportTable(t, s, m, cols, notes)
  <2>1. PICK cols \in SUBSET Cols, notes \in {{}, {"text"}}, s \in Sources, m \in Modes \cup {NoMode} :
               tables' = Upserted(t, FALSE, s, m, notes, cols)
    BY <1>3 DEF ImportTable, SetTables
  <2>2. notes \in Notes
    BY DEF Notes
  <2> QED
    BY <2>1, <2>2, UpsertedFacts
<1>4. CASE \E cols \in SUBSET Cols, s \in Sources, m \in Modes \cup {NoMode} : UpdateSource(t, s, m, cols)
  <2>1. PICK cols \in SUBSET Cols, s \in Sources, m \in Modes \cup {NoMode} : UpdateSource(t, s, m, cols)
    BY <1>4
  <2>2. t \in DOMAIN tables /\ tables[t].notes \in Notes /\ tables[t].mode \in Modes \cup {NoMode}
    BY <2>1, ColsType DEF UpdateSource
  <2>3. PICK mode \in Modes \cup {NoMode} : tables' = Upserted(t, FALSE, s, mode, tables[t].notes, cols)
    BY <2>1, <2>2 DEF UpdateSource, SetTables
  <2> QED
    BY <2>2, <2>3, UpsertedFacts
<1>5. CASE \E m \in Modes : SetStorageMode(t, m)
  <2>1. PICK m \in Modes : SetStorageMode(t, m)
    BY <1>5
  <2>2. /\ t \in DOMAIN tables /\ tables[t].source \in Sources \cup {NoSource}
        /\ DOMAIN tables[t].cols \in SUBSET Cols /\ {} \in Notes
    BY <2>1, ColsType DEF SetStorageMode, Notes
  <2>3. tables' = Upserted(t, FALSE, tables[t].source, m, {}, DOMAIN tables[t].cols)
    BY <2>1 DEF SetStorageMode, SetTables
  <2> QED
    BY <2>2, <2>3, UpsertedFacts
<1>6. CASE \E typed \in BOOLEAN : SetTableType(t, typed)
  <2>1. PICK typed \in BOOLEAN :
          /\ t \in DOMAIN tables
          /\ tables' = [tables EXCEPT ![t].notes = IF typed THEN @ \cup {"type"} ELSE @ \ {"type"}]
    BY <1>6 DEF SetTableType, SetTables
  <2>2. PICK notes \in Notes : tables' = [tables EXCEPT ![t].notes = notes]
    BY <2>1, ColsType DEF Notes
  <2>3. IsTable(tables[t]) /\ tables = [u \in DOMAIN tables |-> tables[u]]
    BY <2>1, TableByTable
  <2>4. /\ DOMAIN tables' = DOMAIN tables /\ tables' = [u \in DOMAIN tables' |-> tables'[u]]
        /\ \A u \in DOMAIN tables \ {t} : tables'[u] = tables[u]
        /\ tables'[t] = [calc |-> tables[t].calc, source |-> tables[t].source, mode |-> tables[t].mode,
                         notes |-> notes, cols |-> tables[t].cols]
    BY <2>1, <2>2, <2>3 DEF IsTable
  <2>5. IsTable(tables'[t])
    BY <2>3, <2>4 DEF IsTable
  <2>6. \A u \in DOMAIN tables : tables'[u].cols = tables[u].cols
    BY <2>4
  <2> QED
    BY <2>4, <2>5, <2>6, TableByTable DEF SortedOnce
<1>7. CASE DeleteTable(t)
  <2>1. /\ DOMAIN tables' = DOMAIN tables \ {t} /\ tables' = [u \in DOMAIN tables' |-> tables'[u]]
        /\ \A u \in DOMAIN tables' : tables'[u] = tables[u]
    BY <1>7 DEF DeleteTable, SetTables, Without
  <2>2. AreTables(tables')
    BY <2>1, TableByTable
  <2> QED
    BY <2>1, <2>2 DEF SortedOnce
<1>8. CASE \E c \in Cols : CreateColumn(t, c)
  <2>1. PICK c \in Cols : CreateColumn(t, c)
    BY <1>8
  <2> DEFINE old == tables[t].cols
             new == With(old, c, [calc |-> TRUE, sortBy |-> NoCol])
  <2>2. /\ t \in DOMAIN tables /\ c \notin DOMAIN old /\ tables' = [tables EXCEPT ![t].cols = new]
        /\ IsMap(old, Cols, Column)
    BY <2>1, ColsType DEF CreateColumn, SetTables
  <2>3. IsMap(new, Cols, Column)
    BY <2>2, WithMap DEF Column
  <2>4. /\ DOMAIN new = DOMAIN old \cup {c} /\ new[c].sortBy = NoCol
        /\ \A e \in DOMAIN old : new[e] = old[e]
    BY <2>2 DEF With
  <2> HIDE DEF new
  <2>5. \A e \in DOMAIN old : old[e].sortBy \in DOMAIN old => old[e].sortBy # e /\ old[old[e].sortBy].sortBy = NoCol
    BY <2>2 DEF SortedOnce
  <2>6. \A e \in DOMAIN new : new[e].sortBy \in DOMAIN new => new[e].sortBy # e /\ new[new[e].sortBy].sortBy = NoCol
    BY <2>2, <2>4, <2>5, NoAssumption DEF IsMap
  <2> QED
    BY <2>2, <2>3, <2>6, SortedCols
<1>9. CASE \E c \in Cols : DeleteColumn(t, c)
  <2>1. PICK c \in Cols : DeleteColumn(t, c)
    BY <1>9
  <2> DEFINE old == tables[t].cols
             new == Without(old, c)
  <2>2. /\ t \in DOMAIN tables /\ tables' = [tables EXCEPT ![t].cols = new]
        /\ IsMap(old, Cols, Column)
    BY <2>1, ColsType DEF DeleteColumn, SetTables
  <2>3. IsMap(new, Cols, Column)
    BY <2>2, WithoutMap
  <2>4. DOMAIN new = DOMAIN old \ {c} /\ \A e \in DOMAIN new : new[e] = old[e]
    BY DEF Without
  <2> HIDE DEF new
  <2>5. \A e \in DOMAIN new : new[e].sortBy \in DOMAIN new => new[e].sortBy # e /\ new[new[e].sortBy].sortBy = NoCol
    BY <2>2, <2>4 DEF SortedOnce
  <2> QED
    BY <2>2, <2>3, <2>5, SortedCols
<1>10. CASE \E c \in Cols, d \in Cols \cup {NoCol} : SetSortBy(t, c, d)
  <2>1. PICK c \in Cols, d \in Cols \cup {NoCol} : SetSortBy(t, c, d)
    BY <1>10
  <2> DEFINE old == tables[t].cols
             new == [old EXCEPT ![c].sortBy = d]
  <2>2. /\ t \in DOMAIN tables /\ c \in DOMAIN old /\ tables' = [tables EXCEPT ![t].cols = new]
        /\ IsMap(old, Cols, Column) /\ old[c] \in Column
        /\ d # NoCol => SortFits(old, c, d)
    BY <2>1, ColsType DEF SetSortBy, SetTables
  <2>3. /\ DOMAIN new = DOMAIN old /\ new[c].sortBy = d /\ new[c] \in Column
        /\ \A e \in DOMAIN old \ {c} : new[e] = old[e]
        /\ IsMap(new, Cols, Column)
    BY <2>2 DEF IsMap, Column
  <2> HIDE DEF new
  <2>4. \A e \in DOMAIN old : old[e].sortBy \in DOMAIN old => old[e].sortBy # e /\ old[old[e].sortBy].sortBy = NoCol
    BY <2>2 DEF SortedOnce
  <2>5. CASE d = NoCol
    <3>1. \A e \in DOMAIN new : new[e].sortBy \in DOMAIN new => new[e].sortBy # e /\ new[new[e].sortBy].sortBy = NoCol
      BY <2>2, <2>3, <2>4, <2>5, NoAssumption DEF IsMap
    <3> QED
      BY <2>2, <2>3, <3>1, SortedCols
  <2>6. CASE d # NoCol
    <3>1. /\ d \in DOMAIN old /\ d # c /\ old[d].sortBy = NoCol
          /\ \A e \in DOMAIN old \ {c} : old[e].sortBy # c
      BY <2>2, <2>6 DEF SortFits
    <3>2. \A e \in DOMAIN new : new[e].sortBy \in DOMAIN new => new[e].sortBy # e /\ new[new[e].sortBy].sortBy = NoCol
      BY <2>2, <2>3, <2>4, <3>1 DEF IsMap
    <3> QED
      BY <2>2, <2>3, <3>2, SortedCols
  <2> QED
    BY <2>5, <2>6
<1> QED
  BY <1>1, <1>2, <1>3, <1>4, <1>5, <1>6, <1>7, <1>8, <1>9, <1>10

-----------------------------------------------------------------------------
(* The invariants.                                                            *)
LEMMA TableStepFrame ==
  TableStep => UNCHANGED <<measures, rels, hierarchies, params, groups, secured, report, redirected>>
BY DEF TableStep, CreateCalculatedTable, UpdateCalculatedTable, ImportTable, UpdateSource, SetStorageMode,
       SetTableType, DeleteTable, CreateColumn, DeleteColumn, SetSortBy, SetTables

LEMMA EditsType ==
  ASSUME edits \in Nat, Next
  PROVE  edits' \in Nat
<1>1. CASE TableStep
  <2>1. edits' = edits + 1
    BY ZenonT(60), <1>1 DEF TableStep, LoadedEdit, Edit, CreateCalculatedTable, UpdateCalculatedTable, ImportTable,
       UpdateSource, SetStorageMode, SetTableType, DeleteTable, CreateColumn, DeleteColumn, SetSortBy
  <2> QED
    BY <2>1
<1>2. CASE ModelStep
  <2>1. edits' = edits + 1
    BY ZenonT(60), <1>2 DEF ModelStep, LoadedEdit, Edit, CreateMeasure, DeleteMeasure, CreateRelationship,
       UpdateRelationship, DeleteRelationship, PutHierarchies, PutParams, PutGroups, PutRoles
  <2> QED
    BY <2>1
<1>3. CASE ReportStep
  <2>1. edits' = edits + 1
    BY ZenonT(60), <1>3 DEF ReportStep, LoadedEdit, Edit, CreatePage, DeletePage, CreateVisual,
       UpdateVisual, MoveVisual, DeleteVisual, PutItems, PutKeys
  <2> QED
    BY <2>1
<1>4. CASE SaveAllStep
  BY <1>4 DEF SaveAllStep, SaveAll, LoadedEdit, Edit
<1> QED
  BY <1>1, <1>2, <1>3, <1>4 DEF Next

ModelTypes ==
  /\ measures \in SUBSET Measures /\ rels \in SUBSET Relationships
  /\ hierarchies \in SUBSET HierarchyDefs /\ params \in ParamFiles /\ groups \in GroupFiles
  /\ secured \in SUBSET (Tables \cup Measures \cup ColRefs) /\ redirected \in BOOLEAN
ReportTypes ==
  /\ pages \in SUBSET Pages /\ pages # {} /\ IsMap(visuals, Visuals, Placed) /\ chosen \in Selections

LEMMA TypesSplit ==
  TypeOK <=> AreTables(tables) /\ ModelTypes /\ ReportTypes /\ edits \in Nat
BY DEF TypeOK, ModelTypes, ReportTypes

LEMMA ModelStepKeeps ==
  ASSUME ModelTypes, ModelStep
  PROVE  ModelTypes' /\ UNCHANGED <<tables, report>>
<1>1. CASE \E m \in Measures : CreateMeasure(m) \/ DeleteMeasure(m)
  BY <1>1 DEF CreateMeasure, DeleteMeasure, SetMeasures, ModelTypes, report
<1>2. CASE \E e \in Ends : CreateRelationship(e) \/ \E r \in rels : UpdateRelationship(r, e)
  <2>1. PICK e \in Ends : CreateRelationship(e) \/ \E r \in rels : UpdateRelationship(r, e)
    BY <1>2
  <2>2. [id |-> e, ends |-> e] \in Relationships
    BY DEF Relationships
  <2>3. \A r \in rels : [id |-> r.id, ends |-> e] \in Relationships
    BY DEF Relationships, ModelTypes
  <2>4. rels' \in SUBSET Relationships
    BY <2>1, <2>2, <2>3 DEF CreateRelationship, UpdateRelationship, SetRels, ModelTypes
  <2>5. redirected' \in BOOLEAN
    BY <2>1 DEF CreateRelationship, UpdateRelationship, ModelTypes
  <2>6. UNCHANGED <<tables, measures, hierarchies, params, groups, secured, report>>
    BY <2>1 DEF CreateRelationship, UpdateRelationship, SetRels
  <2> QED
    BY <2>4, <2>5, <2>6 DEF ModelTypes
<1>3. CASE \E r \in rels : DeleteRelationship(r)
  BY <1>3 DEF DeleteRelationship, SetRels, ModelTypes, report
<1>4. CASE \E new \in SUBSET HierarchyDefs : PutHierarchies(new)
  BY <1>4 DEF PutHierarchies, ModelTypes, report
<1>5. CASE \E new \in ParamFiles : PutParams(new)
  BY <1>5 DEF PutParams, ModelTypes, report
<1>6. CASE \E new \in GroupFiles : PutGroups(new)
  BY <1>6 DEF PutGroups, ModelTypes, report
<1>7. CASE \E new \in SUBSET (Tables \cup Measures \cup ColRefs) : PutRoles(new)
  BY <1>7 DEF PutRoles, ModelTypes, report
<1> QED
  BY <1>1, <1>2, <1>3, <1>4, <1>5, <1>6, <1>7 DEF ModelStep

LEMMA PlacedType ==
  ASSUME NEW p \in Pages, NEW enc \in Encodings
  PROVE  [page |-> p, enc |-> enc] \in Placed
BY DEF Placed

LEMMA ReportStepKeeps ==
  ASSUME ReportTypes, ReportStep
  PROVE  ReportTypes' /\ UNCHANGED <<model, redirected>>
<1> USE DEF SetReport
<1>1. CASE \E p \in Pages : CreatePage(p) \/ DeletePage(p)
  BY <1>1 DEF CreatePage, DeletePage, ReportTypes
<1>2. CASE \E v \in Visuals, p \in Pages : CreateVisual(v, p)
  BY <1>2, PlacedType, WithMap, EmptyAssumption DEF CreateVisual, ReportTypes
<1>3. CASE \E v \in Visuals, enc \in Encodings : UpdateVisual(v, enc)
  <2>1. PICK v \in Visuals, enc \in Encodings : UpdateVisual(v, enc)
    BY <1>3
  <2>2. v \in DOMAIN visuals /\ visuals' = [visuals EXCEPT ![v].enc = enc]
    BY <2>1 DEF UpdateVisual
  <2>3. IsMap(visuals', Visuals, Placed)
    BY <2>2 DEF ReportTypes, IsMap, Placed
  <2> QED
    BY <2>1, <2>3 DEF UpdateVisual, ReportTypes
<1>4. CASE \E v \in Visuals, enc \in Encodings, p \in Pages : MoveVisual(v, p, enc)
  BY <1>4, PlacedType, WithMap DEF MoveVisual, ReportTypes
<1>5. CASE \E v \in Visuals : DeleteVisual(v)
  BY <1>5, WithoutMap DEF DeleteVisual, ReportTypes
<1>6. CASE \E items \in SUBSET (Params \X Items) : PutItems(items)
  BY <1>6 DEF PutItems, ReportTypes, Selections
<1>7. CASE \E keys \in SUBSET (Groups \X Keys) : PutKeys(keys)
  BY <1>7 DEF PutKeys, ReportTypes, Selections
<1> QED
  BY <1>1, <1>2, <1>3, <1>4, <1>5, <1>6, <1>7 DEF ReportStep

\* A Save All leaves the model as it was, but for the roles.
LEMMA SaveAllKeeps ==
  ASSUME ModelTypes, ReportTypes, SaveAllStep
  PROVE  /\ ModelTypes' /\ ReportTypes'
         /\ UNCHANGED <<tables, measures, rels, hierarchies, params, groups, redirected>>
         /\ secured' = secured \/ secured' \subseteq Objects
         /\ last' = "saveAll"
<1>1. PICK payload \in Payloads : SaveAll(payload)
  BY DEF SaveAllStep
<1> USE DEF Part, Has
<1>2. secured' \in SUBSET (Tables \cup Measures \cup ColRefs)
  BY <1>1, PayloadsAssumption DEF SaveAll, ModelTypes
<1>3. UNCHANGED <<tables, measures, rels, hierarchies, params, groups, redirected>>
  BY <1>1 DEF SaveAll
<1>4. chosen' \in Selections
  <2>1. Part(payload, "keys", chosen.keys) \in SUBSET (Groups \X Keys)
    BY PayloadsAssumption DEF ReportTypes, Selections
  <2>2. Part(payload, "items", chosen.items) \in SUBSET (Params \X Items)
        /\ chosen.items \in SUBSET (Params \X Items)
    BY PayloadsAssumption DEF ReportTypes, Selections
  <2> HIDE DEF Part
  <2> QED
    BY <1>1, <2>1, <2>2 DEF SaveAll, Selections
<1>5. IsMap(visuals', Visuals, Placed) /\ pages' \in SUBSET Pages /\ pages' # {}
  <2>1. IsMap(Part(payload, "visuals", visuals), Visuals, Placed)
    BY PayloadsAssumption DEF ReportTypes
  <2>2. Part(payload, "pages", pages) \in (SUBSET Pages) \ {{}}
    BY PayloadsAssumption DEF ReportTypes
  <2> HIDE DEF Part
  <2>3. \/ visuals' = Part(payload, "visuals", visuals) /\ pages' = Part(payload, "pages", pages)
        \/ UNCHANGED <<visuals, pages>>
    BY <1>1 DEF SaveAll
  <2> QED
    BY <2>1, <2>2, <2>3 DEF ReportTypes
<1>6. secured' = secured \/ secured' \subseteq Objects
  BY <1>1 DEF SaveAll
<1>7. last' = "saveAll"
  BY <1>1 DEF SaveAll, LoadedEdit, Edit
<1> QED
  BY <1>2, <1>3, <1>4, <1>5, <1>6, <1>7 DEF ModelTypes, ReportTypes

Invariant == TypeOK /\ SortDepthOne

LEMMA InitInvariant == Init => Invariant
<1> SUFFICES ASSUME Init PROVE Invariant
  OBVIOUS
<1>1. /\ tables = FirstProject.tables /\ measures = FirstProject.measures
      /\ rels = FirstProject.rels /\ hierarchies = FirstProject.hierarchies
      /\ params = FirstProject.params /\ groups = FirstProject.groups
      /\ secured = FirstProject.secured /\ pages = FirstProject.pages
      /\ visuals = FirstProject.visuals /\ chosen = FirstProject.chosen
      /\ edits = 0 /\ redirected = FALSE
  BY DEF Init
<1>2. AreTables(tables) /\ SortedOnce(tables)
  BY <1>1, FirstAssumption
<1>3. ModelTypes /\ ReportTypes
  BY <1>1, FirstAssumption DEF ModelTypes, ReportTypes
<1> QED
  BY <1>1, <1>2, <1>3, TypesSplit DEF Invariant, SortDepthOne

LEMMA NextInvariant == Invariant /\ [Next]_vars => Invariant'
<1> SUFFICES ASSUME Invariant, [Next]_vars PROVE Invariant'
  OBVIOUS
<1>0. AreTables(tables) /\ SortedOnce(tables) /\ ModelTypes /\ ReportTypes /\ edits \in Nat
  BY TypesSplit DEF Invariant, SortDepthOne
<1>s. AreTables(tables') /\ SortedOnce(tables') /\ ModelTypes' /\ ReportTypes' /\ edits' \in Nat => Invariant'
  <2>1. TypeOK' <=> AreTables(tables)' /\ ModelTypes' /\ ReportTypes' /\ edits' \in Nat
    BY DEF TypeOK, ModelTypes, ReportTypes
  <2>2. AreTables(tables)' = AreTables(tables')
    BY DEF AreTables
  <2>3. SortedOnce(tables') => SortDepthOne'
    BY DEF SortDepthOne, SortedOnce
  <2> QED
    BY <2>1, <2>2, <2>3 DEF Invariant
<1>m. UNCHANGED <<measures, rels, hierarchies, params, groups, secured, redirected>> => ModelTypes'
  BY <1>0 DEF ModelTypes
<1>r. UNCHANGED report => ReportTypes'
  BY <1>0 DEF ReportTypes, report
<1>1. CASE UNCHANGED vars
  BY <1>1, <1>0, <1>s, <1>m, <1>r DEF vars, report
<1>2. CASE TableStep
  <2>1. edits' \in Nat
    BY <1>0, <1>2, EditsType DEF Next
  <2> QED
    BY <1>2, <2>1, <1>0, <1>s, <1>m, <1>r, TableStepKeeps, TableStepFrame
<1>3. CASE ModelStep
  <2>1. edits' \in Nat
    BY <1>0, <1>3, EditsType DEF Next
  <2> QED
    BY <1>3, <2>1, <1>0, <1>s, <1>r, ModelStepKeeps
<1>4. CASE ReportStep
  <2>1. edits' \in Nat
    BY <1>0, <1>4, EditsType DEF Next
  <2> QED
    BY <1>4, <2>1, <1>0, <1>s, <1>m, ReportStepKeeps DEF model
<1>5. CASE SaveAllStep
  <2>1. edits' \in Nat
    BY <1>0, <1>5, EditsType DEF Next
  <2> QED
    BY <1>5, <2>1, <1>0, <1>s, SaveAllKeeps
<1> QED
  BY <1>1, <1>2, <1>3, <1>4, <1>5 DEF Next

\* Every file keeps its type: there is always a page, the columns of a table have
\* at most one sort order each, and a visual is on a page that has a name.
THEOREM TypeCorrect == Spec => []TypeOK
<1>1. Spec => []Invariant
  BY InitInvariant, NextInvariant, PTL DEF Spec
<1> QED
  BY <1>1, PTL DEF Invariant

\* No sequence of edits, of whatever tables, makes a chain of sort orders or a
\* cycle: not by deleting a column others sort by and creating it again, nor by
\* importing its table anew.
THEOREM SortStaysShallow == Spec => []SortDepthOne
<1>1. Spec => []Invariant
  BY InitInvariant, NextInvariant, PTL DEF Spec
<1> QED
  BY <1>1, PTL DEF Invariant

-----------------------------------------------------------------------------
(* Relationships.  As long as none was given other ends the id of each is made
   of its ends.                                                               *)
RelsInvariant ==
  /\ \A r, s \in rels : r.ends = s.ends => r = s
  /\ redirected \/ \A r \in rels : r.id = r.ends

LEMMA RelsInit == Init => RelsInvariant
<1> SUFFICES ASSUME Init PROVE RelsInvariant
  OBVIOUS
<1>1. rels \in SUBSET {r \in Relationships : r.id = r.ends}
  BY FirstAssumption DEF Init
<1> QED
  BY <1>1 DEF RelsInvariant, Relationships

LEMMA RelsNext == RelsInvariant /\ [Next]_vars => RelsInvariant'
<1> SUFFICES ASSUME RelsInvariant, [Next]_vars PROVE RelsInvariant'
  OBVIOUS
<1>1. ASSUME NEW e \in Ends, CreateRelationship(e) PROVE RelsInvariant'
  <2>1. /\ rels' = rels \cup {[id |-> e, ends |-> e]} /\ redirected' = redirected
        /\ \A r \in rels : r.ends # e
    BY <1>1 DEF CreateRelationship, SetRels
  <2> QED
    BY <2>1 DEF RelsInvariant
<1>2. ASSUME NEW e \in Ends, NEW r \in rels, UpdateRelationship(r, e) PROVE RelsInvariant'
  <2>1. /\ rels' = (rels \ {r}) \cup {[id |-> r.id, ends |-> e]}
        /\ \A other \in rels \ {r} : other.ends # e
        /\ redirected' = (redirected \/ e # r.ends)
    BY <1>2 DEF UpdateRelationship, SetRels
  <2>2. \A q, s \in rels' : q.ends = s.ends => q = s
    BY <2>1 DEF RelsInvariant
  <2>3. redirected' \/ \A q \in rels' : q.id = q.ends
    <3>1. CASE redirected \/ e # r.ends
      BY <2>1, <3>1
    <3>2. CASE ~ redirected /\ e = r.ends
      BY <2>1, <3>2 DEF RelsInvariant
    <3> QED
      BY <3>1, <3>2
  <2> QED
    BY <2>2, <2>3 DEF RelsInvariant
<1>3. ASSUME NEW r \in rels, DeleteRelationship(r) PROVE RelsInvariant'
  BY <1>3 DEF DeleteRelationship, SetRels, RelsInvariant
<1>4. CASE UNCHANGED <<rels, redirected>>
  BY <1>4 DEF RelsInvariant
<1>5. CASE TableStep
  BY <1>4, <1>5, TableStepFrame
<1>6. CASE ModelStep
  <2>1. \/ \E e \in Ends : CreateRelationship(e) \/ \E r \in rels : UpdateRelationship(r, e)
        \/ \E r \in rels : DeleteRelationship(r)
        \/ UNCHANGED <<rels, redirected>>
    BY <1>6 DEF ModelStep, CreateMeasure, DeleteMeasure, SetMeasures, PutHierarchies, PutParams,
                PutGroups, PutRoles
  <2> QED
    BY <2>1, <1>1, <1>2, <1>3, <1>4
<1>7. CASE ReportStep
  <2>1. UNCHANGED <<rels, redirected>>
    BY <1>7 DEF ReportStep, SetReport, model, CreatePage, DeletePage, CreateVisual, UpdateVisual,
                MoveVisual, DeleteVisual, PutItems, PutKeys
  <2> QED
    BY <2>1, <1>4
<1>8. CASE UNCHANGED vars
  BY <1>4, <1>8 DEF vars
<1>9. CASE SaveAllStep
  BY <1>4, <1>9 DEF SaveAllStep, SaveAll
<1> QED
  BY <1>5, <1>6, <1>7, <1>8, <1>9 DEF Next

\* Two relationships never have the same ends, whatever ends a client relates;
\* they have the same id only once one was given other ends.
THEOREM RelationshipsStayDistinct == Spec => []RelationshipsDistinct
<1>1. RelsInvariant => RelationshipsDistinct
  BY DEF RelsInvariant, RelationshipsDistinct
<1> QED
  BY <1>1, RelsInit, RelsNext, PTL DEF Spec

\* Both together: what the handlers of sort orders and relationships check once
\* is true of every later project.
THEOREM ChecksAlwaysOutlast == Spec => []ChecksOutlast
  BY SortStaysShallow, RelationshipsStayDistinct, PTL DEF ChecksOutlast

-----------------------------------------------------------------------------
(* What no sequence of requests mends.                                        *)
LEMMA SameShape ==
  ASSUME DOMAIN tables' = DOMAIN tables,
         \A t \in DOMAIN tables : /\ tables'[t].mode = tables[t].mode /\ tables'[t].source = tables[t].source
                                  /\ DOMAIN tables'[t].cols = DOMAIN tables[t].cols,
         measures' \subseteq measures, hierarchies' = hierarchies, secured' = secured,
         ModelHolds'
  PROVE  ModelHolds
<1>1. ColumnsOf(tables') = ColumnsOf(tables)
  BY DEF ColumnsOf
<1>2. StorageHolds
  BY DEF ModelHolds, StorageHolds
<1>3. SecurityHolds
  <2>1. Objects' = DOMAIN tables' \cup ColumnsOf(tables') \cup measures'
    BY DEF Objects, ColumnsOf
  <2> QED
    BY <1>1, <2>1 DEF ModelHolds, SecurityHolds, Objects
<1>4. HierarchiesHold
  <2>1. \A h \in hierarchies' : {h.table} \X h.levels \subseteq ColumnsOf(tables')
    BY DEF ModelHolds, HierarchiesHold, ColumnsOf
  <2> QED
    BY <1>1, <2>1 DEF HierarchiesHold
<1> QED
  BY <1>2, <1>3, <1>4 DEF ModelHolds

\* The handlers that do not load the project.
LEMMA Unloaded ==
  ASSUME Next
  PROVE  \/ Loads
         \/ \E t \in Tables : \/ \E typed \in BOOLEAN : SetTableType(t, typed)
                             \/ \E c \in Cols, d \in Cols \cup {NoCol} : SetSortBy(t, c, d)
         \/ \E m \in Measures : DeleteMeasure(m)
         \/ UNCHANGED <<tables, measures, hierarchies, secured>>
<1>1. CASE TableStep
  BY ZenonT(60), <1>1 DEF TableStep, LoadedEdit, CreateCalculatedTable, UpdateCalculatedTable, ImportTable,
       UpdateSource, SetStorageMode, DeleteTable, CreateColumn, DeleteColumn
<1>2. CASE ModelStep
  BY <1>2 DEF ModelStep, LoadedEdit, CreateMeasure, CreateRelationship, UpdateRelationship,
       DeleteRelationship, SetRels, PutHierarchies, PutParams, PutGroups, PutRoles
<1>3. CASE ReportStep
  BY <1>3 DEF ReportStep, SetReport, model, CreatePage, DeletePage, CreateVisual, UpdateVisual,
       MoveVisual, DeleteVisual, PutItems, PutKeys
<1>4. CASE SaveAllStep
  BY <1>4 DEF SaveAllStep, SaveAll, LoadedEdit
<1> QED
  BY <1>1, <1>2, <1>3, <1>4 DEF Next

LEMMA SortByFacts ==
  ASSUME AreTables(tables), NEW t \in Tables, NEW c \in Cols, NEW d \in Cols \cup {NoCol}, SetSortBy(t, c, d)
  PROVE  /\ DOMAIN tables' = DOMAIN tables
         /\ \A u \in DOMAIN tables :
              /\ tables'[u].mode = tables[u].mode /\ tables'[u].source = tables[u].source
              /\ DOMAIN tables'[u].cols = DOMAIN tables[u].cols
              /\ \A e \in DOMAIN tables[u].cols : tables'[u].cols[e].calc = tables[u].cols[e].calc
<1> DEFINE old == tables[t].cols
           new == [old EXCEPT ![c].sortBy = d]
<1>1. /\ t \in DOMAIN tables /\ c \in DOMAIN old /\ tables' = [tables EXCEPT ![t].cols = new]
      /\ IsMap(old, Cols, Column) /\ old[c] \in Column
  BY ColsType DEF SetSortBy, SetTables
<1>2. /\ DOMAIN new = DOMAIN old /\ IsMap(new, Cols, Column) /\ \A e \in DOMAIN old : new[e].calc = old[e].calc
  BY <1>1 DEF IsMap, Column
<1> HIDE DEF new
<1>3. /\ DOMAIN tables' = DOMAIN tables /\ \A u \in DOMAIN tables \ {t} : tables'[u] = tables[u]
      /\ tables'[t].cols = new /\ tables'[t].source = tables[t].source /\ tables'[t].mode = tables[t].mode
  BY <1>1, <1>2, ColsFacts
<1> QED
  BY <1>1, <1>2, <1>3

LEMMA TypeFacts ==
  ASSUME AreTables(tables), NEW t \in Tables, NEW typed \in BOOLEAN, SetTableType(t, typed)
  PROVE  /\ DOMAIN tables' = DOMAIN tables
         /\ \A u \in DOMAIN tables :
              /\ tables'[u].mode = tables[u].mode /\ tables'[u].source = tables[u].source
              /\ tables'[u].cols = tables[u].cols
BY TableByTable DEF SetTableType, SetTables, IsTable

LEMMA BrokenStep == AreTables(tables) /\ ~ ModelHolds /\ [Next]_vars => ~ ModelHolds'
<1> SUFFICES ASSUME AreTables(tables), [Next]_vars, ModelHolds' PROVE ModelHolds
  OBVIOUS
<1>1. CASE UNCHANGED <<tables, measures, hierarchies, secured>>
  BY <1>1, SameShape
<1>2. CASE Next
  <2>1. CASE Loads
    BY <2>1 DEF Loads
  <2>2. CASE \E t \in Tables, typed \in BOOLEAN : SetTableType(t, typed)
    <3>1. UNCHANGED <<measures, hierarchies, secured>>
      BY <2>2 DEF SetTableType, SetTables
    <3> QED
      BY <2>2, <3>1, TypeFacts, SameShape
  <2>3. CASE \E t \in Tables, c \in Cols, d \in Cols \cup {NoCol} : SetSortBy(t, c, d)
    <3>1. UNCHANGED <<measures, hierarchies, secured>>
      BY <2>3 DEF SetSortBy, SetTables
    <3> QED
      BY <2>3, <3>1, SortByFacts, SameShape
  <2>4. CASE \E m \in Measures : DeleteMeasure(m)
    BY <2>4, SameShape DEF DeleteMeasure, SetMeasures
  <2> QED
    BY <1>2, <1>1, <2>1, <2>2, <2>3, <2>4, Unloaded
<1> QED
  BY <1>1, <1>2 DEF vars

\* A model the loader refuses stays refused under every sequence of requests.
THEOREM BrokenForever == Spec => BrokenModelStays
<1>1. Invariant => AreTables(tables)
  BY TypesSplit DEF Invariant
<1>2. Spec => []Invariant
  BY InitInvariant, NextInvariant, PTL DEF Spec
<1>3. Invariant /\ [Next]_vars => [~ ModelHolds => ~ ModelHolds']_vars
  BY <1>1, BrokenStep
<1> QED
  BY <1>2, <1>3, PTL DEF Spec, BrokenModelStays

-----------------------------------------------------------------------------
(* What edits of the tables keep.                                             *)

\* No table and no column goes.
Grows ==
  /\ DOMAIN tables \subseteq DOMAIN tables'
  /\ \A t \in DOMAIN tables : DOMAIN tables[t].cols \subseteq DOMAIN tables'[t].cols

\* A calculated column is one still.
CalculatedKept ==
  \A t \in DOMAIN tables : \A c \in DOMAIN tables[t].cols :
    tables[t].cols[c].calc => tables'[t].cols[c].calc

LEMMA TableStepEffects ==
  ASSUME AreTables(tables), SortedOnce(tables), TableStep
  PROVE  /\ last' \in Narrowing \/ (Grows /\ (last' = "mode" \/ CalculatedKept))
         /\ last' = "source" \/ (StorageHolds => StorageHolds')
<1>1. PICK t \in Tables :
        \/ \E cols \in SUBSET Cols, notes \in {{}, {"text"}} :
             \/ CreateCalculatedTable(t, cols, notes)
             \/ UpdateCalculatedTable(t, cols, notes)
             \/ \E s \in Sources, m \in Modes \cup {NoMode} : ImportTable(t, s, m, cols, notes)
        \/ \E cols \in SUBSET Cols, s \in Sources, m \in Modes \cup {NoMode} : UpdateSource(t, s, m, cols)
        \/ \E m \in Modes : SetStorageMode(t, m)
        \/ \E typed \in BOOLEAN : SetTableType(t, typed)
        \/ DeleteTable(t)
        \/ \E c \in Cols : \/ CreateColumn(t, c) \/ DeleteColumn(t, c)
                          \/ \E d \in Cols \cup {NoCol} : SetSortBy(t, c, d)
  BY DEF TableStep
<1>2. CASE \E cols \in SUBSET Cols, notes \in {{}, {"text"}} : CreateCalculatedTable(t, cols, notes)
  <2>1. PICK cols \in SUBSET Cols, notes \in {{}, {"text"}} : CreateCalculatedTable(t, cols, notes)
    BY <1>2
  <2>2. t \notin DOMAIN tables /\ tables' = Upserted(t, TRUE, NoSource, NoMode, notes \ {"type"}, cols)
        /\ notes \ {"type"} \in Notes
    BY <2>1 DEF CreateCalculatedTable, SetTables, Notes
  <2>3. /\ DOMAIN tables' = DOMAIN tables \cup {t} /\ \A u \in DOMAIN tables : tables'[u] = tables[u]
        /\ tables'[t].mode = NoMode
    BY <2>2, PhysicalType DEF Upserted, With
  <2>4. StorageHolds => StorageHolds'
    BY <2>2, <2>3 DEF StorageHolds
  <2> QED
    BY <2>3, <2>4 DEF Grows, CalculatedKept
<1>3. CASE \E cols \in SUBSET Cols, notes \in {{}, {"text"}} : UpdateCalculatedTable(t, cols, notes)
  <2>1. PICK cols \in SUBSET Cols, notes \in {{}, {"text"}} : UpdateCalculatedTable(t, cols, notes)
    BY <1>3
  <2>2. /\ tables' = Upserted(t, TRUE, NoSource, NoMode, notes \ {"type"}, cols)
        /\ notes \ {"type"} \in Notes /\ last' = "updateTable"
    BY <2>1 DEF UpdateCalculatedTable, SetTables, Notes, LoadedEdit, Edit
  <2>3. /\ DOMAIN tables' = DOMAIN tables \cup {t} /\ \A u \in DOMAIN tables \ {t} : tables'[u] = tables[u]
        /\ tables'[t].mode = NoMode
    BY <2>2, PhysicalType DEF Upserted, With
  <2>4. StorageHolds => StorageHolds'
    BY <2>3 DEF StorageHolds
  <2> QED
    BY <2>2, <2>4 DEF Narrowing
<1>4. CASE \E cols \in SUBSET Cols, notes \in {{}, {"text"}}, s \in Sources, m \in Modes \cup {NoMode} :
             ImportTable(t, s, m, cols, notes)
  <2>1. PICK cols \in SUBSET Cols, notes \in {{}, {"text"}}, s \in Sources, m \in Modes \cup {NoMode} :
               ImportTable(t, s, m, cols, notes)
    BY <1>4
  <2>2. /\ t \notin DOMAIN tables /\ tables' = Upserted(t, FALSE, s, m, notes, cols) /\ notes \in Notes
        /\ m # NoMode => <<m, s>> \in Fits
    BY <2>1 DEF ImportTable, SetTables, Notes
  <2>3. /\ DOMAIN tables' = DOMAIN tables \cup {t} /\ \A u \in DOMAIN tables : tables'[u] = tables[u]
        /\ tables'[t].mode = m /\ tables'[t].source = s
    BY <2>2, PhysicalType DEF Upserted, With
  <2>4. StorageHolds => StorageHolds'
    BY <2>2, <2>3 DEF StorageHolds
  <2> QED
    BY <2>3, <2>4 DEF Grows, CalculatedKept
<1>5. CASE \E cols \in SUBSET Cols, s \in Sources, m \in Modes \cup {NoMode} : UpdateSource(t, s, m, cols)
  BY <1>5 DEF UpdateSource, LoadedEdit, Edit, Narrowing
<1>6. CASE \E m \in Modes : SetStorageMode(t, m)
  <2>1. PICK m \in Modes : SetStorageMode(t, m)
    BY <1>6
  <2>2. /\ t \in DOMAIN tables /\ tables[t].source \in Sources \cup {NoSource}
        /\ DOMAIN tables[t].cols \in SUBSET Cols /\ {} \in Notes /\ last' = "mode"
        /\ tables' = Upserted(t, FALSE, tables[t].source, m, {}, DOMAIN tables[t].cols)
        /\ tables[t].source # NoSource => <<m, tables[t].source>> \in Fits
    BY <2>1, ColsType DEF SetStorageMode, SetTables, Notes, LoadedEdit, Edit
  <2>3. /\ DOMAIN tables' = DOMAIN tables \cup {t} /\ \A u \in DOMAIN tables \ {t} : tables'[u] = tables[u]
        /\ tables'[t].mode = m /\ tables'[t].source = tables[t].source
        /\ DOMAIN tables'[t].cols = DOMAIN tables[t].cols
    BY <2>2, PhysicalType DEF Upserted, With
  <2>4. StorageHolds => StorageHolds'
    BY <2>2, <2>3 DEF StorageHolds
  <2>5. Grows
    BY <2>2, <2>3 DEF Grows
  <2> QED
    BY <2>2, <2>4, <2>5
<1>7. CASE \E typed \in BOOLEAN : SetTableType(t, typed)
  BY <1>7, TypeFacts DEF Grows, CalculatedKept, StorageHolds
<1>8. CASE DeleteTable(t)
  <2>1. /\ DOMAIN tables' = DOMAIN tables \ {t} /\ \A u \in DOMAIN tables' : tables'[u] = tables[u]
    BY <1>8 DEF DeleteTable, SetTables, Without
  <2> QED
    BY <1>8, <2>1 DEF DeleteTable, LoadedEdit, Edit, Narrowing, StorageHolds
<1>9. CASE \E c \in Cols : CreateColumn(t, c)
  <2>1. PICK c \in Cols : CreateColumn(t, c)
    BY <1>9
  <2> DEFINE old == tables[t].cols
             new == With(old, c, [calc |-> TRUE, sortBy |-> NoCol])
  <2>2. /\ t \in DOMAIN tables /\ c \notin DOMAIN old /\ tables' = [tables EXCEPT ![t].cols = new]
        /\ IsMap(old, Cols, Column)
    BY <2>1, ColsType DEF CreateColumn, SetTables
  <2>3. IsMap(new, Cols, Column)
    BY <2>2, WithMap DEF Column
  <2>4. DOMAIN new = DOMAIN old \cup {c} /\ \A e \in DOMAIN old : new[e] = old[e]
    BY <2>2 DEF With
  <2> HIDE DEF new
  <2>5. /\ DOMAIN tables' = DOMAIN tables /\ \A u \in DOMAIN tables \ {t} : tables'[u] = tables[u]
        /\ tables'[t].cols = new /\ tables'[t].source = tables[t].source /\ tables'[t].mode = tables[t].mode
    BY <2>2, <2>3, ColsFacts
  <2> QED
    BY <2>2, <2>4, <2>5 DEF Grows, CalculatedKept, StorageHolds
<1>10. CASE \E c \in Cols : DeleteColumn(t, c)
  <2>1. PICK c \in Cols : DeleteColumn(t, c)
    BY <1>10
  <2>2. /\ t \in DOMAIN tables /\ tables' = [tables EXCEPT ![t].cols = Without(tables[t].cols, c)]
        /\ IsMap(tables[t].cols, Cols, Column) /\ last' = "deleteColumn"
    BY <2>1, ColsType DEF DeleteColumn, SetTables, LoadedEdit, Edit
  <2>3. IsMap(Without(tables[t].cols, c), Cols, Column)
    BY <2>2, WithoutMap
  <2>4. /\ DOMAIN tables' = DOMAIN tables
        /\ \A u \in DOMAIN tables : tables'[u].source = tables[u].source /\ tables'[u].mode = tables[u].mode
    BY <2>2, <2>3, ColsFacts
  <2> QED
    BY <2>2, <2>4 DEF Narrowing, StorageHolds
<1>11. CASE \E c \in Cols, d \in Cols \cup {NoCol} : SetSortBy(t, c, d)
  BY <1>11, SortByFacts DEF Grows, CalculatedKept, StorageHolds
<1> QED
  BY <1>1, <1>2, <1>3, <1>4, <1>5, <1>6, <1>7, <1>8, <1>9, <1>10, <1>11

\* A calculated column is lost with its table or by name, when its table is
\* derived anew, or when the storage mode of its table is set.
THEOREM CalculatedColumnsKept == Spec => CalculatedColumnsStay
<1> DEFINE Stay == \A t \in DOMAIN tables : \A c \in DOMAIN tables[t].cols :
       tables[t].cols[c].calc /\ last' \notin Narrowing
       => /\ t \in DOMAIN tables' /\ c \in DOMAIN tables'[t].cols
          /\ tables'[t].cols[c].calc \/ last' = "mode"
<1>1. Invariant => AreTables(tables) /\ SortedOnce(tables) /\ ModelTypes /\ ReportTypes
  BY TypesSplit DEF Invariant, SortDepthOne
<1>2. Spec => []Invariant
  BY InitInvariant, NextInvariant, PTL DEF Spec
<1>3. Invariant /\ [Next]_vars => [Stay]_vars
  <2> SUFFICES ASSUME Invariant, Next PROVE Stay
    OBVIOUS
  <2>1. CASE TableStep
    BY <2>1, <1>1, TableStepEffects DEF Grows, CalculatedKept
  <2>2. CASE tables' = tables
    BY <2>2
  <2> QED
    BY <2>1, <2>2, <1>1, ModelStepKeeps, ReportStepKeeps, SaveAllKeeps DEF Next, model
<1> QED
  BY <1>2, <1>3, PTL DEF Spec, CalculatedColumnsStay

-----------------------------------------------------------------------------
(* What breaks a project that loads.                                          *)
LEMMA ColumnsGrow ==
  ASSUME Grows
  PROVE  ColumnsOf(tables) \subseteq ColumnsOf(tables') /\ ColumnsOf(tables)' = ColumnsOf(tables')
BY DEF Grows, ColumnsOf

LEMMA VisualsGrow ==
  ASSUME ColumnsOf(tables) \subseteq ColumnsOf(tables)', measures \subseteq measures',
         params' = params, groups' = groups, pages \subseteq pages', NEW v, VisualHolds(v)
  PROVE  VisualHolds(v)'
<1>1. \A p, fields, more : fields \subseteq more /\ Resolves(v.enc, p, fields) => Resolves(v.enc, p, more)'
  BY DEF Resolves, ItemOf
<1>2. \A p \in v.enc.dimensions : Resolves(v.enc, p, ColumnsOf(tables))'
  <2> SUFFICES ASSUME NEW p \in v.enc.dimensions PROVE Resolves(v.enc, p, ColumnsOf(tables))'
    OBVIOUS
  <2>1. Resolves(v.enc, p, ColumnsOf(tables))
    BY DEF VisualHolds
  <2> QED
    BY <2>1 DEF Resolves, ItemOf
<1>3. \A p \in v.enc.measures : Resolves(v.enc, p, measures)'
  <2> SUFFICES ASSUME NEW p \in v.enc.measures PROVE Resolves(v.enc, p, measures)'
    OBVIOUS
  <2>1. Resolves(v.enc, p, measures)
    BY DEF VisualHolds
  <2> QED
    BY <2>1 DEF Resolves, ItemOf
<1> QED
  BY <1>2, <1>3 DEF VisualHolds

LEMMA EmptyHolds ==
  ASSUME NEW p \in pages
  PROVE  VisualHolds([page |-> p, enc |-> Empty])
BY DEF VisualHolds, Empty

Breaks ==
  /\ HierarchiesHold /\ ~ HierarchiesHold' => last' \in Narrowing
  /\ SecurityHolds /\ ~ SecurityHolds' => last' \in Narrowing \cup {"deleteMeasure"}
  /\ StorageHolds /\ ~ StorageHolds' => last' = "source"
  /\ VisualsHold /\ ~ VisualsHold'
     => last' \in Narrowing \cup {"deleteMeasure", "params", "groups", "deletePage", "updateVisual",
                                  "saveAll"}

LEMMA TableStepBreaks ==
  ASSUME AreTables(tables), SortedOnce(tables), TableStep
  PROVE  Breaks
<1>1. UNCHANGED <<measures, rels, hierarchies, params, groups, secured, report, redirected>>
  BY TableStepFrame
<1>2. last' = "source" \/ (StorageHolds => StorageHolds')
  BY TableStepEffects
<1>3. CASE last' \in Narrowing
  BY <1>2, <1>3 DEF Breaks
<1>4. CASE Grows
  <2>1. ColumnsOf(tables) \subseteq ColumnsOf(tables)' /\ DOMAIN tables \subseteq DOMAIN tables'
    BY <1>4, ColumnsGrow DEF Grows
  <2>2. HierarchiesHold => HierarchiesHold'
    BY <1>1, <2>1 DEF HierarchiesHold
  <2>3. SecurityHolds => SecurityHolds'
    BY <1>1, <2>1 DEF SecurityHolds, Objects
  <2>4. VisualsHold => VisualsHold'
    BY <1>1, <2>1, VisualsGrow DEF VisualsHold, report
  <2> QED
    BY <1>2, <2>2, <2>3, <2>4 DEF Breaks
<1> QED
  BY <1>3, <1>4, TableStepEffects

\* The tables, and with them the storage modes, are as they were.
LEMMA ModelStepBreaks ==
  ASSUME ModelTypes, ModelStep
  PROVE  Breaks
<1>1. UNCHANGED <<tables, report>>
  BY ModelStepKeeps
<1>2. /\ ColumnsOf(tables)' = ColumnsOf(tables) /\ StorageHolds' = StorageHolds
  BY <1>1 DEF ColumnsOf, StorageHolds
<1>v. measures \subseteq measures' /\ UNCHANGED <<params, groups>> => (VisualsHold => VisualsHold')
  BY <1>1, <1>2, VisualsGrow DEF VisualsHold, report
<1>h. UNCHANGED hierarchies => HierarchiesHold' = HierarchiesHold
  BY <1>2 DEF HierarchiesHold
<1>s. measures \subseteq measures' /\ UNCHANGED secured => (SecurityHolds => SecurityHolds')
  BY <1>1, <1>2 DEF SecurityHolds, Objects
<1>3. CASE \E m \in Measures : CreateMeasure(m)
  <2>1. measures \subseteq measures' /\ UNCHANGED <<hierarchies, params, groups, secured>>
    BY <1>3 DEF CreateMeasure, SetMeasures
  <2> QED
    BY <2>1, <1>2, <1>v, <1>h, <1>s DEF Breaks
<1>4. CASE \E m \in Measures : DeleteMeasure(m)
  <2>1. UNCHANGED hierarchies /\ last' = "deleteMeasure"
    BY <1>4 DEF DeleteMeasure, SetMeasures, Edit
  <2> QED
    BY <2>1, <1>2, <1>h DEF Breaks
<1>5. CASE \/ \E e \in Ends : CreateRelationship(e) \/ \E r \in rels : UpdateRelationship(r, e)
          \/ \E r \in rels : DeleteRelationship(r)
  <2>1. UNCHANGED <<measures, hierarchies, params, groups, secured>>
    BY <1>5 DEF CreateRelationship, UpdateRelationship, DeleteRelationship, SetRels
  <2> QED
    BY <2>1, <1>2, <1>v, <1>h, <1>s DEF Breaks
<1>6. CASE \E new \in SUBSET HierarchyDefs : PutHierarchies(new)
  <2>1. PICK new \in SUBSET HierarchyDefs : PutHierarchies(new)
    BY <1>6
  <2>2. UNCHANGED <<measures, params, groups, secured>> /\ HierarchiesHold'
    BY <2>1, <1>2 DEF PutHierarchies, HierarchiesHold
  <2> QED
    BY <2>2, <1>2, <1>v, <1>s DEF Breaks
<1>7. CASE \E new \in ParamFiles : PutParams(new)
  <2>1. UNCHANGED <<measures, hierarchies, groups, secured>> /\ last' = "params"
    BY <1>7 DEF PutParams, LoadedEdit, Edit
  <2> QED
    BY <2>1, <1>2, <1>h, <1>s DEF Breaks
<1>8. CASE \E new \in GroupFiles : PutGroups(new)
  <2>1. UNCHANGED <<measures, hierarchies, params, secured>> /\ last' = "groups"
    BY <1>8 DEF PutGroups, Edit
  <2> QED
    BY <2>1, <1>2, <1>h, <1>s DEF Breaks
<1>9. CASE \E new \in SUBSET (Tables \cup Measures \cup ColRefs) : PutRoles(new)
  <2>1. UNCHANGED <<measures, hierarchies, params, groups>> /\ secured' \subseteq Objects
    BY <1>9 DEF PutRoles
  <2>2. SecurityHolds'
    BY <2>1, <1>1, <1>2 DEF SecurityHolds, Objects
  <2> QED
    BY <2>1, <2>2, <1>2, <1>v, <1>h DEF Breaks
<1> QED
  BY <1>3, <1>4, <1>5, <1>6, <1>7, <1>8, <1>9 DEF ModelStep

\* The model is as it was.
LEMMA ReportStepBreaks ==
  ASSUME ReportTypes, ReportStep
  PROVE  Breaks
<1>1. UNCHANGED model
  BY ReportStepKeeps
<1>2. /\ HierarchiesHold' = HierarchiesHold /\ SecurityHolds' = SecurityHolds
      /\ StorageHolds' = StorageHolds /\ ColumnsOf(tables)' = ColumnsOf(tables)
  BY <1>1 DEF model, HierarchiesHold, SecurityHolds, StorageHolds, Objects, ColumnsOf
<1>3. \A v : pages \subseteq pages' /\ VisualHolds(v) => VisualHolds(v)'
  BY <1>1, <1>2, VisualsGrow DEF model
<1>4. pages \subseteq pages' /\ visuals' = visuals => (VisualsHold => VisualsHold')
  BY <1>3 DEF VisualsHold
<1>5. CASE \E p \in Pages : CreatePage(p)
  BY <1>5, <1>2, <1>4 DEF CreatePage, SetReport, Breaks
<1>6. CASE \E p \in Pages : DeletePage(p)
  BY <1>6, <1>2 DEF DeletePage, LoadedEdit, Edit, Breaks
<1>7. CASE \E v \in Visuals, p \in Pages : CreateVisual(v, p)
  <2>1. PICK v \in Visuals, p \in Pages : CreateVisual(v, p)
    BY <1>7
  <2> DEFINE new == [page |-> p, enc |-> Empty]
  <2>2. p \in pages /\ pages' = pages /\ visuals' = With(visuals, v, new)
    BY <2>1 DEF CreateVisual, SetReport
  <2>3. VisualHolds(new)'
    BY <2>2, <1>3, EmptyHolds
  <2> HIDE DEF new
  <2>4. \A u \in DOMAIN visuals' :
          visuals'[u] = new \/ (u \in DOMAIN visuals /\ visuals'[u] = visuals[u])
    BY <2>2 DEF With
  <2>5. VisualsHold => VisualsHold'
    BY <2>2, <2>3, <2>4, <1>3 DEF VisualsHold
  <2> QED
    BY <1>2, <2>5 DEF Breaks
<1>8. CASE \E v \in Visuals, enc \in Encodings :
             UpdateVisual(v, enc) \/ \E p \in Pages : MoveVisual(v, p, enc)
  BY <1>8, <1>2 DEF UpdateVisual, MoveVisual, LoadedEdit, Edit, Breaks
<1>9. CASE \E v \in Visuals : DeleteVisual(v)
  <2>1. pages' = pages /\ \A u \in DOMAIN visuals' : u \in DOMAIN visuals /\ visuals'[u] = visuals[u]
    BY <1>9 DEF DeleteVisual, SetReport, Without
  <2>2. VisualsHold => VisualsHold'
    BY <2>1, <1>3 DEF VisualsHold
  <2> QED
    BY <1>2, <2>2 DEF Breaks
<1>10. CASE pages' = pages /\ visuals' = visuals
  BY <1>10, <1>2, <1>4 DEF Breaks
<1>11. CASE \/ \E items \in SUBSET (Params \X Items) : PutItems(items)
           \/ \E keys \in SUBSET (Groups \X Keys) : PutKeys(keys)
  BY <1>10, <1>11 DEF PutItems, PutKeys, SetReport
<1> QED
  BY <1>5, <1>6, <1>7, <1>8, <1>9, <1>11 DEF ReportStep

\* A Save All breaks nothing but visuals: its roles name what there is.
LEMMA SaveAllBreaks ==
  ASSUME ModelTypes, ReportTypes, SaveAllStep
  PROVE  Breaks
<1>1. /\ UNCHANGED <<tables, measures, hierarchies>> /\ last' = "saveAll"
      /\ secured' = secured \/ secured' \subseteq Objects
  BY SaveAllKeeps
<1>2. /\ HierarchiesHold' = HierarchiesHold /\ StorageHolds' = StorageHolds
      /\ Objects' = Objects
  BY <1>1 DEF HierarchiesHold, StorageHolds, Objects, ColumnsOf
<1>3. SecurityHolds => SecurityHolds'
  BY <1>1, <1>2 DEF SecurityHolds
<1> QED
  BY <1>1, <1>2, <1>3 DEF Breaks

\* Which handlers make a project that loads one that does not, and through which
\* of the loader's checks.
THEOREM BreaksOnly == Spec => BreaksOnlyBy
<1>1. Invariant => AreTables(tables) /\ SortedOnce(tables) /\ ModelTypes /\ ReportTypes
  BY TypesSplit DEF Invariant, SortDepthOne
<1>2. Spec => []Invariant
  BY InitInvariant, NextInvariant, PTL DEF Spec
<1>3. Invariant /\ [Next]_vars => [Breaks]_vars
  BY <1>1, TableStepBreaks, ModelStepBreaks, ReportStepBreaks, SaveAllBreaks DEF Next
<1> QED
  BY <1>2, <1>3, PTL DEF Spec, BreaksOnlyBy, Breaks

\* Which requests make a stored selection name what is not there.
THEOREM SelectionsGoStaleOnly == Spec => SelectionsGoStaleOnlyBy
<1> DEFINE Stale ==
      /\ ItemsHold(chosen.items) /\ ~ ItemsHold(chosen.items)' => last' \in {"params", "saveAll"}
      /\ KeysHold(chosen.keys) /\ ~ KeysHold(chosen.keys)' => last' \in {"groups", "saveAll"}
<1>1. Invariant => ReportTypes
  BY TypesSplit DEF Invariant
<1>2. Spec => []Invariant
  BY InitInvariant, NextInvariant, PTL DEF Spec
<1>3. ASSUME UNCHANGED <<params, groups, chosen>> PROVE Stale
  BY <1>3 DEF ItemsHold, KeysHold
<1>4. Invariant /\ [Next]_vars => [Stale]_vars
  <2> SUFFICES ASSUME Invariant, Next PROVE Stale
    OBVIOUS
  <2>1. CASE TableStep
    BY <2>1, <1>3, TableStepFrame DEF report
  <2>2. CASE ModelStep
    <3>1. \/ UNCHANGED <<params, groups, chosen>>
          \/ last' = "params" /\ UNCHANGED <<groups, chosen>>
          \/ last' = "groups" /\ UNCHANGED <<params, chosen>>
      BY <2>2 DEF ModelStep, LoadedEdit, Edit, CreateMeasure, DeleteMeasure, SetMeasures,
           CreateRelationship, UpdateRelationship, DeleteRelationship, SetRels, PutHierarchies,
           PutParams, PutGroups, PutRoles, report
    <3> QED
      BY <3>1, <1>3 DEF ItemsHold, KeysHold
  <2>3. CASE ReportStep
    <3>1. UNCHANGED <<params, groups>>
      BY <2>3, <1>1, ReportStepKeeps DEF model
    <3>2. chosen \in Selections
      BY <1>1 DEF ReportTypes
    <3>3. ASSUME NEW items \in SUBSET (Params \X Items), PutItems(items) PROVE Stale
      <4>1. ItemsHold(items) /\ chosen' = [chosen EXCEPT !.items = items]
        BY <3>3 DEF PutItems, SetReport
      <4>2. chosen'.items = items /\ chosen'.keys = chosen.keys
        BY <3>2, <4>1 DEF Selections
      <4> QED
        BY <3>1, <4>1, <4>2 DEF ItemsHold, KeysHold
    <3>4. ASSUME NEW keys \in SUBSET (Groups \X Keys), PutKeys(keys) PROVE Stale
      <4>1. KeysHold(keys) /\ chosen' = [chosen EXCEPT !.keys = keys]
        BY <3>4 DEF PutKeys, SetReport
      <4>2. chosen'.keys = keys /\ chosen'.items = chosen.items
        BY <3>2, <4>1 DEF Selections
      <4> QED
        BY <3>1, <4>1, <4>2 DEF ItemsHold, KeysHold
    <3>6. \/ UNCHANGED chosen
          \/ \E items \in SUBSET (Params \X Items) : PutItems(items)
          \/ \E keys \in SUBSET (Groups \X Keys) : PutKeys(keys)
      BY <2>3 DEF ReportStep, SetReport, CreatePage, DeletePage, CreateVisual, UpdateVisual,
           MoveVisual, DeleteVisual, LoadedEdit, Edit
    <3> QED
      BY <3>1, <3>3, <3>4, <3>6, <1>3
  <2>4. CASE SaveAllStep
    BY <2>4 DEF SaveAllStep, SaveAll, LoadedEdit, Edit
  <2> QED
    BY <2>1, <2>2, <2>3, <2>4 DEF Next
<1> QED
  BY <1>2, <1>4, PTL DEF Spec, SelectionsGoStaleOnlyBy
================================================================================
