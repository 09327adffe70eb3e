--------------------------- MODULE ProjectFiles_proofs ---------------------------
(* Proofs about who writes the files of a project: the editing sessions with Save
   All (ReportSession), and the requests that read, change and write back a file
   (FileWriters).

   For the sessions: type correctness, what an ok answer of Save All means, that
   no work is lost while nothing overlaps but by adding a page, and what makes a
   project unloadable, for any number of pages, visuals and edits.

   For the writers, for any set of threads, any of the files and any number of
   requests: an update is kept because a request that is alone on its file goes
   through stages, each of which says where its change is: still in memory, in the
   temporary file, or on disk.  WritersInv states the stage of every thread; it
   says nothing of a file once two requests on it have overlapped.             *)
EXTENDS ReportSession, FileWriters, TLAPS

-----------------------------------------------------------------------------
(* The editing sessions.                                                      *)
(* While a save writes, the half-written file is one it has still to write, and
   what it has no more to write is on disk.                                   *)
SaveInv ==
  /\ save.stage = "sent" => save.todo = save.visuals
  /\ save.stage = "syncing" =>
       /\ torn \subseteq save.todo /\ save.todo \subseteq save.visuals
       /\ save.visuals \subseteq dvis \cup save.todo

\* What the store should have: what it was given, and addPage did not take.
Held == shown \ emptied

(* As long as nothing overlaps: what the store holds without a flag is on disk,
   a save has all that the store should have in its payload, and a fetched page
   has all of it that is on the page.                                         *)
QuietInv ==
  quiet =>
    /\ Held \subseteq InStore
    /\ (known \cup kept) \cap Held \subseteq dvis
    /\ Saving => Held \subseteq save.visuals /\ ~ Fetching
    /\ \A p \in Pages : fetch[p].state = "loaded" => torn = {}
    /\ \A p \in Pages : fetch[p].state = "answered" =>
         /\ On(known \cap Held, p) \subseteq fetch[p].visuals
         /\ fetch[p].visuals \subseteq dvis

\* An answer that is not there yet holds nothing.
FetchInv == \A p \in Pages : fetch[p].state # "answered" => fetch[p].visuals = {}

(* What is fetched is on its page, and that is a page of the store, or one that
   the user deleted or a load took away; so is every visual of the store and of a
   payload.                                                                   *)
PageInv ==
  /\ \A p \in Pages : fetch[p].state # "none" => p \in pages \cup dropped \cup taken
  /\ \A p \in Pages : \A v \in fetch[p].visuals : PageOf(v) = p
  /\ \A v \in InStore : PageOf(v) \in pages \cup dropped \cup taken
  /\ Saving => \A v \in save.visuals : PageOf(v) \in save.pages \cup dropped \cup taken

SessionInv ==
  /\ TypeOK /\ SaveInv /\ FetchInv /\ SaveWritesPayload
  /\ QuietInv /\ PageInv /\ UnloadableOnlyBy

-----------------------------------------------------------------------------
LEMMA PageOfVisual == \A v \in Visuals : PageOf(v) \in Pages
  BY DEF Visuals, PageOf

LEMMA InitHolds == Init => SessionInv
<1> SUFFICES ASSUME Init PROVE SessionInv
  OBVIOUS
<1>1. dpages \subseteq Pages /\ dvis \subseteq Visuals
      /\ \A v \in dvis : PageOf(v) \in dpages
  BY DEF Init
<1>2. TypeOK
  <2>1. fetch \in [Pages -> Fetches] /\ save \in Saves /\ clip \in Clips
    BY DEF Init, Fetches, Saves, Clips, Nothing, NoFetch, NoSave
  <2>2. edits \in 0 .. MaxEdits
    BY BoundAssumption DEF Init
  <2>3. torn \subseteq dvis /\ kept \subseteq Visuals /\ partial \in BOOLEAN
        /\ quiet \in BOOLEAN
    BY <1>1 DEF Init
  <2>q. QED
    BY <1>1, <2>1, <2>2, <2>3 DEF Init, TypeOK
<1>3. SaveInv /\ FetchInv /\ SaveWritesPayload /\ UnloadableOnlyBy
  BY <1>1 DEF Init, SaveInv, FetchInv, SaveWritesPayload, UnloadableOnlyBy,
              NoFetch, NoSave
<1>4. QuietInv /\ PageInv
  BY <1>1 DEF Init, QuietInv, Held, PageInv, InStore, Saving, Fetching, On, NoFetch, NoSave
<1>q. QED
  BY <1>2, <1>3, <1>4 DEF SessionInv

\* Every step leaves every variable in its type.
LEMMA TypeStep == SessionInv /\ [Next]_vars => TypeOK'
<1> SUFFICES ASSUME SessionInv, [Next]_vars PROVE TypeOK'
  OBVIOUS
<1> USE DEF SessionInv
<1>1. CASE UNCHANGED vars
  BY <1>1 DEF vars, TypeOK, files, store, history
<1>2. CASE LoadState
  BY <1>2 DEF LoadState, TypeOK, On, Loads, Saving, Fetching, files
<1>3. CASE Close
  BY <1>3 DEF Close, TypeOK, Fetches, Saves, Clips, NoFetch, NoSave, Nothing,
       CutShort, Open, files
<1>4. ASSUME NEW p \in Pages, AddPage(p) PROVE TypeOK'
  BY <1>4, BoundAssumption DEF AddPage, TypeOK, InStore, Counted, NewPage, files
<1>5. ASSUME NEW p \in Pages, RemovePage(p) PROVE TypeOK'
  BY <1>5, BoundAssumption DEF RemovePage, TypeOK, On, Counted, files
<1>6. ASSUME NEW v \in Visuals, AddVisual(v) PROVE TypeOK'
  BY <1>6, BoundAssumption DEF AddVisual, TypeOK, InStore, Counted,
       NewVisual, Saving, files
<1>7. ASSUME NEW v \in Visuals, RemoveVisual(v) PROVE TypeOK'
  BY <1>7, BoundAssumption DEF RemoveVisual, TypeOK, InStore, Counted,
       Forgotten, files
<1>8. ASSUME NEW v \in Visuals, CopyVisual(v) PROVE TypeOK'
  BY <1>8, BoundAssumption DEF CopyVisual, TypeOK, InStore, Clips, Counted,
       Copied, files, history
<1>9. ASSUME NEW v \in Visuals, CutVisual(v) PROVE TypeOK'
  BY <1>9, BoundAssumption DEF CutVisual, TypeOK, InStore, Clips, Counted,
       Forgotten, Copied, files
<1>10. ASSUME NEW v \in Visuals, PasteVisual(v) PROVE TypeOK'
  <2>1. known' \subseteq Visuals /\ unsaved' \subseteq Visuals
    <3>1. CASE clip.flagged
      BY <1>10, <3>1 DEF PasteVisual, TypeOK
    <3>2. CASE ~ clip.flagged
      BY <1>10, <3>2 DEF PasteVisual, TypeOK
    <3>q. QED
      BY <3>1, <3>2
  <2>2. clip' \in Clips /\ edits' \in 0 .. MaxEdits
    BY <1>10, BoundAssumption DEF PasteVisual, TypeOK, Clips, Nothing, Counted
  <2>q. QED
    BY <1>10, <2>1, <2>2 DEF PasteVisual, TypeOK, files
<1>11. ASSUME NEW p \in Pages, ChangePage(p) PROVE TypeOK'
  <2>1. /\ p \in pages /\ current' = p
        /\ UNCHANGED <<files, pages, known, unsaved, saved, clip, save, kept, shown,
                       emptied, dropped, taken, partial, edits>>
    BY <1>11 DEF ChangePage
  <2>2. CASE p \in saved
    <3>1. /\ fetch[p] = NoFetch
          /\ fetch' = [fetch EXCEPT ![p] = Pending("asked")]
          /\ (quiet' => quiet /\ ~ Saving) /\ quiet' \in BOOLEAN
      BY <1>11, <2>2, Zenon DEF ChangePage, TypeOK
    <3>q. QED
      BY <2>1, <3>1 DEF Pending, files, TypeOK, Fetches, NoFetch
  <2>3. CASE p \notin saved
    <3>1. UNCHANGED <<fetch, quiet>>
      BY <1>11, <2>3 DEF ChangePage
    <3>q. QED
      BY <2>1, <3>1 DEF files, TypeOK, Fetches, NoFetch
  <2>q. QED
    BY <2>2, <2>3
<1>12. ASSUME NEW p \in Pages, FetchLoads(p) PROVE TypeOK'
  BY <1>12 DEF FetchLoads, TypeOK, Fetches, Loads, Pending, files, store,
       history
<1>13. ASSUME NEW p \in Pages, FetchReads(p) PROVE TypeOK'
  BY <1>13 DEF FetchReads, TypeOK, On, Fetches, files, store, history
<1>14. ASSUME NEW p \in Pages, FetchFails(p) PROVE TypeOK'
  BY <1>14 DEF FetchFails, TypeOK, Fetches, NoFetch, files, store, history
<1>15. ASSUME NEW p \in Pages, ApplyFetch(p) PROVE TypeOK'
  BY <1>15 DEF ApplyFetch, TypeOK, On, Fetches, NoFetch, files
<1>16. CASE ClickSave
  BY <1>16 DEF ClickSave, TypeOK, InStore, Saves, Payload, Fetching, files,
       store
<1>17. CASE SaveLoads
  BY <1>17 DEF SaveLoads, TypeOK, Saves, SaveGoes, Loads, files, store,
       history
<1>18. CASE SaveDeletes
  BY <1>18 DEF SaveDeletes, TypeOK, SaveInv, store, history
<1>19. CASE SaveOpens
  BY <1>19 DEF SaveOpens, TypeOK, SaveInv, Synced, Saves, store, history
<1>20. CASE SaveWrites
  BY <1>20 DEF SaveWrites, TypeOK, InStore, Saves, store
<1>21. CASE SavePages
  BY <1>21 DEF SavePages, TypeOK, Saves, SaveGoes, Synced, store
<1>22. CASE SaveFails
  BY <1>22 DEF SaveFails, TypeOK, Saves, NoSave, CutShort, files, store
<1>23. CASE SaveSucceeds
  BY <1>23 DEF SaveSucceeds, TypeOK, InStore, Saves, NoSave, files, history
<1>q. QED
  BY <1>1, <1>2, <1>3, <1>4, <1>5, <1>6, <1>7, <1>8, <1>9, <1>10, <1>11,
       <1>12, <1>13, <1>14, <1>15, <1>16, <1>17, <1>18, <1>19, <1>20, <1>21,
       <1>22, <1>23
     DEF Next, Edit, Navigate, SaveStep, vars, files, store, history

\* Only the save writes files, and it writes what it said it would.
LEMMA SaveStepKeeps == SessionInv /\ [Next]_vars => (SaveInv /\ SaveWritesPayload)'
<1> SUFFICES ASSUME SessionInv, [Next]_vars PROVE (SaveInv /\ SaveWritesPayload)'
  OBVIOUS
<1> USE DEF SessionInv
<1>1. CASE UNCHANGED vars
  BY <1>1 DEF vars, SaveInv, SaveWritesPayload, files, store, history
<1>2. CASE LoadState
  BY <1>2 DEF LoadState, TypeOK, SaveInv, SaveWritesPayload, Loads, Saving,
       Fetching, files
<1>3. CASE Close
  BY <1>3 DEF Close, TypeOK, SaveInv, SaveWritesPayload, NoSave, Saves,
       CutShort, Open, files
<1>4. ASSUME NEW p \in Pages, AddPage(p) PROVE (SaveInv /\ SaveWritesPayload)'
  BY <1>4 DEF AddPage, TypeOK, SaveInv, SaveWritesPayload, NewPage, files
<1>5. ASSUME NEW p \in Pages, RemovePage(p) PROVE (SaveInv /\ SaveWritesPayload)'
  BY <1>5 DEF RemovePage, TypeOK, SaveInv, SaveWritesPayload, files
<1>6. ASSUME NEW v \in Visuals, AddVisual(v) PROVE (SaveInv /\ SaveWritesPayload)'
  BY <1>6 DEF AddVisual, TypeOK, SaveInv, SaveWritesPayload, NewVisual,
       Saving, files
<1>7. ASSUME NEW v \in Visuals, RemoveVisual(v) PROVE (SaveInv /\ SaveWritesPayload)'
  BY <1>7 DEF RemoveVisual, TypeOK, SaveInv, SaveWritesPayload, Forgotten,
       files
<1>8. ASSUME NEW v \in Visuals, CopyVisual(v) PROVE (SaveInv /\ SaveWritesPayload)'
  BY <1>8 DEF CopyVisual, TypeOK, SaveInv, SaveWritesPayload, Copied, files,
       history
<1>9. ASSUME NEW v \in Visuals, CutVisual(v) PROVE (SaveInv /\ SaveWritesPayload)'
  BY <1>9 DEF CutVisual, TypeOK, SaveInv, SaveWritesPayload, Forgotten,
       Copied, files
<1>10. ASSUME NEW v \in Visuals, PasteVisual(v) PROVE (SaveInv /\ SaveWritesPayload)'
  BY <1>10 DEF PasteVisual, TypeOK, SaveInv, SaveWritesPayload, NewVisual,
       files
<1>11. ASSUME NEW p \in Pages, ChangePage(p) PROVE (SaveInv /\ SaveWritesPayload)'
  BY <1>11 DEF ChangePage, TypeOK, SaveInv, SaveWritesPayload, Saving,
       Pending, files
<1>12. ASSUME NEW p \in Pages, FetchLoads(p) PROVE (SaveInv /\ SaveWritesPayload)'
  BY <1>12 DEF FetchLoads, TypeOK, SaveInv, SaveWritesPayload, Loads,
       Pending, files, store, history
<1>13. ASSUME NEW p \in Pages, FetchReads(p) PROVE (SaveInv /\ SaveWritesPayload)'
  BY <1>13 DEF FetchReads, TypeOK, SaveInv, SaveWritesPayload, files, store,
       history
<1>14. ASSUME NEW p \in Pages, FetchFails(p) PROVE (SaveInv /\ SaveWritesPayload)'
  BY <1>14 DEF FetchFails, TypeOK, SaveInv, SaveWritesPayload, files, store,
       history
<1>15. ASSUME NEW p \in Pages, ApplyFetch(p) PROVE (SaveInv /\ SaveWritesPayload)'
  BY <1>15 DEF ApplyFetch, TypeOK, SaveInv, SaveWritesPayload, files
<1>16. CASE ClickSave
  BY <1>16 DEF ClickSave, TypeOK, SaveInv, SaveWritesPayload, Saves, Payload,
       Fetching, files, store
<1>17. CASE SaveLoads
  BY <1>17 DEF SaveLoads, TypeOK, SaveInv, SaveWritesPayload, Saves,
       SaveGoes, Loads, files, store, history
<1>18. CASE SaveDeletes
  BY <1>18 DEF SaveDeletes, TypeOK, SaveInv, SaveWritesPayload, store, history
<1>19. CASE SaveOpens
  BY <1>19 DEF SaveOpens, TypeOK, SaveInv, SaveWritesPayload, Synced, store,
       history
<1>20. CASE SaveWrites
  BY <1>20 DEF SaveWrites, TypeOK, SaveInv, SaveWritesPayload, Saves, store
<1>21. CASE SavePages
  BY <1>21 DEF SavePages, TypeOK, SaveInv, SaveWritesPayload, Saves,
       SaveGoes, Synced, store
<1>22. CASE SaveFails
  BY <1>22 DEF SaveFails, TypeOK, SaveInv, SaveWritesPayload, NoSave, Saves,
       CutShort, files, store
<1>23. CASE SaveSucceeds
  BY <1>23 DEF SaveSucceeds, TypeOK, SaveInv, SaveWritesPayload, NoSave,
       Saves, files, history
<1>q. QED
  BY <1>1, <1>2, <1>3, <1>4, <1>5, <1>6, <1>7, <1>8, <1>9, <1>10, <1>11,
       <1>12, <1>13, <1>14, <1>15, <1>16, <1>17, <1>18, <1>19, <1>20, <1>21,
       <1>22, <1>23
     DEF Next, Edit, Navigate, SaveStep, vars, files, store, history

\* Only an answer brings visuals.
LEMMA FetchStepKeeps == SessionInv /\ [Next]_vars => FetchInv'
<1> SUFFICES ASSUME SessionInv, [Next]_vars PROVE FetchInv'
  OBVIOUS
<1> USE DEF SessionInv
<1>1. CASE UNCHANGED vars
  BY <1>1 DEF vars, FetchInv, files, store, history
<1>2. CASE LoadState
  BY <1>2 DEF LoadState, TypeOK, FetchInv, Loads, Saving, Fetching, files
<1>3. CASE Close
  BY <1>3 DEF Close, TypeOK, FetchInv, NoFetch, Fetches, CutShort, Open, files
<1>4. ASSUME NEW p \in Pages, AddPage(p) PROVE FetchInv'
  BY <1>4 DEF AddPage, TypeOK, FetchInv, NewPage, files
<1>5. ASSUME NEW p \in Pages, RemovePage(p) PROVE FetchInv'
  BY <1>5 DEF RemovePage, TypeOK, FetchInv, files
<1>6. ASSUME NEW v \in Visuals, AddVisual(v) PROVE FetchInv'
  BY <1>6 DEF AddVisual, TypeOK, FetchInv, NewVisual, Saving, files
<1>7. ASSUME NEW v \in Visuals, RemoveVisual(v) PROVE FetchInv'
  BY <1>7 DEF RemoveVisual, TypeOK, FetchInv, Forgotten, files
<1>8. ASSUME NEW v \in Visuals, CopyVisual(v) PROVE FetchInv'
  BY <1>8 DEF CopyVisual, TypeOK, FetchInv, Copied, files, history
<1>9. ASSUME NEW v \in Visuals, CutVisual(v) PROVE FetchInv'
  BY <1>9 DEF CutVisual, TypeOK, FetchInv, Forgotten, Copied, files
<1>10. ASSUME NEW v \in Visuals, PasteVisual(v) PROVE FetchInv'
  BY <1>10 DEF PasteVisual, TypeOK, FetchInv, NewVisual, files
<1>11. ASSUME NEW p \in Pages, ChangePage(p) PROVE FetchInv'
  BY <1>11 DEF ChangePage, TypeOK, FetchInv, NoFetch, Fetches, Saving,
       Pending, files
<1>12. ASSUME NEW p \in Pages, FetchLoads(p) PROVE FetchInv'
  BY <1>12 DEF FetchLoads, TypeOK, FetchInv, Fetches, Loads, Pending, files,
       store, history
<1>13. ASSUME NEW p \in Pages, FetchReads(p) PROVE FetchInv'
  BY <1>13 DEF FetchReads, TypeOK, FetchInv, Fetches, files, store, history
<1>14. ASSUME NEW p \in Pages, FetchFails(p) PROVE FetchInv'
  BY <1>14 DEF FetchFails, TypeOK, FetchInv, NoFetch, Fetches, files, store,
       history
<1>15. ASSUME NEW p \in Pages, ApplyFetch(p) PROVE FetchInv'
  BY <1>15 DEF ApplyFetch, TypeOK, FetchInv, NoFetch, Fetches, files
<1>16. CASE ClickSave
  BY <1>16 DEF ClickSave, TypeOK, FetchInv, Payload, Fetching, files, store
<1>17. CASE SaveLoads
  BY <1>17 DEF SaveLoads, TypeOK, FetchInv, SaveGoes, Loads, files, store,
       history
<1>18. CASE SaveDeletes
  BY <1>18 DEF SaveDeletes, TypeOK, FetchInv, store, history
<1>19. CASE SaveOpens
  BY <1>19 DEF SaveOpens, TypeOK, FetchInv, Synced, store, history
<1>20. CASE SaveWrites
  BY <1>20 DEF SaveWrites, TypeOK, FetchInv, store
<1>21. CASE SavePages
  BY <1>21 DEF SavePages, TypeOK, FetchInv, SaveGoes, Synced, store
<1>22. CASE SaveFails
  BY <1>22 DEF SaveFails, TypeOK, FetchInv, CutShort, files, store
<1>23. CASE SaveSucceeds
  BY <1>23 DEF SaveSucceeds, TypeOK, FetchInv, files, history
<1>q. QED
  BY <1>1, <1>2, <1>3, <1>4, <1>5, <1>6, <1>7, <1>8, <1>9, <1>10, <1>11,
       <1>12, <1>13, <1>14, <1>15, <1>16, <1>17, <1>18, <1>19, <1>20, <1>21,
       <1>22, <1>23
     DEF Next, Edit, Navigate, SaveStep, vars, files, store, history

\* Nothing is lost by a step of anyone, if nothing overlaps.
LEMMA QuietStep == SessionInv /\ [Next]_vars => QuietInv'
<1> SUFFICES ASSUME SessionInv, [Next]_vars PROVE QuietInv'
  OBVIOUS
<1> USE DEF SessionInv
<1>1. CASE UNCHANGED vars
  BY <1>1 DEF vars, QuietInv, Held, InStore, Saving, Fetching, files, store, history
<1>2. CASE LoadState
  BY <1>2 DEF LoadState, QuietInv, Held, TypeOK, InStore, Saving, Fetching, On,
       Loads, files
<1>3. CASE Close
  BY <1>3 DEF Close, QuietInv, Held, TypeOK, InStore, Saving, Fetching, On,
       NoFetch, NoSave, Fetches, Saves, CutShort, Open, files
<1>4. ASSUME NEW p \in Pages, AddPage(p) PROVE QuietInv'
  BY <1>4 DEF AddPage, QuietInv, Held, TypeOK, InStore, Saving, Fetching, On,
       NewPage, files
<1>5. ASSUME NEW p \in Pages, RemovePage(p) PROVE QuietInv'
  BY <1>5 DEF RemovePage, QuietInv, Held, TypeOK, InStore, Saving, Fetching, On,
       files
<1>6. ASSUME NEW v \in Visuals, AddVisual(v) PROVE QuietInv'
  <2>1. (quiet' => quiet /\ ~ Saving) /\ quiet' \in BOOLEAN
    BY <1>6, Zenon DEF AddVisual, TypeOK
  <2>2. /\ unsaved' = unsaved \cup {v} /\ shown' = shown \cup {v}
        /\ PageOf(v) = current /\ NewVisual(v)
        /\ UNCHANGED <<files, pages, known, current, saved, clip, fetch, save, kept,
                       emptied, dropped, taken, partial>>
    BY <1>6 DEF AddVisual
  <2>q. QED
    BY <2>1, <2>2, PageOfVisual, PagesAssumption DEF NewVisual, files,
         QuietInv, Held, PageInv, FetchInv, TypeOK, InStore, Saving, Fetching, On,
         NoFetch, Fetches
<1>7. ASSUME NEW v \in Visuals, RemoveVisual(v) PROVE QuietInv'
  BY <1>7 DEF RemoveVisual, QuietInv, Held, TypeOK, InStore, Saving, Fetching, On,
       Forgotten, files
<1>8. ASSUME NEW v \in Visuals, CopyVisual(v) PROVE QuietInv'
  BY <1>8 DEF CopyVisual, QuietInv, Held, TypeOK, InStore, Saving, Fetching, On,
       Copied, files, history
<1>9. ASSUME NEW v \in Visuals, CutVisual(v) PROVE QuietInv'
  BY <1>9 DEF CutVisual, QuietInv, Held, TypeOK, InStore, Saving, Fetching, On,
       Forgotten, Copied, files
<1>10. ASSUME NEW v \in Visuals, PasteVisual(v) PROVE QuietInv'
  BY <1>10 DEF PasteVisual, QuietInv, Held, TypeOK, InStore, Saving, Fetching, On,
       NewVisual, files
<1>11. ASSUME NEW p \in Pages, ChangePage(p) PROVE QuietInv'
  <2>1. /\ p \in pages /\ current' = p
        /\ UNCHANGED <<files, pages, known, unsaved, saved, clip, save, kept, shown,
                       emptied, dropped, taken, partial, edits>>
    BY <1>11 DEF ChangePage
  <2>2. CASE p \in saved
    <3>1. /\ fetch[p] = NoFetch
          /\ fetch' = [fetch EXCEPT ![p] = Pending("asked")]
          /\ (quiet' => quiet /\ ~ Saving) /\ quiet' \in BOOLEAN
      BY <1>11, <2>2, Zenon DEF ChangePage, TypeOK
    <3>q. QED
      BY <2>1, <3>1 DEF Pending, files, QuietInv, Held, PageInv, FetchInv, TypeOK,
           InStore, Saving, Fetching, On, NoFetch, Fetches
  <2>3. CASE p \notin saved
    <3>1. UNCHANGED <<fetch, quiet>>
      BY <1>11, <2>3 DEF ChangePage
    <3>q. QED
      BY <2>1, <3>1 DEF files, QuietInv, Held, PageInv, FetchInv, TypeOK, InStore,
           Saving, Fetching, On, NoFetch, Fetches
  <2>q. QED
    BY <2>2, <2>3
<1>12. ASSUME NEW p \in Pages, FetchLoads(p) PROVE QuietInv'
  BY <1>12 DEF FetchLoads, QuietInv, Held, TypeOK, InStore, Saving, Fetching, On,
       Fetches, Loads, Pending, files, store, history
<1>13. ASSUME NEW p \in Pages, FetchReads(p) PROVE QuietInv'
  BY <1>13 DEF FetchReads, QuietInv, Held, TypeOK, InStore, Saving, Fetching, On,
       Fetches, files, store, history
<1>14. ASSUME NEW p \in Pages, FetchFails(p) PROVE QuietInv'
  BY <1>14 DEF FetchFails, QuietInv, Held, TypeOK, InStore, Saving, Fetching, On,
       NoFetch, Fetches, files, store, history
<1>15. ASSUME NEW p \in Pages, ApplyFetch(p) PROVE QuietInv'
  BY <1>15 DEF ApplyFetch, QuietInv, Held, TypeOK, InStore, Saving, Fetching, On,
       NoFetch, Fetches, PageInv, files
<1>16. CASE ClickSave
  BY <1>16 DEF ClickSave, QuietInv, Held, TypeOK, InStore, Saving, Fetching, On,
       Saves, Payload, files, store
<1>17. CASE SaveLoads
  BY <1>17 DEF SaveLoads, QuietInv, Held, TypeOK, InStore, Saving, Fetching, On,
       Saves, SaveGoes, Loads, files, store, history
<1>18. CASE SaveDeletes
  BY <1>18 DEF SaveDeletes, QuietInv, Held, TypeOK, InStore, Saving, Fetching, On,
       store, history
<1>19. CASE SaveOpens
  BY <1>19 DEF SaveOpens, QuietInv, Held, TypeOK, InStore, Saving, Fetching, On,
       Synced, store, history
<1>20. CASE SaveWrites
  BY <1>20 DEF SaveWrites, QuietInv, Held, TypeOK, InStore, Saving, Fetching, On,
       Saves, store
<1>21. CASE SavePages
  BY <1>21 DEF SavePages, QuietInv, Held, TypeOK, InStore, Saving, Fetching, On,
       Saves, SaveGoes, Synced, store
<1>22. CASE SaveFails
  BY <1>22 DEF SaveFails, QuietInv, Held, TypeOK, InStore, Saving, Fetching, On,
       NoSave, Saves, CutShort, files, store
<1>23. CASE SaveSucceeds
  BY <1>23 DEF SaveSucceeds, QuietInv, Held, TypeOK, InStore, Saving, Fetching, On,
       NoSave, Saves, SaveWritesPayload, files, history
<1>q. QED
  BY <1>1, <1>2, <1>3, <1>4, <1>5, <1>6, <1>7, <1>8, <1>9, <1>10, <1>11,
       <1>12, <1>13, <1>14, <1>15, <1>16, <1>17, <1>18, <1>19, <1>20, <1>21,
       <1>22, <1>23
     DEF Next, Edit, Navigate, SaveStep, vars, files, store, history

\* Fetched visuals stay on disk, and no visual is left without its page.
LEMMA PageStep == SessionInv /\ [Next]_vars => PageInv'
<1> SUFFICES ASSUME SessionInv, [Next]_vars PROVE PageInv'
  OBVIOUS
<1> USE DEF SessionInv
<1>1. CASE UNCHANGED vars
  BY <1>1 DEF vars, PageInv, InStore, Saving, On, files, store, history
<1>2. CASE LoadState
  BY <1>2 DEF LoadState, PageInv, TypeOK, InStore, Saving, Fetching, On,
       Loads, files
<1>3. CASE Close
  BY <1>3 DEF Close, PageInv, TypeOK, InStore, Saving, On, NoFetch, NoSave,
       Fetches, Saves, CutShort, Open, files
<1>4. ASSUME NEW p \in Pages, AddPage(p) PROVE PageInv'
  BY <1>4 DEF AddPage, PageInv, TypeOK, InStore, Saving, On, NewPage, files
<1>5. ASSUME NEW p \in Pages, RemovePage(p) PROVE PageInv'
  BY <1>5 DEF RemovePage, PageInv, TypeOK, InStore, Saving, On, files
<1>6. ASSUME NEW v \in Visuals, AddVisual(v) PROVE PageInv'
  <2>1. (quiet' => quiet /\ ~ Saving) /\ quiet' \in BOOLEAN
    BY <1>6, Zenon DEF AddVisual, TypeOK
  <2>2. /\ unsaved' = unsaved \cup {v} /\ shown' = shown \cup {v}
        /\ PageOf(v) = current /\ NewVisual(v)
        /\ UNCHANGED <<files, pages, known, current, saved, clip, fetch, save, kept,
                       emptied, dropped, taken, partial>>
    BY <1>6 DEF AddVisual
  <2>q. QED
    BY <2>1, <2>2, PageOfVisual, PagesAssumption DEF NewVisual, files,
         QuietInv, PageInv, FetchInv, TypeOK, InStore, Saving, Fetching, On,
         NoFetch, Fetches
<1>7. ASSUME NEW v \in Visuals, RemoveVisual(v) PROVE PageInv'
  BY <1>7 DEF RemoveVisual, PageInv, TypeOK, InStore, Saving, On, Forgotten,
       files
<1>8. ASSUME NEW v \in Visuals, CopyVisual(v) PROVE PageInv'
  BY <1>8 DEF CopyVisual, PageInv, TypeOK, InStore, Saving, On, Copied,
       files, history
<1>9. ASSUME NEW v \in Visuals, CutVisual(v) PROVE PageInv'
  BY <1>9 DEF CutVisual, PageInv, TypeOK, InStore, Saving, On, Forgotten,
       Copied, files
<1>10. ASSUME NEW v \in Visuals, PasteVisual(v) PROVE PageInv'
  <2>1. InStore' = InStore \cup {v}
    <3>1. CASE clip.flagged
      BY <1>10, <3>1 DEF PasteVisual, InStore
    <3>2. CASE ~ clip.flagged
      BY <1>10, <3>2 DEF PasteVisual, InStore
    <3>q. QED
      BY <3>1, <3>2
  <2>2. PageOf(v) \in pages
    BY <1>10, PageOfVisual, PagesAssumption DEF PasteVisual, TypeOK
  <2>3. UNCHANGED <<fetch, pages, dropped, taken, save>>
    BY <1>10 DEF PasteVisual
  <2>q. QED
    BY <2>1, <2>2, <2>3 DEF PageInv, Saving
<1>11. ASSUME NEW p \in Pages, ChangePage(p) PROVE PageInv'
  <2>1. /\ p \in pages /\ current' = p
        /\ UNCHANGED <<files, pages, known, unsaved, saved, clip, save, kept, shown,
                       emptied, dropped, taken, partial, edits>>
    BY <1>11 DEF ChangePage
  <2>2. CASE p \in saved
    <3>1. /\ fetch[p] = NoFetch
          /\ fetch' = [fetch EXCEPT ![p] = Pending("asked")]
          /\ (quiet' => quiet /\ ~ Saving) /\ quiet' \in BOOLEAN
      BY <1>11, <2>2, Zenon DEF ChangePage, TypeOK
    <3>q. QED
      BY <2>1, <3>1 DEF Pending, files, QuietInv, PageInv, FetchInv, TypeOK,
           InStore, Saving, Fetching, On, NoFetch, Fetches
  <2>3. CASE p \notin saved
    <3>1. UNCHANGED <<fetch, quiet>>
      BY <1>11, <2>3 DEF ChangePage
    <3>q. QED
      BY <2>1, <3>1 DEF files, QuietInv, PageInv, FetchInv, TypeOK, InStore,
           Saving, Fetching, On, NoFetch, Fetches
  <2>q. QED
    BY <2>2, <2>3
<1>12. ASSUME NEW p \in Pages, FetchLoads(p) PROVE PageInv'
  BY <1>12 DEF FetchLoads, PageInv, TypeOK, InStore, Saving, On, Fetches,
       Loads, Pending, files, store, history
<1>13. ASSUME NEW p \in Pages, FetchReads(p) PROVE PageInv'
  BY <1>13 DEF FetchReads, PageInv, TypeOK, InStore, Saving, On, Fetches,
       files, store, history
<1>14. ASSUME NEW p \in Pages, FetchFails(p) PROVE PageInv'
  BY <1>14 DEF FetchFails, PageInv, TypeOK, InStore, Saving, On, NoFetch,
       Fetches, files, store, history
<1>15. ASSUME NEW p \in Pages, ApplyFetch(p) PROVE PageInv'
  BY <1>15 DEF ApplyFetch, PageInv, TypeOK, InStore, Saving, On, NoFetch,
       Fetches, files
<1>16. CASE ClickSave
  BY <1>16 DEF ClickSave, PageInv, TypeOK, InStore, Saving, Fetching, On,
       Saves, Payload, files, store
<1>17. CASE SaveLoads
  BY <1>17 DEF SaveLoads, PageInv, TypeOK, InStore, Saving, On, Saves,
       SaveGoes, Loads, files, store, history
<1>18. CASE SaveDeletes
  BY <1>18 DEF SaveDeletes, PageInv, TypeOK, InStore, Saving, Fetching, On,
       FetchInv, QuietInv, store, history
<1>19. CASE SaveOpens
  BY <1>19 DEF SaveOpens, PageInv, TypeOK, InStore, Saving, On, Synced,
       store, history
<1>20. CASE SaveWrites
  BY <1>20 DEF SaveWrites, PageInv, TypeOK, InStore, Saving, On, Saves, store
<1>21. CASE SavePages
  BY <1>21 DEF SavePages, PageInv, TypeOK, InStore, Saving, On, Saves,
       SaveGoes, Synced, store
<1>22. CASE SaveFails
  BY <1>22 DEF SaveFails, PageInv, TypeOK, InStore, Saving, On, NoSave,
       Saves, CutShort, files, store
<1>23. CASE SaveSucceeds
  BY <1>23 DEF SaveSucceeds, PageInv, TypeOK, InStore, Saving, On, NoSave,
       Saves, files, history
<1>q. QED
  BY <1>1, <1>2, <1>3, <1>4, <1>5, <1>6, <1>7, <1>8, <1>9, <1>10, <1>11,
       <1>12, <1>13, <1>14, <1>15, <1>16, <1>17, <1>18, <1>19, <1>20, <1>21,
       <1>22, <1>23
     DEF Next, Edit, Navigate, SaveStep, vars, files, store, history

\* What load_project rejects, a user or a crash has caused.
LEMMA LoadStepKeeps == SessionInv /\ [Next]_vars => UnloadableOnlyBy'
<1> SUFFICES ASSUME SessionInv, [Next]_vars PROVE UnloadableOnlyBy'
  OBVIOUS
<1> USE DEF SessionInv
<1>1. CASE UNCHANGED vars
  BY <1>1 DEF vars, UnloadableOnlyBy, files, store, history
<1>2. CASE LoadState
  BY <1>2 DEF LoadState, UnloadableOnlyBy, TypeOK, Saving, Loads, Fetching,
       files
<1>3. CASE Close
  BY <1>3 DEF Close, UnloadableOnlyBy, TypeOK, NoSave, CutShort, Open, files
<1>4. ASSUME NEW p \in Pages, AddPage(p) PROVE UnloadableOnlyBy'
  BY <1>4 DEF AddPage, UnloadableOnlyBy, TypeOK, NewPage, files
<1>5. ASSUME NEW p \in Pages, RemovePage(p) PROVE UnloadableOnlyBy'
  BY <1>5 DEF RemovePage, UnloadableOnlyBy, TypeOK, files
<1>6. ASSUME NEW v \in Visuals, AddVisual(v) PROVE UnloadableOnlyBy'
  BY <1>6 DEF AddVisual, UnloadableOnlyBy, TypeOK, Saving, NewVisual, files
<1>7. ASSUME NEW v \in Visuals, RemoveVisual(v) PROVE UnloadableOnlyBy'
  BY <1>7 DEF RemoveVisual, UnloadableOnlyBy, TypeOK, Forgotten, files
<1>8. ASSUME NEW v \in Visuals, CopyVisual(v) PROVE UnloadableOnlyBy'
  BY <1>8 DEF CopyVisual, UnloadableOnlyBy, TypeOK, Copied, files, history
<1>9. ASSUME NEW v \in Visuals, CutVisual(v) PROVE UnloadableOnlyBy'
  BY <1>9 DEF CutVisual, UnloadableOnlyBy, TypeOK, Forgotten, Copied, files
<1>10. ASSUME NEW v \in Visuals, PasteVisual(v) PROVE UnloadableOnlyBy'
  BY <1>10 DEF PasteVisual, UnloadableOnlyBy, TypeOK, NewVisual, files
<1>11. ASSUME NEW p \in Pages, ChangePage(p) PROVE UnloadableOnlyBy'
  BY <1>11 DEF ChangePage, UnloadableOnlyBy, TypeOK, Saving, Pending, files
<1>12. ASSUME NEW p \in Pages, FetchLoads(p) PROVE UnloadableOnlyBy'
  BY <1>12 DEF FetchLoads, UnloadableOnlyBy, TypeOK, Loads, Pending, files,
       store, history
<1>13. ASSUME NEW p \in Pages, FetchReads(p) PROVE UnloadableOnlyBy'
  BY <1>13 DEF FetchReads, UnloadableOnlyBy, TypeOK, files, store, history
<1>14. ASSUME NEW p \in Pages, FetchFails(p) PROVE UnloadableOnlyBy'
  BY <1>14 DEF FetchFails, UnloadableOnlyBy, TypeOK, files, store, history
<1>15. ASSUME NEW p \in Pages, ApplyFetch(p) PROVE UnloadableOnlyBy'
  BY <1>15 DEF ApplyFetch, UnloadableOnlyBy, TypeOK, files
<1>16. CASE ClickSave
  BY <1>16 DEF ClickSave, UnloadableOnlyBy, TypeOK, Saving, Payload,
       Fetching, files, store
<1>17. CASE SaveLoads
  BY <1>17 DEF SaveLoads, UnloadableOnlyBy, TypeOK, SaveGoes, Loads, files,
       store, history
<1>18. CASE SaveDeletes
  BY <1>18 DEF SaveDeletes, UnloadableOnlyBy, TypeOK, store, history
<1>19. CASE SaveOpens
  BY <1>19 DEF SaveOpens, UnloadableOnlyBy, TypeOK, Synced, store, history
<1>20. CASE SaveWrites
  BY <1>20 DEF SaveWrites, UnloadableOnlyBy, TypeOK, store
<1>21. CASE SavePages
  BY <1>21 DEF SavePages, UnloadableOnlyBy, TypeOK, SaveInv,
       SaveWritesPayload, PageInv, Saving, SaveGoes, Synced, store
<1>22. CASE SaveFails
  BY <1>22 DEF SaveFails, UnloadableOnlyBy, TypeOK, NoSave, CutShort, files,
       store
<1>23. CASE SaveSucceeds
  BY <1>23 DEF SaveSucceeds, UnloadableOnlyBy, TypeOK, NoSave, files, history
<1>q. QED
  BY <1>1, <1>2, <1>3, <1>4, <1>5, <1>6, <1>7, <1>8, <1>9, <1>10, <1>11,
       <1>12, <1>13, <1>14, <1>15, <1>16, <1>17, <1>18, <1>19, <1>20, <1>21,
       <1>22, <1>23
     DEF Next, Edit, Navigate, SaveStep, vars, files, store, history

-----------------------------------------------------------------------------
LEMMA SessionInvariant == Spec => []SessionInv
<1>1. SessionInv /\ [Next]_vars => SessionInv'
  BY TypeStep, SaveStepKeeps, FetchStepKeeps, QuietStep, PageStep, LoadStepKeeps
     DEF SessionInv
<1>q. QED
  BY InitHolds, <1>1, PTL DEF Spec

(* Every state of a session, crashes and overlaps included, is well typed. *)
THEOREM ReportTypes == Spec => []TypeOK
  BY SessionInvariant, PTL DEF SessionInv

(* An ok answer of Save All means that the files are the payload, after any
   number of failed or killed saves.                                          *)
THEOREM SaveIsPayload == Spec => []SaveWritesPayload
  BY SessionInvariant, PTL DEF SessionInv

(* Without overlaps and pastes the editor keeps all that it was given, but for
   what adding a page takes out of the store.                                 *)
THEOREM QuietEditor == Spec => []QuietWorkStays
<1>1. SessionInv => QuietWorkStays
  BY DEF SessionInv, QuietInv, Held, QuietWorkStays
<1>q. QED
  BY SessionInvariant, <1>1, PTL

(* Without overlaps and pastes no save deletes what the user saw and kept, but
   for what adding a page took out of the store and no fetch brought back.    *)
THEOREM QuietDisk == Spec => []QuietSavesKeep
<1>1. SessionInv => QuietSavesKeep
  BY DEF SessionInv, QuietInv, Held, QuietSavesKeep
<1>q. QED
  BY SessionInvariant, <1>1, PTL

(* The causes of an unloadable project are those that UnloadableOnlyBy lists, with
   any overlap and any paste.                                                 *)
THEOREM UnloadableCauses == Spec => []UnloadableOnlyBy
  BY SessionInvariant, PTL DEF SessionInv

-----------------------------------------------------------------------------
(* The requests that write a file.                                            *)
\* A request knows its entry, unless it is to number a new one.
Named == \A t \in Threads :
  /\ At(t, "read") => \/ thread[t].name \in Names
                      \/ thread[t].op = "create" /\ Numbered(thread[t].file)
  /\ ~ At(t, "idle") /\ ~ At(t, "read") => thread[t].name \in Names

\* Requests on a file that never overlapped are under way one at a time.
Single == \A f \in Files : overlap[f] \/ \A t, u \in Active(f) : t = u

\* Where the change of a thread is that is alone on its file.
Stage(t) ==
  LET r    == thread[t]
      asWanted == disk[r.file] = Text(wanted[r.file])
      made == r.text = Changed(r, r.name, wanted[r.file])
  IN  /\ r.at = "read" => asWanted
      /\ r.at = "open" => asWanted /\ made
      /\ r.at = "write" =>
           /\ made
           /\ \/ r.handle = "temp" /\ r.file \in Replaced /\ asWanted /\ temp[r.file] = EmptyText
              \/ r.handle = "live" /\ r.file \in InPlace /\ disk[r.file] = EmptyText
      /\ r.at = "replace" => r.file \in Replaced /\ asWanted /\ made /\ temp[r.file] = Text(r.text)
      /\ r.at = "answer" => disk[r.file] = Text(Changed(r, r.name, wanted[r.file]))

Stages == \A t \in Threads : At(t, "idle") \/ overlap[thread[t].file] \/ Stage(t)

WritersInv == WritersTypeOK /\ Named /\ Single /\ Stages /\ QuietUpdatesKept

-----------------------------------------------------------------------------
LEMMA TextTypes ==
  ASSUME NEW S \in SUBSET Names
  PROVE  /\ Text(S) \in Texts /\ EmptyText \in Texts /\ Mixed \in Texts
         /\ Text(S).state = "text" /\ Text(S).entries = S
BY DEF Text, EmptyText, Mixed, Texts

\* The change of a request that knows its entry is a set of entries.
LEMMA ChangedType ==
  ASSUME NEW r, r.op \in Ops, NEW name \in Names, NEW S \in SUBSET Names
  PROVE  Changed(r, name, S) \in SUBSET Names
BY DEF Changed, Ops

LEMMA EntriesReadType ==
  ASSUME WritersTypeOK, NEW f \in Files
  PROVE  EntriesRead(f) \in SUBSET Names
BY DefaultPageAssumption DEF EntriesRead, WritersTypeOK, Texts

\* A thread that is not idle is a request on some file.
LEMMA RequestType ==
  ASSUME WritersTypeOK, NEW t \in Threads, ~ At(t, "idle")
  PROVE  /\ thread[t] \in ThreadStates /\ thread[t].file \in Files /\ thread[t].op \in Ops
         /\ thread[t].text \in SUBSET Names
         /\ disk[thread[t].file] \in Texts /\ wanted[thread[t].file] \in SUBSET Names
BY DEF WritersTypeOK, ThreadStates

LEMMA IdleType == Idle \in ThreadStates
BY DEF Idle, ThreadStates, Places

-----------------------------------------------------------------------------
(* The type invariant and Named, action by action.                            *)
LEMMA InitTyped == WritersInit => WritersTypeOK /\ Named
<1> SUFFICES ASSUME WritersInit PROVE WritersTypeOK /\ Named
  OBVIOUS
<1>1. \A f \in Files : Text(First[f]) \in Texts
  BY NamesAssumption, TextTypes
<1>2. WritersTypeOK
  BY <1>1, IdleType, NamesAssumption DEF WritersTypeOK, WritersInit, At, Idle
<1>3. Named
  BY DEF Named, WritersInit, At, Idle
<1> QED
  BY <1>2, <1>3

LEMMA BeginTyped ==
  ASSUME WritersTypeOK, Named, NEW t \in Threads, NEW f \in Files, NEW op \in Ops,
         NEW name \in Names \cup {None}, name = None <=> op = "create" /\ Numbered(f),
         Begin(t, f, op, name)
  PROVE  WritersTypeOK' /\ Named'
<1> DEFINE new == [Idle EXCEPT !.at = "read", !.file = f, !.op = op, !.name = name]
<1>1. /\ new \in ThreadStates /\ new.at = "read" /\ new.file = f /\ new.op = op /\ new.name = name
  BY DEF Idle, ThreadStates, Places
<1>2. thread' = [thread EXCEPT ![t] = new]
  BY DEF Begin, Do
<1> HIDE DEF new
<1>3. thread \in [Threads -> ThreadStates]
  BY DEF WritersTypeOK
<1>4. \A u \in Threads : thread'[u] = IF u = t THEN new ELSE thread[u]
  BY <1>2, <1>3
<1>5. thread' \in [Threads -> ThreadStates]
  BY <1>1, <1>2, <1>3
<1>6. overlap' \in [Files -> BOOLEAN]
  BY DEF WritersTypeOK, Begin
<1>7. WritersTypeOK'
  BY <1>1, <1>4, <1>5, <1>6 DEF WritersTypeOK, Begin, At
<1>8. Named'
  BY <1>1, <1>4 DEF Named, At
<1> QED
  BY <1>7, <1>8

\* A step of t that leaves well-typed files and a well-typed thread t.
LEMMA StepTyped ==
  ASSUME WritersTypeOK, Named, NEW t \in Threads, NEW new \in ThreadStates,
         thread' = [thread EXCEPT ![t] = new],
         new.at # "idle" => new.file \in Files /\ new.op \in Ops /\ new.name \in Names,
         disk' \in [Files -> Texts], temp' \in [Files -> Texts \cup {None}],
         wanted' \in [Files -> SUBSET Names], overlap' = overlap, requests' = requests
  PROVE  WritersTypeOK' /\ Named'
<1>1. \A u \in Threads : thread'[u] = IF u = t THEN new ELSE thread[u]
  BY DEF WritersTypeOK
<1>2. thread' \in [Threads -> ThreadStates]
  BY DEF WritersTypeOK
<1>3. WritersTypeOK'
  BY <1>1, <1>2 DEF WritersTypeOK, At
<1>4. Named'
  BY <1>1 DEF Named, At
<1> QED
  BY <1>3, <1>4

LEMMA OverTypes ==
  ASSUME NEW old, NEW S \in SUBSET Names, NEW text \in Over(old, S)
  PROVE  text \in Texts
BY TextTypes DEF Over

LEMMA NextTyped == WritersTypeOK /\ Named /\ [WritersNext]_writersVars => WritersTypeOK' /\ Named'
<1> SUFFICES ASSUME WritersTypeOK, Named, [WritersNext]_writersVars PROVE WritersTypeOK' /\ Named'
  OBVIOUS
<1>1. CASE UNCHANGED writersVars
  BY <1>1 DEF writersVars, WritersTypeOK, Named, At
<1>2. ASSUME NEW t \in Threads, NEW f \in Files, NEW op \in Ops, NEW name \in Names \cup {None},
             name = None <=> op = "create" /\ Numbered(f), Begin(t, f, op, name)
      PROVE  WritersTypeOK' /\ Named'
  BY <1>2, BeginTyped
<1>3. ASSUME NEW t \in Threads, Step(t)
      PROVE  WritersTypeOK' /\ Named'
  <2> DEFINE r == thread[t]
  <2>a. /\ disk \in [Files -> Texts] /\ temp \in [Files -> Texts \cup {None}]
        /\ wanted \in [Files -> SUBSET Names] /\ thread \in [Threads -> ThreadStates]
    BY DEF WritersTypeOK
  <2>b. ~ At(t, "idle")
    BY <1>3 DEF Step, At, Refuse, Read, OpenTemp, OpenLive, WriteTemp, WriteLive,
                Replace, ReplaceFails, WriteVisual, Answer
  <2>c. /\ r \in ThreadStates /\ r.file \in Files /\ r.op \in Ops
        /\ r.text \in SUBSET Names /\ disk[r.file] \in Texts /\ wanted[r.file] \in SUBSET Names
    BY <2>b, RequestType
  <2>d. ~ At(t, "read") => r.name \in Names
    BY <2>b DEF Named
  <2>e. Idle.at = "idle"
    BY DEF Idle
  <2>1. CASE Refuse(t) \/ ReplaceFails(t)
    BY <2>1, <2>a, <2>e, IdleType, StepTyped DEF Refuse, ReplaceFails, Do
  <2>2. CASE Read(t)
    <3>1. PICK name \in NamesFor(r, EntriesRead(r.file)) :
            Do(t, [r EXCEPT !.at = "open", !.name = name,
                            !.text = Changed(r, name, EntriesRead(r.file))])
      BY <2>2 DEF Read
    <3>2. EntriesRead(r.file) \in SUBSET Names
      BY <2>c, EntriesReadType
    <3>3. name \in Names
      BY <3>2, <2>c, <2>2 DEF NamesFor, Named, Read
    <3>4. Changed(r, name, EntriesRead(r.file)) \in SUBSET Names
      BY <2>c, <3>2, <3>3, ChangedType
    <3> DEFINE new == [r EXCEPT !.at = "open", !.name = name,
                                !.text = Changed(r, name, EntriesRead(r.file))]
    <3>5. new \in ThreadStates /\ new.at = "open" /\ new.file = r.file /\ new.op = r.op /\ new.name = name
      BY <2>c, <3>3, <3>4 DEF ThreadStates, Places
    <3>6. thread' = [thread EXCEPT ![t] = new]
      BY <3>1 DEF Do
    <3> HIDE DEF new
    <3> QED
      BY <2>2, <2>a, <2>c, <3>3, <3>5, <3>6, StepTyped DEF Read
  <2>3. CASE OpenTemp(t) \/ OpenLive(t)
    <3>1. PICK h \in {"temp", "live"} : thread' = [thread EXCEPT ![t] = [r EXCEPT !.at = "write", !.handle = h]]
      BY <2>3 DEF OpenTemp, OpenLive, Do
    <3> DEFINE new == [r EXCEPT !.at = "write", !.handle = h]
    <3>2. new \in ThreadStates /\ new.file = r.file /\ new.op = r.op /\ new.name = r.name
      BY <2>c, <3>1 DEF ThreadStates, Places
    <3>3. disk' \in [Files -> Texts] /\ temp' \in [Files -> Texts \cup {None}]
      BY <2>3, <2>a, TextTypes DEF OpenTemp, OpenLive
    <3>4. r.name \in Names
      BY <2>3, <2>d DEF OpenTemp, OpenLive, At
    <3>5. thread' = [thread EXCEPT ![t] = new]
      BY <3>1
    <3> HIDE DEF new
    <3> QED
      BY <2>3, <2>a, <2>c, <3>2, <3>3, <3>4, <3>5, StepTyped DEF OpenTemp, OpenLive
  <2>4. CASE WriteTemp(t) \/ WriteLive(t)
    <3>1. PICK place \in {"replace", "answer"} :
            thread' = [thread EXCEPT ![t] = [r EXCEPT !.at = place, !.handle = None]]
      BY <2>4 DEF WriteTemp, WriteLive, Do
    <3> DEFINE new == [r EXCEPT !.at = place, !.handle = None]
    <3>2. new \in ThreadStates /\ new.file = r.file /\ new.op = r.op /\ new.name = r.name
      BY <2>c, <3>1 DEF ThreadStates, Places
    <3>3. disk' \in [Files -> Texts] /\ temp' \in [Files -> Texts \cup {None}]
      BY <2>4, <2>a, <2>c, OverTypes DEF WriteTemp, WriteLive
    <3>4. r.name \in Names
      BY <2>4, <2>d DEF WriteTemp, WriteLive, At
    <3>5. thread' = [thread EXCEPT ![t] = new]
      BY <3>1
    <3> HIDE DEF new
    <3> QED
      BY <2>4, <2>a, <2>c, <3>2, <3>3, <3>4, <3>5, StepTyped DEF WriteTemp, WriteLive
  <2>5. CASE Replace(t)
    <3>1. disk' \in [Files -> Texts] /\ temp' \in [Files -> Texts \cup {None}]
      BY <2>5, <2>a, <2>c DEF Replace
    <3>2. \A u \in Threads : /\ thread'[u] \in ThreadStates
                             /\ thread'[u].file = thread[u].file /\ thread'[u].op = thread[u].op
                             /\ thread'[u].name = thread[u].name
                             /\ thread'[u].at = IF u = t THEN "answer" ELSE thread[u].at
      BY <2>5, <2>a DEF Replace, ThreadStates, Places
    <3>3. thread' \in [Threads -> ThreadStates]
      BY <3>2, <2>5 DEF Replace
    <3>4. WritersTypeOK'
      BY <2>5, <3>1, <3>2, <3>3, <2>b, <2>c DEF WritersTypeOK, Replace, At
    <3>5. Named'
      BY <2>5, <3>2, <2>d DEF Named, Replace, At
    <3> QED
      BY <3>4, <3>5
  <2>6. CASE WriteVisual(t)
    <3> DEFINE new == [r EXCEPT !.at = "answer"]
    <3>1. new \in ThreadStates /\ new.file = r.file /\ new.op = r.op /\ new.name = r.name
      BY <2>c DEF ThreadStates, Places
    <3>2. r.name \in Names
      BY <2>6, <2>d DEF WriteVisual, At
    <3>3. disk["visuals"].entries \in SUBSET Names
      BY <2>6, <2>c DEF WriteVisual, Texts
    <3>4. Text(Changed(r, r.name, disk["visuals"].entries)) \in Texts
      BY <2>c, <3>2, <3>3, ChangedType, TextTypes
    <3>5. disk' \in [Files -> Texts]
      BY <2>6, <2>a, <3>4 DEF WriteVisual
    <3>6. thread' = [thread EXCEPT ![t] = new]
      BY <2>6 DEF WriteVisual, Do
    <3> HIDE DEF new
    <3> QED
      BY <2>6, <2>a, <2>c, <3>1, <3>2, <3>5, <3>6, StepTyped DEF WriteVisual
  <2>7. CASE Answer(t)
    <3>1. r.name \in Names
      BY <2>7, <2>d DEF Answer, At
    <3>2. Changed(r, r.name, wanted[r.file]) \in SUBSET Names
      BY <2>c, <3>1, ChangedType
    <3>3. wanted' \in [Files -> SUBSET Names]
      BY <2>7, <2>a, <3>2 DEF Answer
    <3> QED
      BY <2>7, <2>a, <2>e, <3>3, IdleType, StepTyped DEF Answer, Do
  <2> QED
    BY <1>3, <2>1, <2>2, <2>3, <2>4, <2>5, <2>6, <2>7 DEF Step
<1> QED
  BY <1>1, <1>2, <1>3 DEF WritersNext

\* Every variable keeps its type, a request that is under way has its file, its
\* operation and, once it has read, its entry.
THEOREM WritersTypeCorrect == WritersSpec => []WritersTypeOK
<1>1. WritersSpec => [](WritersTypeOK /\ Named)
  BY InitTyped, NextTyped, PTL DEF WritersSpec
<1> QED
  BY <1>1, PTL

-----------------------------------------------------------------------------
(* The stages.                                                                *)
LEMMA InitStages == WritersInit => Single /\ Stages /\ QuietUpdatesKept
BY DEF WritersInit, Single, Stages, QuietUpdatesKept, Active, At, Idle

\* The start of a request: a file that is still without overlap was at rest.
LEMMA BeginStages ==
  ASSUME WritersTypeOK, WritersTypeOK', Single, Stages, QuietUpdatesKept,
         NEW t \in Threads, NEW f \in Files,
         NEW op \in Ops, NEW name \in Names \cup {None}, Begin(t, f, op, name)
  PROVE  Single' /\ Stages' /\ QuietUpdatesKept'
<1>1. \A u \in Threads : /\ u # t => thread'[u] = thread[u]
                         /\ u = t => thread'[u].at = "read" /\ thread'[u].file = f
  BY DEF Begin, Do, WritersTypeOK, ThreadStates, Idle
<1>2. /\ disk' = disk /\ temp' = temp /\ wanted' = wanted /\ thread[t].at = "idle"
      /\ \A g \in Files : ~ overlap'[g] => ~ overlap[g] /\ (g = f => Active(f) = {})
  BY DEF Begin, WritersTypeOK, At
<1>3. Single'
  BY <1>1, <1>2 DEF Single, Active
<1>4. Stages'
  <2> SUFFICES ASSUME NEW u \in Threads, ~ At(u, "idle")', ~ overlap[thread[u].file]'
               PROVE  Stage(u)'
    BY DEF Stages
  <2>1. CASE u = t
    <3>1. ~ overlap[f] /\ Active(f) = {} /\ f \in Files
      BY <1>1, <1>2, <2>1
    <3>2. disk[f] = Text(wanted[f])
      BY <3>1 DEF QuietUpdatesKept
    <3> QED
      BY <1>1, <1>2, <2>1, <3>2 DEF Stage, Text
  <2>2. CASE u # t
    <3>1. thread[u].file \in Files /\ ~ At(u, "idle")
      BY <1>1, <2>2 DEF WritersTypeOK, At
    <3>2. Stage(u)
      BY <1>1, <1>2, <2>2, <3>1 DEF Stages, At
    <3> QED
      BY <1>1, <1>2, <2>2, <3>2 DEF Stage, Text, EmptyText, Changed
  <2> QED
    BY <2>1, <2>2
<1>5. QuietUpdatesKept'
  <2> SUFFICES ASSUME NEW g \in Files, ~ overlap'[g], Active(g)' = {}
               PROVE  (disk[g] = Text(wanted[g]))'
    BY DEF QuietUpdatesKept
  <2>1. Active(g) = {}
    BY <1>1, <1>2 DEF Active
  <2> QED
    BY <1>2, <2>1 DEF QuietUpdatesKept, Text
<1> QED
  BY <1>3, <1>4, <1>5

\* A step of t touches the files and the handles of its own file only, so that it
\* is enough to look at the stage of t and, when t ends, at its file.
LEMMA StepStages ==
  ASSUME WritersTypeOK, WritersTypeOK', Single, Stages, QuietUpdatesKept,
         NEW t \in Threads, ~ At(t, "idle"),
         overlap' = overlap,
         \A g \in Files : g # thread[t].file =>
            disk'[g] = disk[g] /\ temp'[g] = temp[g] /\ wanted'[g] = wanted[g],
         \A u \in Threads : u # t =>
            \/ thread'[u] = thread[u]
            \/ /\ thread[u].file = thread[t].file /\ thread'[u].file = thread[t].file
               /\ thread'[u].at = thread[u].at,
         thread'[t].at = "idle" \/ thread'[t].file = thread[t].file,
         overlap[thread[t].file] \/ thread'[t].at = "idle" \/ Stage(t)',
         \/ overlap[thread[t].file] \/ thread'[t].at # "idle"
         \/ disk'[thread[t].file] = Text(wanted'[thread[t].file])
  PROVE  Single' /\ Stages' /\ QuietUpdatesKept'
<1> DEFINE f == thread[t].file
<1>1. f \in Files /\ t \in Active(f)
  BY RequestType DEF Active, At
<1>2. \A u \in Threads : /\ u # t => thread'[u].at = thread[u].at /\ thread'[u].file = thread[u].file
                         /\ thread'[u].at # "idle" => thread[u].at # "idle" /\ thread'[u].file = thread[u].file
  BY DEF At
<1>3. \A g \in Files : Active(g)' \subseteq Active(g)
  BY <1>2 DEF Active
<1>4. Single'
  BY <1>3 DEF Single
\* Who else is at work is at work on another file, or the file has overlapped.
<1>5. ASSUME NEW u \in Threads, u # t, thread[u].at # "idle", ~ overlap[thread[u].file]
      PROVE  thread[u].file # f /\ thread[u].file \in Files
  <2>1. thread[u].file \in Files /\ u \in Active(thread[u].file)
    BY <1>5 DEF Active, WritersTypeOK, At
  <2> QED
    BY <1>1, <1>5, <2>1 DEF Single
<1>6. Stages'
  <2> SUFFICES ASSUME NEW u \in Threads, thread'[u].at # "idle", ~ overlap[thread'[u].file]
               PROVE  Stage(u)'
    BY DEF Stages, At
  <2>1. CASE u = t
    BY <2>1
  <2>2. CASE u # t
    <3>1. thread[u].at # "idle" /\ thread'[u].file = thread[u].file
      BY <1>2, <2>2
    <3>2. thread[u].file # f /\ thread[u].file \in Files
      BY <1>5, <2>2, <3>1
    <3>3. thread'[u] = thread[u]
      BY <2>2, <3>2
    <3>4. Stage(u)
      BY <3>1 DEF Stages, At
    <3>5. /\ disk'[thread[u].file] = disk[thread[u].file] /\ temp'[thread[u].file] = temp[thread[u].file]
          /\ wanted'[thread[u].file] = wanted[thread[u].file]
      BY <3>2
    <3> QED
      BY <3>3, <3>4, <3>5 DEF Stage, Text, EmptyText, Changed
  <2> QED
    BY <2>1, <2>2
<1>7. QuietUpdatesKept'
  <2> SUFFICES ASSUME NEW g \in Files, ~ overlap[g], Active(g)' = {}
               PROVE  disk'[g] = Text(wanted'[g])
    BY DEF QuietUpdatesKept, Text
  <2>1. CASE g = f
    <3>1. thread'[t].at = "idle"
      BY <1>1, <2>1 DEF Active
    <3> QED
      BY <2>1, <3>1
  <2>2. CASE g # f
    <3>1. Active(g) = {}
      BY <1>2, <2>2 DEF Active
    <3> QED
      BY <2>2, <3>1 DEF QuietUpdatesKept
  <2> QED
    BY <2>1, <2>2
<1> QED
  BY <1>4, <1>6, <1>7

LEMMA NextStages ==
  WritersInv /\ WritersTypeOK' /\ [WritersNext]_writersVars
    => Single' /\ Stages' /\ QuietUpdatesKept'
<1> SUFFICES ASSUME WritersInv, WritersTypeOK', [WritersNext]_writersVars
             PROVE  Single' /\ Stages' /\ QuietUpdatesKept'
  OBVIOUS
<1> USE DEF WritersInv
<1>1. CASE UNCHANGED writersVars
  <2>1. /\ disk' = disk /\ temp' = temp /\ thread' = thread
        /\ wanted' = wanted /\ overlap' = overlap
    BY <1>1 DEF writersVars
  <2>2. Single'
    BY <2>1 DEF Single, Active, At
  <2>3. ASSUME NEW t \in Threads PROVE Stage(t)' <=> Stage(t)
    BY <2>1 DEF Stage, Text, EmptyText, Changed
  <2>4. Stages'
    BY <2>1, <2>3 DEF Stages, At
  <2>5. QuietUpdatesKept'
    BY <2>1 DEF QuietUpdatesKept, Active, At
  <2> QED
    BY <2>2, <2>4, <2>5
<1>2. ASSUME NEW t \in Threads, NEW f \in Files, NEW op \in Ops, NEW name \in Names \cup {None},
             Begin(t, f, op, name)
      PROVE  Single' /\ Stages' /\ QuietUpdatesKept'
  BY <1>2, BeginStages
<1>3. ASSUME NEW t \in Threads, Step(t)
      PROVE  Single' /\ Stages' /\ QuietUpdatesKept'
  <2> DEFINE r == thread[t]
             f == r.file
  <2>a. ~ At(t, "idle")
    BY <1>3 DEF Step, At, Refuse, Read, OpenTemp, OpenLive, WriteTemp, WriteLive,
                Replace, ReplaceFails, WriteVisual, Answer
  <2>b. /\ disk \in [Files -> Texts] /\ temp \in [Files -> Texts \cup {None}]
        /\ wanted \in [Files -> SUBSET Names] /\ thread \in [Threads -> ThreadStates]
        /\ f \in Files /\ r \in ThreadStates /\ wanted[f] \in SUBSET Names
    BY <2>a, RequestType DEF WritersTypeOK
  <2>c. overlap[f] \/ Stage(t)
    BY <2>a DEF Stages
  <2>d. Idle.at = "idle"
    BY DEF Idle
  <2>e. \A new : Do(t, new) => thread'[t] = new /\ \A u \in Threads : u # t => thread'[u] = thread[u]
    BY <2>b DEF Do
  <2>1. CASE Refuse(t)
    <3>1. overlap[f] \/ disk'[f] = Text(wanted'[f])
      BY <2>1, <2>c DEF Refuse, Stage, At
    <3> QED
      BY <2>1, <2>a, <2>d, <2>e, <3>1, StepStages DEF Refuse
  <2>2. CASE Read(t)
    <3>1. PICK name \in NamesFor(r, EntriesRead(f)) :
            Do(t, [r EXCEPT !.at = "open", !.name = name, !.text = Changed(r, name, EntriesRead(f))])
      BY <2>2 DEF Read
    <3>2. /\ thread'[t].at = "open" /\ thread'[t].file = f /\ thread'[t].op = r.op
          /\ thread'[t].name = name /\ thread'[t].text = Changed(r, name, EntriesRead(f))
      BY <2>b, <3>1 DEF Do, ThreadStates
    <3>3. overlap[f] \/ (disk[f] = Text(wanted[f]) /\ EntriesRead(f) = wanted[f])
      BY <2>2, <2>b, <2>c, TextTypes DEF Read, Stage, At, EntriesRead
    <3>4. overlap[f] \/ Stage(t)'
      BY <2>2, <3>2, <3>3 DEF Read, Stage, Changed, Text
    <3> QED
      BY <2>2, <2>a, <2>e, <3>1, <3>2, <3>4, StepStages DEF Read
  <2>3. CASE OpenTemp(t)
    <3>1. /\ thread'[t].at = "write" /\ thread'[t].file = f /\ thread'[t].op = r.op
          /\ thread'[t].name = r.name /\ thread'[t].text = r.text /\ thread'[t].handle = "temp"
      BY <2>3, <2>b DEF OpenTemp, Do, ThreadStates
    <3>2. temp'[f] = EmptyText /\ \A g \in Files : g # f => temp'[g] = temp[g]
      BY <2>3, <2>b DEF OpenTemp
    <3>3. overlap[f] \/ Stage(t)'
      BY <2>3, <2>c, <3>1, <3>2 DEF OpenTemp, Stage, At, Changed, Text, EmptyText
    <3> QED
      BY <2>3, <2>a, <2>e, <3>1, <3>2, <3>3, StepStages DEF OpenTemp
  <2>4. CASE OpenLive(t)
    <3>1. /\ thread'[t].at = "write" /\ thread'[t].file = f /\ thread'[t].op = r.op
          /\ thread'[t].name = r.name /\ thread'[t].text = r.text /\ thread'[t].handle = "live"
      BY <2>4, <2>b DEF OpenLive, Do, ThreadStates
    <3>2. disk'[f] = EmptyText /\ \A g \in Files : g # f => disk'[g] = disk[g]
      BY <2>4, <2>b DEF OpenLive
    <3>3. overlap[f] \/ Stage(t)'
      BY <2>4, <2>c, <3>1, <3>2 DEF OpenLive, Stage, At, Changed, Text, EmptyText
    <3> QED
      BY <2>4, <2>a, <2>e, <3>1, <3>2, <3>3, StepStages DEF OpenLive
  <2>5. CASE WriteTemp(t)
    <3>1. /\ thread'[t].at = "replace" /\ thread'[t].file = f /\ thread'[t].op = r.op
          /\ thread'[t].name = r.name /\ thread'[t].text = r.text
      BY <2>5, <2>b DEF WriteTemp, Do, ThreadStates
    <3>2. temp'[f] \in Over(temp[f], r.text) /\ \A g \in Files : g # f => temp'[g] = temp[g]
      BY <2>5, <2>b DEF WriteTemp
    <3>3. overlap[f] \/ (Stage(t) /\ r.at = "write" /\ r.handle = "temp")
      BY <2>5, <2>c DEF WriteTemp, At
    <3>4. overlap[f] \/ temp'[f] = Text(r.text)
      BY <3>2, <3>3 DEF Stage, Over, EmptyText
    <3>5. overlap[f] \/ Stage(t)'
      BY <2>5, <3>1, <3>3, <3>4 DEF WriteTemp, Stage, Changed, Text
    <3> QED
      BY <2>5, <2>a, <2>e, <3>1, <3>2, <3>5, StepStages DEF WriteTemp
  <2>6. CASE WriteLive(t)
    <3>1. /\ thread'[t].at = (IF f \in Replaced THEN "replace" ELSE "answer") /\ thread'[t].file = f
          /\ thread'[t].op = r.op /\ thread'[t].name = r.name
      BY <2>6, <2>b DEF WriteLive, Do, ThreadStates
    <3>2. disk'[f] \in Over(disk[f], r.text) /\ \A g \in Files : g # f => disk'[g] = disk[g]
      BY <2>6, <2>b DEF WriteLive
    <3>3. overlap[f] \/ (Stage(t) /\ r.at = "write" /\ r.handle = "live")
      BY <2>6, <2>c DEF WriteLive, At
    <3>4. overlap[f] \/ (f \in InPlace /\ r.text = Changed(r, r.name, wanted[f]) /\ disk'[f] = Text(r.text))
      BY <3>2, <3>3 DEF Stage, Over, EmptyText
    <3>5. overlap[f] \/ Stage(t)'
      BY <2>6, <3>1, <3>4 DEF WriteLive, Stage, Changed, Text, InPlace, Replaced
    <3> QED
      BY <2>6, <2>a, <2>e, <3>1, <3>2, <3>5, StepStages DEF WriteLive
  <2>7. CASE Replace(t)
    <3>1. /\ thread'[t].at = "answer" /\ thread'[t].file = f /\ thread'[t].op = r.op
          /\ thread'[t].name = r.name
      BY <2>7, <2>b DEF Replace, ThreadStates
    <3>2. disk'[f] = temp[f] /\ \A g \in Files : g # f => disk'[g] = disk[g] /\ temp'[g] = temp[g]
      BY <2>7, <2>b DEF Replace
    <3>5. overlap[f] \/ (temp[f] = Text(r.text) /\ r.text = Changed(r, r.name, wanted[f]))
      BY <2>7, <2>c DEF Replace, Stage, At
    <3>6. overlap[f] \/ disk'[f] = Text(Changed(r, r.name, wanted[f]))
      BY <3>2, <3>5
    <3>3. overlap[f] \/ Stage(t)'
      BY <2>7, <3>1, <3>6 DEF Replace, Stage, Changed, Text
    <3>4. \A u \in Threads : u # t =>
            \/ thread'[u] = thread[u]
            \/ /\ thread[u].file = f /\ thread'[u].file = f /\ thread'[u].at = thread[u].at
      BY <2>7, <2>b DEF Replace, ThreadStates
    <3> QED
      BY <2>7, <2>a, <3>1, <3>2, <3>3, <3>4, StepStages DEF Replace
  <2>8. CASE ReplaceFails(t)
    <3>1. overlap[f] \/ disk'[f] = Text(wanted'[f])
      BY <2>8, <2>c DEF ReplaceFails, Stage, At
    <3> QED
      BY <2>8, <2>a, <2>d, <2>e, <3>1, StepStages DEF ReplaceFails
  <2>9. CASE WriteVisual(t)
    <3>1. /\ thread'[t].at = "answer" /\ thread'[t].file = f /\ thread'[t].op = r.op
          /\ thread'[t].name = r.name
      BY <2>9, <2>b DEF WriteVisual, Do, ThreadStates
    <3>2. /\ disk'[f] = Text(Changed(r, r.name, disk[f].entries))
          /\ \A g \in Files : g # f => disk'[g] = disk[g]
      BY <2>9, <2>b DEF WriteVisual
    <3>3. overlap[f] \/ disk[f].entries = wanted[f]
      BY <2>9, <2>b, <2>c, TextTypes DEF WriteVisual, Stage, At
    <3>4. overlap[f] \/ Stage(t)'
      BY <2>9, <3>1, <3>2, <3>3 DEF WriteVisual, Stage, Changed, Text
    <3> QED
      BY <2>9, <2>a, <2>e, <3>1, <3>2, <3>4, StepStages DEF WriteVisual
  <2>10. CASE Answer(t)
    <3>1. /\ wanted'[f] = Changed(r, r.name, wanted[f])
          /\ \A g \in Files : g # f => wanted'[g] = wanted[g]
      BY <2>10, <2>b DEF Answer
    <3>2. overlap[f] \/ disk'[f] = Text(wanted'[f])
      BY <2>10, <2>c, <3>1 DEF Answer, Stage, At
    <3> QED
      BY <2>10, <2>a, <2>d, <2>e, <3>1, <3>2, StepStages DEF Answer
  <2> QED
    BY <1>3, <2>1, <2>2, <2>3, <2>4, <2>5, <2>6, <2>7, <2>8, <2>9, <2>10 DEF Step
<1> QED
  BY <1>1, <1>2, <1>3 DEF WritersNext

LEMMA Inductive == WritersSpec => []WritersInv
<1>1. WritersInit => WritersInv
  BY InitTyped, InitStages DEF WritersInv
<1>2. WritersInv /\ [WritersNext]_writersVars => WritersInv'
  BY NextTyped, NextStages DEF WritersInv
<1> QED
  BY <1>1, <1>2, PTL DEF WritersSpec

\* An update that was acknowledged is in its file and stays there, one after the
\* other, and a refused request leaves nothing, on every file on which no two
\* requests ever overlapped: the read-modify-write of the handlers is sound when
\* it is serial, whichever of the three ways the file is written.
THEOREM UpdatesKept == WritersSpec => []QuietUpdatesKept
BY Inductive, PTL DEF WritersInv

\* A file that is written through a temporary file is a whole text at every moment.
THEOREM AlwaysWhole == WritersSpec => []ReplacedFilesWhole
<1>1. WritersInv => ReplacedFilesWhole
  <2> SUFFICES ASSUME WritersInv, NEW f \in Files, f \in Replaced, ~ overlap[f]
               PROVE  disk[f].state = "text"
    BY DEF ReplacedFilesWhole
  <2>1. CASE Active(f) = {}
    <3>1. disk[f] = Text(wanted[f])
      BY <2>1 DEF WritersInv, QuietUpdatesKept
    <3> QED
      BY <3>1 DEF Text
  <2>2. CASE Active(f) # {}
    <3>1. PICK t \in Threads : thread[t].at # "idle" /\ thread[t].file = f
      BY <2>2 DEF Active
    <3>2. Stage(t) /\ thread[t].at \in Places
      BY <3>1 DEF WritersInv, Stages, At, WritersTypeOK, ThreadStates
    <3> QED
      BY <3>1, <3>2 DEF Stage, Places, Replaced, InPlace, Text
  <2> QED
    BY <2>1, <2>2
<1> QED
  BY <1>1, Inductive, PTL
==================================================================================
