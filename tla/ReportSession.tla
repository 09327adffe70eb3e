----------------------------- MODULE ReportSession -----------------------------
(* One editing session after another on one project: the report store of the
   browser (pages and visuals in memory), the page fetches and the Save All that
   it has in flight, and the files that Save All rewrites in the sidecar.

   Everything a user does to pages and visuals stays in the store until Save All
   sends it; the store holds the visuals of the pages that were fetched, and the
   server takes what it is sent for the whole report.  A user goes on working
   while a save or a fetch is on its way, and may close the window, which kills
   the sidecar wherever it is.

   A visual is <<p, i>>: the i-th visual of page p, a page it never leaves.  The
   ids that the client draws at random are ids that nothing mentions.         *)
EXTENDS Naturals

CONSTANTS
  Pages,    \* page ids
  PerPage,  \* bound: visual ids of a page
  MaxEdits, \* bound: edits of pages and visuals in a behaviour
  NoPage    \* currentPageId is null: no project is open

ASSUME PagesAssumption == NoPage \notin Pages
ASSUME BoundAssumption == PerPage \in Nat \ {0} /\ MaxEdits \in Nat

Visuals   == Pages \X (1 .. PerPage)
PageOf(v) == v[1]
On(vs, p) == {v \in vs : PageOf(v) = p}

VARIABLES
  dpages,   \* pages.yaml
  dvis,     \* the files of reports/visuals
  torn,     \* those of them that are not complete JSON
  pages,    \* store: pages
  known,    \* store: visuals without the _unsaved flag
  unsaved,  \* store: visuals with it
  current,  \* store: currentPageId
  saved,    \* store: savedPageIds
  clip,     \* store: visualClipboard, or Nothing
  fetch,    \* per page, the request of changePage for its visuals
  save,     \* the request of Save All
  edits,    \* number of edits so far
  kept,     \* history: visuals that were on disk and that the user did not remove
  shown,    \* history: visuals the store was given since the project was opened
  emptied,  \* history: those that addPage took out of it again
  dropped,  \* history: pages the user deleted
  taken,    \* history: pages that a load took out of the store
  partial,  \* history: the last save was cut short among the visuals
  quiet     \* history: no visual was pasted, no save overlapped an addition, a
            \* fetch or a load, and no load overlapped a fetch

files   == <<dpages, dvis, torn>>
store   == <<pages, known, unsaved, current, saved, clip>>
history == <<kept, shown, emptied, dropped, taken, partial, quiet>>
vars    == <<files, store, fetch, save, edits, history>>

Nothing == [flagged |-> FALSE, mode |-> "none"]
NoFetch == [state |-> "none", visuals |-> {}]
Pending(state) == [state |-> state, visuals |-> {}]
NoSave  == [stage |-> "none", pages |-> {}, visuals |-> {}, todo |-> {}]

Open     == current # NoPage
InStore  == known \cup unsaved
Saving   == save.stage # "none"
Fetching == \E p \in Pages : fetch[p].state # "none"

\* load_project: every file parses and every visual is on a page of pages.yaml.
Loads == torn = {} /\ \A v \in dvis : PageOf(v) \in dpages

Init ==
  /\ dpages \in (SUBSET Pages) \ {{}}
  /\ dvis \in SUBSET {v \in Visuals : PageOf(v) \in dpages}
  /\ torn = {}
  /\ pages = {} /\ known = {} /\ unsaved = {} /\ saved = {}
  /\ current = NoPage /\ clip = Nothing
  /\ fetch = [p \in Pages |-> NoFetch]
  /\ save = NoSave /\ edits = 0
  /\ kept = dvis /\ shown = {} /\ emptied = {} /\ dropped = {} /\ taken = {}
  /\ partial = FALSE /\ quiet = TRUE

-----------------------------------------------------------------------------
(* loadState: the project is opened, or read again for another role.  The store
   gets all pages, and the visuals of the page that is shown.  An overlay covers
   the window from the request until both are in the store, so it is one step. *)
LoadState ==
  /\ Loads
  /\ \E p \in dpages :
       /\ current' = p
       /\ known' = On(dvis, p)
       /\ shown' = On(dvis, p)
  /\ pages' = dpages /\ saved' = dpages
  /\ unsaved' = {} /\ emptied' = {}
  /\ taken' = taken \cup (pages \ dpages)
  /\ quiet' = (quiet /\ ~ Saving /\ ~ Fetching)
  /\ UNCHANGED <<files, clip, fetch, save, kept, dropped, partial, edits>>

(* The window is closed: the store is gone and the sidecar is killed, between
   any two writes of a save or within one.                                    *)
CutShort == partial \/ save.stage = "syncing"

Close ==
  /\ Open
  /\ pages' = {} /\ known' = {} /\ unsaved' = {} /\ saved' = {}
  /\ current' = NoPage /\ clip' = Nothing
  /\ fetch' = [p \in Pages |-> NoFetch]
  /\ save' = NoSave
  /\ shown' = {} /\ emptied' = {}
  /\ partial' = CutShort
  /\ UNCHANGED <<files, kept, dropped, taken, quiet, edits>>

-----------------------------------------------------------------------------
Counted == edits < MaxEdits /\ edits' = edits + 1

\* An id that nothing mentions; nor does the history, as long as it is read.
NewPage(p) == p \notin pages \cup dpages \cup dropped \cup taken \cup save.pages
NewVisual(v) ==
  /\ v \notin InStore \cup dvis \cup save.visuals \cup fetch[PageOf(v)].visuals
  /\ quiet => v \notin kept \cup shown

(* addPage: the new page is shown, and `visuals: []`, for the whole report: what
   the user saw of other pages comes back when they are visited again, unless it
   was not saved, or is not there any more by then.                           *)
AddPage(p) ==
  /\ Counted
  /\ Open
  /\ NewPage(p)
  /\ pages' = pages \cup {p}
  /\ current' = p
  /\ known' = {} /\ unsaved' = {}
  /\ emptied' = emptied \cup InStore
  /\ UNCHANGED <<files, saved, clip, fetch, save, kept, shown, dropped, taken,
                 partial, quiet>>

\* handleDeletePage, removePage: never the last one; its visuals stay.
RemovePage(p) ==
  /\ Counted
  /\ p \in pages /\ pages # {p}
  /\ pages' = pages \ {p}
  /\ IF current = p THEN current' \in pages \ {p} ELSE UNCHANGED current
  /\ dropped' = dropped \cup {p}
  /\ kept' = kept \ On(kept, p)
  /\ UNCHANGED <<files, known, unsaved, saved, clip, fetch, save, shown,
                 emptied, taken, partial, quiet>>

\* addVisual, for a new visual and for a duplicate.
AddVisual(v) ==
  /\ Counted
  /\ PageOf(v) = current /\ NewVisual(v)
  /\ unsaved' = unsaved \cup {v}
  /\ shown' = shown \cup {v}
  /\ quiet' = (quiet /\ ~ Saving)
  /\ UNCHANGED <<files, pages, known, current, saved, clip, fetch, save, kept,
                 emptied, dropped, taken, partial>>

Forgotten(v) ==
  /\ known' = known \ {v} /\ unsaved' = unsaved \ {v}
  /\ shown' = shown \ {v} /\ kept' = kept \ {v}

RemoveVisual(v) ==
  /\ Counted
  /\ v \in InStore /\ PageOf(v) = current
  /\ Forgotten(v)
  /\ UNCHANGED <<files, pages, current, saved, clip, fetch, save, emptied,
                 dropped, taken, partial, quiet>>

\* The clipboard has a clone of the visual, flag included.
Copied(v, mode) == clip' = [flagged |-> v \in unsaved, mode |-> mode]

CopyVisual(v) ==
  /\ Counted
  /\ v \in InStore /\ PageOf(v) = current
  /\ Copied(v, "copy")
  /\ UNCHANGED <<files, pages, known, unsaved, current, saved, fetch, save, history>>

CutVisual(v) ==
  /\ Counted
  /\ v \in InStore /\ PageOf(v) = current
  /\ Copied(v, "cut")
  /\ Forgotten(v)
  /\ UNCHANGED <<files, pages, current, saved, fetch, save, emptied, dropped, taken,
                 partial, quiet>>

\* pasteVisualFromClipboard: a new id, and the flag that the source had.
PasteVisual(v) ==
  /\ Counted
  /\ clip # Nothing
  /\ PageOf(v) = current /\ NewVisual(v)
  /\ IF clip.flagged THEN unsaved' = unsaved \cup {v} /\ UNCHANGED known
                     ELSE known' = known \cup {v} /\ UNCHANGED unsaved
  /\ clip' = IF clip.mode = "cut" THEN Nothing ELSE clip
  /\ shown' = shown \cup {v}
  /\ quiet' = FALSE
  /\ UNCHANGED <<files, pages, current, saved, fetch, save, kept, emptied, dropped,
                 taken, partial>>

-----------------------------------------------------------------------------
(* changePage: a page the server does not know is only shown; for any other its
   visuals are fetched while the user goes on.  At most one fetch of a page is
   in flight (bound).                                                         *)
ChangePage(p) ==
  /\ p \in pages
  /\ current' = p
  /\ IF p \in saved
       THEN /\ fetch[p] = NoFetch
            /\ fetch' = [fetch EXCEPT ![p] = Pending("asked")]
            /\ quiet' = (quiet /\ ~ Saving)
       ELSE UNCHANGED <<fetch, quiet>>
  /\ UNCHANGED <<files, pages, known, unsaved, saved, clip, save, kept, shown,
                 emptied, dropped, taken, partial, edits>>

\* GET /runtime: the project is loaded to find the page ...
FetchLoads(p) ==
  /\ fetch[p].state = "asked"
  /\ Loads /\ p \in dpages
  /\ fetch' = [fetch EXCEPT ![p] = Pending("loaded")]
  /\ UNCHANGED <<files, store, save, history, edits>>

\* ... and the files are then read once more; one that does not parse is skipped.
FetchReads(p) ==
  /\ fetch[p].state = "loaded"
  /\ fetch' = [fetch EXCEPT ![p] = [state |-> "answered",
                                    visuals |-> On(dvis \ torn, p)]]
  /\ UNCHANGED <<files, store, save, history, edits>>

\* The project does not load, the page is not there, the request is lost.
FetchFails(p) ==
  /\ fetch[p].state \in {"asked", "loaded"}
  /\ fetch' = [fetch EXCEPT ![p] = NoFetch]
  /\ UNCHANGED <<files, store, save, history, edits>>

\* Mutant of ApplyFetch: all visuals of the page are replaced, flagged or not.
ApplyFetchAll(p) ==
  /\ fetch[p].state = "answered"
  /\ known' = (known \ On(known, p)) \cup fetch[p].visuals
  /\ unsaved' = unsaved \ On(unsaved, p)
  /\ shown' = shown \cup fetch[p].visuals
  /\ emptied' = emptied \ fetch[p].visuals
  /\ fetch' = [fetch EXCEPT ![p] = NoFetch]
  /\ UNCHANGED <<files, pages, current, saved, clip, save, kept, dropped, taken,
                 partial, quiet, edits>>

\* setPageVisuals, whatever page is shown by now.
ApplyFetch(p) ==
  /\ fetch[p].state = "answered"
  /\ known' = (known \ On(known, p)) \cup fetch[p].visuals
  /\ shown' = shown \cup fetch[p].visuals
  /\ emptied' = emptied \ fetch[p].visuals
  /\ fetch' = [fetch EXCEPT ![p] = NoFetch]
  /\ UNCHANGED <<files, pages, unsaved, current, saved, clip, save, kept, dropped,
                 taken, partial, quiet, edits>>

-----------------------------------------------------------------------------
(* saveAll: the payload is taken from the store, and the server works through it
   while the user goes on: load, delete what the payload lacks, write each of
   its visuals, write the pages, then the rest (layouts, theme).              *)
SaveGoes(stage) == save' = [save EXCEPT !.stage = stage]

\* Mutant of Payload: the visuals of the page that is shown.
PayloadShown == On(InStore, current)

Payload == InStore

ClickSave ==
  /\ Open /\ ~ Saving
  /\ save' = [stage |-> "sent", pages |-> pages,
              visuals |-> Payload, todo |-> Payload]
  /\ quiet' = (quiet /\ ~ Fetching)
  /\ UNCHANGED <<files, store, fetch, kept, shown, emptied, dropped, taken, partial,
                 edits>>

SaveLoads ==
  /\ save.stage = "sent"
  /\ Loads
  /\ SaveGoes("syncing")
  /\ UNCHANGED <<files, store, fetch, history, edits>>

\* Mutant of Synced: what is not in the payload stays.
SyncedAnyway == save.stage = "syncing" /\ torn = {}

\* The files that the payload lacks are gone, and none is half written.
Synced == save.stage = "syncing" /\ torn = {} /\ dvis \subseteq save.visuals

SaveDeletes ==
  /\ save.stage = "syncing"
  /\ \E v \in dvis \ save.visuals : dvis' = dvis \ {v}
  /\ UNCHANGED <<dpages, torn, store, fetch, save, history, edits>>

\* write_text: the file is emptied first, then written.
SaveOpens ==
  /\ Synced
  /\ \E v \in save.todo : dvis' = dvis \cup {v} /\ torn' = {v}
  /\ UNCHANGED <<dpages, store, fetch, save, history, edits>>

SaveWrites ==
  /\ save.stage = "syncing" /\ torn # {}
  /\ torn' = {}
  /\ save' = [save EXCEPT !.todo = @ \ torn]
  /\ kept' = kept \cup (torn \cap InStore)
  /\ UNCHANGED <<dpages, dvis, store, fetch, shown, emptied, dropped, taken,
                 partial, quiet, edits>>

\* Mutant of SavePages: the pages that were there before are written back.
SavePagesLoaded ==
  /\ Synced /\ save.todo = {}
  /\ SaveGoes("written")
  /\ partial' = FALSE
  /\ UNCHANGED <<files, store, fetch, kept, shown, emptied, dropped, taken, quiet,
                 edits>>

\* pages.yaml is replaced in one step (_dump_yaml).
SavePages ==
  /\ Synced /\ save.todo = {}
  /\ dpages' = save.pages
  /\ SaveGoes("written")
  /\ partial' = FALSE
  /\ UNCHANGED <<dvis, torn, store, fetch, kept, shown, emptied, dropped, taken, quiet,
                 edits>>

\* The load, a validation or a write fails, or the rest: what is done stays done.
SaveFails ==
  /\ save.stage \in {"sent", "syncing", "written"}
  /\ save' = NoSave
  /\ partial' = CutShort
  /\ UNCHANGED <<files, store, fetch, kept, shown, emptied, dropped, taken, quiet,
                 edits>>

\* "server now knows about these visuals": all that the store holds by now.
SaveSucceeds ==
  /\ save.stage = "written"
  /\ known' = InStore /\ unsaved' = {}
  /\ saved' = pages
  /\ save' = NoSave
  /\ UNCHANGED <<files, pages, current, clip, fetch, history, edits>>

-----------------------------------------------------------------------------
Edit ==
  \/ \E p \in Pages : AddPage(p) \/ RemovePage(p)
  \/ \E v \in Visuals : \/ AddVisual(v) \/ RemoveVisual(v)
                        \/ CopyVisual(v) \/ CutVisual(v) \/ PasteVisual(v)

Navigate == \E p \in Pages :
  ChangePage(p) \/ FetchLoads(p) \/ FetchReads(p) \/ FetchFails(p) \/ ApplyFetch(p)

SaveStep ==
  \/ SaveLoads \/ SaveDeletes \/ SaveOpens \/ SaveWrites \/ SavePages
  \/ SaveFails \/ SaveSucceeds

Next == LoadState \/ Close \/ Edit \/ Navigate \/ ClickSave \/ SaveStep

Spec == Init /\ [][Next]_vars
-----------------------------------------------------------------------------
Fetches == [state : {"none", "asked", "loaded", "answered"},
            visuals : SUBSET Visuals]
Saves   == [stage : {"none", "sent", "syncing", "written"},
            pages : SUBSET Pages, visuals : SUBSET Visuals, todo : SUBSET Visuals]
Clips   == [flagged : BOOLEAN, mode : {"none", "copy", "cut"}]

(* Every variable has its type: the client knows each stage of its requests, and
   the page it shows is one the project has or had.                           *)
TypeOK ==
  /\ dpages \subseteq Pages /\ dvis \subseteq Visuals /\ torn \subseteq dvis
  /\ pages \subseteq Pages /\ saved \subseteq Pages
  /\ known \subseteq Visuals /\ unsaved \subseteq Visuals
  /\ current \in pages \cup {NoPage} /\ clip \in Clips
  /\ fetch \in [Pages -> Fetches] /\ save \in Saves
  /\ kept \subseteq Visuals /\ shown \subseteq Visuals /\ emptied \subseteq Visuals
  /\ dropped \subseteq Pages /\ taken \subseteq Pages
  /\ partial \in BOOLEAN /\ quiet \in BOOLEAN /\ edits \in 0 .. MaxEdits

(* "syncs the visuals directory to match the client state": a save that answers
   ok has left on disk exactly the pages and visuals of its payload, whatever a
   save that was cut short before it had left there.                          *)
SaveWritesPayload ==
  save.stage = "written" =>
    dpages = save.pages /\ dvis = save.visuals /\ torn = {}

(* What load_project rejects comes from few sources only: a save under way, a
   save that was cut short, a page that the user deleted, or a page that a load
   for another role took out of the store, while a save that had it, or a fetch
   of its visuals, was on its way.                                            *)
UnloadableOnlyBy ==
  \/ save.stage = "syncing"
  \/ partial
  \/ torn = {} /\ \A v \in dvis : PageOf(v) \in dpages \cup dropped \cup taken

(* What the user saw of the report since it was opened, and did not remove, is in
   the store, through navigation and saves and failed saves, but for what addPage
   took out of it, as long as no visual is pasted and no save overlaps an
   addition or a fetch (quiet).                                               *)
QuietWorkStays == quiet => shown \subseteq InStore \cup emptied

(* And, under the same condition, no save takes from the disk what the user saw
   and did not remove, not while it runs, and not when it is cut short, but for
   what addPage took out of the store: to look at a page, to add another and to
   save deletes the files of the first, one thing at a time.                  *)
QuietSavesKeep == quiet => kept \cap shown \subseteq dvis \cup emptied
===============================================================================
