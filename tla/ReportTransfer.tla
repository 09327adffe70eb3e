----------------------------- MODULE ReportTransfer -----------------------------
(* The import of a Power BI report directory, and of a documentation workbook,
   into the report files of a project.

   A transfer is one request that rewrites the files one after the other: the
   visuals are removed, then come the pages, the visuals one by one, and the
   files that refer to them.  Nothing is locked, nothing is checked against the
   project and nothing is undone: it may fail between any two files, and another
   transfer, or a user who adds a visual, may come in between.

   A source is a record of what decides where its parts end up; encodings,
   formats, colours, titles and layouts are left out.  A file that is made of
   what is there is read, opened, which empties it, and written, in three steps;
   one that is only written is one step (FileWriters looks inside of that).      *)
EXTENDS Naturals, FiniteSets, Sequences

CONSTANTS
  Importers,     \* request threads that run transfers
  Sources,       \* name of a source -> what it holds
  Columns,       \* the columns of the model, pairs of a table and a name
  Candidates,    \* level name -> the column names that may stand for it, in order
  ModelItem,     \* the default item of the field parameter of the model
  FirstProject,  \* the project before the first transfer
  User,          \* where the work of the users comes from: not the name of a source
  None,
  MaxTransfers   \* bound: transfers of a behaviour

\* A visual and a page filter of a source are on one of its pages: a report is
\* read page by page, and a workbook puts a visual of no page on its first.
ASSUME SourcesAssumption ==
  \A from \in DOMAIN Sources :
    /\ Sources[from].kind \in {"pbi", "doc"} /\ Sources[from].pages \in Nat
    /\ IsFiniteSet(DOMAIN Sources[from].visuals)
    /\ \A v \in DOMAIN Sources[from].visuals :
         Sources[from].visuals[v].page \in 1 .. Sources[from].pages
    /\ Sources[from].filtered \subseteq 1 .. Sources[from].pages

VARIABLES
  pages,        \* pages.yaml: page id -> where it is from
  visuals,      \* visuals/*.json: visual id -> its content
  filters, slicers, choices, hierarchies, bookmarks,  \* the files of these names
  pc, job,      \* per importer: what it does next, and its locals
  text,         \* per importer: what it has read of the file it will write
  started,      \* history: the transfers so far
  overlapped,   \* history: somebody has written while a transfer was running
  whole,        \* history: the last transfer, if it ran to its end by itself
  torn          \* history: files read, or left for good, between opening and writing

files == <<pages, visuals, filters, slicers, choices, hierarchies, bookmarks>>
vars  == <<files, pc, job, text, started, overlapped, whole, torn>>

Nothing    == [x \in {} |-> x]
Unread     == [pages |-> Nothing, slicers |-> {}, hierarchies |-> Nothing]
With(f, g) == [x \in DOMAIN f \cup DOMAIN g |-> IF x \in DOMAIN g THEN g[x] ELSE f[x]]
One(k, v)  == [x \in {k} |-> v]

-----------------------------------------------------------------------------
(* Ids.  A visual of a report is named by the first characters of its source
   name, the first part of the name here; a page of a report by its place, one
   of a workbook by its own name, which with one workbook is its place here.   *)
PageId(kind, n)    == [kind |-> kind, n |-> n]
Short(name)        == <<Head(name)>>
VisualId(kind, name) == [kind |-> kind, n |-> IF kind = "pbi" THEN Short(name) ELSE name]
SlicerId(kind, name) == IF kind = "pbi" THEN [VisualId(kind, name) EXCEPT !.kind = "sd_pbi"]
                                        ELSE VisualId(kind, name)

Source(j)  == Sources[j.from]
PagesOf(j) == {PageId(j.kind, n) : n \in 1 .. Source(j).pages}

\* Visuals of an unknown type are skipped, or kept on request.
Taken(j) == {v \in DOMAIN Source(j).visuals :
               Source(j).visuals[v].type = "unknown" => ~ j.skip}
IdsTaken(j) == {VisualId(j.kind, v) : v \in Taken(j)}
IdsOf(j, names) == {VisualId(j.kind, v) : v \in names}

\* The levels of hierarchies that the visuals use.
Found(j) == UNION {Source(j).visuals[v].levels : v \in Taken(j)}

\* Native slicers for the slicer visuals on a column; a list, in which an id may
\* come twice.
SlicersOf(j) ==
  {[id |-> SlicerId(j.kind, v), page |-> PageId(j.kind, Source(j).visuals[v].page),
    source |-> v, from |-> j.from,
    default |-> IF j.kind = "pbi" THEN Source(j).visuals[v].default ELSE None] :
     v \in {w \in Taken(j) : /\ Source(j).visuals[w].type = "slicer"
                             /\ Source(j).visuals[w].column}}

-----------------------------------------------------------------------------
NoJob == [kind |-> "none", from |-> None, merge |-> FALSE, skip |-> FALSE, rest |-> {}]
Busy(i) == pc[i] # "idle"

Init ==
  /\ pages = FirstProject.pages /\ visuals = FirstProject.visuals
  /\ filters = FirstProject.filters /\ slicers = FirstProject.slicers
  /\ choices = FirstProject.choices /\ hierarchies = FirstProject.hierarchies
  /\ bookmarks = FirstProject.bookmarks
  /\ pc = [i \in Importers |-> "idle"] /\ job = [i \in Importers |-> NoJob]
  /\ text = [i \in Importers |-> Unread]
  /\ started = <<>> /\ overlapped = FALSE /\ whole = None /\ torn = {}

\* A report, or a workbook; both requests say whether to merge, and whether to
\* skip what is not supported, which makes no difference if everything is.
Begin(i) ==
  /\ ~ Busy(i) /\ Len(started) < MaxTransfers
  /\ \E from \in DOMAIN Sources, merge, skip \in BOOLEAN :
       LET j == [kind |-> Sources[from].kind, from |-> from, merge |-> merge,
                 skip |-> skip, rest |-> {}]
       IN /\ skip => Taken(j) # DOMAIN Source(j).visuals
          /\ job' = [job EXCEPT ![i] = [j EXCEPT !.rest = Taken(j)]]
          /\ started' = Append(started, j)
  /\ pc' = [pc EXCEPT ![i] = "clean"]
  /\ overlapped' = (overlapped \/ \E k \in Importers : Busy(k))
  /\ whole' = None
  /\ UNCHANGED <<files, text, torn>>

\* What comes after what, for a report and for a workbook.
Order == [pbi |-> <<"clean", "readPages", "openPages", "pages", "visuals", "links",
                    "filters", "readSlicers", "openSlicers", "slicers", "choices",
                    "readHierarchies", "openHierarchies", "hierarchies", "bookmarks",
                    "idle">>,
          doc |-> <<"clean", "readPages", "openPages", "pages", "visuals", "slicers",
                    "filters", "bookmarks", "idle">>]
Following(kind, file) ==
  LET at == CHOOSE n \in DOMAIN Order[kind] : Order[kind][n] = file
  IN Order[kind][at + 1]

Turn(i, file) ==
  /\ pc[i] = file
  /\ pc' = [pc EXCEPT ![i] = Following(job[i].kind, file)]
  /\ whole' = IF pc'[i] = "idle" /\ ~ overlapped THEN job[i] ELSE whole
  /\ UNCHANGED <<job, started, overlapped>>

(* The files that are read, opened and written.  A report has slicers and
   hierarchies written only if it has any; a workbook replaces the file of the
   slicers by another one.                                                       *)
Rewrites(j, file) ==
  /\ file \in {"pages", "slicers", "hierarchies"}
  /\ file = "slicers" => j.kind = "pbi" /\ SlicersOf(j) # {}
  /\ file = "hierarchies" => Found(j) # {}

\* Somebody has opened the file and not written it yet.
Emptied(file) == \E i \in Importers : pc[i] = file /\ Rewrites(job[i], file)

\* An exception anywhere: the request answers "Transfer failed".
Fail(i) ==
  /\ Busy(i)
  /\ pc' = [pc EXCEPT ![i] = "idle"]
  /\ text' = [text EXCEPT ![i] = Unread]
  /\ torn' = torn \cup {file \in {pc[i]} : Rewrites(job[i], file)}
  /\ UNCHANGED <<files, job, started, overlapped, whole>>

\* What cannot be read, as a file that has just been emptied, counts as nothing.
Read(i, file, content) ==
  /\ text' = [text EXCEPT ![i] = content]
  /\ torn' = torn \cup {f \in {file} : Rewrites(job[i], f) /\ Emptied(f)}
  /\ UNCHANGED files

-----------------------------------------------------------------------------
\* Mutant of Clean: a transfer that does not merge keeps what is there, too.
CleanNothing(i) ==
  /\ Turn(i, "clean")
  /\ UNCHANGED <<files, text, torn>>

(* A report removes every visual there is, also when it is to be merged; a
   workbook removes those of workbooks, unless it is to be merged.             *)
Cleaned(j) == IF j.kind = "pbi" THEN {}
              ELSE {v \in DOMAIN visuals : v.kind = "doc" => j.merge}

Clean(i) ==
  /\ Turn(i, "clean")
  /\ visuals' = [v \in Cleaned(job[i]) |-> visuals[v]]
  /\ UNCHANGED <<pages, filters, slicers, choices, hierarchies, bookmarks, text, torn>>

ReadPages(i) ==
  /\ Turn(i, "readPages")
  /\ Read(i, "pages", [Unread EXCEPT !.pages = IF job[i].merge THEN pages ELSE Nothing])

OpenPages(i) ==
  /\ Turn(i, "openPages")
  /\ pages' = Nothing
  /\ UNCHANGED <<visuals, filters, slicers, choices, hierarchies, bookmarks, text, torn>>

\* Mutant of PutPages: the pages of the report win over those of the same id.
PutPagesOver(i) ==
  /\ Turn(i, "pages")
  /\ LET new == [p \in PagesOf(job[i]) |-> job[i].from]
     IN pages' = IF job[i].merge THEN With(text[i].pages, new) ELSE new
  /\ text' = [text EXCEPT ![i] = Unread]
  /\ UNCHANGED <<visuals, filters, slicers, choices, hierarchies, bookmarks, torn>>

\* Merged, a page is added only if its id was not in the file when it was read.
PutPages(i) ==
  /\ Turn(i, "pages")
  /\ LET new == [p \in PagesOf(job[i]) |-> job[i].from]
     IN pages' = IF job[i].merge THEN With(new, text[i].pages) ELSE new
  /\ text' = [text EXCEPT ![i] = Unread]
  /\ UNCHANGED <<visuals, filters, slicers, choices, hierarchies, bookmarks, torn>>

\* The visuals of one page after the other, those of a page in any order.
Visual(j, v) ==
  LET source == Source(j).visuals[v]
  IN [page |-> PageId(j.kind, source.page), from |-> j.from, source |-> v,
      known |-> source.known,
      item |-> IF j.kind = "pbi" THEN source.item ELSE None,
      links |-> IF j.kind = "doc"
                THEN {VisualId("doc", l[2]) : l \in {k \in Source(j).links :
                        k[1] = v /\ k[2] \in DOMAIN Source(j).visuals}}
                ELSE {}]

PutVisual(i) ==
  /\ pc[i] = "visuals"
  /\ \E v \in job[i].rest :
       /\ job[i].kind = "pbi" =>
            \A w \in job[i].rest : Source(job[i]).visuals[w].page >= Source(job[i]).visuals[v].page
       /\ visuals' = With(visuals, One(VisualId(job[i].kind, v), Visual(job[i], v)))
       /\ job' = [job EXCEPT ![i].rest = @ \ {v}]
  /\ UNCHANGED <<pages, filters, slicers, choices, hierarchies, bookmarks,
                 pc, text, started, overlapped, whole, torn>>

VisualsWritten(i) ==
  /\ job[i].rest = {}
  /\ Turn(i, "visuals")
  /\ UNCHANGED <<files, text, torn>>

\* Interactions between two visuals that were taken are put into the file of the
\* first, if it is there.
LinksOf(j, id) ==
  {VisualId("pbi", l[2]) : l \in {k \in Source(j).links :
                                    k[1] \in Taken(j) /\ k[2] \in Taken(j)
                                    /\ VisualId("pbi", k[1]) = id}}

PutLinks(i) ==
  /\ Turn(i, "links")
  /\ visuals' = [id \in DOMAIN visuals |->
                   IF LinksOf(job[i], id) = {} THEN visuals[id]
                   ELSE [visuals[id] EXCEPT !.links = LinksOf(job[i], id)]]
  /\ UNCHANGED <<pages, filters, slicers, choices, hierarchies, bookmarks, text, torn>>

-----------------------------------------------------------------------------
(* The filters are replaced, merged or not.  A report filter is written with or
   without a condition; those of a workbook come under a name of their own.     *)
FiltersOf(j) ==
  IF j.kind = "doc" THEN [bare |-> FALSE, pages |-> {}, visuals |-> {}]
  ELSE [bare |-> Source(j).bare,
        pages |-> {PageId("pbi", n) : n \in Source(j).filtered},
        visuals |-> IdsOf(j, {v \in Taken(j) : Source(j).visuals[v].filtered})]

PutFilters(i) ==
  /\ Turn(i, "filters")
  /\ filters' = FiltersOf(job[i])
  /\ UNCHANGED <<pages, visuals, slicers, choices, hierarchies, bookmarks, text, torn>>

\* Mutant of ReadSlicers: what is there is read, whether to be merged or not.
ReadSlicersAlways(i) ==
  /\ Turn(i, "readSlicers")
  /\ Read(i, "slicers", [Unread EXCEPT !.slicers = slicers])

\* A report that has slicers merges them, or replaces what is there.
ReadSlicers(i) ==
  /\ Turn(i, "readSlicers")
  /\ Read(i, "slicers", [Unread EXCEPT !.slicers = IF job[i].merge THEN slicers ELSE {}])

OpenSlicers(i) ==
  /\ Turn(i, "openSlicers")
  /\ slicers' = IF Rewrites(job[i], "slicers") THEN {} ELSE slicers
  /\ UNCHANGED <<pages, visuals, filters, choices, hierarchies, bookmarks, text, torn>>

\* Those with ids that were not read are added to those that were; a workbook
\* that has slicers replaces them all.
PutSlicers(i) ==
  /\ Turn(i, "slicers")
  /\ LET new == SlicersOf(job[i])
     IN slicers' = CASE new = {} -> slicers
                     [] new # {} /\ job[i].kind = "pbi" ->
                          text[i].slicers \cup
                            {s \in new : \A old \in text[i].slicers : old.id # s.id}
                     [] OTHER -> new
  /\ text' = [text EXCEPT ![i] = Unread]
  /\ UNCHANGED <<pages, visuals, filters, choices, hierarchies, bookmarks, torn>>

(* Selections of the field parameter: that of the report from the defaults of the
   slicers on the disk, that of a visual from its own item.  Without any, the
   file stays.                                                                  *)
ReportChoices == {s.default : s \in slicers} \ {None, ModelItem}

PutChoices(i) ==
  /\ Turn(i, "choices")
  /\ \E report \in IF ReportChoices = {} THEN {None} ELSE ReportChoices :
       LET effective == IF report = None THEN ModelItem ELSE report
           own == {v \in DOMAIN visuals : visuals[v].item \notin {None, effective}}
       IN choices' = IF report = None /\ own = {} THEN choices
                     ELSE [report |-> report, visuals |-> own]
  /\ UNCHANGED <<pages, visuals, filters, slicers, hierarchies, bookmarks, text, torn>>

\* A level becomes the first candidate that is a column of its table, or else is
\* taken for a column itself.
Mapped(table, level) ==
  LET fits(n) == <<table, Candidates[level][n]>> \in Columns
      places == {n \in DOMAIN Candidates[level] : fits(n)}
  IN IF places = {} THEN level
     ELSE Candidates[level][CHOOSE n \in places : \A m \in places : n <= m]

Discovered(j) ==
  [h \in {l.name : l \in Found(j)} |->
     LET table == (CHOOSE l \in Found(j) : l.name = h).table
     IN [table |-> table, from |-> j.from,
         levels |-> {<<l.level, Mapped(table, l.level)>> : l \in {k \in Found(j) : k.name = h}}]]

ReadHierarchies(i) ==
  /\ Turn(i, "readHierarchies")
  /\ Read(i, "hierarchies", [Unread EXCEPT !.hierarchies = hierarchies])

OpenHierarchies(i) ==
  /\ Turn(i, "openHierarchies")
  /\ hierarchies' = IF Rewrites(job[i], "hierarchies") THEN Nothing ELSE hierarchies
  /\ UNCHANGED <<pages, visuals, filters, slicers, choices, bookmarks, text, torn>>

\* One that was there stays if it has as many levels.
PutHierarchies(i) ==
  /\ Turn(i, "hierarchies")
  /\ LET new == Discovered(job[i])
         old == text[i].hierarchies
         longer == {h \in DOMAIN new : h \in DOMAIN old =>
                      Cardinality(old[h].levels) < Cardinality(new[h].levels)}
     IN hierarchies' = IF Rewrites(job[i], "hierarchies")
                       THEN With(old, [h \in longer |-> new[h]])
                       ELSE hierarchies
  /\ text' = [text EXCEPT ![i] = Unread]
  /\ UNCHANGED <<pages, visuals, filters, slicers, choices, bookmarks, torn>>

(* A source without bookmarks leaves the file; those of a workbook come under a
   name of their own and so leave no bookmark that the project can read.  A page
   that the report does not have becomes none; the targets are renamed, whether
   they were taken or not.                                                      *)
BookmarksOf(j) ==
  IF j.kind = "doc" THEN {}
  ELSE {[from |-> j.from,
         page |-> IF b.page \in 1 .. Source(j).pages THEN PageId("pbi", b.page) ELSE None,
         targets |-> IdsOf(j, b.targets)] : b \in Source(j).bookmarks}

PutBookmarks(i) ==
  /\ Turn(i, "bookmarks")
  /\ bookmarks' = IF Source(job[i]).bookmarks = {} THEN bookmarks ELSE BookmarksOf(job[i])
  /\ UNCHANGED <<pages, visuals, filters, slicers, choices, hierarchies, text, torn>>

\* load_project demands the page of a visual, its fields, and hierarchies that fit.
PagesHold  == \A v \in DOMAIN visuals : visuals[v].page \in DOMAIN pages
FieldsHold == \A v \in DOMAIN visuals : visuals[v].known
LevelsHold(h) == /\ Cardinality(h.levels) >= 2
                 /\ \A l \in h.levels : <<h.table, l[2]>> \in Columns
HierarchiesHold == \A h \in DOMAIN hierarchies : LevelsHold(hierarchies[h])
Loads == PagesHold /\ FieldsHold /\ HierarchiesHold

\* A user adds a visual to a page of a project that loads.
AddVisual(p) ==
  /\ Loads /\ p \in DOMAIN pages
  /\ [kind |-> "user", n |-> <<p.n>>] \notin DOMAIN visuals
  /\ visuals' = With(visuals, One([kind |-> "user", n |-> <<p.n>>],
                       [page |-> p, from |-> User, source |-> <<p.n>>, known |-> TRUE,
                        item |-> None, links |-> {}]))
  /\ overlapped' = (overlapped \/ \E i \in Importers : Busy(i))
  /\ whole' = None
  /\ UNCHANGED <<pages, filters, slicers, choices, hierarchies, bookmarks,
                 pc, job, text, started, torn>>

-----------------------------------------------------------------------------
Transfer(i) ==
  \/ Begin(i) \/ Fail(i) \/ Clean(i) \/ ReadPages(i) \/ OpenPages(i) \/ PutPages(i)
  \/ PutVisual(i) \/ VisualsWritten(i) \/ PutLinks(i) \/ PutFilters(i)
  \/ ReadSlicers(i) \/ OpenSlicers(i) \/ PutSlicers(i) \/ PutChoices(i)
  \/ ReadHierarchies(i) \/ OpenHierarchies(i) \/ PutHierarchies(i) \/ PutBookmarks(i)

Next == (\E i \in Importers : Transfer(i)) \/ (\E p \in DOMAIN pages : AddVisual(p))
Spec == Init /\ [][Next]_vars

-----------------------------------------------------------------------------
(* What the other readers of the files demand.                                  *)
\* load_slicers and load_report_filters.
SlicersHold == \A s, t \in slicers : s.id = t.id => s = t
FiltersHold == ~ filters.bare

\* The first project is one that its readers take.
ASSUME FirstAssumption ==
  /\ \A v \in DOMAIN FirstProject.visuals :
       /\ DOMAIN FirstProject.visuals[v] = {"page", "from", "source", "known", "item", "links"}
       /\ FirstProject.visuals[v].page \in DOMAIN FirstProject.pages
       /\ FirstProject.visuals[v].known
  /\ \A h \in DOMAIN FirstProject.hierarchies : LevelsHold(FirstProject.hierarchies[h])
  /\ \A s, t \in FirstProject.slicers : s.id = t.id => s = t
  /\ ~ FirstProject.filters.bare

Begun == {started[n] : n \in DOMAIN started}

(* The files are readable, unless a transfer has brought what no reader takes:
   hierarchies that do not fit the model, unknown fields, a report filter without
   condition, two slicers whose ids are the same when cut off.  And a visual has
   its page, unless a workbook has replaced the pages and kept the visuals of
   others, two who wrote at the same time have come in each other's way, or a
   transfer is, or has failed, between opening the file of the pages and writing. *)
UnreadableOnlyBy ==
  /\ ~ PagesHold => \/ overlapped \/ Emptied("pages") \/ "pages" \in torn
                    \/ \E j \in Begun : j.kind = "doc" /\ ~ j.merge
  /\ ~ FieldsHold => \E j \in Begun : \E v \in Taken(j) : ~ Source(j).visuals[v].known
  /\ ~ HierarchiesHold =>
       \E j \in Begun : j.kind = "pbi" /\ \E h \in DOMAIN Discovered(j) : ~ LevelsHold(Discovered(j)[h])
  /\ ~ SlicersHold =>
       \E j \in Begun : \E v, w \in Taken(j) : v # w /\ SlicerId(j.kind, v) = SlicerId(j.kind, w)
  /\ ~ FiltersHold => \E j \in Begun : j.kind = "pbi" /\ Source(j).bare

\* A transfer is between opening and writing the file, or one has failed there, or
\* another has read it in between and so has taken it for empty.
Lost(file) == Emptied(file) \/ file \in torn

(* Transfers that all merge keep what the users made: their pages; their slicers,
   unless a workbook brings slicers; their hierarchies, unless a report has more
   levels of one; all these unless a transfer has come between the opening and
   the writing of this very file by another, or has stopped there.  Their
   bookmarks are kept unless a source brings bookmarks, and their visuals only if
   no report was transferred.                                                   *)
MergesKeep ==
  (\A j \in Begun : j.merge) =>
    /\ \/ \A p \in DOMAIN FirstProject.pages : p \in DOMAIN pages /\ pages[p] = FirstProject.pages[p]
       \/ Lost("pages")
    /\ \/ FirstProject.slicers \subseteq slicers \/ Lost("slicers")
       \/ \E j \in Begun : j.kind = "doc" /\ SlicersOf(j) # {}
    /\ FirstProject.bookmarks \subseteq bookmarks \/ \E j \in Begun : Source(j).bookmarks # {}
    /\ \A h \in DOMAIN FirstProject.hierarchies :
         \/ h \in DOMAIN hierarchies /\ hierarchies[h] = FirstProject.hierarchies[h]
         \/ Lost("hierarchies")
         \/ \E j \in Begun : h \in DOMAIN Discovered(j)
              /\ Cardinality(Discovered(j)[h].levels) > Cardinality(FirstProject.hierarchies[h].levels)
    /\ DOMAIN FirstProject.visuals \subseteq DOMAIN visuals \/ \E j \in Begun : j.kind = "pbi"

(* A report that was transferred by itself and not merged leaves no reference to
   what it did not bring, but in the files it does not write when it has nothing
   for them, and in bookmarks of visuals that were not taken.                   *)
ReferencesResolve ==
  whole # None /\ ~ whole.merge /\ whole.kind = "pbi" =>
    /\ filters.pages \subseteq DOMAIN pages /\ filters.visuals \subseteq DOMAIN visuals
    /\ \A v \in DOMAIN visuals : visuals[v].links \subseteq DOMAIN visuals
    /\ SlicersOf(whole) # {} => \A s \in slicers : s.page \in DOMAIN pages
    /\ \/ choices.visuals \subseteq DOMAIN visuals
       \/ \A v \in DOMAIN visuals : visuals[v].item \in {None, ModelItem}
    /\ Source(whole).bookmarks # {} =>
         /\ \A b \in bookmarks : b.page \in DOMAIN pages \cup {None}
         /\ \/ \A b \in bookmarks : b.targets \subseteq DOMAIN visuals
            \/ \E b \in Source(whole).bookmarks : ~ b.targets \subseteq Taken(whole)

\* verify_report_transfer: pages, visuals and bookmarks are as many as there were.
Verified(j) ==
  /\ Cardinality(DOMAIN pages) = Source(j).pages
  /\ Cardinality(DOMAIN visuals) = Cardinality(DOMAIN Source(j).visuals)
  /\ Cardinality(bookmarks) = Cardinality(Source(j).bookmarks)

(* "ensures nothing is lost during transfer": when the counts are the same after
   a report was transferred by itself, every visual of it has a file, and
   unless it was merged every page is its own.                                  *)
VerifiedIsComplete ==
  whole # None /\ whole.kind = "pbi" /\ Verified(whole) =>
    /\ \A v \in DOMAIN Source(whole).visuals :
         \E id \in DOMAIN visuals : visuals[id].from = whole.from /\ visuals[id].source = v
    /\ whole.merge \/ \A p \in DOMAIN pages : pages[p] = whole.from
=================================================================================
