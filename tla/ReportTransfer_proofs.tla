------------------------- MODULE ReportTransfer_proofs -------------------------
(* Proofs about ReportTransfer, for any sources, any model and first project, and
   any number of importers and transfers.

   What a transfer may have done wrong is said of the transfers that have begun,
   which a running one is (JobsInv).  What is in a file that is rewritten comes
   from what was read of it, so that the invariant says of that (InHand) what it
   says of the file, and a file that is lost is so until it is written (Lost).
   What a transfer does right needs that nobody comes in between: then there is
   one running transfer (Alone), a visual has its page (PagesInv), and the files
   up to the step it is at are what its source makes of them (Progress), until
   the next transfer or user comes (WholeInv).                                   *)
EXTENDS ReportTransfer, FiniteSetTheorems, TLAPS

Files == {"clean", "readPages", "openPages", "pages", "visuals", "links", "filters",
          "readSlicers", "openSlicers", "slicers", "choices", "readHierarchies",
          "openHierarchies", "hierarchies", "bookmarks"}

Stages == [pbi |-> Files,
           doc |-> {"clean", "readPages", "openPages", "pages", "visuals", "slicers",
                    "filters", "bookmarks"}]

Jobs == {j \in [kind : {"pbi", "doc"}, from : DOMAIN Sources, merge : BOOLEAN,
                skip : BOOLEAN, rest : {{}}] : j.kind = Sources[j.from].kind}

Plain(j) == [j EXCEPT !.rest = {}]

JobOK(j) == j = [kind |-> j.kind, from |-> j.from, merge |-> j.merge, skip |-> j.skip,
                 rest |-> j.rest]

JobsInv ==
  /\ started \in Seq(Jobs)
  /\ DOMAIN pc = Importers /\ DOMAIN job = Importers /\ DOMAIN text = Importers
  /\ \A i \in Importers : Busy(i) =>
       /\ JobOK(job[i]) /\ Plain(job[i]) \in Begun /\ job[i].rest \subseteq Taken(job[i])
       /\ pc[i] \in Stages[job[i].kind]

-----------------------------------------------------------------------------
(* The order of the files.                                                    *)
LEMMA FollowingFacts ==
  /\ Following("pbi", "clean") = "readPages"
  /\ Following("pbi", "readPages") = "openPages"
  /\ Following("pbi", "openPages") = "pages"
  /\ Following("pbi", "pages") = "visuals"
  /\ Following("pbi", "visuals") = "links"
  /\ Following("pbi", "links") = "filters"
  /\ Following("pbi", "filters") = "readSlicers"
  /\ Following("pbi", "readSlicers") = "openSlicers"
  /\ Following("pbi", "openSlicers") = "slicers"
  /\ Following("pbi", "slicers") = "choices"
  /\ Following("pbi", "choices") = "readHierarchies"
  /\ Following("pbi", "readHierarchies") = "openHierarchies"
  /\ Following("pbi", "openHierarchies") = "hierarchies"
  /\ Following("pbi", "hierarchies") = "bookmarks"
  /\ Following("pbi", "bookmarks") = "idle"
  /\ Following("doc", "clean") = "readPages"
  /\ Following("doc", "readPages") = "openPages"
  /\ Following("doc", "openPages") = "pages"
  /\ Following("doc", "pages") = "visuals"
  /\ Following("doc", "visuals") = "slicers"
  /\ Following("doc", "slicers") = "filters"
  /\ Following("doc", "filters") = "bookmarks"
  /\ Following("doc", "bookmarks") = "idle"
<1> DEFINE p == Order["pbi"]
           d == Order["doc"]
<1>1. /\ DOMAIN p = 1 .. 16
      /\ p[1] = "clean" /\ p[2] = "readPages" /\ p[3] = "openPages" /\ p[4] = "pages"
      /\ p[5] = "visuals" /\ p[6] = "links" /\ p[7] = "filters" /\ p[8] = "readSlicers"
      /\ p[9] = "openSlicers" /\ p[10] = "slicers" /\ p[11] = "choices"
      /\ p[12] = "readHierarchies" /\ p[13] = "openHierarchies" /\ p[14] = "hierarchies"
      /\ p[15] = "bookmarks" /\ p[16] = "idle"
  BY DEF Order
<1>2. /\ DOMAIN d = 1 .. 9
      /\ d[1] = "clean" /\ d[2] = "readPages" /\ d[3] = "openPages" /\ d[4] = "pages"
      /\ d[5] = "visuals" /\ d[6] = "slicers" /\ d[7] = "filters" /\ d[8] = "bookmarks"
      /\ d[9] = "idle"
  BY DEF Order
<1> HIDE DEF p, d
<1>3. ASSUME NEW n \in 1 .. 15 PROVE Following("pbi", p[n]) = p[n + 1]
  <2>1. \A m \in DOMAIN p : p[m] = p[n] => m = n
    BY <1>1
  <2>2. (CHOOSE m \in DOMAIN p : p[m] = p[n]) = n
    BY <1>1, <2>1
  <2> QED
    BY <2>2 DEF Following, p
<1>4. ASSUME NEW n \in 1 .. 8 PROVE Following("doc", d[n]) = d[n + 1]
  <2>1. \A m \in DOMAIN d : d[m] = d[n] => m = n
    BY <1>2
  <2>2. (CHOOSE m \in DOMAIN d : d[m] = d[n]) = n
    BY <1>2, <2>1
  <2> QED
    BY <2>2 DEF Following, d
<1>5. /\ Following("pbi", p[1]) = p[2] /\ Following("pbi", p[2]) = p[3]
      /\ Following("pbi", p[3]) = p[4] /\ Following("pbi", p[4]) = p[5]
      /\ Following("pbi", p[5]) = p[6] /\ Following("pbi", p[6]) = p[7]
      /\ Following("pbi", p[7]) = p[8] /\ Following("pbi", p[8]) = p[9]
      /\ Following("pbi", p[9]) = p[10] /\ Following("pbi", p[10]) = p[11]
      /\ Following("pbi", p[11]) = p[12] /\ Following("pbi", p[12]) = p[13]
      /\ Following("pbi", p[13]) = p[14] /\ Following("pbi", p[14]) = p[15]
      /\ Following("pbi", p[15]) = p[16]
  BY <1>3
<1>6. /\ Following("doc", d[1]) = d[2] /\ Following("doc", d[2]) = d[3]
      /\ Following("doc", d[3]) = d[4] /\ Following("doc", d[4]) = d[5]
      /\ Following("doc", d[5]) = d[6] /\ Following("doc", d[6]) = d[7]
      /\ Following("doc", d[7]) = d[8] /\ Following("doc", d[8]) = d[9]
  BY <1>4
<1> QED
  BY <1>1, <1>2, <1>5, <1>6

LEMMA StageFacts ==
  ASSUME NEW kind \in {"pbi", "doc"}, NEW file \in Stages[kind]
  PROVE  Following(kind, file) \in Stages[kind] \cup {"idle"}
BY FollowingFacts DEF Stages, Files

-----------------------------------------------------------------------------
(* Which step changes what.                                                   *)
LEMMA BegunGrows ==
  ASSUME started \in Seq(Jobs), NEW j \in Jobs, started' = Append(started, j)
  PROVE  started' \in Seq(Jobs) /\ Begun' = Begun \cup {j}
BY DEF Begun

LEMMA BegunFacts ==
  ASSUME JobsInv, NEW j \in Begun
  PROVE  j \in Jobs
BY DEF JobsInv, Begun

\* A running transfer is one that has begun.
LEMMA AsBegun ==
  ASSUME JobsInv, NEW i \in Importers, Busy(i)
  PROVE  \E j \in Begun : /\ j.kind = job[i].kind /\ j.from = job[i].from
                          /\ j.merge = job[i].merge /\ j.skip = job[i].skip
                          /\ job[i].kind \in {"pbi", "doc"} /\ job[i].from \in DOMAIN Sources
                          /\ job[i].merge \in BOOLEAN
                          /\ job[i].kind = Sources[job[i].from].kind
                          /\ Source(j) = Source(job[i])
                          /\ Taken(j) = Taken(job[i])
                          /\ Discovered(j) = Discovered(job[i])
                          /\ SlicersOf(j) = SlicersOf(job[i])
                          /\ Found(j) = Found(job[i])
<1> DEFINE k == job[i]
           j == Plain(k)
<1>1. JobOK(k) /\ j \in Begun
  BY DEF JobsInv
<1>2. k = [kind |-> k.kind, from |-> k.from, merge |-> k.merge, skip |-> k.skip, rest |-> k.rest]
  BY <1>1 DEF JobOK
<1>3. /\ j.kind = k.kind /\ j.from = k.from /\ j.merge = k.merge /\ j.skip = k.skip
  BY <1>2 DEF Plain
<1>4. j \in Jobs
  BY <1>1, BegunFacts
<1> HIDE DEF k, j
<1>5. k.kind \in {"pbi", "doc"} /\ k.from \in DOMAIN Sources /\ k.merge \in BOOLEAN
      /\ k.kind = Sources[k.from].kind
  BY <1>3, <1>4 DEF Jobs
<1>6. Source(j) = Source(k)
  BY <1>3 DEF Source
<1>7. Taken(j) = Taken(k)
  BY <1>3, <1>6 DEF Taken
<1>8. Found(j) = Found(k)
  BY <1>6, <1>7 DEF Found
<1>9. Discovered(j) = Discovered(k)
  BY <1>3, <1>8 DEF Discovered
<1>10. SlicersOf(j) = SlicersOf(k)
  BY <1>3, <1>6, <1>7 DEF SlicersOf
<1> QED
  BY <1>1, <1>3, <1>5, <1>6, <1>7, <1>8, <1>9, <1>10 DEF k

LEMMA TurnFacts ==
  ASSUME JobsInv, NEW i \in Importers, NEW file \in Files, Turn(i, file)
  PROVE  /\ Busy(i) /\ file \in Stages[job[i].kind]
         /\ DOMAIN pc' = Importers /\ UNCHANGED <<job, started, overlapped>> /\ Begun' = Begun
         /\ pc'[i] = Following(job[i].kind, file)
         /\ \A k \in Importers \ {i} : pc'[k] = pc[k]
BY DEF Turn, Busy, JobsInv, Begun, Files

LEMMA OnlyWriters ==
  ASSUME [Next]_vars
  PROVE  /\ pages' = pages \/ \E i \in Importers : OpenPages(i) \/ PutPages(i)
         /\ filters' = filters \/ \E i \in Importers : PutFilters(i)
         /\ slicers' = slicers \/ \E i \in Importers : OpenSlicers(i) \/ PutSlicers(i)
         /\ choices' = choices \/ \E i \in Importers : PutChoices(i)
         /\ \/ hierarchies' = hierarchies
            \/ \E i \in Importers : OpenHierarchies(i) \/ PutHierarchies(i)
         /\ bookmarks' = bookmarks \/ \E i \in Importers : PutBookmarks(i)
         /\ \/ visuals' = visuals
            \/ \E i \in Importers : Clean(i) \/ PutVisual(i) \/ PutLinks(i)
            \/ \E p \in DOMAIN pages : AddVisual(p)
<1>1. ASSUME NEW i \in Importers,
             \/ Begin(i) \/ Fail(i) \/ VisualsWritten(i)
             \/ ReadPages(i) \/ ReadSlicers(i) \/ ReadHierarchies(i)
      PROVE  UNCHANGED files
  BY <1>1 DEF Begin, Fail, VisualsWritten, ReadPages, ReadSlicers, ReadHierarchies, Read
<1>2. ASSUME NEW i \in Importers, Clean(i) \/ PutVisual(i) \/ PutLinks(i)
      PROVE  UNCHANGED <<pages, filters, slicers, choices, hierarchies, bookmarks>>
  BY <1>2 DEF Clean, PutVisual, PutLinks
<1>3. ASSUME NEW p \in DOMAIN pages, AddVisual(p)
      PROVE  UNCHANGED <<pages, filters, slicers, choices, hierarchies, bookmarks>>
  BY <1>3 DEF AddVisual
<1>4. ASSUME NEW i \in Importers, OpenPages(i) \/ PutPages(i)
      PROVE  UNCHANGED <<visuals, filters, slicers, choices, hierarchies, bookmarks>>
  BY <1>4 DEF OpenPages, PutPages
<1>5. ASSUME NEW i \in Importers, PutFilters(i)
      PROVE  UNCHANGED <<pages, visuals, slicers, choices, hierarchies, bookmarks>>
  BY <1>5 DEF PutFilters
<1>6. ASSUME NEW i \in Importers, OpenSlicers(i) \/ PutSlicers(i)
      PROVE  UNCHANGED <<pages, visuals, filters, choices, hierarchies, bookmarks>>
  BY <1>6 DEF OpenSlicers, PutSlicers
<1>7. ASSUME NEW i \in Importers, PutChoices(i)
      PROVE  UNCHANGED <<pages, visuals, filters, slicers, hierarchies, bookmarks>>
  BY <1>7 DEF PutChoices
<1>8. ASSUME NEW i \in Importers, OpenHierarchies(i) \/ PutHierarchies(i)
      PROVE  UNCHANGED <<pages, visuals, filters, slicers, choices, bookmarks>>
  BY <1>8 DEF OpenHierarchies, PutHierarchies
<1>9. ASSUME NEW i \in Importers, PutBookmarks(i)
      PROVE  UNCHANGED <<pages, visuals, filters, slicers, choices, hierarchies>>
  BY <1>9 DEF PutBookmarks
<1>10. CASE UNCHANGED vars
  BY <1>10 DEF vars, files
<1>11. CASE Next
  BY <1>1, <1>2, <1>3, <1>4, <1>5, <1>6, <1>7, <1>8, <1>9, <1>11 DEF Next, Transfer, files
<1> QED
  BY <1>10, <1>11
-----------------------------------------------------------------------------
(* The importers: what they carry has begun.                                  *)
LEMMA TurnJobs ==
  ASSUME JobsInv, NEW i \in Importers, NEW file \in Files, Turn(i, file),
         DOMAIN text' = Importers
  PROVE  JobsInv' /\ Begun \subseteq Begun'
<1>1. /\ Busy(i) /\ file \in Stages[job[i].kind]
      /\ DOMAIN pc' = Importers /\ UNCHANGED <<job, started, overlapped>> /\ Begun' = Begun
      /\ pc'[i] = Following(job[i].kind, file)
      /\ \A k \in Importers \ {i} : pc'[k] = pc[k]
  BY TurnFacts
<1>2. job[i].kind \in {"pbi", "doc"}
  BY <1>1, AsBegun
<1>3. pc'[i] \in Stages[job[i].kind] \cup {"idle"}
  BY <1>1, <1>2, StageFacts
<1>4. ASSUME NEW k \in Importers, pc'[k] # "idle"
      PROVE  /\ JobOK(job'[k]) /\ Plain(job'[k]) \in Begun' /\ job'[k].rest \subseteq Taken(job'[k])
             /\ pc'[k] \in Stages[job'[k].kind]
  <2>1. job'[k] = job[k] /\ Begun' = Begun
    BY <1>1
  <2>2. Busy(k)
    BY <1>1, <1>4 DEF Busy
  <2>3. /\ JobOK(job[k]) /\ Plain(job[k]) \in Begun /\ job[k].rest \subseteq Taken(job[k])
        /\ pc[k] \in Stages[job[k].kind]
    BY <2>2 DEF JobsInv
  <2>4. pc'[k] \in Stages[job[k].kind]
    BY <1>1, <1>3, <1>4, <2>3
  <2> QED
    BY <2>1, <2>3, <2>4
<1> QED
  BY <1>1, <1>4 DEF JobsInv, Busy

LEMMA BeginJobs ==
  ASSUME JobsInv, NEW i \in Importers, Begin(i)
  PROVE  JobsInv' /\ Begun \subseteq Begun'
<1>1. PICK from \in DOMAIN Sources, merge \in BOOLEAN, skip \in BOOLEAN :
        LET j == [kind |-> Sources[from].kind, from |-> from, merge |-> merge,
                  skip |-> skip, rest |-> {}]
        IN /\ job' = [job EXCEPT ![i] = [j EXCEPT !.rest = Taken(j)]]
           /\ started' = Append(started, j)
  BY DEF Begin
<1> DEFINE j == [kind |-> Sources[from].kind, from |-> from, merge |-> merge,
                 skip |-> skip, rest |-> {}]
           new == [j EXCEPT !.rest = Taken(j)]
<1>2. j \in Jobs /\ Taken(j) = Taken(new) /\ Plain(new) = j /\ JobOK(new) /\ new.rest = Taken(j)
      /\ new.kind = Sources[from].kind
  <2>1. j.kind = Sources[from].kind /\ j.from = from /\ j.skip = skip
    OBVIOUS
  <2>2. j \in Jobs
    BY SourcesAssumption DEF Jobs
  <2>3. new = [kind |-> Sources[from].kind, from |-> from, merge |-> merge,
               skip |-> skip, rest |-> Taken(j)]
    OBVIOUS
  <2> HIDE DEF new
  <2>4. new.from = j.from /\ new.skip = j.skip /\ new.rest = Taken(j)
        /\ new.kind = Sources[from].kind /\ new.merge = merge
    BY <2>3
  <2>5. Taken(new) = Taken(j)
    BY <2>4 DEF Taken, Source
  <2>6. Plain(new) = j
    BY <2>3 DEF Plain
  <2>7. JobOK(new)
    <3> DEFINE T == Taken(j)
    <3>1. new = [kind |-> Sources[from].kind, from |-> from, merge |-> merge, skip |-> skip, rest |-> T]
      BY <2>3
    <3> HIDE DEF T
    <3> QED
      BY <3>1 DEF JobOK
  <2> QED
    BY <2>2, <2>4, <2>5, <2>6, <2>7
<1>3. started' \in Seq(Jobs) /\ Begun' = Begun \cup {j}
  <2> HIDE DEF j
  <2>1. started \in Seq(Jobs)
    BY DEF JobsInv
  <2>2. started' = Append(started, j) /\ j \in Jobs
    BY <1>1, <1>2 DEF j
  <2> QED
    BY <2>1, <2>2, BegunGrows
<1>4. /\ DOMAIN job' = Importers /\ job'[i] = new /\ \A k \in Importers \ {i} : job'[k] = job[k]
  BY <1>1 DEF JobsInv
<1>5. /\ DOMAIN pc' = Importers /\ pc'[i] = "clean" /\ \A k \in Importers \ {i} : pc'[k] = pc[k]
      /\ DOMAIN text' = Importers
  BY DEF JobsInv, Begin
<1>6. Sources[from].kind \in {"pbi", "doc"}
  BY SourcesAssumption
<1> HIDE DEF new, j
<1>7. ASSUME NEW k \in Importers, pc'[k] # "idle"
      PROVE  /\ JobOK(job'[k]) /\ Plain(job'[k]) \in Begun' /\ job'[k].rest \subseteq Taken(job'[k])
             /\ pc'[k] \in Stages[job'[k].kind]
  <2>1. CASE k = i
    BY <1>2, <1>3, <1>4, <1>5, <1>6, <2>1 DEF Stages, Files
  <2>2. CASE k # i
    BY <1>3, <1>4, <1>5, <1>7, <2>2 DEF JobsInv, Busy
  <2> QED
    BY <2>1, <2>2
<1> QED
  BY <1>3, <1>4, <1>5, <1>7 DEF JobsInv, Busy

LEMMA PutVisualJobs ==
  ASSUME JobsInv, NEW i \in Importers, PutVisual(i)
  PROVE  JobsInv' /\ Begun \subseteq Begun'
<1>1. PICK v \in job[i].rest : job' = [job EXCEPT ![i].rest = @ \ {v}]
  BY DEF PutVisual
<1>2. UNCHANGED <<pc, text, started>> /\ Busy(i)
  BY DEF PutVisual, Busy
<1> DEFINE k == job[i]
           new == [k EXCEPT !.rest = @ \ {v}]
<1>3. job'[i] = new /\ DOMAIN job' = Importers /\ \A m \in Importers \ {i} : job'[m] = job[m]
  BY <1>1 DEF JobsInv
<1>4. JobOK(k) /\ Plain(k) \in Begun /\ k.rest \subseteq Taken(k) /\ pc[i] \in Stages[k.kind]
  BY <1>2 DEF JobsInv
<1>5. k = [kind |-> k.kind, from |-> k.from, merge |-> k.merge, skip |-> k.skip, rest |-> k.rest]
  BY <1>4 DEF JobOK
<1> HIDE DEF k
<1>6. new = [kind |-> k.kind, from |-> k.from, merge |-> k.merge, skip |-> k.skip, rest |-> k.rest \ {v}]
  BY <1>5
<1> HIDE DEF new
<1>7. new.from = k.from /\ new.skip = k.skip /\ new.kind = k.kind /\ new.rest = k.rest \ {v}
  BY <1>6
<1>8. Taken(new) = Taken(k)
  BY <1>7 DEF Taken, Source
<1>9. JobOK(new)
  BY <1>6 DEF JobOK
<1>10. Plain(new) = Plain(k)
  BY <1>5, <1>6 DEF Plain
<1>11. ASSUME NEW m \in Importers, pc'[m] # "idle"
      PROVE  /\ JobOK(job'[m]) /\ Plain(job'[m]) \in Begun' /\ job'[m].rest \subseteq Taken(job'[m])
             /\ pc'[m] \in Stages[job'[m].kind]
  <2>1. CASE m = i
    BY <1>2, <1>3, <1>4, <1>7, <1>8, <1>9, <1>10, <2>1 DEF Begun
  <2>2. CASE m # i
    BY <1>2, <1>3, <1>11, <2>2 DEF JobsInv, Busy, Begun
  <2> QED
    BY <2>1, <2>2
<1> QED
  BY <1>2, <1>3, <1>11 DEF JobsInv, Busy, Begun

\* The steps of a transfer that go on to what comes next.
Turns(i) ==
  \/ Clean(i) \/ ReadPages(i) \/ OpenPages(i) \/ PutPages(i) \/ VisualsWritten(i)
  \/ PutLinks(i) \/ PutFilters(i) \/ ReadSlicers(i) \/ OpenSlicers(i) \/ PutSlicers(i)
  \/ PutChoices(i) \/ ReadHierarchies(i) \/ OpenHierarchies(i) \/ PutHierarchies(i)
  \/ PutBookmarks(i)

\* Which of them it is, and what it makes of the texts that were read.
LEMMA TurnsTurn ==
  ASSUME JobsInv, NEW i \in Importers, Turns(i)
  PROVE  /\ \E file \in Files :
              /\ Turn(i, file)
              /\ file = "clean" => Clean(i)
              /\ file = "readPages" => ReadPages(i)
              /\ file = "openPages" => OpenPages(i)
              /\ file = "pages" => PutPages(i)
              /\ file = "readSlicers" => ReadSlicers(i)
              /\ file = "openSlicers" => OpenSlicers(i)
              /\ file = "slicers" => PutSlicers(i)
              /\ file = "readHierarchies" => ReadHierarchies(i)
              /\ file = "openHierarchies" => OpenHierarchies(i)
              /\ file = "hierarchies" => PutHierarchies(i)
         /\ DOMAIN text' = Importers /\ \A k \in Importers \ {i} : text'[k] = text[k]
         /\ torn \subseteq torn'
<1>1. CASE \/ Clean(i) \/ OpenPages(i) \/ VisualsWritten(i) \/ PutLinks(i) \/ PutFilters(i)
           \/ OpenSlicers(i) \/ PutChoices(i) \/ OpenHierarchies(i) \/ PutBookmarks(i)
  <2>1. text' = text /\ torn' = torn
    BY <1>1 DEF Clean, OpenPages, VisualsWritten, PutLinks, PutFilters, OpenSlicers, PutChoices,
                OpenHierarchies, PutBookmarks
  <2> QED
    BY <1>1, <2>1 DEF Files, JobsInv, Clean, OpenPages, VisualsWritten, PutLinks, PutFilters,
                      OpenSlicers, PutChoices, OpenHierarchies, PutBookmarks
<1>2. CASE PutPages(i) \/ PutSlicers(i) \/ PutHierarchies(i)
  <2>1. text' = [text EXCEPT ![i] = Unread] /\ torn' = torn
    BY <1>2 DEF PutPages, PutSlicers, PutHierarchies
  <2> QED
    BY <1>2, <2>1 DEF Files, JobsInv, PutPages, PutSlicers, PutHierarchies
<1>3. CASE ReadPages(i) \/ ReadSlicers(i) \/ ReadHierarchies(i)
  <2>1. (\E content : text' = [text EXCEPT ![i] = content]) /\ torn \subseteq torn'
    BY <1>3 DEF ReadPages, ReadSlicers, ReadHierarchies, Read
  <2>2. DOMAIN text' = Importers /\ \A k \in Importers \ {i} : text'[k] = text[k]
    BY <2>1 DEF JobsInv
  <2> QED
    BY <1>3, <2>1, <2>2 DEF Files, ReadPages, ReadSlicers, ReadHierarchies
<1> QED
  BY <1>1, <1>2, <1>3 DEF Turns

LEMMA JobsStep ==
  ASSUME JobsInv, [Next]_vars
  PROVE  JobsInv' /\ Begun \subseteq Begun'
<1>1. ASSUME NEW i \in Importers, Transfer(i) PROVE JobsInv' /\ Begun \subseteq Begun'
  <2>1. CASE Begin(i)
    BY <2>1, BeginJobs
  <2>2. CASE Fail(i)
    <3>1. /\ DOMAIN pc' = Importers /\ UNCHANGED <<job, started>> /\ pc'[i] = "idle"
          /\ \A k \in Importers \ {i} : pc'[k] = pc[k]
          /\ DOMAIN text' = Importers
      BY <2>2 DEF Fail, JobsInv
    <3> QED
      BY <3>1 DEF JobsInv, Busy, Begun
  <2>3. CASE PutVisual(i)
    BY <2>3, PutVisualJobs
  <2>4. CASE Turns(i)
    <3>1. PICK file \in Files : Turn(i, file)
      BY <2>4, TurnsTurn
    <3>2. DOMAIN text' = Importers
      BY <2>4, TurnsTurn
    <3> QED
      BY <3>1, <3>2, TurnJobs
  <2> QED
    BY <1>1, <2>1, <2>2, <2>3, <2>4 DEF Transfer, Turns
<1>2. ASSUME NEW p \in DOMAIN pages, AddVisual(p) PROVE JobsInv' /\ Begun \subseteq Begun'
  BY <1>2 DEF AddVisual, JobsInv, Busy, Begun
<1>3. CASE UNCHANGED vars
  BY <1>3 DEF vars, JobsInv, Busy, Begun
<1> QED
  BY <1>1, <1>2, <1>3 DEF Next

-----------------------------------------------------------------------------
(* The inductive invariant.                                                   *)
\* A visual file has all the parts of one.
VisualsAreWhole ==
  \A v \in DOMAIN visuals :
    DOMAIN visuals[v] = {"page", "from", "source", "known", "item", "links"}

\* The files that are read, opened and written; the stage in which they are opened.
Rewritten == {"pages", "slicers", "hierarchies"}
Opening == [pages |-> "openPages", slicers |-> "openSlicers", hierarchies |-> "openHierarchies"]

\* Importer i has read the file and will write what it makes of it.
InHand(i, file) == pc[i] \in {Opening[file], file} /\ Rewrites(job[i], file)

\* A transfer that does not merge has read no slicers.
SlicerTexts == \A i \in Importers :
                 InHand(i, "slicers") /\ ~ job[i].merge => text[i].slicers = {}

\* What a transfer may bring that no reader takes.
FieldsInv ==
  FieldsHold \/ \E j \in Begun : \E v \in Taken(j) : ~ Source(j).visuals[v].known

\* Hierarchies that fit, or that a report has brought.
HaveCause(found, begun) ==
  \A h \in DOMAIN found :
    \/ LevelsHold(found[h])
    \/ \E j \in begun : j.kind = "pbi" /\ h \in DOMAIN Discovered(j)
                        /\ found[h] = Discovered(j)[h]

HierarchiesInv ==
  /\ HaveCause(hierarchies, Begun)
  /\ \A i \in Importers : InHand(i, "hierarchies") => HaveCause(text[i].hierarchies, Begun)

Distinct(found) == \A s, t \in found : s.id = t.id => s = t

SlicersInv ==
  \/ /\ Distinct(slicers)
     /\ \A i \in Importers : InHand(i, "slicers") => Distinct(text[i].slicers)
  \/ \E j \in Begun : \E v, w \in Taken(j) : v # w /\ SlicerId(j.kind, v) = SlicerId(j.kind, w)

FiltersInv == FiltersHold \/ \E j \in Begun : j.kind = "pbi" /\ Source(j).bare

\* What the user has made is in a file, or in what was read of it.
PagesAmong(found) ==
  \A p \in DOMAIN FirstProject.pages : p \in DOMAIN found /\ found[p] = FirstProject.pages[p]

SlicersAmong(found, begun) ==
  \/ FirstProject.slicers \subseteq found
  \/ \E j \in begun : j.kind = "doc" /\ SlicersOf(j) # {}

HierarchiesAmong(found, begun) ==
  \A h \in DOMAIN FirstProject.hierarchies :
    \/ h \in DOMAIN found /\ found[h] = FirstProject.hierarchies[h]
    \/ \E j \in begun : h \in DOMAIN Discovered(j)
         /\ Cardinality(Discovered(j)[h].levels) > Cardinality(FirstProject.hierarchies[h].levels)

PagesSafe ==
  /\ PagesAmong(pages) \/ Lost("pages")
  /\ \A i \in Importers : InHand(i, "pages") => PagesAmong(text[i].pages) \/ "pages" \in torn

SlicersSafe ==
  /\ SlicersAmong(slicers, Begun) \/ Lost("slicers")
  /\ \A i \in Importers :
       InHand(i, "slicers") => SlicersAmong(text[i].slicers, Begun) \/ "slicers" \in torn

HierarchiesSafe ==
  /\ HierarchiesAmong(hierarchies, Begun) \/ Lost("hierarchies")
  /\ \A i \in Importers :
       InHand(i, "hierarchies") =>
         HierarchiesAmong(text[i].hierarchies, Begun) \/ "hierarchies" \in torn

OthersSafe ==
  /\ FirstProject.bookmarks \subseteq bookmarks \/ \E j \in Begun : Source(j).bookmarks # {}
  /\ DOMAIN FirstProject.visuals \subseteq DOMAIN visuals \/ \E j \in Begun : j.kind = "pbi"

MergesInv ==
  (\A j \in Begun : j.merge) => PagesSafe /\ SlicersSafe /\ HierarchiesSafe /\ OthersSafe

CauseInv == /\ VisualsAreWhole /\ FieldsInv /\ HierarchiesInv /\ SlicersInv /\ SlicerTexts
            /\ FiltersInv /\ MergesInv

\* As long as nobody has come in between, one transfer runs at a time.
Alone == ~ overlapped => \A i \in Importers, k \in Importers : Busy(i) /\ Busy(k) => i = k

\* A visual has its page, and one that is to come will have it.
PagesInv ==
  ~ overlapped /\ (\A j \in Begun : j.kind = "doc" => j.merge) =>
    /\ PagesHold \/ Lost("pages")
    /\ \A i \in Importers :
         /\ pc[i] \in {"readPages", "openPages", "pages"} /\ job[i].kind = "pbi"
              => DOMAIN visuals = {}
         /\ InHand(i, "pages") /\ job[i].kind = "doc"
              => \/ \A v \in DOMAIN visuals : visuals[v].page \in DOMAIN text[i].pages
                 \/ "pages" \in torn
         /\ pc[i] = "visuals" => PagesOf(job[i]) \subseteq DOMAIN pages

\* The visuals are those of the names of source j.
VisualsAre(j, names) ==
  /\ DOMAIN visuals = IdsOf(j, names)
  /\ \A id \in DOMAIN visuals :
       /\ visuals[id].links \subseteq IdsTaken(j)
       /\ \E v \in names : /\ id = VisualId(j.kind, v)
                           /\ visuals[id].from = j.from /\ visuals[id].source = v

\* The stages before the visuals, and those after the filters, slicers and choices.
Early == {"clean", "readPages", "openPages", "pages"}
AfterChoices == {"readHierarchies", "openHierarchies", "hierarchies", "bookmarks", "idle"}
AfterSlicers == {"choices"} \cup AfterChoices
AfterFilters == {"readSlicers", "openSlicers", "slicers"} \cup AfterSlicers

\* What a report has left in the files when its transfer is at a stage.
Progress(j, stage) ==
  /\ stage \in Early => j.rest = Taken(j)
  /\ stage \in Early \ {"clean"} => DOMAIN visuals = {}
  /\ stage \notin Early => j.merge \/ pages = [p \in PagesOf(j) |-> j.from]
  /\ stage = "visuals" => VisualsAre(j, Taken(j) \ j.rest)
  /\ stage \notin Early \cup {"visuals"} => VisualsAre(j, Taken(j))
  /\ stage \in AfterFilters =>
       filters.pages \subseteq PagesOf(j) /\ filters.visuals \subseteq IdsTaken(j)
  /\ stage \in AfterSlicers =>
       j.merge \/ SlicersOf(j) = {} \/ \A s \in slicers : s.page \in PagesOf(j)
  /\ stage \in AfterChoices =>
       \/ choices.visuals \subseteq DOMAIN visuals
       \/ \A v \in DOMAIN visuals : visuals[v].item \in {None, ModelItem}
  /\ stage = "idle" /\ Source(j).bookmarks # {} => bookmarks = BookmarksOf(j)

RunInv ==
  ~ overlapped =>
    \A i \in Importers : Busy(i) /\ job[i].kind = "pbi" => Progress(job[i], pc[i])

WholeInv ==
  whole # None =>
    /\ \A i \in Importers : ~ Busy(i)
    /\ whole.from \in DOMAIN Sources
    /\ whole.kind = "pbi" => Progress(whole, "idle")

IInv == JobsInv /\ CauseInv /\ Alone /\ PagesInv /\ RunInv /\ WholeInv

-----------------------------------------------------------------------------
(* What the operators build.                                                  *)
LEMMA WithFacts ==
  ASSUME NEW f, NEW g
  PROVE  /\ DOMAIN With(f, g) = DOMAIN f \cup DOMAIN g
         /\ \A x \in DOMAIN g : With(f, g)[x] = g[x]
         /\ \A x \in DOMAIN f : x \notin DOMAIN g => With(f, g)[x] = f[x]
BY DEF With

LEMMA VisualFacts ==
  ASSUME NEW j, NEW v
  PROVE  /\ DOMAIN Visual(j, v) = {"page", "from", "source", "known", "item", "links"}
         /\ Visual(j, v).page = PageId(j.kind, Source(j).visuals[v].page)
         /\ Visual(j, v).from = j.from /\ Visual(j, v).source = v
         /\ Visual(j, v).known = Source(j).visuals[v].known
         /\ j.kind = "pbi" => Visual(j, v).links = {}
<1> DEFINE s == Source(j).visuals[v]
           i == IF j.kind = "pbi" THEN s.item ELSE None
           l == IF j.kind = "doc"
                THEN {VisualId("doc", k[2]) : k \in {m \in Source(j).links :
                        m[1] = v /\ m[2] \in DOMAIN Source(j).visuals}}
                ELSE {}
<1>1. Visual(j, v) = [page |-> PageId(j.kind, s.page), from |-> j.from, source |-> v,
                      known |-> s.known, item |-> i, links |-> l]
  BY DEF Visual
<1>2. j.kind = "pbi" => l = {}
  OBVIOUS
<1> HIDE DEF i, l
<1> QED
  BY <1>1, <1>2

\* A visual that is put is one of those taken, and on a page of its source.
LEMMA PutVisualFacts ==
  ASSUME JobsInv, NEW i \in Importers, PutVisual(i)
  PROVE  \E v \in job[i].rest :
           /\ Busy(i) /\ pc[i] = "visuals" /\ v \in Taken(job[i])
           /\ DOMAIN visuals' = DOMAIN visuals \cup {VisualId(job[i].kind, v)}
           /\ visuals'[VisualId(job[i].kind, v)] = Visual(job[i], v)
           /\ \A id \in DOMAIN visuals :
                id # VisualId(job[i].kind, v) => visuals'[id] = visuals[id]
           /\ Visual(job[i], v).page \in PagesOf(job[i])
           /\ job' = [job EXCEPT ![i].rest = @ \ {v}]
           /\ UNCHANGED <<pages, filters, slicers, choices, hierarchies, bookmarks,
                          pc, started, overlapped, whole>>
<1>1. PICK v \in job[i].rest :
        /\ visuals' = With(visuals, One(VisualId(job[i].kind, v), Visual(job[i], v)))
        /\ job' = [job EXCEPT ![i].rest = @ \ {v}]
  BY DEF PutVisual
<1>2. Busy(i) /\ pc[i] = "visuals" /\ v \in Taken(job[i])
  BY DEF PutVisual, Busy, JobsInv
<1> DEFINE g == One(VisualId(job[i].kind, v), Visual(job[i], v))
<1>3. DOMAIN g = {VisualId(job[i].kind, v)} /\ g[VisualId(job[i].kind, v)] = Visual(job[i], v)
  BY DEF One
<1>4. /\ DOMAIN visuals' = DOMAIN visuals \cup {VisualId(job[i].kind, v)}
      /\ visuals'[VisualId(job[i].kind, v)] = Visual(job[i], v)
      /\ \A id \in DOMAIN visuals :
           id # VisualId(job[i].kind, v) => visuals'[id] = visuals[id]
  <2> HIDE DEF g
  <2>1. visuals' = With(visuals, g)
    BY <1>1 DEF g
  <2>2. /\ DOMAIN With(visuals, g) = DOMAIN visuals \cup DOMAIN g
        /\ \A x \in DOMAIN g : With(visuals, g)[x] = g[x]
        /\ \A x \in DOMAIN visuals : x \notin DOMAIN g => With(visuals, g)[x] = visuals[x]
    BY WithFacts
  <2> QED
    BY <1>3, <2>1, <2>2
<1>5. Visual(job[i], v).page \in PagesOf(job[i])
  <2>1. job[i].from \in DOMAIN Sources
    BY <1>2, AsBegun
  <2>2. v \in DOMAIN Source(job[i]).visuals
    BY <1>2 DEF Taken
  <2>3. Source(job[i]).visuals[v].page \in 1 .. Source(job[i]).pages
    BY <2>1, <2>2, SourcesAssumption DEF Source
  <2>4. PageId(job[i].kind, Source(job[i]).visuals[v].page) \in PagesOf(job[i])
    BY <2>3 DEF PagesOf
  <2> QED
    BY <2>4, VisualFacts
<1> QED
  BY <1>1, <1>2, <1>4, <1>5 DEF PutVisual

\* Links are put into files that are there, and change nothing else of them.
LEMMA PutLinksFacts ==
  ASSUME JobsInv, VisualsAreWhole, NEW i \in Importers, PutLinks(i)
  PROVE  /\ Busy(i) /\ pc[i] = "links" /\ job[i].kind = "pbi" /\ pc'[i] = "filters"
         /\ DOMAIN visuals' = DOMAIN visuals
         /\ \A id \in DOMAIN visuals :
              /\ DOMAIN visuals'[id] = DOMAIN visuals[id]
              /\ visuals'[id].page = visuals[id].page /\ visuals'[id].from = visuals[id].from
              /\ visuals'[id].source = visuals[id].source
              /\ visuals'[id].known = visuals[id].known /\ visuals'[id].item = visuals[id].item
              /\ visuals'[id].links \in {visuals[id].links, LinksOf(job[i], id)}
         /\ UNCHANGED <<pages, filters, slicers, choices, hierarchies, bookmarks>>
<1>1. Turn(i, "links")
  BY DEF PutLinks
<1>2. Busy(i) /\ "links" \in Stages[job[i].kind] /\ pc'[i] = Following(job[i].kind, "links")
  BY <1>1, TurnFacts DEF Files
<1>3. job[i].kind \in {"pbi", "doc"}
  BY <1>2, AsBegun
<1>4. job[i].kind = "pbi"
  BY <1>2, <1>3 DEF Stages
<1>5. pc'[i] = "filters" /\ pc[i] = "links"
  BY <1>1, <1>2, <1>4, FollowingFacts DEF Turn
<1>6. visuals' = [id \in DOMAIN visuals |->
                    IF LinksOf(job[i], id) = {} THEN visuals[id]
                    ELSE [visuals[id] EXCEPT !.links = LinksOf(job[i], id)]]
  BY DEF PutLinks
<1>7. ASSUME NEW id \in DOMAIN visuals
      PROVE  /\ DOMAIN visuals'[id] = DOMAIN visuals[id]
             /\ visuals'[id].page = visuals[id].page /\ visuals'[id].from = visuals[id].from
             /\ visuals'[id].source = visuals[id].source
             /\ visuals'[id].known = visuals[id].known /\ visuals'[id].item = visuals[id].item
             /\ visuals'[id].links \in {visuals[id].links, LinksOf(job[i], id)}
  <2> DEFINE old == visuals[id]
             new == visuals'[id]
             l   == LinksOf(job[i], id)
  <2>1. DOMAIN old = {"page", "from", "source", "known", "item", "links"}
    BY DEF VisualsAreWhole
  <2>2. new = IF l = {} THEN old ELSE [old EXCEPT !.links = l]
    BY <1>6
  <2> HIDE DEF old, new, l
  <2>3. /\ DOMAIN new = DOMAIN old
        /\ new.page = old.page /\ new.from = old.from /\ new.source = old.source
        /\ new.known = old.known /\ new.item = old.item /\ new.links \in {old.links, l}
    BY <2>1, <2>2
  <2> QED
    BY <2>3 DEF old, new, l
<1> QED
  BY <1>2, <1>4, <1>5, <1>6, <1>7 DEF PutLinks

LEMMA CleanFacts ==
  ASSUME JobsInv, NEW i \in Importers, Clean(i)
  PROVE  /\ Busy(i) /\ pc[i] = "clean" /\ pc'[i] = "readPages"
         /\ DOMAIN visuals' \subseteq DOMAIN visuals
         /\ \A id \in DOMAIN visuals' : visuals'[id] = visuals[id]
         /\ job[i].kind = "pbi" => DOMAIN visuals' = {}
         /\ job[i].kind = "doc" /\ job[i].merge => DOMAIN visuals' = DOMAIN visuals
         /\ UNCHANGED <<pages, filters, slicers, choices, hierarchies, bookmarks>>
<1>1. Turn(i, "clean")
  BY DEF Clean
<1>2. Busy(i) /\ pc'[i] = Following(job[i].kind, "clean")
  BY <1>1, TurnFacts DEF Files
<1>3. job[i].kind \in {"pbi", "doc"}
  BY <1>2, AsBegun
<1>4. pc'[i] = "readPages" /\ pc[i] = "clean"
  BY <1>1, <1>2, <1>3, FollowingFacts DEF Turn
<1>5. visuals' = [v \in Cleaned(job[i]) |-> visuals[v]]
  BY DEF Clean
<1>6. /\ Cleaned(job[i]) \subseteq DOMAIN visuals
      /\ job[i].kind = "pbi" => Cleaned(job[i]) = {}
      /\ job[i].kind = "doc" /\ job[i].merge => Cleaned(job[i]) = DOMAIN visuals
  BY DEF Cleaned
<1> QED
  BY <1>2, <1>4, <1>5, <1>6 DEF Clean

LEMMA AddVisualFacts ==
  ASSUME NEW p \in DOMAIN pages, AddVisual(p)
  PROVE  \E id : /\ DOMAIN visuals' = DOMAIN visuals \cup {id}
                 /\ visuals'[id].page = p /\ visuals'[id].known
                 /\ DOMAIN visuals'[id] = {"page", "from", "source", "known", "item", "links"}
                 /\ \A v \in DOMAIN visuals : v # id => visuals'[v] = visuals[v]
                 /\ UNCHANGED <<pages, filters, slicers, choices, hierarchies, bookmarks,
                                pc, job, started>>
                 /\ overlapped' = (overlapped \/ \E i \in Importers : Busy(i))
                 /\ whole' = None
<1> DEFINE id  == [kind |-> "user", n |-> <<p.n>>]
           new == [page |-> p, from |-> User, source |-> <<p.n>>, known |-> TRUE,
                   item |-> None, links |-> {}]
           g   == One(id, new)
<1>1. visuals' = With(visuals, g)
  BY DEF AddVisual
<1>2. DOMAIN g = {id} /\ g[id] = new
  BY DEF One
<1>3. new.page = p /\ new.known
      /\ DOMAIN new = {"page", "from", "source", "known", "item", "links"}
  OBVIOUS
<1> HIDE DEF g, id, new
<1>4. /\ DOMAIN With(visuals, g) = DOMAIN visuals \cup DOMAIN g
      /\ \A x \in DOMAIN g : With(visuals, g)[x] = g[x]
      /\ \A x \in DOMAIN visuals : x \notin DOMAIN g => With(visuals, g)[x] = visuals[x]
  BY WithFacts
<1>5. /\ DOMAIN visuals' = DOMAIN visuals \cup {id}
      /\ visuals'[id] = new
      /\ \A v \in DOMAIN visuals : v # id => visuals'[v] = visuals[v]
  BY <1>1, <1>2, <1>4
<1>6. /\ visuals'[id].page = p /\ visuals'[id].known
      /\ DOMAIN visuals'[id] = {"page", "from", "source", "known", "item", "links"}
  BY <1>3, <1>5
<1> QED
  BY <1>5, <1>6 DEF AddVisual

-----------------------------------------------------------------------------
(* The files that are read, opened and written.                               *)
LEMMA OthersStay ==
  ASSUME JobsInv, NEW i \in Importers, Transfer(i)
  PROVE  /\ \A k \in Importers \ {i} :
              pc'[k] = pc[k] /\ job'[k] = job[k] /\ text'[k] = text[k]
         /\ torn \subseteq torn'
<1>1. CASE Begin(i)
  BY <1>1 DEF Begin, JobsInv
<1>2. CASE Fail(i)
  BY <1>2 DEF Fail, JobsInv
<1>3. CASE PutVisual(i)
  BY <1>3 DEF PutVisual, JobsInv
<1>4. CASE Turns(i)
  <2>1. PICK file \in Files : Turn(i, file)
    BY <1>4, TurnsTurn
  <2>2. job' = job /\ \A k \in Importers \ {i} : pc'[k] = pc[k]
    BY <2>1, TurnFacts
  <2> QED
    BY <1>4, <2>2, TurnsTurn
<1> QED
  BY <1>1, <1>2, <1>3, <1>4 DEF Transfer, Turns

LEMMA TornStays ==
  ASSUME JobsInv, [Next]_vars
  PROVE  torn \subseteq torn'
<1>1. ASSUME NEW p \in DOMAIN pages, AddVisual(p) PROVE torn' = torn
  BY <1>1 DEF AddVisual
<1>2. CASE UNCHANGED vars
  BY <1>2 DEF vars
<1> QED
  BY <1>1, <1>2, OthersStay DEF Next

\* The step in which importer i reads a file, and the one in which it writes it.
Reads(i, file) == \/ file = "pages" /\ ReadPages(i)
                  \/ file = "slicers" /\ ReadSlicers(i)
                  \/ file = "hierarchies" /\ ReadHierarchies(i)
Writes(i, file) == \/ file = "pages" /\ PutPages(i)
                   \/ file = "slicers" /\ PutSlicers(i)
                   \/ file = "hierarchies" /\ PutHierarchies(i)

\* What an importer has in hand it has had, or has just read.
LEMMA HandFacts ==
  ASSUME JobsInv, [Next]_vars, NEW k \in Importers, NEW file \in Rewritten, InHand(k, file)'
  PROVE  /\ job'[k] = job[k] /\ Rewrites(job[k], file) /\ Busy(k)
         /\ \/ InHand(k, file) /\ text'[k] = text[k]
            \/ Reads(k, file)
<1>1. Rewrites(job'[k], file) /\ pc'[k] \in {Opening[file], file}
  BY DEF InHand
<1>2. /\ file = "pages" => pc'[k] \in {"openPages", "pages"}
      /\ file = "slicers" => pc'[k] \in {"openSlicers", "slicers"}
      /\ file = "hierarchies" => pc'[k] \in {"openHierarchies", "hierarchies"}
      /\ file \in {"pages", "slicers", "hierarchies"}
  BY <1>1 DEF Opening, Rewritten
<1>3. ASSUME job'[k] = job[k], pc'[k] = pc[k], text'[k] = text[k]
      PROVE  /\ job'[k] = job[k] /\ Rewrites(job[k], file) /\ Busy(k)
             /\ InHand(k, file) /\ text'[k] = text[k]
  BY <1>1, <1>2, <1>3 DEF InHand, Busy
<1>4. CASE UNCHANGED vars
  BY <1>3, <1>4 DEF vars
<1>5. ASSUME NEW p \in DOMAIN pages, AddVisual(p)
      PROVE  job'[k] = job[k] /\ pc'[k] = pc[k] /\ text'[k] = text[k]
  BY <1>5 DEF AddVisual
<1>6. ASSUME NEW i \in Importers, Transfer(i), i # k
      PROVE  job'[k] = job[k] /\ pc'[k] = pc[k] /\ text'[k] = text[k]
  BY <1>6, OthersStay
<1>7. CASE Transfer(k)
  <2>1. CASE Begin(k)
    <3>1. pc'[k] = "clean"
      BY <2>1 DEF Begin, JobsInv
    <3> QED
      BY <1>2, <3>1
  <2>2. CASE Fail(k)
    <3>1. pc'[k] = "idle"
      BY <2>2 DEF Fail, JobsInv
    <3> QED
      BY <1>2, <3>1
  <2>3. CASE PutVisual(k)
    <3>1. pc'[k] = "visuals"
      BY <2>3 DEF PutVisual
    <3> QED
      BY <1>2, <3>1
  <2>4. CASE Turns(k)
    <3>1. PICK at \in Files :
            /\ Turn(k, at)
            /\ at = "readPages" => ReadPages(k)
            /\ at = "openPages" => OpenPages(k)
            /\ at = "readSlicers" => ReadSlicers(k)
            /\ at = "openSlicers" => OpenSlicers(k)
            /\ at = "readHierarchies" => ReadHierarchies(k)
            /\ at = "openHierarchies" => OpenHierarchies(k)
      BY <2>4, TurnsTurn
    <3>2. /\ Busy(k) /\ at \in Stages[job[k].kind] /\ pc[k] = at
          /\ job' = job /\ pc'[k] = Following(job[k].kind, at)
      BY <3>1, TurnFacts DEF Turn
    <3>3. job[k].kind \in {"pbi", "doc"}
      BY <3>2, AsBegun
    <3>4. Rewrites(job[k], file)
      BY <1>1, <3>2
    <3>5. file = "slicers" => job[k].kind = "pbi"
      BY <3>4 DEF Rewrites
    <3>6. /\ file = "pages" => at \in {"readPages", "openPages"}
          /\ file = "slicers" => at \in {"readSlicers", "openSlicers"}
          /\ file = "hierarchies" => at \in {"readHierarchies", "openHierarchies"}
      <4>1. CASE job[k].kind = "pbi"
        <5>1. at \in Files
          OBVIOUS
        <5> QED
          BY <1>2, <3>2, <4>1, <5>1, FollowingFacts DEF Files
      <4>2. CASE job[k].kind = "doc"
        <5>1. at \in {"clean", "readPages", "openPages", "pages", "visuals", "slicers",
                      "filters", "bookmarks"}
          BY <3>2, <4>2 DEF Stages
        <5> QED
          BY <1>2, <3>2, <3>5, <4>2, <5>1, FollowingFacts
      <4> QED
        BY <3>3, <4>1, <4>2
    <3>7. CASE at \in {"readPages", "readSlicers", "readHierarchies"}
      BY <1>2, <3>1, <3>2, <3>4, <3>6, <3>7 DEF Reads
    <3>8. CASE at \in {"openPages", "openSlicers", "openHierarchies"}
      <4>1. text' = text
        BY <3>1, <3>8 DEF OpenPages, OpenSlicers, OpenHierarchies
      <4>2. pc[k] = Opening[file]
        BY <1>2, <3>2, <3>6, <3>8 DEF Opening
      <4> QED
        BY <3>2, <3>4, <4>1, <4>2 DEF InHand
    <3> QED
      BY <1>2, <3>6, <3>7, <3>8
  <2> QED
    BY <1>7, <2>1, <2>2, <2>3, <2>4 DEF Transfer, Turns
<1> QED
  BY <1>3, <1>4, <1>5, <1>6, <1>7 DEF Next

\* A file that is lost is so until somebody writes it.
LEMMA LostFacts ==
  ASSUME JobsInv, [Next]_vars, NEW file \in Rewritten, Lost(file)
  PROVE  Lost(file)' \/ \E i \in Importers : Writes(i, file) /\ Rewrites(job[i], file)
<1>1. CASE file \in torn
  <2>1. file \in torn'
    BY <1>1, TornStays
  <2> QED
    BY <2>1 DEF Lost
<1>2. CASE Emptied(file)
  <2>1. PICK k \in Importers : pc[k] = file /\ Rewrites(job[k], file)
    BY <1>2 DEF Emptied
  <2>2. file \in {"pages", "slicers", "hierarchies"}
    BY DEF Rewritten
  <2>3. ASSUME job'[k] = job[k], pc'[k] = pc[k]
        PROVE  Lost(file)'
    BY <2>1, <2>3 DEF Lost, Emptied
  <2>4. CASE UNCHANGED vars
    BY <2>3, <2>4 DEF vars
  <2>5. ASSUME NEW p \in DOMAIN pages, AddVisual(p) PROVE job'[k] = job[k] /\ pc'[k] = pc[k]
    BY <2>5 DEF AddVisual
  <2>6. ASSUME NEW i \in Importers, Transfer(i), i # k
        PROVE  job'[k] = job[k] /\ pc'[k] = pc[k]
    BY <2>6, OthersStay
  <2>7. CASE Transfer(k)
    <3>1. CASE Begin(k)
      BY <2>1, <2>2, <3>1 DEF Begin, Busy
    <3>2. CASE Fail(k)
      <4>1. file \in torn'
        BY <2>1, <3>2 DEF Fail
      <4> QED
        BY <4>1 DEF Lost
    <3>3. CASE PutVisual(k)
      BY <2>1, <2>2, <3>3 DEF PutVisual
    <3>4. CASE Turns(k)
      <4>1. PICK at \in Files :
              /\ Turn(k, at)
              /\ at = "pages" => PutPages(k)
              /\ at = "slicers" => PutSlicers(k)
              /\ at = "hierarchies" => PutHierarchies(k)
        BY <3>4, TurnsTurn
      <4>2. at = file
        BY <2>1, <4>1 DEF Turn
      <4> QED
        BY <2>1, <2>2, <4>1, <4>2 DEF Writes
    <3> QED
      BY <2>7, <3>1, <3>2, <3>3, <3>4 DEF Transfer, Turns
  <2> QED
    BY <2>3, <2>4, <2>5, <2>6, <2>7 DEF Next
<1> QED
  BY <1>1, <1>2 DEF Lost

\* Opening a file empties it.
LEMMA OpenFacts ==
  ASSUME JobsInv, NEW i \in Importers
  PROVE  /\ OpenPages(i) => pages' = Nothing /\ visuals' = visuals /\ Emptied("pages")'
         /\ OpenSlicers(i) => slicers' = slicers \/ (slicers' = {} /\ Emptied("slicers")')
         /\ OpenHierarchies(i) =>
              hierarchies' = hierarchies \/ (hierarchies' = Nothing /\ Emptied("hierarchies")')
<1>1. ASSUME OpenPages(i)
      PROVE  pages' = Nothing /\ visuals' = visuals /\ Emptied("pages")'
  <2>1. Turn(i, "openPages") /\ "openPages" \in Files
    BY <1>1 DEF OpenPages, Files
  <2>2. Busy(i) /\ job' = job /\ pc'[i] = Following(job[i].kind, "openPages")
    BY <2>1, TurnFacts
  <2>3. pc'[i] = "pages"
    BY <2>2, AsBegun, FollowingFacts
  <2>4. Rewrites(job'[i], "pages")
    BY DEF Rewrites
  <2>5. Emptied("pages")'
    BY <2>3, <2>4 DEF Emptied
  <2> QED
    BY <1>1, <2>5 DEF OpenPages
<1>2. ASSUME OpenSlicers(i)
      PROVE  slicers' = slicers \/ (slicers' = {} /\ Emptied("slicers")')
  <2>1. Turn(i, "openSlicers") /\ "openSlicers" \in Files
    BY <1>2 DEF OpenSlicers, Files
  <2>2. Busy(i) /\ job' = job /\ pc'[i] = Following(job[i].kind, "openSlicers")
        /\ "openSlicers" \in Stages[job[i].kind]
    BY <2>1, TurnFacts
  <2>3. pc'[i] = "slicers"
    BY <2>2, AsBegun, FollowingFacts DEF Stages
  <2>4. Rewrites(job[i], "slicers") => Emptied("slicers")'
    BY <2>2, <2>3 DEF Emptied
  <2> QED
    BY <1>2, <2>4 DEF OpenSlicers
<1>3. ASSUME OpenHierarchies(i)
      PROVE  hierarchies' = hierarchies \/ (hierarchies' = Nothing /\ Emptied("hierarchies")')
  <2>1. Turn(i, "openHierarchies") /\ "openHierarchies" \in Files
    BY <1>3 DEF OpenHierarchies, Files
  <2>2. Busy(i) /\ job' = job /\ pc'[i] = Following(job[i].kind, "openHierarchies")
        /\ "openHierarchies" \in Stages[job[i].kind]
    BY <2>1, TurnFacts
  <2>3. pc'[i] = "hierarchies"
    BY <2>2, AsBegun, FollowingFacts DEF Stages
  <2>4. Rewrites(job[i], "hierarchies") => Emptied("hierarchies")'
    BY <2>2, <2>3 DEF Emptied
  <2> QED
    BY <1>3, <2>4 DEF OpenHierarchies
<1> QED
  BY <1>1, <1>2, <1>3

\* What is read of a file, which counts as nothing if somebody has just opened it.
LEMMA ReadFacts ==
  ASSUME JobsInv, NEW i \in Importers, NEW file \in Rewritten, Reads(i, file)
  PROVE  /\ file = "pages" => text'[i].pages = IF job[i].merge THEN pages ELSE Nothing
         /\ file = "slicers" => text'[i].slicers = IF job[i].merge THEN slicers ELSE {}
         /\ file = "hierarchies" => text'[i].hierarchies = hierarchies
         /\ Rewrites(job[i], file) /\ Lost(file) => file \in torn'
         /\ UNCHANGED files
<1>1. file = "pages" => text'[i].pages = IF job[i].merge THEN pages ELSE Nothing
  BY DEF Reads, ReadPages, Read, JobsInv, Unread
<1>2. file = "slicers" => text'[i].slicers = IF job[i].merge THEN slicers ELSE {}
  BY DEF Reads, ReadSlicers, Read, JobsInv, Unread
<1>3. file = "hierarchies" => text'[i].hierarchies = hierarchies
  BY DEF Reads, ReadHierarchies, Read, JobsInv, Unread
<1>4. torn' = torn \cup {f \in {file} : Rewrites(job[i], f) /\ Emptied(f)} /\ UNCHANGED files
  BY DEF Reads, ReadPages, ReadSlicers, ReadHierarchies, Read
<1>5. Rewrites(job[i], file) /\ Lost(file) => file \in torn'
  BY <1>4 DEF Lost
<1> QED
  BY <1>1, <1>2, <1>3, <1>4, <1>5

-----------------------------------------------------------------------------
(* What has come in, has come with a transfer that has begun.                 *)
LEMMA AreWholeStep ==
  ASSUME JobsInv, VisualsAreWhole, [Next]_vars
  PROVE  VisualsAreWhole'
<1> DEFINE Parts == {"page", "from", "source", "known", "item", "links"}
<1> SUFFICES ASSUME NEW id \in DOMAIN visuals' PROVE DOMAIN visuals'[id] = Parts
  BY DEF VisualsAreWhole
<1>1. \A v \in DOMAIN visuals : DOMAIN visuals[v] = Parts
  BY DEF VisualsAreWhole
<1> HIDE DEF Parts
<1>2. CASE visuals' = visuals
  BY <1>1, <1>2
<1>3. ASSUME NEW i \in Importers, Clean(i) PROVE DOMAIN visuals'[id] = Parts
  BY <1>1, <1>3, CleanFacts
<1>4. ASSUME NEW i \in Importers, PutVisual(i) PROVE DOMAIN visuals'[id] = Parts
  <2>1. PICK v \in job[i].rest :
           /\ DOMAIN visuals' = DOMAIN visuals \cup {VisualId(job[i].kind, v)}
           /\ visuals'[VisualId(job[i].kind, v)] = Visual(job[i], v)
           /\ \A x \in DOMAIN visuals :
                x # VisualId(job[i].kind, v) => visuals'[x] = visuals[x]
    BY <1>4, PutVisualFacts
  <2>2. DOMAIN Visual(job[i], v) = Parts
    BY VisualFacts DEF Parts
  <2> QED
    BY <1>1, <2>1, <2>2
<1>5. ASSUME NEW i \in Importers, PutLinks(i) PROVE DOMAIN visuals'[id] = Parts
  BY <1>1, <1>5, PutLinksFacts
<1>6. ASSUME NEW p \in DOMAIN pages, AddVisual(p) PROVE DOMAIN visuals'[id] = Parts
  <2>1. PICK x : /\ DOMAIN visuals' = DOMAIN visuals \cup {x}
                 /\ DOMAIN visuals'[x] = Parts
                 /\ \A v \in DOMAIN visuals : v # x => visuals'[v] = visuals[v]
    BY <1>6, AddVisualFacts DEF Parts
  <2> QED
    BY <1>1, <2>1
<1> QED
  BY <1>2, <1>3, <1>4, <1>5, <1>6, OnlyWriters

LEMMA FieldsStep ==
  ASSUME JobsInv, VisualsAreWhole, FieldsInv, [Next]_vars, Begun \subseteq Begun'
  PROVE  FieldsInv'
<1> DEFINE Cause(B) == \E j \in B : \E v \in Taken(j) : ~ Source(j).visuals[v].known
<1>0. Cause(Begun) => Cause(Begun')
  OBVIOUS
<1> SUFFICES ASSUME FieldsHold, NEW id \in DOMAIN visuals', ~ visuals'[id].known
             PROVE  Cause(Begun)
  BY <1>0 DEF FieldsInv, FieldsHold
<1>1. \A v \in DOMAIN visuals : visuals[v].known
  BY DEF FieldsHold
<1>2. CASE visuals' = visuals
  BY <1>1, <1>2
<1>3. ASSUME NEW i \in Importers, Clean(i) PROVE FALSE
  BY <1>1, <1>3, CleanFacts
<1>4. ASSUME NEW i \in Importers, PutVisual(i) PROVE Cause(Begun)
  <2>1. PICK v \in job[i].rest :
           /\ Busy(i) /\ v \in Taken(job[i])
           /\ DOMAIN visuals' = DOMAIN visuals \cup {VisualId(job[i].kind, v)}
           /\ visuals'[VisualId(job[i].kind, v)] = Visual(job[i], v)
           /\ \A x \in DOMAIN visuals :
                x # VisualId(job[i].kind, v) => visuals'[x] = visuals[x]
    BY <1>4, PutVisualFacts
  <2>2. ~ Visual(job[i], v).known
    BY <1>1, <2>1
  <2>3. ~ Source(job[i]).visuals[v].known
    BY <2>2, VisualFacts
  <2>4. PICK j \in Begun : Source(j) = Source(job[i]) /\ Taken(j) = Taken(job[i])
    BY <2>1, AsBegun
  <2> QED
    BY <2>1, <2>3, <2>4
<1>5. ASSUME NEW i \in Importers, PutLinks(i) PROVE FALSE
  BY <1>1, <1>5, PutLinksFacts
<1>6. ASSUME NEW p \in DOMAIN pages, AddVisual(p) PROVE FALSE
  <2>1. PICK x : /\ DOMAIN visuals' = DOMAIN visuals \cup {x}
                 /\ visuals'[x].known
                 /\ \A v \in DOMAIN visuals : v # x => visuals'[v] = visuals[v]
    BY <1>6, AddVisualFacts
  <2> QED
    BY <1>1, <2>1
<1> QED
  BY <1>2, <1>3, <1>4, <1>5, <1>6, OnlyWriters

\* The transfers that write hierarchies are of reports.
LEMMA PutHierarchiesFacts ==
  ASSUME JobsInv, NEW i \in Importers, PutHierarchies(i)
  PROVE  /\ Busy(i) /\ pc[i] = "hierarchies" /\ job[i].kind = "pbi"
         /\ pc'[i] = "bookmarks"
         /\ ~ Rewrites(job[i], "hierarchies") => hierarchies' = hierarchies
         /\ Rewrites(job[i], "hierarchies") =>
            \E longer \in SUBSET DOMAIN Discovered(job[i]) :
              LET old == text[i].hierarchies
              IN /\ \A h \in longer : h \in DOMAIN old =>
                      Cardinality(old[h].levels) < Cardinality(Discovered(job[i])[h].levels)
                 /\ DOMAIN hierarchies' = DOMAIN old \cup longer
                 /\ \A h \in longer : hierarchies'[h] = Discovered(job[i])[h]
                 /\ \A h \in DOMAIN old : h \notin longer => hierarchies'[h] = old[h]
<1>1. Turn(i, "hierarchies")
  BY DEF PutHierarchies
<1>2. Busy(i) /\ "hierarchies" \in Stages[job[i].kind]
      /\ pc'[i] = Following(job[i].kind, "hierarchies")
  BY <1>1, TurnFacts DEF Files
<1>3. job[i].kind \in {"pbi", "doc"}
  BY <1>2, AsBegun
<1>4. job[i].kind = "pbi"
  BY <1>2, <1>3 DEF Stages
<1>5. pc'[i] = "bookmarks" /\ pc[i] = "hierarchies"
  BY <1>1, <1>2, <1>4, FollowingFacts DEF Turn
<1> DEFINE new    == Discovered(job[i])
           old    == text[i].hierarchies
           longer == {h \in DOMAIN new : h \in DOMAIN old =>
                        Cardinality(old[h].levels) < Cardinality(new[h].levels)}
           g      == [h \in longer |-> new[h]]
<1>6. hierarchies' = IF Rewrites(job[i], "hierarchies") THEN With(old, g) ELSE hierarchies
  BY DEF PutHierarchies
<1>7. longer \subseteq DOMAIN new /\ DOMAIN g = longer /\ \A h \in longer : g[h] = new[h]
  OBVIOUS
<1>8. \A h \in longer : h \in DOMAIN old =>
        Cardinality(old[h].levels) < Cardinality(new[h].levels)
  OBVIOUS
<1> HIDE DEF g, longer, new, old
<1>9. /\ DOMAIN With(old, g) = DOMAIN old \cup DOMAIN g
      /\ \A x \in DOMAIN g : With(old, g)[x] = g[x]
      /\ \A x \in DOMAIN old : x \notin DOMAIN g => With(old, g)[x] = old[x]
  BY WithFacts
<1>10. Rewrites(job[i], "hierarchies") =>
         /\ DOMAIN hierarchies' = DOMAIN old \cup longer
         /\ \A h \in longer : hierarchies'[h] = new[h]
         /\ \A h \in DOMAIN old : h \notin longer => hierarchies'[h] = old[h]
  BY <1>6, <1>7, <1>9
<1> QED
  BY <1>2, <1>4, <1>5, <1>6, <1>7, <1>8, <1>10 DEF new, old

\* What has a cause keeps it when more has begun.
LEMMA CausesGrow ==
  ASSUME NEW B, NEW C, B \subseteq C, NEW found
  PROVE  /\ HaveCause(found, B) => HaveCause(found, C)
         /\ SlicersAmong(found, B) => SlicersAmong(found, C)
         /\ HierarchiesAmong(found, B) => HierarchiesAmong(found, C)
<1>1. HaveCause(found, B) => HaveCause(found, C)
  BY DEF HaveCause
<1>2. SlicersAmong(found, B) => SlicersAmong(found, C)
  BY DEF SlicersAmong
<1>3. HierarchiesAmong(found, B) => HierarchiesAmong(found, C)
  BY DEF HierarchiesAmong
<1> QED
  BY <1>1, <1>2, <1>3

LEMMA HierarchiesStep ==
  ASSUME JobsInv, HierarchiesInv, [Next]_vars, Begun \subseteq Begun'
  PROVE  HierarchiesInv'
<1>1. /\ HaveCause(hierarchies, Begun')
      /\ \A i \in Importers :
           InHand(i, "hierarchies") => HaveCause(text[i].hierarchies, Begun')
  BY CausesGrow DEF HierarchiesInv
<1>2. HaveCause(hierarchies', Begun')
  <2>1. CASE hierarchies' = hierarchies
    BY <1>1, <2>1
  <2>2. HaveCause(Nothing, Begun')
    BY DEF HaveCause, Nothing
  <2>3. ASSUME NEW i \in Importers, OpenHierarchies(i) PROVE HaveCause(hierarchies', Begun')
    BY <1>1, <2>2, <2>3, OpenFacts
  <2>4. ASSUME NEW i \in Importers, PutHierarchies(i) PROVE HaveCause(hierarchies', Begun')
    <3>1. Busy(i) /\ job[i].kind = "pbi" /\ pc[i] = "hierarchies"
      BY <2>4, PutHierarchiesFacts
    <3>2. CASE ~ Rewrites(job[i], "hierarchies")
      BY <1>1, <2>4, <3>2, PutHierarchiesFacts
    <3>3. CASE Rewrites(job[i], "hierarchies")
      <4> DEFINE old == text[i].hierarchies
      <4>1. HaveCause(old, Begun')
        BY <1>1, <3>1, <3>3 DEF InHand
      <4>2. PICK longer \in SUBSET DOMAIN Discovered(job[i]) :
              /\ DOMAIN hierarchies' = DOMAIN old \cup longer
              /\ \A h \in longer : hierarchies'[h] = Discovered(job[i])[h]
              /\ \A h \in DOMAIN old : h \notin longer => hierarchies'[h] = old[h]
        BY <2>4, <3>3, PutHierarchiesFacts
      <4>3. PICK j \in Begun : j.kind = "pbi" /\ Discovered(j) = Discovered(job[i])
        BY <3>1, AsBegun
      <4> HIDE DEF old
      <4>4. SUFFICES ASSUME NEW h \in DOMAIN hierarchies'
                     PROVE  \/ LevelsHold(hierarchies'[h])
                            \/ \E k \in Begun' : k.kind = "pbi" /\ h \in DOMAIN Discovered(k)
                                                 /\ hierarchies'[h] = Discovered(k)[h]
        BY DEF HaveCause
      <4>5. CASE h \in longer
        BY <4>2, <4>3, <4>5
      <4>6. CASE h \notin longer
        <5>1. h \in DOMAIN old /\ hierarchies'[h] = old[h]
          BY <4>2, <4>6
        <5> QED
          BY <4>1, <5>1 DEF HaveCause
      <4> QED
        BY <4>5, <4>6
    <3> QED
      BY <3>2, <3>3
  <2> QED
    BY <2>1, <2>3, <2>4, OnlyWriters
<1>3. ASSUME NEW k \in Importers, InHand(k, "hierarchies")'
      PROVE  HaveCause(text'[k].hierarchies, Begun')
  <2>1. \/ InHand(k, "hierarchies") /\ text'[k] = text[k]
        \/ Reads(k, "hierarchies")
    BY <1>3, HandFacts DEF Rewritten
  <2> QED
    BY <1>1, <2>1, ReadFacts DEF Rewritten
<1> QED
  BY <1>2, <1>3 DEF HierarchiesInv

\* The slicers of a source have different ids, if those of its visuals are different.
LEMMA SlicerIdFacts ==
  ASSUME NEW j, NEW s \in SlicersOf(j), NEW t \in SlicersOf(j), s.id = t.id, s # t
  PROVE  \E v, w \in Taken(j) : v # w /\ SlicerId(j.kind, v) = SlicerId(j.kind, w)
<1> DEFINE D(v) == IF j.kind = "pbi" THEN Source(j).visuals[v].default ELSE None
           S(v) == [id |-> SlicerId(j.kind, v),
                    page |-> PageId(j.kind, Source(j).visuals[v].page),
                    source |-> v, from |-> j.from, default |-> D(v)]
<1>1. \A x \in SlicersOf(j) : \E v \in Taken(j) : x = S(v)
  BY DEF SlicersOf
<1>2. PICK v \in Taken(j) : s = S(v)
  BY <1>1
<1>3. PICK w \in Taken(j) : t = S(w)
  BY <1>1
<1>4. S(v).id = SlicerId(j.kind, v) /\ S(w).id = SlicerId(j.kind, w)
  OBVIOUS
<1> HIDE DEF S
<1>5. v # w
  BY <1>2, <1>3
<1> QED
  BY <1>2, <1>3, <1>4, <1>5

LEMMA PutSlicersFacts ==
  ASSUME JobsInv, NEW i \in Importers, PutSlicers(i)
  PROVE  /\ Busy(i) /\ pc[i] = "slicers" /\ pc'[i] = Following(job[i].kind, "slicers")
         /\ job[i].kind \in {"pbi", "doc"}
         /\ \/ SlicersOf(job[i]) = {} /\ slicers' = slicers
            \/ /\ Rewrites(job[i], "slicers") /\ InHand(i, "slicers")
               /\ slicers' = text[i].slicers \cup
                               {s \in SlicersOf(job[i]) : \A old \in text[i].slicers : old.id # s.id}
            \/ /\ job[i].kind = "doc" /\ SlicersOf(job[i]) # {} /\ slicers' = SlicersOf(job[i])
<1>1. Turn(i, "slicers")
  BY DEF PutSlicers
<1>2. Busy(i) /\ pc'[i] = Following(job[i].kind, "slicers")
  BY <1>1, TurnFacts DEF Files
<1>3. job[i].kind \in {"pbi", "doc"}
  BY <1>2, AsBegun
<1>4. pc[i] = "slicers"
  BY <1>1 DEF Turn
<1> DEFINE new  == SlicersOf(job[i])
           read == text[i].slicers
<1>5. slicers' = CASE new = {} -> slicers
                   [] new # {} /\ job[i].kind = "pbi" ->
                        read \cup {s \in new : \A old \in read : old.id # s.id}
                   [] OTHER -> new
  BY DEF PutSlicers
<1>6. new # {} /\ job[i].kind = "pbi" => Rewrites(job[i], "slicers") /\ InHand(i, "slicers")
  BY <1>4 DEF Rewrites, InHand
<1> HIDE DEF new, read
<1>7. \/ new = {} /\ slicers' = slicers
      \/ /\ Rewrites(job[i], "slicers") /\ InHand(i, "slicers")
         /\ slicers' = read \cup {s \in new : \A old \in read : old.id # s.id}
      \/ /\ job[i].kind = "doc" /\ new # {} /\ slicers' = new
  <2>1. CASE new = {}
    BY <1>5, <2>1
  <2>2. CASE new # {} /\ job[i].kind = "pbi"
    BY <1>5, <1>6, <2>2
  <2>3. CASE new # {} /\ job[i].kind # "pbi"
    BY <1>3, <1>5, <2>3
  <2> QED
    BY <2>1, <2>2, <2>3
<1> QED
  BY <1>2, <1>3, <1>4, <1>7 DEF new, read

LEMMA SlicersStep ==
  ASSUME JobsInv, SlicersInv, [Next]_vars, Begun \subseteq Begun'
  PROVE  SlicersInv'
<1> DEFINE Same(j) == \E v, w \in Taken(j) : v # w /\ SlicerId(j.kind, v) = SlicerId(j.kind, w)
<1>1. (\E j \in Begun : Same(j)) => SlicersInv'
  BY DEF SlicersInv
<1>2. SUFFICES ASSUME ~ \E j \in Begun : Same(j)
               PROVE  /\ Distinct(slicers')
                      /\ \A k \in Importers : InHand(k, "slicers")' => Distinct(text'[k].slicers)
  BY <1>1 DEF SlicersInv
<1>3. /\ Distinct(slicers)
      /\ \A k \in Importers : InHand(k, "slicers") => Distinct(text[k].slicers)
  BY <1>2 DEF SlicersInv
<1> HIDE DEF Same
<1>4. Distinct({})
  BY DEF Distinct
<1>5. Distinct(slicers')
  <2>1. CASE slicers' = slicers
    BY <1>3, <2>1
  <2>2. ASSUME NEW i \in Importers, OpenSlicers(i) PROVE Distinct(slicers')
    BY <1>3, <1>4, <2>2, OpenFacts
  <2>3. ASSUME NEW i \in Importers, PutSlicers(i) PROVE Distinct(slicers')
    <3>1. Busy(i)
      BY <2>3, PutSlicersFacts
    <3>2. PICK j \in Begun : j.kind = job[i].kind /\ SlicersOf(j) = SlicersOf(job[i])
      BY <3>1, AsBegun
    <3>3. Distinct(SlicersOf(j))
      <4> SUFFICES ASSUME NEW s \in SlicersOf(j), NEW t \in SlicersOf(j), s.id = t.id, s # t
                   PROVE  FALSE
        BY DEF Distinct
      <4>1. Same(j)
        BY SlicerIdFacts DEF Same
      <4> QED
        BY <1>2, <4>1
    <3>4. CASE InHand(i, "slicers")
      <4> DEFINE read == text[i].slicers
      <4>1. Distinct(read)
        BY <1>3, <3>4
      <4>2. \/ slicers' = slicers
            \/ slicers' = read \cup {s \in SlicersOf(j) : \A old \in read : old.id # s.id}
            \/ slicers' = SlicersOf(j)
        BY <2>3, <3>2, PutSlicersFacts
      <4> HIDE DEF read
      <4>3. Distinct(read \cup {s \in SlicersOf(j) : \A old \in read : old.id # s.id})
        BY <3>3, <4>1 DEF Distinct
      <4> QED
        BY <1>3, <3>3, <4>2, <4>3
    <3>5. CASE ~ InHand(i, "slicers")
      <4>1. slicers' = slicers \/ slicers' = SlicersOf(j)
        BY <2>3, <3>2, <3>5, PutSlicersFacts
      <4> QED
        BY <1>3, <3>3, <4>1
    <3> QED
      BY <3>4, <3>5
  <2> QED
    BY <2>1, <2>2, <2>3, OnlyWriters
<1>6. ASSUME NEW k \in Importers, InHand(k, "slicers")'
      PROVE  Distinct(text'[k].slicers)
  <2>1. \/ InHand(k, "slicers") /\ text'[k] = text[k]
        \/ Reads(k, "slicers")
    BY <1>6, HandFacts DEF Rewritten
  <2>2. CASE Reads(k, "slicers")
    <3>1. text'[k].slicers = IF job[k].merge THEN slicers ELSE {}
      BY <2>2, ReadFacts DEF Rewritten
    <3> QED
      BY <1>3, <1>4, <3>1
  <2> QED
    BY <1>3, <2>1, <2>2
<1> QED
  BY <1>5, <1>6

LEMMA SlicerTextsStep ==
  ASSUME JobsInv, SlicerTexts, [Next]_vars
  PROVE  SlicerTexts'
<1> SUFFICES ASSUME NEW k \in Importers, InHand(k, "slicers")', ~ job'[k].merge
             PROVE  text'[k].slicers = {}
  BY DEF SlicerTexts
<1>1. /\ job'[k] = job[k]
      /\ \/ InHand(k, "slicers") /\ text'[k] = text[k]
         \/ Reads(k, "slicers")
  BY HandFacts DEF Rewritten
<1>2. CASE Reads(k, "slicers")
  <2>1. text'[k].slicers = IF job[k].merge THEN slicers ELSE {}
    BY <1>2, ReadFacts DEF Rewritten
  <2> QED
    BY <1>1, <2>1
<1> QED
  BY <1>1, <1>2 DEF SlicerTexts

LEMMA PutFiltersFacts ==
  ASSUME JobsInv, NEW i \in Importers, PutFilters(i)
  PROVE  /\ Busy(i) /\ pc[i] = "filters" /\ pc'[i] = Following(job[i].kind, "filters")
         /\ job[i].kind \in {"pbi", "doc"}
         /\ filters' = FiltersOf(job[i])
<1>1. Turn(i, "filters")
  BY DEF PutFilters
<1>2. Busy(i) /\ pc'[i] = Following(job[i].kind, "filters")
  BY <1>1, TurnFacts DEF Files
<1>3. job[i].kind \in {"pbi", "doc"}
  BY <1>2, AsBegun
<1> QED
  BY <1>1, <1>2, <1>3 DEF PutFilters, Turn

LEMMA FiltersStep ==
  ASSUME JobsInv, FiltersInv, [Next]_vars, Begun \subseteq Begun'
  PROVE  FiltersInv'
<1>1. (\E j \in Begun : j.kind = "pbi" /\ Source(j).bare) => FiltersInv'
  BY DEF FiltersInv
<1>2. CASE filters' = filters
  BY <1>1, <1>2 DEF FiltersInv, FiltersHold
<1>3. ASSUME NEW i \in Importers, PutFilters(i) PROVE FiltersInv'
  <2>1. Busy(i) /\ job[i].kind \in {"pbi", "doc"} /\ filters' = FiltersOf(job[i])
    BY <1>3, PutFiltersFacts
  <2>2. PICK j \in Begun : j.kind = job[i].kind /\ Source(j) = Source(job[i])
    BY <2>1, AsBegun
  <2>3. CASE job[i].kind = "doc"
    <3>1. filters' = [bare |-> FALSE, pages |-> {}, visuals |-> {}]
      BY <2>1, <2>3 DEF FiltersOf
    <3>2. ~ filters'.bare
      BY <3>1
    <3> QED
      BY <3>2 DEF FiltersInv, FiltersHold
  <2>4. CASE job[i].kind = "pbi"
    <3> DEFINE b == Source(job[i]).bare
               p == {PageId("pbi", n) : n \in Source(job[i]).filtered}
               v == IdsOf(job[i], {w \in Taken(job[i]) : Source(job[i]).visuals[w].filtered})
    <3>1. filters' = [bare |-> b, pages |-> p, visuals |-> v]
      BY <2>1, <2>4 DEF FiltersOf
    <3> HIDE DEF b, p, v
    <3>2. filters'.bare = b
      BY <3>1
    <3>3. ~ b => FiltersInv'
      BY <3>2 DEF FiltersInv, FiltersHold
    <3>4. b => FiltersInv'
      BY <1>1, <2>2, <2>4 DEF b
    <3> QED
      BY <3>3, <3>4
  <2> QED
    BY <2>1, <2>3, <2>4
<1> QED
  BY <1>2, <1>3, OnlyWriters

LEMMA PutPagesFacts ==
  ASSUME JobsInv, NEW i \in Importers, PutPages(i)
  PROVE  /\ Busy(i) /\ pc[i] = "pages" /\ pc'[i] = "visuals" /\ InHand(i, "pages")
         /\ job[i].merge => /\ DOMAIN pages' = DOMAIN text[i].pages \cup PagesOf(job[i])
                            /\ \A p \in DOMAIN text[i].pages : pages'[p] = text[i].pages[p]
         /\ ~ job[i].merge => pages' = [p \in PagesOf(job[i]) |-> job[i].from]
         /\ UNCHANGED <<visuals, filters, slicers, choices, hierarchies, bookmarks>>
<1>1. Turn(i, "pages")
  BY DEF PutPages
<1>2. Busy(i) /\ pc'[i] = Following(job[i].kind, "pages")
  BY <1>1, TurnFacts DEF Files
<1>3. job[i].kind \in {"pbi", "doc"}
  BY <1>2, AsBegun
<1>4. pc'[i] = "visuals" /\ pc[i] = "pages"
  BY <1>1, <1>2, <1>3, FollowingFacts DEF Turn
<1>5. InHand(i, "pages")
  BY <1>4 DEF InHand, Rewrites
<1> DEFINE new  == [p \in PagesOf(job[i]) |-> job[i].from]
           read == text[i].pages
<1>6. pages' = IF job[i].merge THEN With(new, read) ELSE new
  BY DEF PutPages
<1>7. DOMAIN new = PagesOf(job[i])
  OBVIOUS
<1> HIDE DEF new, read
<1>8. /\ DOMAIN With(new, read) = DOMAIN new \cup DOMAIN read
      /\ \A x \in DOMAIN read : With(new, read)[x] = read[x]
  BY WithFacts
<1>9. job[i].merge => /\ DOMAIN pages' = DOMAIN read \cup PagesOf(job[i])
                      /\ \A p \in DOMAIN read : pages'[p] = read[p]
  BY <1>6, <1>7, <1>8
<1> QED
  BY <1>2, <1>4, <1>5, <1>6, <1>9 DEF PutPages, new, read

LEMMA PutBookmarksFacts ==
  ASSUME JobsInv, NEW i \in Importers, PutBookmarks(i)
  PROVE  /\ Busy(i) /\ pc[i] = "bookmarks" /\ pc'[i] = "idle"
         /\ bookmarks' = IF Source(job[i]).bookmarks = {} THEN bookmarks ELSE BookmarksOf(job[i])
<1>1. Turn(i, "bookmarks")
  BY DEF PutBookmarks
<1>2. Busy(i) /\ pc'[i] = Following(job[i].kind, "bookmarks")
  BY <1>1, TurnFacts DEF Files
<1>3. job[i].kind \in {"pbi", "doc"}
  BY <1>2, AsBegun
<1>4. pc'[i] = "idle" /\ pc[i] = "bookmarks"
  BY <1>1, <1>2, <1>3, FollowingFacts DEF Turn
<1> QED
  BY <1>2, <1>4 DEF PutBookmarks

LEMMA BookmarksKept ==
  ASSUME JobsInv, [Next]_vars
  PROVE  bookmarks' = bookmarks \/ \E j \in Begun : Source(j).bookmarks # {}
<1>1. ASSUME NEW i \in Importers, PutBookmarks(i)
      PROVE  bookmarks' = bookmarks \/ \E j \in Begun : Source(j).bookmarks # {}
  <2>1. Busy(i)
    BY <1>1, PutBookmarksFacts
  <2>2. PICK j \in Begun : Source(j) = Source(job[i])
    BY <2>1, AsBegun
  <2> QED
    BY <1>1, <2>2, PutBookmarksFacts
<1> QED
  BY <1>1, OnlyWriters

LEMMA VisualsKept ==
  ASSUME JobsInv, VisualsAreWhole, [Next]_vars, \A j \in Begun : j.merge
  PROVE  DOMAIN visuals \subseteq DOMAIN visuals' \/ \E j \in Begun : j.kind = "pbi"
<1>1. CASE visuals' = visuals
  BY <1>1
<1>2. ASSUME NEW i \in Importers, Clean(i)
      PROVE  DOMAIN visuals \subseteq DOMAIN visuals' \/ \E j \in Begun : j.kind = "pbi"
  <2>1. Busy(i)
    BY <1>2, CleanFacts
  <2>2. PICK j \in Begun : j.merge = job[i].merge /\ j.kind = job[i].kind
                           /\ job[i].kind \in {"pbi", "doc"}
    BY <2>1, AsBegun
  <2>3. job[i].merge
    BY <2>2
  <2>4. job[i].kind = "doc" => DOMAIN visuals' = DOMAIN visuals
    BY <1>2, <2>3, CleanFacts
  <2> QED
    BY <2>2, <2>4
<1>3. ASSUME NEW i \in Importers, PutVisual(i) PROVE DOMAIN visuals \subseteq DOMAIN visuals'
  <2>1. PICK v \in job[i].rest :
          DOMAIN visuals' = DOMAIN visuals \cup {VisualId(job[i].kind, v)}
    BY <1>3, PutVisualFacts
  <2> QED
    BY <2>1
<1>4. ASSUME NEW i \in Importers, PutLinks(i) PROVE DOMAIN visuals \subseteq DOMAIN visuals'
  BY <1>4, PutLinksFacts
<1>5. ASSUME NEW p \in DOMAIN pages, AddVisual(p) PROVE DOMAIN visuals \subseteq DOMAIN visuals'
  <2>1. PICK x : DOMAIN visuals' = DOMAIN visuals \cup {x}
    BY <1>5, AddVisualFacts
  <2> QED
    BY <2>1
<1> QED
  BY <1>1, <1>2, <1>3, <1>4, <1>5, OnlyWriters

LEMMA MergingOnly ==
  ASSUME JobsInv, \A j \in Begun : j.merge, NEW i \in Importers, Busy(i)
  PROVE  job[i].merge
<1>1. PICK j \in Begun : j.merge = job[i].merge
  BY AsBegun
<1> QED
  BY <1>1

LEMMA PagesSafeStep ==
  ASSUME JobsInv, PagesSafe, [Next]_vars, \A j \in Begun : j.merge
  PROVE  PagesSafe'
<1>1. PagesAmong(pages') \/ Lost("pages")'
  <2>1. ASSUME NEW i \in Importers, PutPages(i) PROVE PagesAmong(pages') \/ Lost("pages")'
    <3>1. InHand(i, "pages") /\ job[i].merge
      BY <2>1, PutPagesFacts, MergingOnly
    <3>2. CASE "pages" \in torn
      BY <3>2, TornStays DEF Lost
    <3>3. CASE PagesAmong(text[i].pages)
      <4>1. \A p \in DOMAIN text[i].pages : p \in DOMAIN pages' /\ pages'[p] = text[i].pages[p]
        BY <2>1, <3>1, PutPagesFacts
      <4> QED
        BY <3>3, <4>1 DEF PagesAmong
    <3> QED
      BY <3>1, <3>2, <3>3 DEF PagesSafe
  <2>2. ASSUME NEW i \in Importers, OpenPages(i) PROVE Lost("pages")'
    BY <2>2, OpenFacts DEF Lost
  <2>3. CASE pages' = pages
    <3>1. PagesAmong(pages) \/ Lost("pages")
      BY DEF PagesSafe
    <3>2. CASE PagesAmong(pages)
      BY <2>3, <3>2
    <3>3. CASE Lost("pages")
      <4>1. Lost("pages")' \/ \E i \in Importers : Writes(i, "pages")
        BY <3>3, LostFacts DEF Rewritten
      <4> QED
        BY <2>1, <4>1 DEF Writes
    <3> QED
      BY <3>1, <3>2, <3>3
  <2> QED
    BY <2>1, <2>2, <2>3, OnlyWriters
<1>2. ASSUME NEW k \in Importers, InHand(k, "pages")'
      PROVE  PagesAmong(text'[k].pages) \/ "pages" \in torn'
  <2>1. /\ Busy(k) /\ Rewrites(job[k], "pages")
        /\ \/ InHand(k, "pages") /\ text'[k] = text[k]
           \/ Reads(k, "pages")
    BY <1>2, HandFacts DEF Rewritten
  <2>2. CASE Reads(k, "pages")
    <3>1. text'[k].pages = pages /\ (Lost("pages") => "pages" \in torn')
      BY <2>1, <2>2, ReadFacts, MergingOnly DEF Rewritten
    <3> QED
      BY <3>1 DEF PagesSafe
  <2>3. CASE InHand(k, "pages") /\ text'[k] = text[k]
    BY <2>3, TornStays DEF PagesSafe
  <2> QED
    BY <2>1, <2>2, <2>3
<1> QED
  BY <1>1, <1>2 DEF PagesSafe

LEMMA SlicersSafeStep ==
  ASSUME JobsInv, SlicersSafe, [Next]_vars, \A j \in Begun : j.merge, Begun \subseteq Begun'
  PROVE  SlicersSafe'
<1>0. /\ SlicersAmong(slicers, Begun') \/ Lost("slicers")
      /\ \A i \in Importers :
           InHand(i, "slicers") => SlicersAmong(text[i].slicers, Begun') \/ "slicers" \in torn
  BY CausesGrow DEF SlicersSafe
<1>1. SlicersAmong(slicers', Begun') \/ Lost("slicers")'
  <2>1. ASSUME NEW i \in Importers, PutSlicers(i), Rewrites(job[i], "slicers")
        PROVE  SlicersAmong(slicers', Begun') \/ Lost("slicers")'
    <3>1. /\ job[i].kind = "pbi" /\ SlicersOf(job[i]) # {} /\ pc[i] = "slicers"
      BY <2>1, PutSlicersFacts DEF Rewrites
    <3>2. text[i].slicers \subseteq slicers'
      BY <2>1, <3>1, PutSlicersFacts
    <3>3. InHand(i, "slicers")
      BY <2>1, <3>1 DEF InHand
    <3>4. CASE "slicers" \in torn
      BY <3>4, TornStays DEF Lost
    <3>5. CASE SlicersAmong(text[i].slicers, Begun')
      BY <3>2, <3>5 DEF SlicersAmong
    <3> QED
      BY <1>0, <3>3, <3>4, <3>5
  <2>2. ASSUME NEW i \in Importers, OpenSlicers(i), slicers' # slicers PROVE Lost("slicers")'
    BY <2>2, OpenFacts DEF Lost
  <2>3. ASSUME NEW i \in Importers, PutSlicers(i), ~ Rewrites(job[i], "slicers"),
               slicers' # slicers
        PROVE  SlicersAmong(slicers', Begun')
    <3>1. Busy(i) /\ job[i].kind = "doc" /\ SlicersOf(job[i]) # {}
      BY <2>3, PutSlicersFacts
    <3>2. PICK j \in Begun : j.kind = "doc" /\ SlicersOf(j) # {}
      BY <3>1, AsBegun
    <3> QED
      BY <3>2 DEF SlicersAmong
  <2>4. CASE slicers' = slicers
    <3>1. CASE SlicersAmong(slicers, Begun')
      BY <2>4, <3>1
    <3>2. CASE Lost("slicers")
      <4>1. \/ Lost("slicers")'
            \/ \E i \in Importers : Writes(i, "slicers") /\ Rewrites(job[i], "slicers")
        BY <3>2, LostFacts DEF Rewritten
      <4> QED
        BY <2>1, <4>1 DEF Writes
    <3> QED
      BY <1>0, <3>1, <3>2
  <2> QED
    BY <2>1, <2>2, <2>3, <2>4, OnlyWriters
<1>2. ASSUME NEW k \in Importers, InHand(k, "slicers")'
      PROVE  SlicersAmong(text'[k].slicers, Begun') \/ "slicers" \in torn'
  <2>1. /\ Busy(k) /\ Rewrites(job[k], "slicers")
        /\ \/ InHand(k, "slicers") /\ text'[k] = text[k]
           \/ Reads(k, "slicers")
    BY <1>2, HandFacts DEF Rewritten
  <2>2. CASE Reads(k, "slicers")
    <3>1. text'[k].slicers = slicers /\ (Lost("slicers") => "slicers" \in torn')
      BY <2>1, <2>2, ReadFacts, MergingOnly DEF Rewritten
    <3> QED
      BY <1>0, <3>1
  <2>3. CASE InHand(k, "slicers") /\ text'[k] = text[k]
    BY <1>0, <2>3, TornStays
  <2> QED
    BY <2>1, <2>2, <2>3
<1> QED
  BY <1>1, <1>2 DEF SlicersSafe

LEMMA HierarchiesSafeStep ==
  ASSUME JobsInv, HierarchiesSafe, [Next]_vars, Begun \subseteq Begun'
  PROVE  HierarchiesSafe'
<1>0. /\ HierarchiesAmong(hierarchies, Begun') \/ Lost("hierarchies")
      /\ \A i \in Importers :
           InHand(i, "hierarchies") =>
             HierarchiesAmong(text[i].hierarchies, Begun') \/ "hierarchies" \in torn
  BY CausesGrow DEF HierarchiesSafe
<1>1. HierarchiesAmong(hierarchies', Begun') \/ Lost("hierarchies")'
  <2>1. ASSUME NEW i \in Importers, PutHierarchies(i), Rewrites(job[i], "hierarchies")
        PROVE  HierarchiesAmong(hierarchies', Begun') \/ Lost("hierarchies")'
    <3> DEFINE old == text[i].hierarchies
    <3>1. Busy(i) /\ InHand(i, "hierarchies")
      BY <2>1, PutHierarchiesFacts DEF InHand
    <3>2. CASE "hierarchies" \in torn
      BY <3>2, TornStays DEF Lost
    <3>3. CASE HierarchiesAmong(old, Begun')
      <4>1. PICK longer \in SUBSET DOMAIN Discovered(job[i]) :
              /\ \A h \in longer : h \in DOMAIN old =>
                   Cardinality(old[h].levels) < Cardinality(Discovered(job[i])[h].levels)
              /\ DOMAIN hierarchies' = DOMAIN old \cup longer
              /\ \A h \in DOMAIN old : h \notin longer => hierarchies'[h] = old[h]
        BY <2>1, PutHierarchiesFacts
      <4>2. PICK j \in Begun : Discovered(j) = Discovered(job[i])
        BY <3>1, AsBegun
      <4> HIDE DEF old
      <4>3. ASSUME NEW h \in DOMAIN FirstProject.hierarchies
            PROVE  \/ h \in DOMAIN hierarchies' /\ hierarchies'[h] = FirstProject.hierarchies[h]
                   \/ \E k \in Begun' : h \in DOMAIN Discovered(k)
                        /\ Cardinality(Discovered(k)[h].levels)
                             > Cardinality(FirstProject.hierarchies[h].levels)
        <5>1. CASE h \in DOMAIN old /\ old[h] = FirstProject.hierarchies[h]
          <6>1. CASE h \in longer
            <7>1. h \in DOMAIN Discovered(j)
                  /\ Cardinality(FirstProject.hierarchies[h].levels)
                       < Cardinality(Discovered(j)[h].levels)
              BY <4>1, <4>2, <5>1, <6>1
            <7> QED
              BY <7>1
          <6>2. CASE h \notin longer
            BY <4>1, <5>1, <6>2
          <6> QED
            BY <6>1, <6>2
        <5> QED
          BY <3>3, <5>1 DEF HierarchiesAmong
      <4> QED
        BY <4>3 DEF HierarchiesAmong
    <3> QED
      BY <1>0, <3>1, <3>2, <3>3
  <2>2. ASSUME NEW i \in Importers, OpenHierarchies(i), hierarchies' # hierarchies
        PROVE  Lost("hierarchies")'
    BY <2>2, OpenFacts DEF Lost
  <2>3. ASSUME NEW i \in Importers, PutHierarchies(i), hierarchies' # hierarchies
        PROVE  Rewrites(job[i], "hierarchies")
    BY <2>3, PutHierarchiesFacts
  <2>4. CASE hierarchies' = hierarchies
    <3>1. CASE HierarchiesAmong(hierarchies, Begun')
      BY <2>4, <3>1
    <3>2. CASE Lost("hierarchies")
      <4>1. \/ Lost("hierarchies")'
            \/ \E i \in Importers : Writes(i, "hierarchies") /\ Rewrites(job[i], "hierarchies")
        BY <3>2, LostFacts DEF Rewritten
      <4> QED
        BY <2>1, <4>1 DEF Writes
    <3> QED
      BY <1>0, <3>1, <3>2
  <2> QED
    BY <2>1, <2>2, <2>3, <2>4, OnlyWriters
<1>2. ASSUME NEW k \in Importers, InHand(k, "hierarchies")'
      PROVE  HierarchiesAmong(text'[k].hierarchies, Begun') \/ "hierarchies" \in torn'
  <2>1. /\ Rewrites(job[k], "hierarchies")
        /\ \/ InHand(k, "hierarchies") /\ text'[k] = text[k]
           \/ Reads(k, "hierarchies")
    BY <1>2, HandFacts DEF Rewritten
  <2>2. CASE Reads(k, "hierarchies")
    <3>1. text'[k].hierarchies = hierarchies /\ (Lost("hierarchies") => "hierarchies" \in torn')
      BY <2>1, <2>2, ReadFacts DEF Rewritten
    <3> QED
      BY <1>0, <3>1
  <2>3. CASE InHand(k, "hierarchies") /\ text'[k] = text[k]
    BY <1>0, <2>3, TornStays
  <2> QED
    BY <2>1, <2>2, <2>3
<1> QED
  BY <1>1, <1>2 DEF HierarchiesSafe

LEMMA MergesStep ==
  ASSUME JobsInv, VisualsAreWhole, MergesInv, [Next]_vars, Begun \subseteq Begun'
  PROVE  MergesInv'
<1> SUFFICES ASSUME \A j \in Begun' : j.merge
             PROVE  PagesSafe' /\ SlicersSafe' /\ HierarchiesSafe' /\ OthersSafe'
  BY DEF MergesInv
<1>1. \A j \in Begun : j.merge
  OBVIOUS
<1>2. PagesSafe /\ SlicersSafe /\ HierarchiesSafe /\ OthersSafe
  BY <1>1 DEF MergesInv
<1>3. OthersSafe'
  <2>1. \/ FirstProject.bookmarks \subseteq bookmarks'
        \/ \E j \in Begun' : Source(j).bookmarks # {}
    BY <1>2, BookmarksKept DEF OthersSafe
  <2>2. \/ DOMAIN FirstProject.visuals \subseteq DOMAIN visuals'
        \/ \E j \in Begun' : j.kind = "pbi"
    BY <1>1, <1>2, VisualsKept DEF OthersSafe
  <2> QED
    BY <2>1, <2>2 DEF OthersSafe
<1> QED
  BY <1>1, <1>2, <1>3, PagesSafeStep, SlicersSafeStep, HierarchiesSafeStep

LEMMA CauseStep ==
  ASSUME JobsInv, CauseInv, [Next]_vars
  PROVE  CauseInv'
<1>1. Begun \subseteq Begun'
  BY JobsStep
<1> QED
  BY <1>1, AreWholeStep, FieldsStep, HierarchiesStep, SlicersStep, SlicerTextsStep, FiltersStep,
     MergesStep DEF CauseInv
-----------------------------------------------------------------------------
(* As long as nobody comes in between, one transfer runs.                     *)
LEMMA TurnsFacts ==
  ASSUME JobsInv, NEW i \in Importers, Turns(i)
  PROVE  /\ \E file \in Files : Turn(i, file)
         /\ Busy(i) /\ DOMAIN pc' = Importers /\ UNCHANGED <<job, started, overlapped>>
         /\ \A k \in Importers \ {i} : pc'[k] = pc[k]
         /\ pc'[i] = "readPages" => Clean(i)
         /\ pc'[i] = "openPages" => ReadPages(i) /\ pc[i] = "readPages"
         /\ pc'[i] = "pages" => OpenPages(i) /\ pc[i] = "openPages"
         /\ pc'[i] = "visuals" => PutPages(i)
<1>1. PICK file \in Files :
        /\ Turn(i, file)
        /\ file = "clean" => Clean(i)
        /\ file = "readPages" => ReadPages(i)
        /\ file = "openPages" => OpenPages(i)
        /\ file = "pages" => PutPages(i)
  BY TurnsTurn
<1>2. /\ Busy(i) /\ file \in Stages[job[i].kind] /\ pc[i] = file
      /\ DOMAIN pc' = Importers /\ UNCHANGED <<job, started, overlapped>>
      /\ pc'[i] = Following(job[i].kind, file)
      /\ \A k \in Importers \ {i} : pc'[k] = pc[k]
  BY <1>1, TurnFacts DEF Turn
<1>3. job[i].kind \in {"pbi", "doc"}
  BY <1>2, AsBegun
<1>4. /\ pc'[i] = "readPages" => file = "clean"
      /\ pc'[i] = "openPages" => file = "readPages"
      /\ pc'[i] = "pages" => file = "openPages"
      /\ pc'[i] = "visuals" => file = "pages"
  <2>1. CASE job[i].kind = "pbi"
    BY <1>2, <2>1, FollowingFacts DEF Files
  <2>2. CASE job[i].kind = "doc"
    BY <1>2, <2>2, FollowingFacts DEF Stages
  <2> QED
    BY <1>3, <2>1, <2>2
<1> QED
  BY <1>1, <1>2, <1>4

\* While a transfer takes a step in quiet, the others are idle.
LEMMA OthersIdle ==
  ASSUME JobsInv, Alone, NEW i \in Importers, Transfer(i), ~ overlapped'
  PROVE  ~ overlapped /\ \A k \in Importers \ {i} : pc[k] = "idle" /\ pc'[k] = "idle"
<1>1. CASE Begin(i)
  <2>1. ~ overlapped /\ \A k \in Importers : ~ Busy(k)
    BY <1>1 DEF Begin
  <2>2. \A k \in Importers \ {i} : pc'[k] = pc[k]
    BY <1>1 DEF Begin, JobsInv
  <2> QED
    BY <2>1, <2>2 DEF Busy
<1>2. CASE Fail(i) \/ PutVisual(i) \/ Turns(i)
  <2>1. Busy(i) /\ overlapped' = overlapped /\ \A k \in Importers \ {i} : pc'[k] = pc[k]
    <3>1. CASE Fail(i)
      BY <3>1 DEF Fail, JobsInv
    <3>2. CASE PutVisual(i)
      BY <3>2, PutVisualFacts
    <3>3. CASE Turns(i)
      BY <3>3, TurnsFacts
    <3> QED
      BY <1>2, <3>1, <3>2, <3>3
  <2>2. \A k \in Importers \ {i} : ~ Busy(k)
    BY <2>1 DEF Alone
  <2> QED
    BY <2>1, <2>2 DEF Busy
<1> QED
  BY <1>1, <1>2 DEF Transfer, Turns

\* A step of nobody's transfer is in quiet only if none is running.
LEMMA OutsideIdle ==
  ASSUME NEW p \in DOMAIN pages, AddVisual(p), ~ overlapped'
  PROVE  ~ overlapped /\ pc' = pc /\ \A k \in Importers : pc[k] = "idle"
BY AddVisualFacts DEF Busy

LEMMA AloneStep ==
  ASSUME JobsInv, Alone, [Next]_vars
  PROVE  Alone'
<1>1. ASSUME NEW i \in Importers, Transfer(i) PROVE Alone'
  BY <1>1, OthersIdle DEF Alone, Busy
<1>2. ASSUME NEW p \in DOMAIN pages, AddVisual(p) PROVE Alone'
  BY <1>2, OutsideIdle DEF Alone, Busy
<1>3. CASE UNCHANGED vars
  BY <1>3 DEF vars, Alone, Busy
<1> QED
  BY <1>1, <1>2, <1>3 DEF Next

\* Overlapping is never undone, as is nothing that has begun.
LEMMA QuietBefore ==
  ASSUME JobsInv, Alone, [Next]_vars, ~ overlapped'
  PROVE  ~ overlapped
<1>1. CASE UNCHANGED vars
  BY <1>1 DEF vars
<1> QED
  BY <1>1, OthersIdle, OutsideIdle DEF Next

-----------------------------------------------------------------------------
(* In quiet a visual has its page.                                            *)
LEMMA RestOnly ==
  ASSUME JobsInv, NEW i \in Importers, NEW v, Busy(i), job' = [job EXCEPT ![i].rest = @ \ {v}]
  PROVE  /\ job'[i].kind = job[i].kind /\ job'[i].from = job[i].from
         /\ job'[i].merge = job[i].merge /\ job'[i].rest = job[i].rest \ {v}
         /\ Taken(job'[i]) = Taken(job[i]) /\ PagesOf(job'[i]) = PagesOf(job[i])
<1> DEFINE k == job[i]
<1>1. JobOK(k)
  BY DEF JobsInv
<1>2. job'[i] = [k EXCEPT !.rest = @ \ {v}]
  BY DEF JobsInv
<1>3. k = [kind |-> k.kind, from |-> k.from, merge |-> k.merge, skip |-> k.skip, rest |-> k.rest]
  BY <1>1 DEF JobOK
<1> HIDE DEF k
<1>4. /\ job'[i].kind = k.kind /\ job'[i].from = k.from /\ job'[i].merge = k.merge
      /\ job'[i].skip = k.skip /\ job'[i].rest = k.rest \ {v}
  BY <1>2, <1>3
<1>5. Taken(job'[i]) = Taken(k) /\ PagesOf(job'[i]) = PagesOf(k)
  BY <1>4 DEF PagesOf, Taken, Source
<1> QED
  BY <1>4, <1>5 DEF k

LEMMA PagesStep ==
  ASSUME JobsInv, VisualsAreWhole, Alone, PagesInv, [Next]_vars
  PROVE  PagesInv'
<1> DEFINE Empties(k) == /\ pc[k] \in {"readPages", "openPages", "pages"}
                         /\ job[k].kind = "pbi"
           Reading(k) == InHand(k, "pages") /\ job[k].kind = "doc"
           Covers(k)  == \/ \A v \in DOMAIN visuals : visuals[v].page \in DOMAIN text[k].pages
                         \/ "pages" \in torn
           Putting(k) == pc[k] = "visuals" => PagesOf(job[k]) \subseteq DOMAIN pages
<1>0. Begun \subseteq Begun'
  BY JobsStep
<1> SUFFICES ASSUME ~ overlapped', \A j \in Begun' : j.kind = "doc" => j.merge
             PROVE  /\ PagesHold' \/ Lost("pages")'
                    /\ \A k \in Importers : /\ Empties(k)' => DOMAIN visuals' = {}
                                            /\ Reading(k)' => Covers(k)'
                                            /\ Putting(k)'
  BY DEF PagesInv
<1>1. ~ overlapped /\ \A j \in Begun : j.kind = "doc" => j.merge
  BY <1>0, QuietBefore
<1>2. /\ PagesHold \/ Lost("pages")
      /\ \A k \in Importers : /\ Empties(k) => DOMAIN visuals = {}
                              /\ Reading(k) => Covers(k)
                              /\ Putting(k)
  BY <1>1 DEF PagesInv
<1>3. ASSUME NEW i \in Importers, PutPages(i)
      PROVE  (PagesHold' \/ Lost("pages")') /\ PagesOf(job[i]) \subseteq DOMAIN pages'
  <2>1. /\ Busy(i) /\ pc[i] = "pages" /\ InHand(i, "pages") /\ visuals' = visuals
        /\ PagesOf(job[i]) \subseteq DOMAIN pages'
        /\ job[i].merge => DOMAIN text[i].pages \subseteq DOMAIN pages'
    BY <1>3, PutPagesFacts
  <2>2. job[i].kind \in {"pbi", "doc"} /\ (job[i].kind = "doc" => job[i].merge)
    BY <1>1, <2>1, AsBegun
  <2>3. CASE job[i].kind = "pbi"
    <3>1. DOMAIN visuals = {}
      BY <1>2, <2>1, <2>3
    <3> QED
      BY <2>1, <3>1 DEF PagesHold
  <2>4. CASE job[i].kind = "doc"
    <3>1. Covers(i)
      BY <1>2, <2>1, <2>4
    <3>2. CASE "pages" \in torn
      <4>1. "pages" \in torn'
        BY <3>2, TornStays
      <4> QED
        BY <2>1, <4>1 DEF Lost
    <3>3. CASE \A v \in DOMAIN visuals : visuals[v].page \in DOMAIN text[i].pages
      BY <2>1, <2>2, <2>4, <3>3 DEF PagesHold
    <3> QED
      BY <3>1, <3>2, <3>3
  <2> QED
    BY <2>2, <2>3, <2>4
<1>4. ASSUME pages' = pages, PagesHold => PagesHold'
      PROVE  PagesHold' \/ Lost("pages")'
  <2>1. CASE PagesHold
    BY <1>4, <2>1
  <2>2. CASE Lost("pages")
    <3>1. Lost("pages")' \/ \E i \in Importers : Writes(i, "pages")
      BY <2>2, LostFacts DEF Rewritten
    <3> QED
      BY <1>3, <3>1 DEF Writes
  <2> QED
    BY <1>2, <2>1, <2>2
<1>5. ASSUME NEW i \in Importers, PutVisual(i)
      PROVE  (PagesHold' \/ Lost("pages")') /\ Putting(i)'
  <2>1. PICK v \in job[i].rest :
           /\ pc[i] = "visuals" /\ pc' = pc
           /\ DOMAIN visuals' = DOMAIN visuals \cup {VisualId(job[i].kind, v)}
           /\ visuals'[VisualId(job[i].kind, v)] = Visual(job[i], v)
           /\ \A x \in DOMAIN visuals :
                x # VisualId(job[i].kind, v) => visuals'[x] = visuals[x]
           /\ Visual(job[i], v).page \in PagesOf(job[i])
           /\ job' = [job EXCEPT ![i].rest = @ \ {v}]
           /\ pages' = pages /\ Busy(i)
    BY <1>5, PutVisualFacts
  <2>2. PagesOf(job[i]) \subseteq DOMAIN pages
    BY <1>2, <2>1
  <2>3. PagesOf(job'[i]) = PagesOf(job[i])
    BY <2>1, RestOnly
  <2>4. PagesHold => PagesHold'
    BY <2>1, <2>2 DEF PagesHold
  <2> QED
    BY <1>4, <2>1, <2>2, <2>3, <2>4
<1>6. ASSUME NEW i \in Importers, Transfer(i)
      PROVE  /\ PagesHold' \/ Lost("pages")'
             /\ Empties(i)' => DOMAIN visuals' = {}
             /\ Reading(i)' => Covers(i)'
             /\ Putting(i)'
  <2>1. CASE Begin(i) \/ Fail(i)
    <3>1. pages' = pages /\ visuals' = visuals /\ pc'[i] \in {"clean", "idle"}
      BY <2>1 DEF Begin, Fail, files, JobsInv
    <3>2. ~ InHand(i, "pages")'
      BY <3>1 DEF InHand, Opening
    <3> QED
      BY <1>4, <3>1, <3>2 DEF PagesHold
  <2>2. CASE PutVisual(i)
    <3>1. pc'[i] = "visuals"
      BY <2>2, PutVisualFacts
    <3>2. ~ InHand(i, "pages")'
      BY <3>1 DEF InHand, Opening
    <3> QED
      BY <1>5, <2>2, <3>1, <3>2
  <2>3. CASE PutPages(i)
    <3>1. pc'[i] = "visuals" /\ job' = job
      BY <2>3, PutPagesFacts, TurnsFacts DEF Turns
    <3>2. ~ InHand(i, "pages")'
      BY <3>1 DEF InHand, Opening
    <3> QED
      BY <1>3, <2>3, <3>1, <3>2
  <2>4. CASE Clean(i)
    <3>1. pc'[i] = "readPages" /\ job' = job
      BY <2>4, CleanFacts, TurnsFacts DEF Turns
    <3>2. PagesHold => PagesHold'
      BY <2>4, CleanFacts DEF PagesHold
    <3>3. ~ InHand(i, "pages")'
      BY <3>1 DEF InHand, Opening
    <3>4. pages' = pages /\ (job[i].kind = "pbi" => DOMAIN visuals' = {})
      BY <2>4, CleanFacts
    <3> QED
      BY <1>4, <3>1, <3>2, <3>3, <3>4
  <2>5. CASE ReadPages(i)
    <3>1. /\ pc[i] = "readPages" /\ job' = job /\ pages' = pages /\ visuals' = visuals
          /\ Busy(i) /\ pc'[i] = "openPages"
      <4>1. pc[i] = "readPages" /\ "readPages" \in Files /\ Turn(i, "readPages")
        BY <2>5 DEF ReadPages, Turn, Files
      <4>2. Busy(i) /\ pc'[i] = Following(job[i].kind, "readPages") /\ job' = job
        BY <4>1, TurnFacts
      <4> QED
        BY <2>5, <4>1, <4>2, AsBegun, FollowingFacts DEF ReadPages, Read, files
    <3>2. ASSUME Reading(i)' PROVE Covers(i)'
      <4>1. job[i].kind = "doc" /\ job[i].merge
        BY <1>1, <3>1, <3>2, AsBegun
      <4>2. text'[i].pages = pages /\ (Lost("pages") => "pages" \in torn')
        <5>1. Reads(i, "pages") /\ Rewrites(job[i], "pages")
          BY <2>5 DEF Reads, Rewrites
        <5> QED
          BY <4>1, <5>1, ReadFacts DEF Rewritten
      <4> QED
        BY <1>2, <3>1, <4>2 DEF PagesHold
    <3> QED
      BY <1>2, <1>4, <3>1, <3>2 DEF PagesHold
  <2>6. CASE OpenPages(i)
    <3>1. /\ pc[i] = "openPages" /\ job' = job /\ visuals' = visuals /\ pc'[i] = "pages"
          /\ text' = text /\ Lost("pages")' /\ torn' = torn
      <4>1. pc[i] = "openPages" /\ "openPages" \in Files /\ Turn(i, "openPages")
        BY <2>6 DEF OpenPages, Turn, Files
      <4>2. Busy(i) /\ pc'[i] = Following(job[i].kind, "openPages") /\ job' = job
        BY <4>1, TurnFacts
      <4>3. Lost("pages")'
        BY <2>6, OpenFacts DEF Lost
      <4> QED
        BY <2>6, <4>1, <4>2, <4>3, AsBegun, FollowingFacts DEF OpenPages
    <3>2. ASSUME Reading(i)' PROVE Reading(i)
      BY <3>1, <3>2 DEF InHand, Opening, Rewrites
    <3> QED
      BY <1>2, <3>1, <3>2
  <2>7. CASE Turns(i) /\ ~ Clean(i) /\ ~ ReadPages(i) /\ ~ OpenPages(i) /\ ~ PutPages(i)
    <3>1. pc'[i] \notin {"readPages", "openPages", "pages", "visuals"}
      BY <2>7, TurnsFacts
    <3>2. ~ InHand(i, "pages")'
      BY <3>1 DEF InHand, Opening
    <3>3. CASE PutLinks(i)
      <4>1. pages' = pages /\ (PagesHold => PagesHold')
        BY <3>3, PutLinksFacts DEF PagesHold
      <4> QED
        BY <1>4, <3>1, <3>2, <4>1
    <3>4. CASE pages' = pages /\ visuals' = visuals
      BY <1>4, <3>1, <3>2, <3>4 DEF PagesHold
    <3> QED
      BY <2>7, <3>3, <3>4 DEF Turns, VisualsWritten, files, PutFilters, PutChoices,
           ReadSlicers, OpenSlicers, PutSlicers, ReadHierarchies, OpenHierarchies,
           PutHierarchies, PutBookmarks, Read
  <2> QED
    BY <1>6, <2>1, <2>2, <2>3, <2>4, <2>5, <2>6, <2>7 DEF Transfer, Turns
<1>7. ASSUME NEW k \in Importers, pc'[k] = "idle"
      PROVE  ~ Empties(k)' /\ ~ Reading(k)' /\ Putting(k)'
  BY <1>7 DEF InHand, Opening
<1>8. ASSUME NEW i \in Importers, Transfer(i)
      PROVE  \A k \in Importers \ {i} : pc'[k] = "idle"
  BY <1>8, OthersIdle
<1>9. ASSUME NEW p \in DOMAIN pages, AddVisual(p)
      PROVE  (PagesHold' \/ Lost("pages")') /\ \A k \in Importers : pc'[k] = "idle"
  <2>1. PICK id : /\ DOMAIN visuals' = DOMAIN visuals \cup {id}
                  /\ visuals'[id].page = p
                  /\ \A v \in DOMAIN visuals : v # id => visuals'[v] = visuals[v]
                  /\ pages' = pages
    BY <1>9, AddVisualFacts
  <2>2. PagesHold => PagesHold'
    BY <2>1 DEF PagesHold
  <2> QED
    BY <1>4, <1>9, <2>1, <2>2, OutsideIdle
<1>10. CASE UNCHANGED vars
  <2>1. /\ pages' = pages /\ visuals' = visuals /\ pc' = pc /\ job' = job /\ text' = text
        /\ torn' = torn
    BY <1>10 DEF vars, files
  <2>2. \A k \in Importers : InHand(k, "pages")' => InHand(k, "pages")
    BY <2>1 DEF InHand
  <2> QED
    BY <1>2, <1>4, <2>1, <2>2 DEF PagesHold
<1> QED
  BY <1>6, <1>7, <1>8, <1>9, <1>10 DEF Next
-----------------------------------------------------------------------------
(* In quiet the files are what a report makes of them, up to where it is.     *)
\* A report goes through its files in this order.
LEMMA ReportTurn ==
  ASSUME JobsInv, NEW i \in Importers, NEW file \in Files, Turn(i, file), job[i].kind = "pbi"
  PROVE  /\ pc[i] = file /\ job' = job
         /\ file = "clean" => pc'[i] = "readPages"
         /\ file = "readPages" => pc'[i] = "openPages"
         /\ file = "openPages" => pc'[i] = "pages"
         /\ file = "pages" => pc'[i] = "visuals"
         /\ file = "visuals" => pc'[i] = "links"
         /\ file = "links" => pc'[i] = "filters"
         /\ file = "filters" => pc'[i] = "readSlicers"
         /\ file = "readSlicers" => pc'[i] = "openSlicers"
         /\ file = "openSlicers" => pc'[i] = "slicers"
         /\ file = "slicers" => pc'[i] = "choices"
         /\ file = "choices" => pc'[i] = "readHierarchies"
         /\ file = "readHierarchies" => pc'[i] = "openHierarchies"
         /\ file = "openHierarchies" => pc'[i] = "hierarchies"
         /\ file = "hierarchies" => pc'[i] = "bookmarks"
         /\ file = "bookmarks" => pc'[i] = "idle"
<1>1. pc[i] = file /\ job' = job /\ pc'[i] = Following("pbi", file)
  BY TurnFacts DEF Turn
<1> QED
  BY <1>1, FollowingFacts

\* The stages, by what Progress says of them.
LEMMA StagesFacts ==
  /\ Early = {"clean", "readPages", "openPages", "pages"}
  /\ AfterChoices = {"readHierarchies", "openHierarchies", "hierarchies", "bookmarks", "idle"}
  /\ AfterSlicers = {"choices", "readHierarchies", "openHierarchies", "hierarchies",
                     "bookmarks", "idle"}
  /\ AfterFilters = {"readSlicers", "openSlicers", "slicers", "choices", "readHierarchies",
                     "openHierarchies", "hierarchies", "bookmarks", "idle"}
BY DEF Early, AfterChoices, AfterSlicers, AfterFilters

LEMMA ProgressClean ==
  ASSUME JobsInv, NEW i \in Importers, job[i].kind = "pbi", Progress(job[i], pc[i]), Clean(i)
  PROVE  Progress(job[i], pc[i])'
<1>1. /\ pc[i] = "clean" /\ pc'[i] = "readPages" /\ job' = job
  BY ReportTurn DEF Clean, Files
<1>2. DOMAIN visuals' = {}
  BY CleanFacts
<1>3. job[i].rest = Taken(job[i])
  BY <1>1, StagesFacts DEF Progress
<1> QED
  BY <1>1, <1>2, <1>3, StagesFacts DEF Progress

\* The steps that read or open a file of pages, or read one of the others.
LEMMA ProgressReads ==
  ASSUME JobsInv, NEW i \in Importers, job[i].kind = "pbi", Progress(job[i], pc[i]),
         \/ ReadPages(i) \/ OpenPages(i) \/ ReadSlicers(i) \/ OpenSlicers(i)
         \/ ReadHierarchies(i) \/ OpenHierarchies(i)
  PROVE  Progress(job[i], pc[i])'
<1>1. /\ job' = job /\ visuals' = visuals /\ filters' = filters /\ choices' = choices
      /\ bookmarks' = bookmarks
      /\ \/ pc[i] = "readPages" /\ pc'[i] = "openPages"
         \/ pc[i] = "openPages" /\ pc'[i] = "pages"
         \/ pc[i] = "readSlicers" /\ pc'[i] = "openSlicers" /\ pages' = pages
         \/ pc[i] = "openSlicers" /\ pc'[i] = "slicers" /\ pages' = pages
         \/ /\ pc[i] = "readHierarchies" /\ pc'[i] = "openHierarchies"
            /\ pages' = pages /\ slicers' = slicers
         \/ /\ pc[i] = "openHierarchies" /\ pc'[i] = "hierarchies"
            /\ pages' = pages /\ slicers' = slicers
  BY ReportTurn DEF Files, ReadPages, OpenPages, ReadSlicers, OpenSlicers, ReadHierarchies,
                    OpenHierarchies, Read, files
<1>2. VisualsAre(job[i], Taken(job[i])) => VisualsAre(job[i], Taken(job[i]))'
  BY <1>1 DEF VisualsAre
<1> QED
  BY <1>1, <1>2, StagesFacts DEF Progress

LEMMA ProgressPages ==
  ASSUME JobsInv, NEW i \in Importers, job[i].kind = "pbi", Progress(job[i], pc[i]), PutPages(i)
  PROVE  Progress(job[i], pc[i])'
<1>1. /\ pc[i] = "pages" /\ pc'[i] = "visuals" /\ job' = job
  BY ReportTurn DEF PutPages, Files
<1>2. job[i].rest = Taken(job[i]) /\ DOMAIN visuals = {} /\ visuals' = visuals
  BY <1>1, PutPagesFacts, StagesFacts DEF Progress
<1>3. job[i].merge \/ pages' = [p \in PagesOf(job[i]) |-> job[i].from]
  BY PutPagesFacts
<1>4. VisualsAre(job[i], Taken(job[i]) \ job[i].rest)'
  <2>1. Taken(job'[i]) \ job'[i].rest = {}
    BY <1>1, <1>2
  <2>2. DOMAIN visuals' = {}
    BY <1>2
  <2> QED
    BY <2>1, <2>2 DEF VisualsAre, IdsOf
<1> QED
  BY <1>1, <1>3, <1>4, StagesFacts DEF Progress

LEMMA ProgressVisual ==
  ASSUME JobsInv, NEW i \in Importers, job[i].kind = "pbi", Progress(job[i], pc[i]), PutVisual(i)
  PROVE  Progress(job[i], pc[i])'
<1>1. PICK v \in job[i].rest :
        /\ Busy(i) /\ pc[i] = "visuals" /\ v \in Taken(job[i])
        /\ DOMAIN visuals' = DOMAIN visuals \cup {VisualId(job[i].kind, v)}
        /\ visuals'[VisualId(job[i].kind, v)] = Visual(job[i], v)
        /\ \A id \in DOMAIN visuals :
             id # VisualId(job[i].kind, v) => visuals'[id] = visuals[id]
        /\ job' = [job EXCEPT ![i].rest = @ \ {v}]
        /\ pages' = pages /\ pc' = pc
  BY PutVisualFacts
<1> DEFINE k == job[i]
           m == job'[i]
           names == Taken(k) \ k.rest
<1>2. /\ m.kind = k.kind /\ m.from = k.from /\ m.merge = k.merge /\ m.rest = k.rest \ {v}
      /\ Taken(m) = Taken(k) /\ PagesOf(m) = PagesOf(k)
  BY <1>1, RestOnly
<1>3. Taken(m) \ m.rest = names \cup {v}
  BY <1>1, <1>2
<1>4. VisualsAre(k, names) /\ (k.merge \/ pages = [p \in PagesOf(k) |-> k.from])
  BY <1>1, StagesFacts DEF Progress
<1>5. k.kind = "pbi"
  OBVIOUS
<1>6. /\ Visual(k, v).from = k.from /\ Visual(k, v).source = v /\ Visual(k, v).links = {}
  BY <1>5, VisualFacts
<1>7. IdsTaken(m) = IdsTaken(k)
  BY <1>2 DEF IdsTaken
<1>8. IdsOf(m, names \cup {v}) = IdsOf(k, names) \cup {VisualId(k.kind, v)}
  BY <1>2 DEF IdsOf
<1>9. /\ DOMAIN visuals = IdsOf(k, names)
      /\ \A id \in DOMAIN visuals :
           /\ visuals[id].links \subseteq IdsTaken(k)
           /\ \E w \in names : /\ id = VisualId(k.kind, w)
                               /\ visuals[id].from = k.from /\ visuals[id].source = w
  BY <1>4 DEF VisualsAre
<1>10. ASSUME NEW id \in DOMAIN visuals'
       PROVE  /\ visuals'[id].links \subseteq IdsTaken(k)
              /\ \E w \in names \cup {v} : /\ id = VisualId(k.kind, w)
                                           /\ visuals'[id].from = k.from /\ visuals'[id].source = w
  <2> HIDE DEF k, m, names
  <2>1. CASE id = VisualId(k.kind, v)
    <3>1. visuals'[id] = Visual(k, v)
      BY <1>1, <2>1 DEF k
    <3> QED
      BY <1>6, <2>1, <3>1
  <2>2. CASE id # VisualId(k.kind, v)
    <3>1. id \in DOMAIN visuals /\ visuals'[id] = visuals[id]
      BY <1>1, <2>2 DEF k
    <3> QED
      BY <1>9, <3>1
  <2> QED
    BY <2>1, <2>2
<1>11. DOMAIN visuals' = IdsOf(m, names \cup {v})
  BY <1>1, <1>8, <1>9
<1> HIDE DEF k, m, names
<1>12. VisualsAre(job[i], Taken(job[i]) \ job[i].rest)'
  <2>1. \A id \in DOMAIN visuals' :
          /\ visuals'[id].links \subseteq IdsTaken(m)
          /\ \E w \in names \cup {v} : /\ id = VisualId(m.kind, w)
                                       /\ visuals'[id].from = m.from /\ visuals'[id].source = w
    BY <1>2, <1>7, <1>10
  <2> QED
    BY <1>3, <1>11, <2>1 DEF VisualsAre, m
<1>13. pc'[i] = "visuals"
  BY <1>1
<1> QED
  BY <1>1, <1>2, <1>4, <1>12, <1>13, StagesFacts DEF Progress, m

LEMMA ProgressVisualsWritten ==
  ASSUME JobsInv, NEW i \in Importers, job[i].kind = "pbi", Progress(job[i], pc[i]),
         VisualsWritten(i)
  PROVE  Progress(job[i], pc[i])'
<1>1. /\ pc[i] = "visuals" /\ pc'[i] = "links" /\ job' = job
  BY ReportTurn DEF VisualsWritten, Files
<1>2. job[i].rest = {} /\ pages' = pages /\ visuals' = visuals
  BY DEF VisualsWritten, files
<1>3. /\ VisualsAre(job[i], Taken(job[i]) \ job[i].rest)
      /\ job[i].merge \/ pages = [p \in PagesOf(job[i]) |-> job[i].from]
  BY <1>1, StagesFacts DEF Progress
<1>4. VisualsAre(job[i], Taken(job[i]))
  <2>1. Taken(job[i]) \ job[i].rest = Taken(job[i])
    BY <1>2
  <2> QED
    BY <1>3, <2>1
<1>5. VisualsAre(job[i], Taken(job[i]))'
  BY <1>1, <1>2, <1>4 DEF VisualsAre
<1> QED
  BY <1>1, <1>2, <1>3, <1>5, StagesFacts DEF Progress

LEMMA ProgressLinks ==
  ASSUME JobsInv, VisualsAreWhole, NEW i \in Importers, job[i].kind = "pbi",
         Progress(job[i], pc[i]), PutLinks(i)
  PROVE  Progress(job[i], pc[i])'
<1>1. /\ pc[i] = "links" /\ pc'[i] = "filters" /\ job' = job
  BY ReportTurn DEF PutLinks, Files
<1>2. /\ VisualsAre(job[i], Taken(job[i]))
      /\ job[i].merge \/ pages = [p \in PagesOf(job[i]) |-> job[i].from]
  BY <1>1, StagesFacts DEF Progress
<1>3. /\ DOMAIN visuals' = DOMAIN visuals /\ pages' = pages
      /\ \A id \in DOMAIN visuals :
           /\ visuals'[id].from = visuals[id].from /\ visuals'[id].source = visuals[id].source
           /\ visuals'[id].links \in {visuals[id].links, LinksOf(job[i], id)}
  BY PutLinksFacts
<1>4. \A id : LinksOf(job[i], id) \subseteq IdsTaken(job[i])
  <2>1. IdsTaken(job[i]) = {VisualId("pbi", v) : v \in Taken(job[i])}
    BY DEF IdsTaken
  <2> QED
    BY <2>1 DEF LinksOf
<1>5. VisualsAre(job[i], Taken(job[i]))'
  <2> DEFINE k == job[i]
  <2>1. /\ DOMAIN visuals = IdsOf(k, Taken(k))
        /\ \A id \in DOMAIN visuals :
             /\ visuals[id].links \subseteq IdsTaken(k)
             /\ \E v \in Taken(k) : /\ id = VisualId(k.kind, v)
                                    /\ visuals[id].from = k.from /\ visuals[id].source = v
    BY <1>2 DEF VisualsAre
  <2>2. \A id \in DOMAIN visuals : visuals'[id].links \subseteq IdsTaken(k)
    BY <1>3, <1>4, <2>1
  <2>3. \A id \in DOMAIN visuals :
          \E v \in Taken(k) : /\ id = VisualId(k.kind, v)
                              /\ visuals'[id].from = k.from /\ visuals'[id].source = v
    BY <1>3, <2>1
  <2>4. job'[i] = k
    BY <1>1
  <2> HIDE DEF k
  <2>5. /\ DOMAIN visuals' = IdsOf(k, Taken(k))
        /\ \A id \in DOMAIN visuals' :
             /\ visuals'[id].links \subseteq IdsTaken(k)
             /\ \E v \in Taken(k) : /\ id = VisualId(k.kind, v)
                                    /\ visuals'[id].from = k.from /\ visuals'[id].source = v
    BY <1>3, <2>1, <2>2, <2>3
  <2> QED
    BY <2>4, <2>5 DEF VisualsAre
<1> QED
  BY <1>1, <1>2, <1>3, <1>5, StagesFacts DEF Progress

LEMMA ReportFilters ==
  ASSUME NEW j, j.kind = "pbi", Source(j).filtered \subseteq 1 .. Source(j).pages
  PROVE  FiltersOf(j).pages \subseteq PagesOf(j) /\ FiltersOf(j).visuals \subseteq IdsTaken(j)
<1> DEFINE b == Source(j).bare
           p == {PageId("pbi", n) : n \in Source(j).filtered}
           v == IdsOf(j, {w \in Taken(j) : Source(j).visuals[w].filtered})
<1>1. FiltersOf(j) = [bare |-> b, pages |-> p, visuals |-> v]
  BY DEF FiltersOf
<1>2. p \subseteq PagesOf(j)
  BY DEF PagesOf
<1>3. v \subseteq IdsTaken(j)
  BY DEF IdsOf, IdsTaken
<1> HIDE DEF b, p, v
<1> QED
  BY <1>1, <1>2, <1>3

LEMMA ProgressFilters ==
  ASSUME JobsInv, NEW i \in Importers, Busy(i), job[i].kind = "pbi", Progress(job[i], pc[i]),
         PutFilters(i)
  PROVE  Progress(job[i], pc[i])'
<1>1. /\ pc[i] = "filters" /\ pc'[i] = "readSlicers" /\ job' = job
  BY ReportTurn DEF PutFilters, Files
<1>2. pages' = pages /\ visuals' = visuals /\ filters' = FiltersOf(job[i])
  BY DEF PutFilters
<1>3. job[i].from \in DOMAIN Sources
  BY AsBegun
<1>4. Source(job[i]).filtered \subseteq 1 .. Source(job[i]).pages
  BY <1>3, SourcesAssumption DEF Source
<1>5. filters'.pages \subseteq PagesOf(job[i]) /\ filters'.visuals \subseteq IdsTaken(job[i])
  BY <1>2, <1>4, ReportFilters
<1>6. /\ VisualsAre(job[i], Taken(job[i]))
      /\ job[i].merge \/ pages = [p \in PagesOf(job[i]) |-> job[i].from]
  BY <1>1, StagesFacts DEF Progress
<1>7. VisualsAre(job[i], Taken(job[i]))'
  BY <1>1, <1>2, <1>6 DEF VisualsAre
<1> QED
  BY <1>1, <1>2, <1>5, <1>6, <1>7, StagesFacts DEF Progress

LEMMA SlicerPages ==
  ASSUME NEW j, \A v \in Taken(j) : Source(j).visuals[v].page \in 1 .. Source(j).pages
  PROVE  \A s \in SlicersOf(j) : s.page \in PagesOf(j)
<1> DEFINE D(v) == IF j.kind = "pbi" THEN Source(j).visuals[v].default ELSE None
           S(v) == [id |-> SlicerId(j.kind, v),
                    page |-> PageId(j.kind, Source(j).visuals[v].page),
                    source |-> v, from |-> j.from, default |-> D(v)]
<1>1. \A s \in SlicersOf(j) : \E v \in Taken(j) : s = S(v)
  BY DEF SlicersOf
<1>2. \A v : S(v).page = PageId(j.kind, Source(j).visuals[v].page)
  OBVIOUS
<1> HIDE DEF S
<1>3. \A v \in Taken(j) : S(v).page \in PagesOf(j)
  BY <1>2 DEF PagesOf
<1> QED
  BY <1>1, <1>3

LEMMA ProgressSlicers ==
  ASSUME JobsInv, SlicerTexts, NEW i \in Importers, Busy(i), job[i].kind = "pbi", Progress(job[i], pc[i]),
         PutSlicers(i)
  PROVE  Progress(job[i], pc[i])'
<1>1. /\ pc[i] = "slicers" /\ pc'[i] = "choices" /\ job' = job
  BY ReportTurn DEF PutSlicers, Files
<1>2. pages' = pages /\ visuals' = visuals /\ filters' = filters
  BY DEF PutSlicers
<1>3. job[i].from \in DOMAIN Sources
  BY AsBegun
<1>4. \A v \in Taken(job[i]) : Source(job[i]).visuals[v].page \in 1 .. Source(job[i]).pages
  BY <1>3, SourcesAssumption DEF Source, Taken
<1>5. \A s \in SlicersOf(job[i]) : s.page \in PagesOf(job[i])
  BY <1>4, SlicerPages
<1>6. job[i].merge \/ SlicersOf(job[i]) = {} \/ \A s \in slicers' : s.page \in PagesOf(job[i])
  <2> SUFFICES ASSUME ~ job[i].merge, SlicersOf(job[i]) # {}
               PROVE  \A s \in slicers' : s.page \in PagesOf(job[i])
    OBVIOUS
  <2>1. /\ InHand(i, "slicers")
        /\ slicers' = text[i].slicers \cup
                        {s \in SlicersOf(job[i]) : \A old \in text[i].slicers : old.id # s.id}
    BY PutSlicersFacts
  <2>2. text[i].slicers = {}
    BY <2>1 DEF SlicerTexts
  <2> QED
    BY <1>5, <2>1, <2>2
<1>7. /\ VisualsAre(job[i], Taken(job[i]))
      /\ job[i].merge \/ pages = [p \in PagesOf(job[i]) |-> job[i].from]
      /\ filters.pages \subseteq PagesOf(job[i]) /\ filters.visuals \subseteq IdsTaken(job[i])
  BY <1>1, StagesFacts DEF Progress
<1>8. VisualsAre(job[i], Taken(job[i]))'
  BY <1>1, <1>2, <1>7 DEF VisualsAre
<1> QED
  BY <1>1, <1>2, <1>6, <1>7, <1>8, StagesFacts DEF Progress

\* What shows something else than the model does is there to be chosen.
LEMMA ChoicesFacts ==
  ASSUME NEW i \in Importers, PutChoices(i)
  PROVE  \/ choices'.visuals \subseteq DOMAIN visuals
         \/ \A v \in DOMAIN visuals : visuals[v].item \in {None, ModelItem}
<1> DEFINE Effective(r) == IF r = None THEN ModelItem ELSE r
           Own(r) == {v \in DOMAIN visuals : visuals[v].item \notin {None, Effective(r)}}
<1>1. PICK report : choices' = IF report = None /\ Own(report) = {} THEN choices
                               ELSE [report |-> report, visuals |-> Own(report)]
  BY DEF PutChoices
<1>2. CASE report = None /\ Own(report) = {}
  <2>1. Effective(report) = ModelItem
    BY <1>2
  <2> QED
    BY <1>2, <2>1
<1>3. CASE ~ (report = None /\ Own(report) = {})
  <2> DEFINE own == Own(report)
  <2>1. choices' = [report |-> report, visuals |-> own]
    BY <1>1, <1>3
  <2>2. own \subseteq DOMAIN visuals
    OBVIOUS
  <2> HIDE DEF own, Own
  <2>3. choices'.visuals = own
    BY <2>1
  <2> QED
    BY <2>2, <2>3
<1> QED
  BY <1>2, <1>3

LEMMA ProgressChoices ==
  ASSUME JobsInv, NEW i \in Importers, job[i].kind = "pbi", Progress(job[i], pc[i]),
         PutChoices(i)
  PROVE  Progress(job[i], pc[i])'
<1>1. /\ pc[i] = "choices" /\ pc'[i] = "readHierarchies" /\ job' = job
  BY ReportTurn DEF PutChoices, Files
<1>2. pages' = pages /\ visuals' = visuals /\ filters' = filters /\ slicers' = slicers
  BY DEF PutChoices
<1>3. \/ choices'.visuals \subseteq DOMAIN visuals'
      \/ \A v \in DOMAIN visuals' : visuals'[v].item \in {None, ModelItem}
  BY <1>2, ChoicesFacts
<1>4. /\ VisualsAre(job[i], Taken(job[i]))
      /\ job[i].merge \/ pages = [p \in PagesOf(job[i]) |-> job[i].from]
      /\ filters.pages \subseteq PagesOf(job[i]) /\ filters.visuals \subseteq IdsTaken(job[i])
      /\ job[i].merge \/ SlicersOf(job[i]) = {} \/ \A s \in slicers : s.page \in PagesOf(job[i])
  BY <1>1, StagesFacts DEF Progress
<1>5. VisualsAre(job[i], Taken(job[i]))'
  BY <1>1, <1>2, <1>4 DEF VisualsAre
<1> QED
  BY <1>1, <1>2, <1>3, <1>4, <1>5, StagesFacts DEF Progress

LEMMA ProgressLast ==
  ASSUME JobsInv, NEW i \in Importers, job[i].kind = "pbi", Progress(job[i], pc[i]),
         PutHierarchies(i) \/ PutBookmarks(i)
  PROVE  Progress(job[i], pc[i])'
<1>1. /\ job' = job
      /\ \/ pc[i] = "hierarchies" /\ pc'[i] = "bookmarks"
         \/ /\ pc[i] = "bookmarks" /\ pc'[i] = "idle"
            /\ Source(job[i]).bookmarks # {} => bookmarks' = BookmarksOf(job[i])
  BY ReportTurn DEF PutHierarchies, PutBookmarks, Files
<1>2. /\ pages' = pages /\ visuals' = visuals /\ filters' = filters /\ slicers' = slicers
      /\ choices' = choices
  BY DEF PutHierarchies, PutBookmarks
<1>3. /\ VisualsAre(job[i], Taken(job[i]))
      /\ job[i].merge \/ pages = [p \in PagesOf(job[i]) |-> job[i].from]
      /\ filters.pages \subseteq PagesOf(job[i]) /\ filters.visuals \subseteq IdsTaken(job[i])
      /\ job[i].merge \/ SlicersOf(job[i]) = {} \/ \A s \in slicers : s.page \in PagesOf(job[i])
      /\ \/ choices.visuals \subseteq DOMAIN visuals
         \/ \A v \in DOMAIN visuals : visuals[v].item \in {None, ModelItem}
  BY <1>1, StagesFacts DEF Progress
<1>4. VisualsAre(job[i], Taken(job[i]))'
  BY <1>1, <1>2, <1>3 DEF VisualsAre
<1> QED
  BY <1>1, <1>2, <1>3, <1>4, StagesFacts DEF Progress

LEMMA ProgressStep ==
  ASSUME JobsInv, VisualsAreWhole, SlicerTexts, NEW i \in Importers, Busy(i),
         job[i].kind = "pbi", Progress(job[i], pc[i]), PutVisual(i) \/ Turns(i)
  PROVE  Progress(job[i], pc[i])'
BY ProgressClean, ProgressReads, ProgressPages, ProgressVisual, ProgressVisualsWritten, ProgressLinks,
   ProgressFilters, ProgressSlicers, ProgressChoices, ProgressLast DEF Turns

LEMMA ProgressBegin ==
  ASSUME JobsInv, NEW i \in Importers, Begin(i)
  PROVE  Progress(job[i], pc[i])'
<1>1. PICK from \in DOMAIN Sources, merge \in BOOLEAN, skip \in BOOLEAN :
        LET j == [kind |-> Sources[from].kind, from |-> from, merge |-> merge,
                  skip |-> skip, rest |-> {}]
        IN job' = [job EXCEPT ![i] = [j EXCEPT !.rest = Taken(j)]]
  BY DEF Begin
<1> DEFINE j == [kind |-> Sources[from].kind, from |-> from, merge |-> merge,
                 skip |-> skip, rest |-> {}]
           T == Taken(j)
<1>2. job'[i] = [j EXCEPT !.rest = T]
  BY <1>1 DEF JobsInv
<1>3. job'[i] = [kind |-> Sources[from].kind, from |-> from, merge |-> merge,
                 skip |-> skip, rest |-> T]
  <2> HIDE DEF T
  <2> QED
    BY <1>2
<1>4. j.from = from /\ j.skip = skip
  OBVIOUS
<1> HIDE DEF T
<1>5. job'[i].from = j.from /\ job'[i].skip = j.skip /\ job'[i].rest = T
  BY <1>3, <1>4
<1> HIDE DEF j
<1>6. Taken(job'[i]) = Taken(j)
  BY <1>5 DEF Taken, Source
<1>7. job'[i].rest = Taken(job'[i])
  BY <1>5, <1>6 DEF T
<1>8. pc'[i] = "clean"
  BY DEF Begin, JobsInv
<1> QED
  BY <1>7, <1>8, StagesFacts DEF Progress

LEMMA RunStep ==
  ASSUME JobsInv, VisualsAreWhole, SlicerTexts, Alone, RunInv, [Next]_vars
  PROVE  RunInv'
<1> SUFFICES ASSUME ~ overlapped', NEW k \in Importers, pc'[k] # "idle", job'[k].kind = "pbi"
             PROVE  Progress(job[k], pc[k])'
  BY DEF RunInv, Busy
<1>1. ASSUME NEW i \in Importers, Transfer(i) PROVE Progress(job[k], pc[k])'
  <2>1. k = i /\ ~ overlapped
    BY <1>1, OthersIdle
  <2>2. CASE Begin(i)
    BY <2>1, <2>2, ProgressBegin
  <2>3. CASE Fail(i)
    <3>1. pc'[i] = "idle"
      BY <2>3 DEF Fail, JobsInv
    <3> QED
      BY <2>1, <3>1
  <2>4. CASE PutVisual(i) \/ Turns(i)
    <3>1. Busy(i) /\ job'[i].kind = job[i].kind
      <4>1. CASE PutVisual(i)
        <5>1. PICK v \in job[i].rest : Busy(i) /\ job' = [job EXCEPT ![i].rest = @ \ {v}]
          BY <4>1, PutVisualFacts
        <5> QED
          BY <5>1, RestOnly
      <4>2. CASE Turns(i)
        BY <4>2, TurnsFacts
      <4> QED
        BY <2>4, <4>1, <4>2
    <3>2. job[i].kind = "pbi" /\ Progress(job[i], pc[i])
      BY <2>1, <3>1 DEF RunInv
    <3>3. Progress(job[i], pc[i])'
      BY <2>4, <3>1, <3>2, ProgressStep
    <3> QED
      BY <2>1, <3>3
  <2> QED
    BY <1>1, <2>2, <2>3, <2>4 DEF Transfer, Turns
<1>2. ASSUME NEW p \in DOMAIN pages, AddVisual(p) PROVE Progress(job[k], pc[k])'
  BY <1>2, OutsideIdle
<1>3. CASE UNCHANGED vars
  <2>1. ~ overlapped /\ Busy(k) /\ job[k].kind = "pbi"
    BY <1>3 DEF vars, Busy
  <2>2. Progress(job[k], pc[k])
    BY <2>1 DEF RunInv
  <2> QED
    BY <1>3, <2>2 DEF vars, files, Progress, VisualsAre
<1> QED
  BY <1>1, <1>2, <1>3 DEF Next

\* A transfer that ends in quiet has left what its last stage says, and it stays so.
LEMMA WholeStep ==
  ASSUME JobsInv, VisualsAreWhole, SlicerTexts, Alone, RunInv, WholeInv, [Next]_vars
  PROVE  WholeInv'
<1>1. ASSUME NEW i \in Importers, Transfer(i) PROVE WholeInv'
  <2>1. CASE Begin(i)
    BY <2>1 DEF Begin, WholeInv
  <2>2. CASE Fail(i) \/ PutVisual(i)
    <3>1. Busy(i) /\ whole' = whole
      BY <2>2, PutVisualFacts DEF Fail
    <3>2. whole' = None
      BY <3>1 DEF WholeInv
    <3> QED
      BY <3>2 DEF WholeInv
  <2>3. CASE Turns(i)
    <3>1. PICK file \in Files : Turn(i, file)
      BY <2>3, TurnsFacts
    <3>2. /\ Busy(i) /\ job' = job /\ overlapped' = overlapped
          /\ \A k \in Importers \ {i} : pc'[k] = pc[k]
      BY <2>3, TurnsFacts
    <3>3. whole = None
      BY <3>2 DEF WholeInv
    <3>4. CASE pc'[i] = "idle" /\ ~ overlapped
      <4>1. whole' = job[i] /\ ~ overlapped'
        BY <3>1, <3>2, <3>4 DEF Turn
      <4>2. \A k \in Importers : ~ Busy(k)'
        BY <1>1, <3>4, <4>1, OthersIdle DEF Busy
      <4>3. whole'.from \in DOMAIN Sources
        BY <3>2, <4>1, AsBegun
      <4>4. ASSUME whole'.kind = "pbi" PROVE Progress(whole, "idle")'
        <5>1. job[i].kind = "pbi"
          BY <4>1, <4>4
        <5>2. Progress(job[i], pc[i])
          BY <3>2, <3>4, <5>1 DEF RunInv
        <5>3. Progress(job[i], pc[i])'
          BY <2>3, <3>2, <5>1, <5>2, ProgressStep
        <5>4. job'[i] = whole' /\ pc'[i] = "idle"
          BY <3>2, <3>4, <4>1
        <5> QED
          BY <5>3, <5>4
      <4> QED
        BY <4>2, <4>3, <4>4 DEF WholeInv
    <3>5. CASE ~ (pc'[i] = "idle" /\ ~ overlapped)
      <4>1. whole' = None
        BY <3>1, <3>3, <3>5 DEF Turn
      <4> QED
        BY <4>1 DEF WholeInv
    <3> QED
      BY <3>4, <3>5
  <2> QED
    BY <1>1, <2>1, <2>2, <2>3 DEF Transfer, Turns
<1>2. ASSUME NEW p \in DOMAIN pages, AddVisual(p) PROVE WholeInv'
  BY <1>2, AddVisualFacts DEF WholeInv
<1>3. CASE UNCHANGED vars
  BY <1>3 DEF vars, files, WholeInv, Busy, Progress, VisualsAre
<1> QED
  BY <1>1, <1>2, <1>3 DEF Next

-----------------------------------------------------------------------------
LEMMA InitInv ==
  ASSUME Init
  PROVE  IInv
<1>1. /\ DOMAIN started = {} /\ Begun = {} /\ \A i \in Importers : ~ Busy(i)
      /\ \A i \in Importers, file \in Rewritten : ~ InHand(i, file)
  BY DEF Init, Begun, Busy, InHand, Opening, Rewritten
<1>2. JobsInv
  BY <1>1 DEF Init, JobsInv
<1>3. /\ VisualsAreWhole /\ PagesHold /\ FieldsHold /\ HierarchiesHold /\ SlicersHold /\ FiltersHold
  <2>1. visuals = FirstProject.visuals /\ pages = FirstProject.pages
        /\ hierarchies = FirstProject.hierarchies /\ slicers = FirstProject.slicers
        /\ filters = FirstProject.filters
    BY DEF Init
  <2>2. VisualsAreWhole
    BY <2>1, FirstAssumption DEF VisualsAreWhole
  <2>3. PagesHold /\ FieldsHold
    BY <2>1, FirstAssumption DEF PagesHold, FieldsHold
  <2>4. HierarchiesHold /\ SlicersHold /\ FiltersHold
    BY <2>1, FirstAssumption DEF HierarchiesHold, SlicersHold, FiltersHold
  <2> QED
    BY <2>2, <2>3, <2>4
<1>4. /\ \A i \in Importers : ~ InHand(i, "pages") /\ ~ InHand(i, "slicers")
                              /\ ~ InHand(i, "hierarchies")
  BY <1>1 DEF Rewritten
<1>5. PagesSafe /\ SlicersSafe /\ HierarchiesSafe /\ OthersSafe
  BY <1>4 DEF Init, PagesSafe, PagesAmong, SlicersSafe, SlicersAmong, HierarchiesSafe,
              HierarchiesAmong, OthersSafe
<1>6. HierarchiesInv /\ SlicersInv /\ SlicerTexts
  BY <1>3, <1>4 DEF HierarchiesInv, HaveCause, HierarchiesHold, SlicersInv, SlicersHold,
                    Distinct, SlicerTexts
<1>7. CauseInv
  BY <1>3, <1>5, <1>6 DEF CauseInv, FieldsInv, FiltersInv, MergesInv
<1>8. Alone /\ RunInv /\ WholeInv
  BY <1>1 DEF Alone, RunInv, WholeInv, Init
<1>9. PagesInv
  BY <1>1, <1>3, <1>4 DEF PagesInv, Busy
<1> QED
  BY <1>2, <1>7, <1>8, <1>9 DEF IInv

LEMMA StepInv ==
  ASSUME IInv, [Next]_vars
  PROVE  IInv'
BY JobsStep, CauseStep, AloneStep, PagesStep, RunStep, WholeStep DEF IInv, CauseInv

LEMMA Invariance == Spec => []IInv
<1>1. Init => IInv
  BY InitInv
<1>2. IInv /\ [Next]_vars => IInv'
  BY StepInv
<1> QED
  BY <1>1, <1>2, PTL DEF Spec
-----------------------------------------------------------------------------
(* The theorems.                                                              *)
\* What the readers of the files find, they can read, unless a transfer has
\* brought what no reader takes (report_transfer.py writes what it has found, and
\* load_project and the loaders of the files refuse it); and a visual has its page
\* but for the causes that the property names, the time in which a transfer has
\* opened the file of the pages and not written it among them.
THEOREM FilesReadable == Spec => []UnreadableOnlyBy
<1>1. IInv => UnreadableOnlyBy
  <2> SUFFICES ASSUME IInv PROVE UnreadableOnlyBy
    OBVIOUS
  <2>1. CauseInv /\ PagesInv
    BY DEF IInv
  <2>2. ~ PagesHold => \/ overlapped \/ Emptied("pages") \/ "pages" \in torn
                       \/ \E j \in Begun : j.kind = "doc" /\ ~ j.merge
    BY <2>1 DEF PagesInv, Lost
  <2>3. ~ FieldsHold => \E j \in Begun : \E v \in Taken(j) : ~ Source(j).visuals[v].known
    BY <2>1 DEF CauseInv, FieldsInv
  <2>4. ~ HierarchiesHold =>
          \E j \in Begun : j.kind = "pbi" /\ \E h \in DOMAIN Discovered(j) : ~ LevelsHold(Discovered(j)[h])
    <3> SUFFICES ASSUME NEW h \in DOMAIN hierarchies, ~ LevelsHold(hierarchies[h])
                 PROVE  \E j \in Begun : j.kind = "pbi" /\ \E g \in DOMAIN Discovered(j) :
                                                             ~ LevelsHold(Discovered(j)[g])
      BY DEF HierarchiesHold
    <3> QED
      BY <2>1 DEF CauseInv, HierarchiesInv, HaveCause
  <2>5. ~ SlicersHold =>
          \E j \in Begun : \E v, w \in Taken(j) : v # w /\ SlicerId(j.kind, v) = SlicerId(j.kind, w)
    BY <2>1 DEF CauseInv, SlicersInv, SlicersHold, Distinct
  <2>6. ~ FiltersHold => \E j \in Begun : j.kind = "pbi" /\ Source(j).bare
    BY <2>1 DEF CauseInv, FiltersInv
  <2> QED
    BY <2>2, <2>3, <2>4, <2>5, <2>6 DEF UnreadableOnlyBy
<1> QED
  BY <1>1, Invariance, PTL

\* Transfers that all merge, failed or not and whoever comes in between, keep the
\* work of the users but for what the property names: pages, slicers and
\* hierarchies go only in a file that somebody has opened, and then read by
\* another, or left, before it was written (the three files that report_transfer.py
\* reads, opens and writes without a lock).
THEOREM MergesLoseNothingElse == Spec => []MergesKeep
<1>1. IInv => MergesKeep
  <2> SUFFICES ASSUME IInv, \A j \in Begun : j.merge
               PROVE  MergesKeep
    BY DEF MergesKeep
  <2>1. PagesSafe /\ SlicersSafe /\ HierarchiesSafe /\ OthersSafe
    BY DEF IInv, CauseInv, MergesInv
  <2>2. PagesAmong(pages) \/ Lost("pages")
    BY <2>1 DEF PagesSafe
  <2>3. SlicersAmong(slicers, Begun) \/ Lost("slicers")
    BY <2>1 DEF SlicersSafe
  <2>4. HierarchiesAmong(hierarchies, Begun) \/ Lost("hierarchies")
    BY <2>1 DEF HierarchiesSafe
  <2> QED
    BY <2>1, <2>2, <2>3, <2>4 DEF MergesKeep, PagesAmong, SlicersAmong, HierarchiesAmong, OthersSafe
<1> QED
  BY <1>1, Invariance, PTL

\* After a report that was transferred by itself, nothing refers to what is not
\* there (the filters, links, slicers, choices and bookmarks it has written).
THEOREM NothingDangles == Spec => []ReferencesResolve
<1>1. IInv => ReferencesResolve
  <2> SUFFICES ASSUME IInv, whole # None, ~ whole.merge, whole.kind = "pbi"
               PROVE  /\ filters.pages \subseteq DOMAIN pages /\ filters.visuals \subseteq DOMAIN visuals
                      /\ \A v \in DOMAIN visuals : visuals[v].links \subseteq DOMAIN visuals
                      /\ SlicersOf(whole) # {} => \A s \in slicers : s.page \in DOMAIN pages
                      /\ \/ choices.visuals \subseteq DOMAIN visuals
                         \/ \A v \in DOMAIN visuals : visuals[v].item \in {None, ModelItem}
                      /\ Source(whole).bookmarks # {} =>
                           /\ \A b \in bookmarks : b.page \in DOMAIN pages \cup {None}
                           /\ \/ \A b \in bookmarks : b.targets \subseteq DOMAIN visuals
                              \/ \E b \in Source(whole).bookmarks : ~ b.targets \subseteq Taken(whole)
    BY DEF ReferencesResolve
  <2>1. Progress(whole, "idle")
    BY DEF IInv, WholeInv
  <2>2. /\ pages = [p \in PagesOf(whole) |-> whole.from] /\ VisualsAre(whole, Taken(whole))
        /\ filters.pages \subseteq PagesOf(whole) /\ filters.visuals \subseteq IdsTaken(whole)
        /\ SlicersOf(whole) = {} \/ \A s \in slicers : s.page \in PagesOf(whole)
        /\ \/ choices.visuals \subseteq DOMAIN visuals
           \/ \A v \in DOMAIN visuals : visuals[v].item \in {None, ModelItem}
        /\ Source(whole).bookmarks # {} => bookmarks = BookmarksOf(whole)
    BY <2>1, StagesFacts DEF Progress
  <2>3. DOMAIN pages = PagesOf(whole)
    BY <2>2
  <2>4. DOMAIN visuals = IdsTaken(whole)
    BY <2>2 DEF VisualsAre, IdsOf, IdsTaken
  <2>5. \A v \in DOMAIN visuals : visuals[v].links \subseteq DOMAIN visuals
    BY <2>2, <2>4 DEF VisualsAre
  <2>6. ASSUME Source(whole).bookmarks # {}
        PROVE  /\ \A b \in bookmarks : b.page \in PagesOf(whole) \cup {None}
               /\ \/ \A b \in bookmarks : b.targets \subseteq IdsTaken(whole)
                  \/ \E b \in Source(whole).bookmarks : ~ b.targets \subseteq Taken(whole)
    <3> DEFINE P(b) == IF b.page \in 1 .. Source(whole).pages THEN PageId("pbi", b.page) ELSE None
               T(b) == IdsOf(whole, b.targets)
               B(b) == [from |-> whole.from, page |-> P(b), targets |-> T(b)]
    <3>1. bookmarks = {B(b) : b \in Source(whole).bookmarks}
      BY <2>2, <2>6 DEF BookmarksOf
    <3>2. \A b : P(b) \in PagesOf(whole) \cup {None}
      BY DEF PagesOf
    <3>3. \A b : b.targets \subseteq Taken(whole) => T(b) \subseteq IdsTaken(whole)
      BY DEF IdsOf, IdsTaken
    <3> HIDE DEF P, T
    <3>4. \A b : B(b).page = P(b) /\ B(b).targets = T(b)
      OBVIOUS
    <3> HIDE DEF B
    <3> QED
      BY <3>1, <3>2, <3>3, <3>4
  <2> QED
    BY <2>2, <2>3, <2>4, <2>5, <2>6
<1> QED
  BY <1>1, Invariance, PTL

\* When the image of T, a part of S, has as many elements as S, T is S and no two
\* elements of it have the same image.
LEMMA AsMany ==
  ASSUME NEW S, IsFiniteSet(S), NEW T \in SUBSET S, NEW R, NEW f \in [T -> R],
         \A r \in R : \E x \in T : f[x] = r, Cardinality(R) = Cardinality(S)
  PROVE  T = S /\ \A x, y \in T : f[x] = f[y] => x = y
<1>1. IsFiniteSet(T) /\ Cardinality(T) <= Cardinality(S) /\ (Cardinality(S) = Cardinality(T) => S = T)
  BY FS_Subset
<1>2. f \in Surjection(T, R)
  BY DEF Surjection
<1>3. IsFiniteSet(R) /\ Cardinality(R) <= Cardinality(T)
      /\ (Cardinality(R) = Cardinality(T) <=> f \in Injection(T, R))
  BY <1>1, <1>2, FS_Surjection
<1>4. Cardinality(R) \in Nat /\ Cardinality(T) \in Nat /\ Cardinality(S) \in Nat
  BY <1>1, <1>3, FS_CardinalityType
<1>5. Cardinality(R) = Cardinality(T) /\ Cardinality(S) = Cardinality(T)
  BY <1>1, <1>3, <1>4
<1>6. f \in Injection(T, R)
  BY <1>3, <1>5
<1>7. \A x, y \in T : f[x] = f[y] => x = y
  BY <1>6 DEF Injection, IsInjective
<1> QED
  BY <1>1, <1>5, <1>7

\* verify_report_transfer compares numbers only; after a report that was
\* transferred by itself that is enough.
THEOREM CountsSuffice == Spec => []VerifiedIsComplete
<1>1. IInv => VerifiedIsComplete
  <2> SUFFICES ASSUME IInv, whole # None, whole.kind = "pbi", Verified(whole)
               PROVE  /\ \A v \in DOMAIN Source(whole).visuals :
                           \E id \in DOMAIN visuals :
                             visuals[id].from = whole.from /\ visuals[id].source = v
                      /\ whole.merge \/ \A p \in DOMAIN pages : pages[p] = whole.from
    BY DEF VerifiedIsComplete
  <2>1. Progress(whole, "idle") /\ whole.from \in DOMAIN Sources
    BY DEF IInv, WholeInv
  <2>2. /\ whole.merge \/ pages = [p \in PagesOf(whole) |-> whole.from]
        /\ VisualsAre(whole, Taken(whole))
    BY <2>1, StagesFacts DEF Progress
  <2> DEFINE S == DOMAIN Source(whole).visuals
             T == Taken(whole)
             f == [v \in T |-> VisualId(whole.kind, v)]
  <2>3. IsFiniteSet(S)
    BY <2>1, SourcesAssumption DEF Source
  <2>4. T \in SUBSET S
    BY DEF Taken
  <2>5. DOMAIN visuals = {f[v] : v \in T}
    BY <2>2 DEF VisualsAre, IdsOf
  <2>6. Cardinality(DOMAIN visuals) = Cardinality(S)
    BY DEF Verified
  <2>7. \A v \in T : f[v] = VisualId(whole.kind, v)
    OBVIOUS
  <2>8. f \in [T -> DOMAIN visuals] /\ \A id \in DOMAIN visuals : \E v \in T : f[v] = id
    BY <2>5
  <2>9. \A id \in DOMAIN visuals :
          \E v \in T : /\ id = VisualId(whole.kind, v)
                       /\ visuals[id].from = whole.from /\ visuals[id].source = v
    BY <2>2 DEF VisualsAre
  <2> HIDE DEF S, T, f
  <2>10. T = S /\ \A v, w \in T : f[v] = f[w] => v = w
    BY <2>3, <2>4, <2>6, <2>8, AsMany
  <2>11. ASSUME NEW v \in S
         PROVE  \E id \in DOMAIN visuals : visuals[id].from = whole.from /\ visuals[id].source = v
    <3>1. v \in T /\ f[v] \in DOMAIN visuals
      BY <2>5, <2>10
    <3>2. PICK w \in T : /\ f[v] = VisualId(whole.kind, w)
                         /\ visuals[f[v]].from = whole.from /\ visuals[f[v]].source = w
      BY <2>9, <3>1
    <3>3. w = v
      BY <2>7, <2>10, <3>1, <3>2
    <3> QED
      BY <3>1, <3>2, <3>3
  <2> QED
    BY <2>2, <2>11 DEF S
<1> QED
  BY <1>1, Invariance, PTL
================================================================================
