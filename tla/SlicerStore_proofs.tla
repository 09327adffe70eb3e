--------------------------- MODULE SlicerStore_proofs ---------------------------
(* Proofs about SlicerStore, for any slicers, pages, contents and layouts, any
   legacy files and any number of requests.

   The argument for the ids: an id that was not given to a second place is used
   at one place only, be it in the file, in what the hook last got or as the id
   of the place, unless the ids of the places are the same (IdInv).  The hook
   counts, because it writes back entries of an earlier answer.  For the rest,
   each request is a write of new slicers that come from those it loaded
   (Writes), or it writes nothing.                                            *)
EXTENDS SlicerStore, TLAPS

\* Where both use an id it is one place, or two places that have that id.
Apart(a, b, but) ==
  \A i \in Ids \ but, s, t \in Slicers, p, q \in PageIds :
    Uses(a, s, p, i) /\ Uses(b, t, q, i) =>
      \/ s = t /\ p = q
      \/ i = PlaceId[<<s, p>>] /\ i = PlaceId[<<t, q>>]

IdsFit(all, got, but) == Apart(all, all, but) /\ Apart(got, got, but) /\ Apart(all, got, but)

IdInv == IdsFit(slicers, seen, spread)

IInv == TypeOK /\ (~exists => slicers = None) /\ IdInv

-----------------------------------------------------------------------------
(* Entries, placements and slicers.                                           *)
LEMMA EntryFacts ==
  ASSUME NEW visible \in BOOLEAN, NEW sync \in BOOLEAN, NEW layout \in Layouts
  PROVE  /\ Entry(visible, sync, layout) \in Entries
         /\ Entry(visible, sync, layout).visible = visible
         /\ Entry(visible, sync, layout).sync = sync
         /\ Entry(visible, sync, layout).layout = layout
         /\ Entry(visible, sync, layout).inst = NoInst
BY DEF Entry, Entries, InstIds

LEMMA PlacementFacts ==
  ASSUME NEW pages, IsPlacement(pages)
  PROVE  /\ DOMAIN pages \subseteq PageIds
         /\ pages = [p \in DOMAIN pages |-> pages[p]]
         /\ \A p \in DOMAIN pages : pages[p] \in Entries
BY DEF IsPlacement, IsMap

LEMMA NonePlacement == IsPlacement(None) /\ DOMAIN None = {}
BY DEF IsPlacement, IsMap, None

LEMMA WithPlacement ==
  ASSUME NEW pages, IsPlacement(pages), NEW p \in PageIds, NEW e \in Entries
  PROVE  IsPlacement(With(pages, p, e))
<1> DEFINE new == With(pages, p, e)
<1>1. /\ DOMAIN new = DOMAIN pages \cup {p}
      /\ \A q \in DOMAIN new : new[q] \in Entries
      /\ new = [q \in DOMAIN new |-> new[q]]
  BY PlacementFacts DEF With
<1>2. DOMAIN new \subseteq PageIds
  BY <1>1, PlacementFacts
<1> HIDE DEF new
<1>3. new \in [DOMAIN new -> Entries]
  BY <1>1
<1>4. IsPlacement(new)
  BY <1>2, <1>3 DEF IsPlacement, IsMap
<1> QED
  BY <1>4 DEF new

LEMMA WithoutPlacement ==
  ASSUME NEW pages, IsPlacement(pages), NEW P
  PROVE  IsPlacement(Without(pages, P))
BY PlacementFacts DEF Without, IsPlacement, IsMap

LEMMA SlicerFacts ==
  ASSUME NEW all, AreSlicers(all)
  PROVE  /\ DOMAIN all \subseteq Slicers
         /\ \A s \in DOMAIN all :
              /\ all[s] = [body |-> all[s].body, pages |-> all[s].pages]
              /\ all[s].body \in Bodies /\ IsPlacement(all[s].pages)
<1>1. all = [s \in DOMAIN all |-> [body |-> all[s].body, pages |-> all[s].pages]]
  BY DEF AreSlicers
<1>2. ASSUME NEW s \in DOMAIN all
      PROVE  all[s] = [body |-> all[s].body, pages |-> all[s].pages]
  BY <1>1
<1> QED
  BY <1>2 DEF AreSlicers

LEMMA NoneAreSlicers == AreSlicers(None)
BY DEF AreSlicers, None

\* A slicer is set, some are left out.
LEMMA WithSlicers ==
  ASSUME NEW all, AreSlicers(all), NEW s \in Slicers,
         NEW slicer, slicer = [body |-> slicer.body, pages |-> slicer.pages],
         slicer.body \in Bodies, IsPlacement(slicer.pages),
         NEW new, new = With(all, s, slicer)
  PROVE  /\ AreSlicers(new)
         /\ DOMAIN new = DOMAIN all \cup {s}
         /\ new[s] = slicer
         /\ \A t \in DOMAIN all \ {s} : new[t] = all[t]
<1>1. /\ DOMAIN new = DOMAIN all \cup {s}
      /\ new[s] = slicer
      /\ \A t \in DOMAIN all \ {s} : new[t] = all[t]
      /\ new = [t \in DOMAIN new |-> new[t]]
  BY DEF With
<1>2. DOMAIN new \subseteq Slicers
  BY <1>1, SlicerFacts
<1>3. ASSUME NEW t \in DOMAIN new
      PROVE  /\ new[t] = [body |-> new[t].body, pages |-> new[t].pages]
             /\ new[t].body \in Bodies /\ IsPlacement(new[t].pages)
  <2>1. CASE t = s
    BY <1>1, <2>1
  <2>2. CASE t # s
    BY <1>1, <2>2, SlicerFacts
  <2> QED
    BY <2>1, <2>2
<1>4. new = [t \in DOMAIN new |-> [body |-> new[t].body, pages |-> new[t].pages]]
  BY <1>1, <1>3
<1>5. AreSlicers(new)
  BY <1>2, <1>3, <1>4 DEF AreSlicers
<1> QED
  BY <1>1, <1>5

LEMMA SomeSlicers ==
  ASSUME NEW all, AreSlicers(all), NEW S, S \subseteq DOMAIN all
  PROVE  AreSlicers([s \in S |-> all[s]])
<1> DEFINE new == [s \in S |-> all[s]]
<1>1. DOMAIN new = S /\ \A s \in S : new[s] = all[s]
  OBVIOUS
<1>2. new = [s \in DOMAIN new |-> [body |-> new[s].body, pages |-> new[s].pages]]
  BY SlicerFacts
<1> HIDE DEF new
<1>3. AreSlicers(new)
  BY <1>1, <1>2, SlicerFacts DEF AreSlicers
<1> QED
  BY <1>3 DEF new

-----------------------------------------------------------------------------
(* What a request loads: the file, or what the legacy files migrate to, whose
   entries have no ids of their own.                                          *)
LEMMA MapFacts ==
  ASSUME NEW K, NEW V, NEW f \in Maps(K, V)
  PROVE  DOMAIN f \subseteq K /\ \A k \in DOMAIN f : f[k] \in V
BY DEF Maps

LEMMA MigratedPlacement ==
  ASSUME TypeOK, NEW layouts \in [Slicers \X PageIds -> Layouts],
         NEW s \in DOMAIN legacy.defs
  PROVE  /\ IsPlacement(MigratedPages(legacy, s, layouts))
         /\ \A p \in DOMAIN MigratedPages(legacy, s, layouts) :
              MigratedPages(legacy, s, layouts)[p].inst = NoInst
<1> DEFINE def    == legacy.defs[s]
           placed == {i.page : i \in {j \in legacy.instances : j.def = s}}
           pages  == MigratedPages(legacy, s, layouts)
<1>1. s \in Slicers /\ def \in LegacyDefs
  BY DEF TypeOK, IsMap
<1>2. placed \subseteq PageIds
  BY DEF TypeOK, LegacyInstances
<1>3. /\ def.sync \in Maps(PageIds, Flags)
      /\ def.target \in PageIds \cup {NoPage}
  BY <1>1 DEF LegacyDefs
<1>4. DOMAIN def.sync \subseteq PageIds /\ \A p \in DOMAIN def.sync : def.sync[p] \in Flags
  BY <1>3, MapFacts
<1>5. CASE DOMAIN def.sync \cup placed = {} /\ def.target # NoPage
  <2>1. pages = [p \in {def.target} |-> Entry(TRUE, TRUE, DefaultLayout)]
    BY <1>5 DEF MigratedPages
  <2>2. /\ Entry(TRUE, TRUE, DefaultLayout) \in Entries
        /\ Entry(TRUE, TRUE, DefaultLayout).inst = NoInst
    BY EntryFacts, LayoutAssumption
  <2> HIDE DEF pages
  <2>3. /\ DOMAIN pages = {def.target} /\ pages \in [DOMAIN pages -> Entries]
        /\ \A p \in DOMAIN pages : pages[p].inst = NoInst
    BY <2>1, <2>2
  <2>4. IsPlacement(pages)
    BY <1>3, <1>5, <2>3 DEF IsPlacement, IsMap
  <2> QED
    BY <2>3, <2>4 DEF pages
<1>6. CASE ~(DOMAIN def.sync \cup placed = {} /\ def.target # NoPage)
  <2> DEFINE flags(p) == IF p \in DOMAIN def.sync THEN def.sync[p]
                                                  ELSE [visible |-> TRUE, sync |-> TRUE]
             layout(p) == IF p \in placed THEN layouts[<<s, p>>] ELSE DefaultLayout
             places == DOMAIN def.sync \cup placed
  <2>1. pages = [p \in places |-> Entry(flags(p).visible, flags(p).sync, layout(p))]
    BY <1>6 DEF MigratedPages
  <2>2. places \subseteq PageIds
    BY <1>2, <1>4
  <2>3. ASSUME NEW p \in places
        PROVE  /\ flags(p).visible \in BOOLEAN /\ flags(p).sync \in BOOLEAN
               /\ layout(p) \in Layouts
    <3>1. flags(p) \in Flags
      BY <1>4 DEF Flags
    <3>2. layout(p) \in Layouts
      BY <1>1, <2>2, LayoutAssumption
    <3> QED
      BY <3>1, <3>2 DEF Flags
  <2> HIDE DEF places, flags, layout, pages
  <2>4. DOMAIN pages = places /\ \A p \in places : pages[p] \in Entries /\ pages[p].inst = NoInst
    BY <2>1, <2>3, EntryFacts
  <2>5. pages \in [DOMAIN pages -> Entries]
    BY <2>1, <2>4
  <2>6. IsPlacement(pages) /\ \A p \in DOMAIN pages : pages[p].inst = NoInst
    BY <2>2, <2>4, <2>5 DEF IsPlacement, IsMap
  <2> QED
    BY <2>6 DEF pages
<1> QED
  BY <1>5, <1>6

LEMMA LoadedFacts ==
  ASSUME TypeOK, NEW all \in Loaded
  PROVE  /\ AreSlicers(all)
         /\ exists => all = slicers
         /\ ~exists => \A s \in DOMAIN all, p \in PageIds, i \in InstIds :
                         HasId(all, s, p, i) => i = NoInst
<1>1. CASE exists
  BY <1>1 DEF Loaded, TypeOK
<1>2. CASE ~exists
  <2>1. PICK layouts \in [Slicers \X PageIds -> Layouts] : all = Migrated(legacy, layouts)
    BY <1>2, LayoutAssumption DEF Loaded, LayoutChoices
  <2>2. /\ DOMAIN all = DOMAIN legacy.defs
        /\ \A s \in DOMAIN all :
             /\ all[s] = [body |-> legacy.defs[s].body,
                          pages |-> MigratedPages(legacy, s, layouts)]
             /\ all[s].body = legacy.defs[s].body
             /\ all[s].pages = MigratedPages(legacy, s, layouts)
    BY <2>1 DEF Migrated
  <2>3. /\ DOMAIN all \subseteq Slicers
        /\ \A s \in DOMAIN all : legacy.defs[s].body \in Bodies
    BY <2>2 DEF TypeOK, IsMap, LegacyDefs
  <2>4. ASSUME NEW s \in DOMAIN all
        PROVE  /\ IsPlacement(all[s].pages)
               /\ \A p \in DOMAIN all[s].pages : all[s].pages[p].inst = NoInst
    <3>1. s \in DOMAIN legacy.defs /\ all[s].pages = MigratedPages(legacy, s, layouts)
      BY <2>2
    <3>2. /\ IsPlacement(MigratedPages(legacy, s, layouts))
          /\ \A p \in DOMAIN MigratedPages(legacy, s, layouts) :
               MigratedPages(legacy, s, layouts)[p].inst = NoInst
      BY <3>1, MigratedPlacement
    <3> QED
      BY <3>1, <3>2
  <2>5. all = [s \in DOMAIN all |-> [body |-> all[s].body, pages |-> all[s].pages]]
    <3>1. all = [s \in DOMAIN all |-> all[s]]
      BY <2>1 DEF Migrated
    <3> QED
      BY <2>2, <3>1
  <2>6. AreSlicers(all)
    BY <2>2, <2>3, <2>4, <2>5 DEF AreSlicers
  <2> QED
    BY <1>2, <2>4, <2>6 DEF HasId
<1> QED
  BY <1>1, <1>2

-----------------------------------------------------------------------------
(* New slicers, and what they take over from those that were loaded.          *)
\* An entry has no id, that of its place, or one that it had there.
Kept(all, s, p, i) ==
  i \in {NoInst, PlaceId[<<s, p>>]} \/ HasId(all, s, p, i) \/ HasId(seen, s, p, i)

\* But the one on page q of slicer t may have got another.
Comes(all, new, id, t, q) ==
  /\ id \in Ids => Spreads(all, id, t, q) \subseteq spread'
  /\ \A s \in Slicers, p \in PageIds, i \in InstIds :
       HasId(new, s, p, i) => Kept(all, s, p, i) \/ (s = t /\ p = q /\ i = id /\ id \in Ids)

Leaves(s, all, new) == \A t \in Slicers \ {s} : SameBare(t, all, new)

KeepsLayouts(all, new) ==
  \A s \in DOMAIN all \cap DOMAIN new :
    \A p \in DOMAIN all[s].pages \cap DOMAIN new[s].pages :
      new[s].pages[p].layout = all[s].pages[p].layout

LEMMA ApartSymmetric ==
  ASSUME NEW a, NEW b, NEW but, Apart(a, b, but) PROVE Apart(b, a, but)
BY DEF Apart

\* Slicers whose entries have no ids fit all that fit among themselves.
LEMMA BareApart ==
  ASSUME NEW all, NEW b, NEW but, Apart(b, b, but),
         \A s \in Slicers, p \in PageIds, i \in Ids : ~ HasId(all, s, p, i)
  PROVE  Apart(all, all, but) /\ Apart(all, b, but)
<1>1. \A s \in Slicers, p \in PageIds, i \in Ids :
        Uses(all, s, p, i) => i = PlaceId[<<s, p>>] /\ Uses(b, s, p, i)
  BY DEF Uses
<1> QED
  BY <1>1 DEF Apart

\* What a request loads fits like the file.
LEMMA LoadedFits ==
  ASSUME IInv, NEW all \in Loaded PROVE IdsFit(all, seen, spread)
<1>1. IdsFit(slicers, seen, spread) /\ TypeOK
  BY DEF IInv, IdInv
<1>2. CASE exists
  BY <1>1, <1>2, LoadedFacts
<1>3. CASE ~ exists
  <2>1. ASSUME NEW s \in Slicers, NEW p \in PageIds, NEW i \in Ids PROVE ~ HasId(all, s, p, i)
    <3>1. i \in InstIds /\ i # NoInst
      BY IdsAssumption DEF InstIds
    <3>2. s \in DOMAIN all => ~ HasId(all, s, p, i)
      BY <1>1, <1>3, <3>1, LoadedFacts
    <3> QED
      BY <3>2 DEF HasId
  <2> QED
    BY <1>1, <2>1, BareApart DEF IdsFit
<1> QED
  BY <1>2, <1>3

LEMMA ComesFits ==
  ASSUME IInv, spread \subseteq spread', NEW all \in Loaded, NEW new, NEW id, NEW t, NEW q,
         Comes(all, new, id, t, q)
  PROVE  IdsFit(new, seen, spread') /\ IdsFit(new, new, spread')
<1>1. /\ Apart(all, all, spread) /\ Apart(all, seen, spread)
      /\ Apart(seen, all, spread) /\ Apart(seen, seen, spread)
  BY LoadedFits, ApartSymmetric DEF IdsFit
<1> DEFINE Old(s, p, i) == Uses(all, s, p, i) \/ Uses(seen, s, p, i)
           New(s, p, i) == s = t /\ p = q /\ i = id
\* The places that used an id before, and the one that may have got it.
<1>2. ASSUME NEW i \in Ids \ spread', NEW s \in Slicers, NEW r \in Slicers,
             NEW p \in PageIds, NEW u \in PageIds, Old(s, p, i), Old(r, u, i)
      PROVE  (s = r /\ p = u) \/ (i = PlaceId[<<s, p>>] /\ i = PlaceId[<<r, u>>])
  <2>1. i \in Ids \ spread
    OBVIOUS
  <2> QED
    BY <1>1, <1>2, <2>1 DEF Apart
<1>3. ASSUME NEW i \in Ids \ spread', NEW s \in Slicers, NEW p \in PageIds,
             i = id, Old(s, p, i), i # PlaceId[<<t, q>>]
      PROVE  s = t /\ p = q
  <2>1. i \notin Spreads(all, id, t, q)
    BY <1>3 DEF Comes
  <2>2. i \in {id} \ {PlaceId[<<t, q>>]}
    BY <1>3
  <2>3. ~ \E x \in (Slicers \X PageIds) \ {<<t, q>>} :
            Uses(all, x[1], x[2], i) \/ Uses(seen, x[1], x[2], i)
    BY <2>1, <2>2 DEF Spreads
  <2>4. <<s, p>> \in Slicers \X PageIds /\ <<s, p>>[1] = s /\ <<s, p>>[2] = p
    OBVIOUS
  <2>5. <<s, p>> = <<t, q>>
    BY <1>3, <2>3, <2>4
  <2> QED
    BY <2>5
<1>4. ASSUME NEW i \in Ids \ spread', NEW s \in Slicers, NEW p \in PageIds,
             New(s, p, i), NEW r \in Slicers, NEW u \in PageIds, Old(r, u, i)
      PROVE  (s = r /\ p = u) \/ (i = PlaceId[<<s, p>>] /\ i = PlaceId[<<r, u>>])
  <2>1. CASE i # PlaceId[<<t, q>>]
    BY <1>3, <1>4, <2>1
  <2>2. CASE i = PlaceId[<<t, q>>]
    <3>1. Old(t, q, i)
      BY <2>2 DEF Uses
    <3> QED
      BY <1>2, <1>4, <3>1
  <2> QED
    BY <2>1, <2>2
<1>5. ASSUME NEW i \in Ids \ spread', NEW s \in Slicers, NEW p \in PageIds, Uses(new, s, p, i)
      PROVE  Old(s, p, i) \/ New(s, p, i)
  <2>1. i \in InstIds /\ i # NoInst
    BY IdsAssumption DEF InstIds
  <2>2. HasId(new, s, p, i) => Kept(all, s, p, i) \/ New(s, p, i)
    BY <2>1 DEF Comes
  <2> QED
    BY <1>5, <2>1, <2>2 DEF Kept, Uses
<1>6. ASSUME NEW i \in Ids \ spread', NEW s \in Slicers, NEW p \in PageIds, Uses(seen, s, p, i)
      PROVE  Old(s, p, i)
  BY <1>6
<1> HIDE DEF Old
<1>7. Apart(new, seen, spread')
  BY <1>2, <1>4, <1>5, <1>6 DEF Apart
<1>8. Apart(new, new, spread')
  <2> SUFFICES ASSUME NEW i \in Ids \ spread', NEW s \in Slicers, NEW r \in Slicers,
                      NEW p \in PageIds, NEW u \in PageIds, Uses(new, s, p, i), Uses(new, r, u, i)
               PROVE  (s = r /\ p = u) \/ (i = PlaceId[<<s, p>>] /\ i = PlaceId[<<r, u>>])
    BY DEF Apart
  <2>1. (Old(s, p, i) \/ New(s, p, i)) /\ (Old(r, u, i) \/ New(r, u, i))
    BY <1>5
  <2> QED
    BY <1>2, <1>4, <2>1
<1>9. Apart(seen, seen, spread')
  BY <1>1 DEF Apart
<1> QED
  BY <1>7, <1>8, <1>9 DEF IdsFit

\* One slicer is set.
LEMMA SetSlicer ==
  ASSUME NEW all, AreSlicers(all), NEW s \in Slicers,
         NEW slicer, slicer = [body |-> slicer.body, pages |-> slicer.pages],
         slicer.body \in Bodies, IsPlacement(slicer.pages),
         \A p \in DOMAIN slicer.pages : Kept(all, s, p, slicer.pages[p].inst),
         NEW new, new = With(all, s, slicer)
  PROVE  /\ AreSlicers(new)
         /\ Comes(all, new, NoInst, s, NoPage)
         /\ Leaves(s, all, new)
         /\ new[s] = slicer
         /\ DOMAIN new = DOMAIN all \cup {s}
         /\ \A t \in DOMAIN all \ {s} : new[t] = all[t]
<1>1. /\ AreSlicers(new)
      /\ DOMAIN new = DOMAIN all \cup {s}
      /\ new[s] = slicer
      /\ \A t \in DOMAIN all \ {s} : new[t] = all[t]
  BY WithSlicers
<1>2. NoInst \notin Ids
  BY IdsAssumption
<1>3. ASSUME NEW t \in Slicers, NEW p \in PageIds, NEW i \in InstIds, HasId(new, t, p, i)
      PROVE  Kept(all, t, p, i)
  <2>1. CASE t = s
    BY <1>1, <1>3, <2>1 DEF HasId
  <2>2. CASE t # s
    BY <1>1, <1>3, <2>2 DEF HasId, Kept
  <2> QED
    BY <2>1, <2>2
<1>4. Leaves(s, all, new)
  BY <1>1 DEF Leaves, SameBare
<1>5. Comes(all, new, NoInst, s, NoPage)
  BY <1>2, <1>3 DEF Comes
<1> QED
  BY <1>1, <1>4, <1>5

\* Some are taken over as they are.
LEMMA TakeSlicers ==
  ASSUME NEW all, NEW from, AreSlicers(from), from \in {all, seen}, NEW S, S \subseteq DOMAIN from,
         NEW new, new = [s \in S |-> from[s]]
  PROVE  /\ AreSlicers(new)
         /\ \A s, q : Comes(all, new, NoInst, s, q)
         /\ \A s : from = all /\ S = DOMAIN all \ {s} => Leaves(s, all, new)
<1>1. AreSlicers(new) /\ DOMAIN new = S /\ \A s \in S : new[s] = from[s]
  BY SomeSlicers
<1>2. NoInst \notin Ids
  BY IdsAssumption
<1>3. ASSUME NEW t \in Slicers, NEW p \in PageIds, NEW i \in InstIds, HasId(new, t, p, i)
      PROVE  Kept(all, t, p, i)
  BY <1>1, <1>3 DEF HasId, Kept
<1>4. ASSUME NEW s, from = all, S = DOMAIN all \ {s} PROVE Leaves(s, all, new)
  BY <1>1, <1>4 DEF Leaves, SameBare
<1> QED
  BY <1>1, <1>2, <1>3, <1>4 DEF Comes

-----------------------------------------------------------------------------
(* Definitions: the way back from the legacy view.                            *)
IsDef(def) ==
  /\ def.body \in Bodies
  /\ def.sync.on => def.sync.flags \in Maps(PageIds, Flags)

LEMMA BareSame ==
  ASSUME NEW a, NEW b, IsPlacement(a.pages), IsPlacement(b.pages), a.body = b.body,
         DOMAIN a.pages = DOMAIN b.pages,
         \A p \in DOMAIN a.pages : /\ a.pages[p].visible = b.pages[p].visible
                                   /\ a.pages[p].sync = b.pages[p].sync
                                   /\ a.pages[p].layout = b.pages[p].layout
  PROVE  Bare(a) = Bare(b)
<1>1. ASSUME NEW p \in DOMAIN a.pages
      PROVE  [a.pages[p] EXCEPT !.inst = NoInst] = [b.pages[p] EXCEPT !.inst = NoInst]
  <2>1. a.pages[p] \in Entries /\ b.pages[p] \in Entries
    BY PlacementFacts
  <2> QED
    BY <2>1 DEF Entries
<1> QED
  BY <1>1 DEF Bare

LEMMA DefPages ==
  ASSUME NEW def, IsDef(def), NEW old, IsPlacement(old),
         NEW pages, pages = PagesFromDef(def, old)
  PROVE  /\ IsPlacement(pages)
         /\ \A p \in DOMAIN pages :
              pages[p].inst = NoInst \/ (p \in DOMAIN old /\ pages[p].inst = old[p].inst)
         /\ \A p \in DOMAIN pages \cap DOMAIN old : pages[p].layout = old[p].layout
<1>1. CASE ~ def.sync.on
  BY <1>1 DEF PagesFromDef
<1>2. CASE def.sync.on
  <2> DEFINE flags == def.sync.flags
             layout(p) == IF p \in DOMAIN old THEN old[p].layout ELSE DefaultLayout
  <2>1. pages = [p \in DOMAIN flags |-> Entry(flags[p].visible, flags[p].sync, layout(p))]
    BY <1>2 DEF PagesFromDef
  <2>2. DOMAIN flags \subseteq PageIds /\ \A p \in DOMAIN flags : flags[p] \in Flags
    BY <1>2, MapFacts DEF IsDef
  <2>3. ASSUME NEW p \in DOMAIN flags
        PROVE  flags[p].visible \in BOOLEAN /\ flags[p].sync \in BOOLEAN /\ layout(p) \in Layouts
    BY <2>2, PlacementFacts, LayoutAssumption DEF Flags, Entries
  <2>4. \A p \in DOMAIN pages \cap DOMAIN old : layout(p) = old[p].layout
    OBVIOUS
  <2> HIDE DEF flags, layout
  <2>5. /\ DOMAIN pages = DOMAIN flags
        /\ \A p \in DOMAIN pages : /\ pages[p] \in Entries /\ pages[p].inst = NoInst
                                   /\ pages[p].layout = layout(p)
    BY <2>1, <2>3, EntryFacts
  <2>6. pages \in [DOMAIN pages -> Entries]
    BY <2>1, <2>5
  <2>7. IsPlacement(pages)
    BY <2>2, <2>5, <2>6 DEF IsPlacement, IsMap
  <2> QED
    BY <2>4, <2>5, <2>7
<1> QED
  BY <1>1, <1>2

LEMMA DefOfFacts ==
  ASSUME NEW slicer, slicer.body \in Bodies, IsPlacement(slicer.pages),
         NEW new, new = [body |-> slicer.body,
                         pages |-> PagesFromDef(DefOf(slicer), slicer.pages)]
  PROVE  IsDef(DefOf(slicer)) /\ Bare(new) = Bare(slicer)
<1> DEFINE pages == slicer.pages
           flags == SyncPages(pages)
<1>1. flags \in Maps(PageIds, Flags)
  <2>1. flags \in [DOMAIN pages -> Flags]
    BY PlacementFacts DEF SyncPages, FlagsOf, Flags, Entries
  <2> QED
    BY <2>1, PlacementFacts DEF Maps
<1>2. IsDef(DefOf(slicer))
  BY <1>1 DEF IsDef, DefOf, SyncIs, NoSync
<1>3. CASE pages = None
  <2>1. new.pages = pages /\ new.body = slicer.body
    BY <1>3 DEF PagesFromDef, DefOf, NoSync
  <2> QED
    BY <1>2, <2>1 DEF Bare
<1>4. CASE pages # None
  <2> DEFINE made == new.pages
  <2>1. made = [p \in DOMAIN flags |->
                  Entry(flags[p].visible, flags[p].sync,
                        IF p \in DOMAIN pages THEN pages[p].layout ELSE DefaultLayout)]
    BY <1>4 DEF PagesFromDef, DefOf, SyncIs
  <2>2. DOMAIN flags = DOMAIN pages /\ \A p \in DOMAIN pages : flags[p] = FlagsOf(pages[p])
    BY DEF SyncPages
  <2> HIDE DEF made, flags
  <2>3. ASSUME NEW p \in DOMAIN pages
        PROVE  /\ made[p].visible = pages[p].visible
               /\ made[p].sync = pages[p].sync
               /\ made[p].layout = pages[p].layout
    <3>1. flags[p] = [visible |-> pages[p].visible, sync |-> pages[p].sync]
      BY <2>2 DEF FlagsOf
    <3>2. made[p] = [visible |-> flags[p].visible, sync |-> flags[p].sync,
                     layout |-> IF p \in DOMAIN pages THEN pages[p].layout ELSE DefaultLayout,
                     inst |-> NoInst]
      BY <2>1, <2>2 DEF Entry
    <3> QED
      BY <3>1, <3>2
  <2>4. ASSUME NEW p \in DOMAIN pages
        PROVE  /\ new.pages[p].visible = pages[p].visible
               /\ new.pages[p].sync = pages[p].sync
               /\ new.pages[p].layout = pages[p].layout
    BY <2>3 DEF made
  <2>5. DOMAIN new.pages = DOMAIN pages /\ new.body = slicer.body
    BY <2>1, <2>2 DEF made
  <2>6. IsPlacement(new.pages)
    BY <1>2, DefPages
  <2> QED
    BY <1>2, <2>4, <2>5, <2>6, BareSame
<1> QED
  BY <1>3, <1>4

LEMMA DefsWritten ==
  ASSUME NEW all, AreSlicers(all), NEW defs, DOMAIN defs \subseteq Slicers,
         \A s \in DOMAIN defs : IsDef(defs[s]), SaveDefs(all, defs)
  PROVE  /\ Saved(slicers') /\ AreSlicers(slicers')
         /\ \A s, q : Comes(all, slicers', NoInst, s, q)
         /\ KeepsLayouts(all, slicers')
         /\ \A s \in Slicers :
              /\ s \in DOMAIN all <=> s \in DOMAIN defs
              /\ s \in DOMAIN all => defs[s] = DefOf(all[s])
              => SameBare(s, all, slicers')
<1> DEFINE old(s) == IF s \in DOMAIN all THEN all[s].pages ELSE None
           new == [s \in DOMAIN defs |->
                     [body |-> defs[s].body, pages |-> PagesFromDef(defs[s], old(s))]]
<1>1. Saved(new) /\ slicers' = new
  BY DEF SaveDefs, Saved
<1>2. /\ DOMAIN new = DOMAIN defs
      /\ \A s \in DOMAIN defs : /\ new[s] = [body |-> new[s].body, pages |-> new[s].pages]
                                /\ new[s].body = defs[s].body
                                /\ new[s].pages = PagesFromDef(defs[s], old(s))
  OBVIOUS
<1>3. new = [s \in DOMAIN new |-> [body |-> new[s].body, pages |-> new[s].pages]]
  OBVIOUS
<1>4. \A s : IsPlacement(old(s)) /\ (s \notin DOMAIN all => DOMAIN old(s) = {})
  BY SlicerFacts, NonePlacement
<1>5. \A s \in DOMAIN all : old(s) = all[s].pages
  OBVIOUS
<1> HIDE DEF new, old
<1>6. ASSUME NEW s \in DOMAIN new
      PROVE  /\ IsPlacement(new[s].pages)
             /\ \A p \in DOMAIN new[s].pages :
                  \/ new[s].pages[p].inst = NoInst
                  \/ p \in DOMAIN old(s) /\ new[s].pages[p].inst = old(s)[p].inst
             /\ \A p \in DOMAIN new[s].pages \cap DOMAIN old(s) :
                  new[s].pages[p].layout = old(s)[p].layout
  <2>1. IsDef(defs[s]) /\ IsPlacement(old(s)) /\ new[s].pages = PagesFromDef(defs[s], old(s))
    BY <1>2, <1>4
  <2> QED
    BY <2>1, DefPages
<1>7. AreSlicers(new)
  BY <1>2, <1>3, <1>6 DEF AreSlicers, IsDef
<1>8. ASSUME NEW s \in Slicers, NEW p \in PageIds, NEW i \in InstIds, HasId(new, s, p, i)
      PROVE  Kept(all, s, p, i)
  BY <1>4, <1>5, <1>6, <1>8 DEF HasId, Kept
<1>9. \A s, q : Comes(all, new, NoInst, s, q)
  BY <1>8, IdsAssumption DEF Comes
<1>10. KeepsLayouts(all, new)
  BY <1>5, <1>6 DEF KeepsLayouts
<1>11. ASSUME NEW s \in Slicers, s \in DOMAIN all <=> s \in DOMAIN defs,
              s \in DOMAIN all => defs[s] = DefOf(all[s])
       PROVE  SameBare(s, all, new)
  <2>1. CASE s \notin DOMAIN all
    BY <1>2, <1>11, <2>1 DEF SameBare
  <2>2. CASE s \in DOMAIN all
    <3>1. /\ defs[s] = DefOf(all[s]) /\ s \in DOMAIN new
          /\ new[s].pages = PagesFromDef(defs[s], all[s].pages)
          /\ new[s] = [body |-> new[s].body, pages |-> new[s].pages]
          /\ new[s].body = defs[s].body
      BY <1>2, <1>5, <1>11, <2>2
    <3>2. new[s] = [body |-> all[s].body,
                    pages |-> PagesFromDef(DefOf(all[s]), all[s].pages)]
      BY <3>1 DEF DefOf
    <3>3. all[s].body \in Bodies /\ IsPlacement(all[s].pages)
      BY <2>2, SlicerFacts
    <3>4. Bare(new[s]) = Bare(all[s])
      BY <3>2, <3>3, DefOfFacts
    <3> QED
      BY <2>2, <3>1, <3>4 DEF SameBare
  <2> QED
    BY <2>1, <2>2
<1> QED
  BY <1>1, <1>7, <1>9, <1>10, <1>11

-----------------------------------------------------------------------------
(* Instances: the way back from the visible entries.                          *)
Instances == [id : InstIds, def : Slicers, page : PageIds, layout : Layouts]

LEMMA InstanceFacts ==
  ASSUME NEW all, AreSlicers(all), NEW i \in InstancesOf(all)
  PROVE  /\ i \in Instances /\ i.id \in Ids /\ i.def \in DOMAIN all
         /\ i.page \in DOMAIN all[i.def].pages
         /\ i.id = InstanceId(i.def, i.page, all[i.def].pages[i.page])
         /\ i.layout = all[i.def].pages[i.page].layout
<1>1. PICK s \in DOMAIN all :
        \E p \in VisibleOn(all[s].pages) :
          i = [id |-> InstanceId(s, p, all[s].pages[p]), def |-> s, page |-> p,
               layout |-> all[s].pages[p].layout]
  BY DEF InstancesOf
<1>2. PICK p \in VisibleOn(all[s].pages) :
        i = [id |-> InstanceId(s, p, all[s].pages[p]), def |-> s, page |-> p,
             layout |-> all[s].pages[p].layout]
  BY <1>1
<1>3. s \in Slicers /\ p \in DOMAIN all[s].pages /\ IsPlacement(all[s].pages)
  BY SlicerFacts DEF VisibleOn
<1>4. p \in PageIds /\ all[s].pages[p] \in Entries
  BY <1>3, PlacementFacts
<1>5. InstanceId(s, p, all[s].pages[p]) \in Ids
  BY <1>3, <1>4, IdsAssumption DEF InstanceId, InstIds, Entries
<1>6. all[s].pages[p].layout \in Layouts
  BY <1>4 DEF Entries
<1> QED
  BY <1>2, <1>3, <1>4, <1>5, <1>6 DEF Instances, InstIds

LEMMA AmongFacts ==
  ASSUME NEW items, items # {}, NEW preferred PROVE Among(items, preferred) \in items
BY DEF Among

\* The entries of slicer s for a list of items.
LEMMA PlacedFacts ==
  ASSUME NEW pages, IsPlacement(pages), NEW s, NEW list, NEW first, NEW final,
         \A i \in list : i.def = s => i \in Instances,
         NEW new, new = Placed(pages, s, list, first, final)
  PROVE  /\ IsPlacement(new)
         /\ DOMAIN pages \subseteq DOMAIN new
         /\ \A p \in DOMAIN new \ DOMAIN pages : Items(list, s, p) # {}
         /\ \A p \in DOMAIN new : Items(list, s, p) # {} =>
              /\ \E i \in Items(list, s, p) : new[p].inst = i.id
              /\ \E i \in Items(list, s, p) : new[p].layout = i.layout
         /\ \A p \in DOMAIN pages :
              /\ Items(list, s, p) = {} => new[p] = pages[p]
              /\ new[p].visible = pages[p].visible /\ new[p].sync = pages[p].sync
<1> DEFINE places == DOMAIN pages \cup {i.page : i \in {j \in list : j.def = s}}
           item(p) == [visible |-> p \in DOMAIN pages => pages[p].visible,
                       sync    |-> p \in DOMAIN pages => pages[p].sync,
                       layout  |-> Among(Items(list, s, p), final).layout,
                       inst    |-> Among(Items(list, s, p), first).id]
<1>1. new = [p \in places |-> IF Items(list, s, p) = {} THEN pages[p] ELSE item(p)]
  BY DEF Placed
<1>2. places \subseteq PageIds
  BY PlacementFacts DEF Instances
<1>3. \A p \in places \ DOMAIN pages : Items(list, s, p) # {}
  BY DEF Items
<1>4. \A p : DOMAIN pages \subseteq places
  OBVIOUS
<1>5. ASSUME NEW p, Items(list, s, p) # {}
      PROVE  /\ item(p).inst = Among(Items(list, s, p), first).id
             /\ item(p).layout = Among(Items(list, s, p), final).layout
             /\ Among(Items(list, s, p), first) \in Items(list, s, p)
             /\ Among(Items(list, s, p), final) \in Items(list, s, p)
  BY <1>5, AmongFacts
<1>6. ASSUME NEW p \in DOMAIN pages
      PROVE  item(p).visible = pages[p].visible /\ item(p).sync = pages[p].sync
  <2>1. pages[p].visible \in BOOLEAN /\ pages[p].sync \in BOOLEAN
    BY PlacementFacts DEF Entries
  <2> QED
    BY <2>1
<1>7. ASSUME NEW p, Items(list, s, p) # {}
      PROVE  item(p) \in Entries
  <2>1. item(p).visible \in BOOLEAN /\ item(p).sync \in BOOLEAN
    OBVIOUS
  <2>2. item(p).layout \in Layouts /\ item(p).inst \in InstIds
    BY <1>5, <1>7 DEF Items, Instances
  <2>3. item(p) = [visible |-> item(p).visible, sync |-> item(p).sync,
                   layout |-> item(p).layout, inst |-> item(p).inst]
    OBVIOUS
  <2> HIDE DEF item
  <2> QED
    BY <2>1, <2>2, <2>3 DEF Entries
<1> HIDE DEF places, item
<1>8. ASSUME NEW p \in places
      PROVE  /\ new[p] \in Entries
             /\ Items(list, s, p) # {} => new[p] = item(p)
             /\ Items(list, s, p) = {} => new[p] = pages[p]
  BY <1>1, <1>3, <1>7, PlacementFacts
<1>9. DOMAIN new = places /\ new \in [DOMAIN new -> Entries]
  BY <1>1, <1>8
<1>10. IsPlacement(new)
  BY <1>2, <1>9 DEF IsPlacement, IsMap
<1>11. ASSUME NEW p \in places, Items(list, s, p) # {}
       PROVE  /\ \E i \in Items(list, s, p) : new[p].inst = i.id
              /\ \E i \in Items(list, s, p) : new[p].layout = i.layout
  BY <1>5, <1>8, <1>11
<1>12. ASSUME NEW p \in DOMAIN pages
       PROVE  new[p].visible = pages[p].visible /\ new[p].sync = pages[p].sync
  BY <1>4, <1>6, <1>8
<1> QED
  BY <1>3, <1>4, <1>8, <1>9, <1>10, <1>11, <1>12

\* A list of the instances that were loaded, but for one on page q of slicer t.
LEMMA InstancesWritten ==
  ASSUME NEW all, AreSlicers(all), NEW t \in Slicers, NEW q, NEW id,
         NEW X \in SUBSET Instances, \A x \in X : x.def = t /\ x.page = q /\ x.id = id,
         NEW list, list \subseteq InstancesOf(all) \cup X, SaveInstances(all, list)
  PROVE  /\ Saved(slicers') /\ AreSlicers(slicers')
         /\ Leaves(t, all, slicers')
         /\ id \in Ids /\ Spreads(all, id, t, q) \subseteq spread' => Comes(all, slicers', id, t, q)
         /\ X = {} => \A s, p : Comes(all, slicers', NoInst, s, p)
<1>1. PICK first, final :
        Saved([s \in DOMAIN all |->
                 [all[s] EXCEPT !.pages = Placed(@, s, list, first, final)]])
  BY DEF SaveInstances
<1> DEFINE pages(s) == Placed(all[s].pages, s, list, first, final)
           new == [s \in DOMAIN all |-> [all[s] EXCEPT !.pages = pages(s)]]
<1>2. Saved(new) /\ slicers' = new
  BY <1>1 DEF Saved
<1>3. ASSUME NEW s \in DOMAIN all
      PROVE  new[s] = [body |-> all[s].body, pages |-> pages(s)]
  BY SlicerFacts
<1>4. ASSUME NEW i \in list PROVE i \in Instances
  BY InstanceFacts
<1>5. ASSUME NEW s \in DOMAIN all
      PROVE  /\ IsPlacement(pages(s))
             /\ DOMAIN all[s].pages \subseteq DOMAIN pages(s)
             /\ \A p \in DOMAIN pages(s) \ DOMAIN all[s].pages : Items(list, s, p) # {}
             /\ \A p \in DOMAIN pages(s) : Items(list, s, p) # {} =>
                  /\ \E i \in Items(list, s, p) : pages(s)[p].inst = i.id
                  /\ \E i \in Items(list, s, p) : pages(s)[p].layout = i.layout
             /\ \A p \in DOMAIN all[s].pages :
                  /\ Items(list, s, p) = {} => pages(s)[p] = all[s].pages[p]
                  /\ pages(s)[p].visible = all[s].pages[p].visible
                  /\ pages(s)[p].sync = all[s].pages[p].sync
  <2>1. IsPlacement(all[s].pages)
    BY SlicerFacts
  <2> QED
    BY <1>4, <2>1, PlacedFacts
<1>6. DOMAIN new = DOMAIN all /\ new = [s \in DOMAIN new |-> new[s]]
  OBVIOUS
<1> HIDE DEF new, pages
<1>7. ASSUME NEW s \in DOMAIN all
      PROVE  /\ new[s].body = all[s].body /\ new[s].pages = pages(s)
             /\ new[s] = [body |-> new[s].body, pages |-> new[s].pages]
  <2>1. new[s] = [body |-> all[s].body, pages |-> pages(s)]
    BY <1>3
  <2>2. new[s].body = all[s].body /\ new[s].pages = pages(s)
    BY <2>1
  <2> QED
    BY <2>1, <2>2
<1>8. new = [s \in DOMAIN new |-> [body |-> new[s].body, pages |-> new[s].pages]]
  BY <1>6, <1>7
<1>9. AreSlicers(new)
  <2>1. DOMAIN new \in SUBSET Slicers
    BY <1>6, SlicerFacts
  <2>2. \A s \in DOMAIN new : new[s].body \in Bodies /\ IsPlacement(new[s].pages)
    BY <1>5, <1>6, <1>7, SlicerFacts
  <2> QED
    BY <1>8, <2>1, <2>2 DEF AreSlicers
\* An item that was not added has the layout of its entry, and an id it may have.
<1>10. ASSUME NEW s \in DOMAIN all, NEW p, NEW i \in Items(list, s, p), i \notin X
       PROVE  /\ p \in DOMAIN all[s].pages /\ i.layout = all[s].pages[p].layout
              /\ Kept(all, s, p, i.id)
  <2>1. i \in InstancesOf(all) /\ i.def = s /\ i.page = p
    BY <1>10 DEF Items
  <2>2. /\ p \in DOMAIN all[s].pages /\ i.layout = all[s].pages[p].layout
        /\ i.id = InstanceId(s, p, all[s].pages[p])
    BY <2>1, InstanceFacts
  <2>3. Kept(all, s, p, i.id)
    BY <2>2 DEF InstanceId, Kept, HasId
  <2> QED
    BY <2>2, <2>3
<1>11. ASSUME NEW s \in DOMAIN all, NEW p, NEW i \in Items(list, s, p), i \in X
       PROVE  s = t /\ p = q /\ i.id = id
  BY <1>11 DEF Items
<1>12. Leaves(t, all, new)
  <2> SUFFICES ASSUME NEW s \in Slicers \ {t}, s \in DOMAIN all
               PROVE  Bare(new[s]) = Bare(all[s])
    BY <1>6 DEF Leaves, SameBare
  <2>1. ASSUME NEW p, NEW i \in Items(list, s, p)
        PROVE  p \in DOMAIN all[s].pages /\ i.layout = all[s].pages[p].layout
    BY <1>10, <1>11
  <2>2. DOMAIN pages(s) = DOMAIN all[s].pages
    BY <1>5, <2>1
  <2>3. ASSUME NEW p \in DOMAIN pages(s)
        PROVE  /\ pages(s)[p].visible = all[s].pages[p].visible
               /\ pages(s)[p].sync = all[s].pages[p].sync
               /\ pages(s)[p].layout = all[s].pages[p].layout
    <3>1. CASE Items(list, s, p) = {}
      BY <1>5, <2>2, <3>1
    <3>2. CASE Items(list, s, p) # {}
      BY <1>5, <2>1, <2>2, <3>2
    <3> QED
      BY <3>1, <3>2
  <2>4. IsPlacement(new[s].pages) /\ IsPlacement(all[s].pages)
    BY <1>5, <1>7, SlicerFacts
  <2>5. /\ new[s].body = all[s].body /\ DOMAIN new[s].pages = DOMAIN all[s].pages
        /\ \A p \in DOMAIN new[s].pages :
             /\ new[s].pages[p].visible = all[s].pages[p].visible
             /\ new[s].pages[p].sync = all[s].pages[p].sync
             /\ new[s].pages[p].layout = all[s].pages[p].layout
    BY <1>7, <2>2, <2>3
  <2> QED
    BY <2>4, <2>5, BareSame
<1>13. ASSUME NEW s \in Slicers, NEW p \in PageIds, NEW j \in InstIds, HasId(new, s, p, j)
       PROVE  Kept(all, s, p, j) \/ (X # {} /\ s = t /\ p = q /\ j = id)
  <2>1. s \in DOMAIN all /\ p \in DOMAIN pages(s) /\ pages(s)[p].inst = j
    BY <1>6, <1>7, <1>13 DEF HasId
  <2>2. CASE Items(list, s, p) = {}
    <3>1. p \in DOMAIN all[s].pages /\ pages(s)[p] = all[s].pages[p]
      BY <1>5, <2>1, <2>2
    <3> QED
      BY <2>1, <3>1 DEF Kept, HasId
  <2>3. CASE Items(list, s, p) # {}
    <3>1. PICK i \in Items(list, s, p) : j = i.id
      BY <1>5, <2>1, <2>3
    <3> QED
      BY <1>10, <1>11, <2>1, <3>1
  <2> QED
    BY <2>2, <2>3
<1>14. id \in Ids /\ Spreads(all, id, t, q) \subseteq spread' => Comes(all, new, id, t, q)
  BY <1>13 DEF Comes
<1>15. X = {} => \A s, p : Comes(all, new, NoInst, s, p)
  BY <1>13, IdsAssumption DEF Comes
<1> QED
  BY <1>2, <1>9, <1>12, <1>14, <1>15

-----------------------------------------------------------------------------
(* The steps: each writes new slicers for those that it loaded, or none.      *)
Writes(all, new) ==
  /\ all \in Loaded /\ Saved(new) /\ AreSlicers(new)
  /\ spread \subseteq spread'
  /\ \E id, t, q : Comes(all, new, id, t, q)
  /\ seen' = new \/ seen' = seen
  /\ last' = "bulk" \/ \E s \in Slicers : Leaves(s, all, new)
  /\ last' \in {"panel", "defs"} => KeepsLayouts(all, new)

Reads ==
  /\ UNCHANGED <<exists, slicers, legacy, spread>>
  /\ seen' = seen \/ seen' \in Loaded

Effect == Reads \/ \E all, new : Writes(all, new)

RestOK ==
  /\ pageIds \in SUBSET PageIds /\ IsMap(panel, Slicers, Maps(PageIds, Flags))
  /\ ops \in Nat /\ last \in APIs /\ spread \in SUBSET Ids

LEMMA CountedFacts ==
  ASSUME TypeOK, NEW api \in APIs, Counted(api) PROVE ops' \in Nat /\ last' = api /\ last' \in APIs
BY DEF TypeOK, Counted

LEMMA CountedRest ==
  ASSUME TypeOK, NEW api \in APIs, Counted(api), UNCHANGED <<pageIds, panel, spread>> PROVE RestOK'
BY CountedFacts DEF TypeOK, RestOK

LEMMA SlicersSame ==
  ASSUME NEW all, AreSlicers(all)
  PROVE  /\ \A s : Leaves(s, all, all)
         /\ KeepsLayouts(all, all)
         /\ \A s, q : Comes(all, all, NoInst, s, q)
<1>1. all = [s \in DOMAIN all |-> all[s]]
  BY DEF AreSlicers
<1>2. \A s, q : Comes(all, all, NoInst, s, q)
  BY <1>1, TakeSlicers
<1> QED
  BY <1>2 DEF Leaves, SameBare, KeepsLayouts

LEMMA ReadEffect ==
  ASSUME TypeOK, NEW all \in Loaded, LoadedAs(all), seen' \in {all, seen},
         UNCHANGED spread
  PROVE  Effect
<1>1. AreSlicers(all)
  BY LoadedFacts
<1>2. CASE UNCHANGED <<exists, slicers, legacy>>
  BY <1>2 DEF Effect, Reads
<1>3. CASE Saved(all)
  <2>1. PICK s \in Slicers : TRUE
    BY SlicersAssumption
  <2>2. Leaves(s, all, all) /\ KeepsLayouts(all, all) /\ Comes(all, all, NoInst, s, s)
    BY <1>1, SlicersSame
  <2>3. Writes(all, all)
    BY <1>1, <1>3, <2>1, <2>2 DEF Writes
  <2> QED
    BY <2>3 DEF Effect
<1> QED
  BY <1>2, <1>3 DEF LoadedAs

\* One slicer is set or replaced by the hook.
LEMMA HookSets ==
  ASSUME TypeOK, NEW api \in {"hook", "removal"}, Counted(api),
         UNCHANGED <<pageIds, panel, spread>>,
         NEW all \in Loaded, NEW s \in Slicers,
         NEW slicer, slicer = [body |-> slicer.body, pages |-> slicer.pages],
         slicer.body \in Bodies, IsPlacement(slicer.pages),
         \A p \in DOMAIN slicer.pages : Kept(all, s, p, slicer.pages[p].inst),
         Answered(With(all, s, slicer))
  PROVE  Effect /\ RestOK'
<1>1. RestOK' /\ last' = api
  BY CountedFacts, CountedRest DEF APIs
<1>2. AreSlicers(all)
  BY LoadedFacts
<1> DEFINE new == With(all, s, slicer)
<1>3. AreSlicers(new) /\ Comes(all, new, NoInst, s, NoPage) /\ Leaves(s, all, new)
  BY <1>2, SetSlicer
<1>4. Saved(new) /\ seen' = new
  BY DEF Answered
<1> HIDE DEF new
<1>5. Writes(all, new)
  BY <1>1, <1>3, <1>4 DEF Writes
<1> QED
  BY <1>1, <1>5 DEF Effect

LEMMA CreateEffect ==
  ASSUME TypeOK, NEW s \in Slicers, NEW body \in Bodies, NEW pages, IsPlacement(pages),
         \A p \in DOMAIN pages : pages[p].inst = NoInst, CreateSlicer(s, body, pages)
  PROVE  Effect /\ RestOK'
<1> DEFINE slicer == [body |-> body, pages |-> pages]
<1>1. PICK all \in Loaded : Answered(With(all, s, slicer))
  BY DEF CreateSlicer
<1>2. Counted("hook") /\ UNCHANGED <<pageIds, panel, spread>>
  BY DEF CreateSlicer
<1>3. /\ slicer = [body |-> slicer.body, pages |-> slicer.pages]
      /\ slicer.body \in Bodies /\ IsPlacement(slicer.pages)
      /\ \A p \in DOMAIN slicer.pages : Kept(all, s, p, slicer.pages[p].inst)
  BY DEF Kept
<1> HIDE DEF slicer
<1> QED
  BY <1>1, <1>2, <1>3, HookSets

LEMMA PagesEffect ==
  ASSUME TypeOK, NEW api \in {"hook", "removal"}, NEW s \in Slicers,
         NEW pages, IsPlacement(pages),
         \A p \in DOMAIN pages : pages[p].inst = NoInst \/ HasId(seen, s, p, pages[p].inst),
         UpdatePages(api, s, pages)
  PROVE  Effect /\ RestOK'
<1>1. PICK all \in Loaded : /\ s \in DOMAIN all
                            /\ Answered(With(all, s, [all[s] EXCEPT !.pages = pages]))
  BY DEF UpdatePages
<1>2. Counted(api) /\ UNCHANGED <<pageIds, panel, spread>>
  BY DEF UpdatePages
<1> DEFINE slicer == [all[s] EXCEPT !.pages = pages]
<1>3. /\ all[s] = [body |-> all[s].body, pages |-> all[s].pages]
      /\ all[s].body \in Bodies
  BY <1>1, LoadedFacts, SlicerFacts
<1>4. slicer = [body |-> all[s].body, pages |-> pages]
  BY <1>3
<1>5. /\ slicer = [body |-> slicer.body, pages |-> slicer.pages]
      /\ slicer.body \in Bodies /\ slicer.pages = pages
  BY <1>3, <1>4
<1>6. \A p \in DOMAIN pages : Kept(all, s, p, pages[p].inst)
  BY DEF Kept
<1>7. Answered(With(all, s, slicer))
  BY <1>1
<1> HIDE DEF slicer
<1> QED
  BY <1>2, <1>5, <1>6, <1>7, HookSets

LEMMA BodyEffect ==
  ASSUME TypeOK, NEW s \in Slicers, NEW body \in Bodies, UpdateBody(s, body)
  PROVE  Effect /\ RestOK'
<1>1. PICK all \in Loaded : /\ s \in DOMAIN all
                            /\ Answered(With(all, s, [all[s] EXCEPT !.body = body]))
  BY DEF UpdateBody
<1>2. Counted("hook") /\ UNCHANGED <<pageIds, panel, spread>>
  BY DEF UpdateBody
<1> DEFINE slicer == [all[s] EXCEPT !.body = body]
<1>3. /\ all[s] = [body |-> all[s].body, pages |-> all[s].pages]
      /\ IsPlacement(all[s].pages)
  BY <1>1, LoadedFacts, SlicerFacts
<1>4. slicer = [body |-> body, pages |-> all[s].pages]
  BY <1>3
<1>5. /\ slicer = [body |-> slicer.body, pages |-> slicer.pages]
      /\ slicer.body \in Bodies /\ slicer.pages = all[s].pages
  BY <1>4
<1>6. \A p \in DOMAIN all[s].pages : Kept(all, s, p, all[s].pages[p].inst)
  BY <1>1 DEF Kept, HasId
<1>7. Answered(With(all, s, slicer))
  BY <1>1
<1> HIDE DEF slicer
<1> QED
  BY <1>2, <1>3, <1>5, <1>6, <1>7, HookSets

\* A request always finds something to load.
LEMMA LoadedSome ==
  ASSUME TypeOK PROVE \E all : all \in Loaded
<1>1. CASE exists
  BY <1>1 DEF Loaded
<1>2. CASE ~ exists /\ legacy.instances = {}
  BY <1>2 DEF Loaded
<1>3. CASE ~ exists /\ legacy.instances # {}
  <2> DEFINE At(x) == {i \in legacy.instances : <<i.def, i.page>> = x}
             some(x) == CHOOSE i \in At(x) : TRUE
             c == [x \in Slicers \X PageIds |->
                     IF At(x) = {} THEN DefaultLayout ELSE some(x).layout]
  <2>1. ASSUME NEW x \in Slicers \X PageIds PROVE At(x) # {} => some(x) \in At(x)
    OBVIOUS
  <2>2. \A i \in legacy.instances : /\ i.layout \in Layouts
                                    /\ <<i.def, i.page>> \in Slicers \X PageIds
    BY DEF TypeOK, LegacyInstances
  <2>3. \A x \in Slicers \X PageIds : At(x) \subseteq legacy.instances
    OBVIOUS
  <2>4. \A i \in legacy.instances : i \in At(<<i.def, i.page>>)
    OBVIOUS
  <2>5. \A x \in Slicers \X PageIds : \A j \in At(x) : <<j.def, j.page>> = x
    OBVIOUS
  <2> HIDE DEF At, some
  <2>6. c \in [Slicers \X PageIds -> Layouts]
    BY <2>1, <2>2, <2>3, LayoutAssumption
  <2>7. ASSUME NEW i \in legacy.instances
        PROVE  \E j \in legacy.instances :
                 j.def = i.def /\ j.page = i.page /\ j.layout = c[<<i.def, i.page>>]
    <3> DEFINE x == <<i.def, i.page>>
               j == some(x)
    <3>1. x \in Slicers \X PageIds /\ At(x) # {}
      BY <2>2, <2>4
    <3>2. j \in At(x)
      BY <2>1, <3>1
    <3>3. j \in legacy.instances /\ <<j.def, j.page>> = <<i.def, i.page>>
      BY <2>3, <2>5, <3>1, <3>2
    <3>4. c[<<i.def, i.page>>] = j.layout
      BY <3>1
    <3> HIDE DEF j, c
    <3> QED
      BY <3>3, <3>4
  <2>8. c \in LayoutChoices(legacy)
    <3> HIDE DEF c
    <3> QED
      BY <2>6, <2>7 DEF LayoutChoices
  <2> HIDE DEF c
  <2> QED
    BY <1>3, <2>8 DEF Loaded
<1> QED
  BY <1>1, <1>2, <1>3

LEMMA HookEffect ==
  ASSUME TypeOK, HookStep
  PROVE  Effect /\ RestOK'
<1>1. CASE LoadAll
  <2>1. PICK all \in Loaded : LoadedAs(all) /\ seen' = all
    BY <1>1 DEF LoadAll
  <2>2. UNCHANGED <<pageIds, panel, ops, last, spread>>
    BY <1>1 DEF LoadAll
  <2>3. RestOK'
    BY <2>2 DEF TypeOK, RestOK
  <2> QED
    BY <2>1, <2>2, <2>3, ReadEffect
<1>2. ASSUME NEW s \in Slicers, NEW b \in Bodies, CreateSlicer(s, b, None)
      PROVE  Effect /\ RestOK'
  BY <1>2, NonePlacement, CreateEffect
<1>3. ASSUME NEW s \in Slicers, NEW b \in Bodies, UpdateBody(s, b)
      PROVE  Effect /\ RestOK'
  BY <1>3, BodyEffect
<1>4. ASSUME NEW s \in DOMAIN seen PROVE IsPlacement(seen[s].pages) /\ seen[s].body \in Bodies
  BY SlicerFacts DEF TypeOK
<1>5. ASSUME NEW s \in Slicers, NEW p \in PageIds, NEW l \in Layouts, SaveInstance(s, p, l)
      PROVE  Effect /\ RestOK'
  <2> DEFINE old == seen[s].pages
             sync == IF p \in DOMAIN old THEN old[p].sync ELSE TRUE
             entry == Entry(TRUE, sync, l)
             new == With(old, p, entry)
  <2>1. s \in DOMAIN seen /\ UpdatePages("hook", s, new)
    BY <1>5 DEF SaveInstance
  <2>2. sync \in BOOLEAN
    BY <1>4, <2>1, PlacementFacts DEF Entries
  <2>3. entry \in Entries /\ entry.inst = NoInst
    <3> HIDE DEF sync
    <3> QED
      BY <2>2, EntryFacts
  <2>4. \A q \in DOMAIN new :
          (q = p /\ new[q] = entry) \/ (q \in DOMAIN old /\ new[q] = old[q])
    BY DEF With
  <2> HIDE DEF entry
  <2>5. IsPlacement(new)
    BY <1>4, <2>1, <2>3, WithPlacement
  <2> HIDE DEF new
  <2>6. \A q \in DOMAIN new : new[q].inst = NoInst \/ HasId(seen, s, q, new[q].inst)
    BY <2>1, <2>3, <2>4 DEF HasId
  <2> QED
    BY <2>1, <2>5, <2>6, PagesEffect
<1>6. ASSUME NEW s \in Slicers, NEW t \in Slicers, NEW p \in PageIds, NEW l \in Layouts,
             DuplicateIndependent(s, t, p, l)
      PROVE  Effect /\ RestOK'
  <2> DEFINE entry == Entry(TRUE, TRUE, l)
             new == [q \in {p} |-> entry]
  <2>1. s \in DOMAIN seen /\ CreateSlicer(t, seen[s].body, new)
    BY <1>6 DEF DuplicateIndependent
  <2>2. entry \in Entries /\ entry.inst = NoInst
    BY EntryFacts
  <2> HIDE DEF entry
  <2>3. IsPlacement(new) /\ \A q \in DOMAIN new : new[q].inst = NoInst
    BY <2>2 DEF IsPlacement, IsMap
  <2> HIDE DEF new
  <2> QED
    BY <1>4, <2>1, <2>3, CreateEffect
<1>7. ASSUME NEW s \in Slicers, NEW p \in PageIds, RemoveInstance(s, p)
      PROVE  Effect /\ RestOK'
  <2>1. PICK t \in DOMAIN seen, q \in PlainPages :
          UpdatePages("removal", t, Without(seen[t].pages, {q}))
    BY <1>7 DEF RemoveInstance
  <2> DEFINE old == seen[t].pages
             new == Without(old, {q})
  <2>2. \A u \in DOMAIN new : u \in DOMAIN old /\ new[u] = old[u]
    BY DEF Without
  <2>3. IsPlacement(new) /\ t \in Slicers
    BY <1>4, WithoutPlacement, SlicerFacts DEF TypeOK
  <2>4. UpdatePages("removal", t, new)
    BY <2>1
  <2> HIDE DEF new
  <2>5. \A u \in DOMAIN new : HasId(seen, t, u, new[u].inst)
    BY <2>2 DEF HasId
  <2> QED
    BY <2>3, <2>4, <2>5, PagesEffect
<1>8. ASSUME NEW s \in Slicers, DeleteSlicer(s)
      PROVE  Effect /\ RestOK'
  <2>1. PICK all \in Loaded : Answered(Without(all, {s}))
    BY <1>8 DEF DeleteSlicer
  <2>2. Counted("hook") /\ UNCHANGED <<pageIds, panel, spread>>
    BY <1>8 DEF DeleteSlicer
  <2>3. RestOK' /\ last' = "hook"
    BY <2>2, CountedFacts, CountedRest DEF APIs
  <2> DEFINE S == DOMAIN all \ {s}
             new == [t \in S |-> all[t]]
  <2>4. Saved(new) /\ seen' = new
    BY <2>1 DEF Answered, Without
  <2>5. AreSlicers(all)
    BY LoadedFacts
  <2>6. AreSlicers(new) /\ Comes(all, new, NoInst, s, NoPage) /\ Leaves(s, all, new)
    <3> HIDE DEF S
    <3>1. S \subseteq DOMAIN all /\ S = DOMAIN all \ {s}
      BY DEF S
    <3> QED
      BY <2>5, <3>1, TakeSlicers
  <2> HIDE DEF new
  <2>7. Writes(all, new)
    BY <2>2, <2>3, <2>4, <2>6 DEF Writes
  <2> QED
    BY <2>3, <2>7 DEF Effect
<1>9. ASSUME NEW S \in SUBSET DOMAIN seen, PutSlicers(S)
      PROVE  Effect /\ RestOK'
  <2>1. Counted("bulk") /\ UNCHANGED <<pageIds, panel, spread>>
    BY <1>9 DEF PutSlicers
  <2>2. RestOK' /\ last' = "bulk"
    BY <2>1, CountedFacts, CountedRest DEF APIs
  <2> DEFINE new == [s \in S |-> seen[s]]
  <2>3. Saved(new) /\ seen' = new
    BY <1>9 DEF PutSlicers, Answered
  <2>4. PICK all \in Loaded : TRUE
    BY LoadedSome
  <2>5. AreSlicers(seen)
    BY DEF TypeOK
  <2>6. AreSlicers(new) /\ Comes(all, new, NoInst, NoPage, NoPage)
    BY <2>5, TakeSlicers
  <2> HIDE DEF new
  <2>7. Writes(all, new)
    BY <2>1, <2>2, <2>3, <2>4, <2>6 DEF Writes
  <2> QED
    BY <2>2, <2>7 DEF Effect
<1> QED
  BY <1>1, <1>2, <1>3, <1>5, <1>6, <1>7, <1>8, <1>9 DEF HookStep

\* The flags of the panel and what they make of the entries.
LEMMA ShownFacts ==
  ASSUME TypeOK, NEW pages, IsPlacement(pages) PROVE Shown(pages) \in Maps(PageIds, Flags)
<1>1. ASSUME NEW p \in pageIds
      PROVE  (IF p \in DOMAIN pages THEN FlagsOf(pages[p])
              ELSE [visible |-> FALSE, sync |-> FALSE]) \in Flags
  BY PlacementFacts DEF FlagsOf, Flags, Entries
<1>2. Shown(pages) \in [pageIds -> Flags] /\ pageIds \in SUBSET PageIds
  BY <1>1 DEF Shown, TypeOK
<1> QED
  BY <1>2 DEF Maps

LEMMA SyncedFacts ==
  ASSUME NEW pages, IsPlacement(pages), NEW flags \in Maps(PageIds, Flags),
         NEW new, new = Synced(pages, flags)
  PROVE  /\ IsPlacement(new)
         /\ \A p \in DOMAIN new :
              new[p].inst = NoInst \/ (p \in DOMAIN pages /\ new[p].inst = pages[p].inst)
         /\ \A p \in DOMAIN new \cap DOMAIN pages : new[p].layout = pages[p].layout
<1> DEFINE places == DOMAIN pages \cup {q \in DOMAIN flags : flags[q].visible \/ flags[q].sync}
           changed(p) == [pages[p] EXCEPT !.visible = flags[p].visible, !.sync = flags[p].sync]
           fresh(p) == Entry(flags[p].visible, flags[p].sync, DefaultLayout)
<1>1. new = [p \in places |-> IF p \notin DOMAIN flags THEN pages[p]
                              ELSE IF p \in DOMAIN pages THEN changed(p) ELSE fresh(p)]
  BY DEF Synced
<1>2. DOMAIN flags \subseteq PageIds /\ \A p \in DOMAIN flags : flags[p] \in Flags
  BY MapFacts
<1>3. DOMAIN pages \subseteq PageIds /\ \A p \in DOMAIN pages : pages[p] \in Entries
  BY PlacementFacts
<1>4. ASSUME NEW p \in DOMAIN flags, p \in DOMAIN pages
      PROVE  /\ changed(p) \in Entries /\ changed(p).inst = pages[p].inst
             /\ changed(p).layout = pages[p].layout
  BY <1>2, <1>3, <1>4 DEF Entries, Flags
<1>5. ASSUME NEW p \in DOMAIN flags PROVE fresh(p) \in Entries /\ fresh(p).inst = NoInst
  BY <1>2, EntryFacts, LayoutAssumption DEF Flags
<1>6. places \subseteq PageIds /\ \A p \in places : p \in DOMAIN pages \/ p \in DOMAIN flags
  BY <1>2, <1>3
<1> HIDE DEF places, changed, fresh
<1>7. ASSUME NEW p \in places
      PROVE  /\ new[p] \in Entries
             /\ new[p].inst = NoInst \/ (p \in DOMAIN pages /\ new[p].inst = pages[p].inst)
             /\ p \in DOMAIN pages => new[p].layout = pages[p].layout
  <2>1. CASE p \notin DOMAIN flags
    BY <1>1, <1>3, <1>6, <2>1
  <2>2. CASE p \in DOMAIN flags /\ p \in DOMAIN pages
    BY <1>1, <1>4, <2>2
  <2>3. CASE p \in DOMAIN flags /\ p \notin DOMAIN pages
    BY <1>1, <1>5, <2>3
  <2> QED
    BY <2>1, <2>2, <2>3
<1>8. DOMAIN new = places /\ new \in [DOMAIN new -> Entries]
  BY <1>1, <1>7
<1> QED
  BY <1>6, <1>7, <1>8 DEF IsPlacement, IsMap

LEMMA SyncEffect ==
  ASSUME TypeOK, NEW s \in Slicers, NEW flags \in Maps(PageIds, Flags), PutSync(s, flags)
  PROVE  Effect /\ RestOK'
<1>1. PICK all \in Loaded : /\ s \in DOMAIN all
                            /\ Saved(With(all, s, [all[s] EXCEPT !.pages = Synced(@, flags)]))
  BY DEF PutSync
<1>2. /\ Counted("panel") /\ panel' = With(panel, s, flags)
      /\ UNCHANGED <<pageIds, seen, spread>>
  BY DEF PutSync
<1>3. ops' \in Nat /\ last' = "panel" /\ last' \in APIs
  BY <1>2, CountedFacts DEF APIs
<1>4. IsMap(panel', Slicers, Maps(PageIds, Flags))
  <2>1. panel \in [DOMAIN panel -> Maps(PageIds, Flags)] /\ DOMAIN panel \in SUBSET Slicers
    BY DEF TypeOK, IsMap
  <2>2. DOMAIN panel' = DOMAIN panel \cup {s}
    BY <1>2 DEF With
  <2>3. panel' \in [DOMAIN panel' -> Maps(PageIds, Flags)]
    BY <1>2, <2>1, <2>2 DEF With
  <2> QED
    BY <2>1, <2>2, <2>3 DEF IsMap
<1>5. RestOK'
  BY <1>2, <1>3, <1>4 DEF TypeOK, RestOK
<1> DEFINE pages == Synced(all[s].pages, flags)
           slicer == [all[s] EXCEPT !.pages = pages]
           new == With(all, s, slicer)
<1>6. AreSlicers(all)
  BY LoadedFacts
<1>7. /\ all[s] = [body |-> all[s].body, pages |-> all[s].pages]
      /\ all[s].body \in Bodies /\ IsPlacement(all[s].pages)
  BY <1>1, <1>6, SlicerFacts
<1>8. slicer = [body |-> all[s].body, pages |-> pages]
  BY <1>7
<1>9. Saved(new)
  BY <1>1
<1>10. /\ IsPlacement(pages)
       /\ \A p \in DOMAIN pages : \/ pages[p].inst = NoInst
                                  \/ /\ p \in DOMAIN all[s].pages
                                     /\ pages[p].inst = all[s].pages[p].inst
       /\ \A p \in DOMAIN pages \cap DOMAIN all[s].pages :
            pages[p].layout = all[s].pages[p].layout
  <2> HIDE DEF pages
  <2>1. pages = Synced(all[s].pages, flags)
    BY DEF pages
  <2> QED
    BY <1>7, <2>1, SyncedFacts
<1> HIDE DEF pages, slicer
<1>11. /\ slicer = [body |-> slicer.body, pages |-> slicer.pages]
       /\ slicer.body \in Bodies /\ slicer.pages = pages
  BY <1>7, <1>8
<1>12. \A p \in DOMAIN slicer.pages : Kept(all, s, p, slicer.pages[p].inst)
  BY <1>1, <1>10, <1>11 DEF Kept, HasId
<1>13. /\ AreSlicers(new) /\ Comes(all, new, NoInst, s, NoPage) /\ Leaves(s, all, new)
       /\ new[s] = slicer /\ \A t \in DOMAIN all \ {s} : new[t] = all[t]
  <2>1. /\ slicer = [body |-> slicer.body, pages |-> slicer.pages]
        /\ slicer.body \in Bodies /\ IsPlacement(slicer.pages)
    BY <1>10, <1>11
  <2>2. AreSlicers(new) /\ Comes(all, new, NoInst, s, NoPage) /\ Leaves(s, all, new)
    BY <1>6, <1>12, <2>1, SetSlicer
  <2>3. new[s] = slicer /\ \A t \in DOMAIN all \ {s} : new[t] = all[t]
    BY DEF With
  <2> QED
    BY <2>2, <2>3
<1> HIDE DEF new
<1>14. KeepsLayouts(all, new)
  BY <1>10, <1>11, <1>13 DEF KeepsLayouts
<1>15. Writes(all, new)
  BY <1>2, <1>3, <1>9, <1>13, <1>14 DEF Writes
<1> QED
  BY <1>5, <1>15 DEF Effect

LEMMA PanelEffect ==
  ASSUME TypeOK, PanelStep
  PROVE  Effect /\ RestOK'
<1>1. CASE LoadSync
  <2>1. PICK all \in Loaded : /\ LoadedAs(all)
                              /\ panel' = [s \in DOMAIN all |-> Shown(all[s].pages)]
                              /\ UNCHANGED <<pageIds, seen, ops, last, spread>>
    BY <1>1 DEF LoadSync
  <2>2. AreSlicers(all)
    BY LoadedFacts
  <2>3. \A s \in DOMAIN all : Shown(all[s].pages) \in Maps(PageIds, Flags)
    BY <2>2, SlicerFacts, ShownFacts
  <2>4. DOMAIN panel' \in SUBSET Slicers /\ panel' \in [DOMAIN panel' -> Maps(PageIds, Flags)]
    BY <2>1, <2>2, <2>3, SlicerFacts
  <2>5. RestOK'
    BY <2>1, <2>4 DEF TypeOK, RestOK, IsMap
  <2> QED
    BY <2>1, <2>5, ReadEffect
<1>2. ASSUME NEW s \in DOMAIN panel
      PROVE  /\ DOMAIN panel[s] \in SUBSET PageIds
             /\ panel[s] \in [DOMAIN panel[s] -> Flags]
  BY DEF TypeOK, IsMap, Maps
<1>3. ASSUME NEW s \in Slicers, NEW p \in PageIds, NEW field \in {"visible", "sync"},
             Toggle(s, p, field)
      PROVE  Effect /\ RestOK'
  <2> DEFINE flags == [panel[s] EXCEPT ![p][field] = ~ @]
  <2>1. s \in DOMAIN panel /\ p \in DOMAIN panel[s] /\ PutSync(s, flags)
    BY <1>3 DEF Toggle
  <2>2. flags = [panel[s] EXCEPT ![p] = [panel[s][p] EXCEPT ![field] = ~ panel[s][p][field]]]
    OBVIOUS
  <2>3. panel[s][p] \in Flags
    BY <1>2, <2>1
  <2>4. [panel[s][p] EXCEPT ![field] = ~ panel[s][p][field]] \in Flags
    BY <2>3 DEF Flags
  <2>5. flags \in [DOMAIN panel[s] -> Flags]
    BY <1>2, <2>1, <2>2, <2>4
  <2>6. flags \in Maps(PageIds, Flags)
    BY <1>2, <2>1, <2>5 DEF Maps
  <2> HIDE DEF flags
  <2> QED
    BY <2>1, <2>6, SyncEffect
<1>4. ASSUME NEW s \in Slicers, NEW field \in {"visible", "sync"}, NEW on \in BOOLEAN,
             ToggleAll(s, field, on)
      PROVE  Effect /\ RestOK'
  <2> DEFINE flags == [p \in DOMAIN panel[s] |-> [panel[s][p] EXCEPT ![field] = on]]
  <2>1. s \in DOMAIN panel /\ PutSync(s, flags)
    BY <1>4 DEF ToggleAll
  <2>2. ASSUME NEW p \in DOMAIN panel[s] PROVE [panel[s][p] EXCEPT ![field] = on] \in Flags
    <3>1. panel[s][p] \in Flags
      BY <1>2, <2>1
    <3> QED
      BY <3>1 DEF Flags
  <2>3. flags \in [DOMAIN panel[s] -> Flags]
    BY <2>2
  <2>4. flags \in Maps(PageIds, Flags)
    BY <1>2, <2>1, <2>3 DEF Maps
  <2> HIDE DEF flags
  <2> QED
    BY <2>1, <2>4, SyncEffect
<1> QED
  BY <1>1, <1>3, <1>4 DEF PanelStep

LEMMA DefsFacts ==
  ASSUME NEW all, AreSlicers(all)
  PROVE  /\ DOMAIN DefsOf(all) = DOMAIN all
         /\ \A s \in DOMAIN all : DefsOf(all)[s] = DefOf(all[s]) /\ IsDef(DefOf(all[s]))
<1>1. ASSUME NEW s \in DOMAIN all PROVE IsDef(DefOf(all[s]))
  <2>1. all[s].body \in Bodies /\ IsPlacement(all[s].pages)
    BY SlicerFacts
  <2> QED
    BY <2>1, DefOfFacts
<1> QED
  BY <1>1 DEF DefsOf

\* A request that writes definitions, of which it changed at most one.
LEMMA DefsEffect ==
  ASSUME TypeOK, NEW api \in {"defs", "bulk"}, Counted(api),
         UNCHANGED <<pageIds, seen, panel, spread>>,
         NEW all \in Loaded, NEW defs, DOMAIN defs \subseteq Slicers,
         \A s \in DOMAIN defs : IsDef(defs[s]), SaveDefs(all, defs),
         api = "bulk" \/ \E s \in Slicers : \A t \in Slicers \ {s} :
                           /\ t \in DOMAIN all <=> t \in DOMAIN defs
                           /\ t \in DOMAIN all => defs[t] = DefOf(all[t])
  PROVE  Effect /\ RestOK'
<1>1. RestOK' /\ last' = api
  BY CountedFacts, CountedRest DEF APIs
<1>2. AreSlicers(all)
  BY LoadedFacts
<1>3. /\ Saved(slicers') /\ AreSlicers(slicers')
      /\ \A s, q : Comes(all, slicers', NoInst, s, q)
      /\ KeepsLayouts(all, slicers')
      /\ \A s \in Slicers :
           /\ s \in DOMAIN all <=> s \in DOMAIN defs
           /\ s \in DOMAIN all => defs[s] = DefOf(all[s])
           => SameBare(s, all, slicers')
  BY <1>2, DefsWritten
<1>4. api = "bulk" \/ \E s \in Slicers : Leaves(s, all, slicers')
  BY <1>3 DEF Leaves
<1>5. Writes(all, slicers')
  BY <1>1, <1>3, <1>4 DEF Writes
<1> QED
  BY <1>1, <1>5 DEF Effect

LEMMA DefEffect ==
  ASSUME TypeOK, DefStep
  PROVE  Effect /\ RestOK'
<1>1. ASSUME NEW all \in Loaded, NEW s \in Slicers, NEW def, IsDef(def),
             Counted("defs"), UNCHANGED <<pageIds, seen, panel, spread>>,
             SaveDefs(all, With(DefsOf(all), s, def))
      PROVE  Effect /\ RestOK'
  <2> DEFINE defs == With(DefsOf(all), s, def)
  <2>1. /\ DOMAIN all \subseteq Slicers /\ DOMAIN DefsOf(all) = DOMAIN all
        /\ \A t \in DOMAIN all : DefsOf(all)[t] = DefOf(all[t]) /\ IsDef(DefOf(all[t]))
    BY LoadedFacts, SlicerFacts, DefsFacts
  <2>2. /\ DOMAIN defs = DOMAIN all \cup {s} /\ defs[s] = def
        /\ \A t \in DOMAIN all \ {s} : defs[t] = DefOf(all[t])
    BY <2>1 DEF With
  <2>3. SaveDefs(all, defs)
    BY <1>1
  <2> HIDE DEF defs
  <2>4. DOMAIN defs \subseteq Slicers /\ \A t \in DOMAIN defs : IsDef(defs[t])
    BY <1>1, <2>1, <2>2
  <2> QED
    BY <1>1, <2>2, <2>3, <2>4, DefsEffect
<1>2. ASSUME NEW s \in Slicers, NEW b \in Bodies, NEW t, CreateDef(s, b, t)
      PROVE  Effect /\ RestOK'
  <2> DEFINE def == [body |-> b, sync |-> NoSync]
  <2>1. Counted("defs") /\ UNCHANGED <<pageIds, seen, panel, spread>>
    BY <1>2 DEF CreateDef
  <2>2. PICK all \in Loaded : SaveDefs(all, With(DefsOf(all), s, def))
    BY <1>2 DEF CreateDef
  <2>3. IsDef(def)
    BY DEF IsDef, NoSync
  <2> HIDE DEF def
  <2> QED
    BY <1>1, <2>1, <2>2, <2>3
<1>3. ASSUME NEW s \in Slicers, NEW def, IsDef(def), UpdateDef(s, def)
      PROVE  Effect /\ RestOK'
  <2>1. Counted("defs") /\ UNCHANGED <<pageIds, seen, panel, spread>>
    BY <1>3 DEF UpdateDef
  <2>2. PICK all \in Loaded : SaveDefs(all, With(DefsOf(all), s, def))
    BY <1>3 DEF UpdateDef
  <2> QED
    BY <1>1, <1>3, <2>1, <2>2
<1>4. ASSUME NEW all \in Loaded, NEW s \in DOMAIN all
      PROVE  IsDef(DefOf(all[s]))
  BY LoadedFacts, DefsFacts
<1>5. ASSUME NEW s \in Slicers, NEW b \in Bodies, UpdateDefBody(s, b)
      PROVE  Effect /\ RestOK'
  <2>1. PICK all \in Loaded : s \in DOMAIN all /\ UpdateDef(s, [DefOf(all[s]) EXCEPT !.body = b])
    BY <1>5 DEF UpdateDefBody
  <2> DEFINE old == DefOf(all[s])
             def == [old EXCEPT !.body = b]
  <2>2. IsDef(old) /\ old = [body |-> old.body, sync |-> old.sync]
    BY <1>4, <2>1 DEF DefOf
  <2> HIDE DEF old
  <2>3. def = [body |-> b, sync |-> old.sync]
    BY <2>2
  <2>4. def.body = b /\ def.sync = old.sync
    BY <2>3
  <2>5. IsDef(def)
    BY <2>2, <2>4 DEF IsDef
  <2>6. UpdateDef(s, def)
    BY <2>1 DEF old
  <2> HIDE DEF def
  <2> QED
    BY <1>3, <2>5, <2>6
<1>6. ASSUME NEW s \in Slicers, NEW flags \in Maps(PageIds, Flags), UpdateDefSync(s, flags)
      PROVE  Effect /\ RestOK'
  <2>1. PICK all \in Loaded :
          s \in DOMAIN all /\ UpdateDef(s, [DefOf(all[s]) EXCEPT !.sync = SyncIs(flags)])
    BY <1>6 DEF UpdateDefSync
  <2> DEFINE old == DefOf(all[s])
             def == [old EXCEPT !.sync = SyncIs(flags)]
  <2>2. IsDef(old) /\ old = [body |-> old.body, sync |-> old.sync]
    BY <1>4, <2>1 DEF DefOf
  <2>3. UpdateDef(s, def)
    BY <2>1
  <2> HIDE DEF old
  <2>4. def = [body |-> old.body, sync |-> SyncIs(flags)]
    BY <2>2
  <2>5. def.body = old.body /\ def.sync = SyncIs(flags)
    BY <2>4
  <2>6. SyncIs(flags).flags = flags
    BY DEF SyncIs
  <2> HIDE DEF def
  <2>7. IsDef(def)
    BY <2>2, <2>5, <2>6 DEF IsDef
  <2> QED
    BY <1>3, <2>3, <2>7
<1>7. ASSUME NEW s \in Slicers, DeleteDef(s)
      PROVE  Effect /\ RestOK'
  <2>1. Counted("defs") /\ UNCHANGED <<pageIds, seen, panel, spread>>
    BY <1>7 DEF DeleteDef
  <2>2. PICK all \in Loaded : SaveDefs(all, Without(DefsOf(all), {s}))
    BY <1>7 DEF DeleteDef
  <2> DEFINE defs == Without(DefsOf(all), {s})
  <2>3. /\ DOMAIN all \subseteq Slicers /\ DOMAIN DefsOf(all) = DOMAIN all
        /\ \A t \in DOMAIN all : DefsOf(all)[t] = DefOf(all[t]) /\ IsDef(DefOf(all[t]))
    BY LoadedFacts, SlicerFacts, DefsFacts
  <2>4. DOMAIN defs = DOMAIN all \ {s} /\ \A t \in DOMAIN defs : defs[t] = DefOf(all[t])
    BY <2>3 DEF Without
  <2>5. SaveDefs(all, defs)
    BY <2>2
  <2> HIDE DEF defs
  <2>6. DOMAIN defs \subseteq Slicers /\ \A t \in DOMAIN defs : IsDef(defs[t])
    BY <2>3, <2>4
  <2> QED
    BY <2>1, <2>4, <2>5, <2>6, DefsEffect
<1>8. ASSUME NEW S \in SUBSET Slicers, SaveAllDefs(S)
      PROVE  Effect /\ RestOK'
  <2>1. Counted("bulk") /\ UNCHANGED <<pageIds, seen, panel, spread>>
    BY <1>8 DEF SaveAllDefs
  <2>2. PICK all \in Loaded : S \subseteq DOMAIN all /\ SaveDefs(all, [s \in S |-> DefOf(all[s])])
    BY <1>8 DEF SaveAllDefs
  <2> DEFINE defs == [s \in S |-> DefOf(all[s])]
  <2>3. DOMAIN defs \subseteq Slicers /\ \A t \in DOMAIN defs : IsDef(defs[t])
    BY <1>4, <2>2
  <2>4. SaveDefs(all, defs)
    BY <2>2
  <2> HIDE DEF defs
  <2> QED
    BY <2>1, <2>3, <2>4, DefsEffect
<1> QED
  BY <1>2, <1>5, <1>6, <1>7, <1>8 DEF DefStep

\* A request that writes instances, of which it brings at most one.
LEMMA PlacesEffect ==
  ASSUME TypeOK, Counted("instances"), UNCHANGED <<pageIds, seen, panel>>,
         spread' \in SUBSET Ids, spread \subseteq spread',
         NEW all \in Loaded, NEW t \in Slicers, NEW q, NEW id,
         NEW X \in SUBSET Instances, \A x \in X : x.def = t /\ x.page = q /\ x.id = id,
         NEW list, list \subseteq InstancesOf(all) \cup X, SaveInstances(all, list),
         X = {} \/ (id \in Ids /\ Spreads(all, id, t, q) \subseteq spread')
  PROVE  Effect /\ RestOK'
<1>1. ops' \in Nat /\ last' = "instances" /\ last' \in APIs
  BY CountedFacts DEF APIs
<1>2. RestOK'
  BY <1>1 DEF TypeOK, RestOK
<1>3. AreSlicers(all)
  BY LoadedFacts
<1>4. /\ Saved(slicers') /\ AreSlicers(slicers') /\ Leaves(t, all, slicers')
      /\ id \in Ids /\ Spreads(all, id, t, q) \subseteq spread' => Comes(all, slicers', id, t, q)
      /\ X = {} => \A s, p : Comes(all, slicers', NoInst, s, p)
  BY <1>3, InstancesWritten
<1>5. \E i, s, p : Comes(all, slicers', i, s, p)
  BY <1>4
<1>6. Writes(all, slicers')
  BY <1>1, <1>4, <1>5 DEF Writes
<1> QED
  BY <1>2, <1>6 DEF Effect

LEMMA InstanceEffect ==
  ASSUME TypeOK, InstanceStep
  PROVE  Effect /\ RestOK'
<1>1. ASSUME NEW all \in Loaded, NEW list \in SUBSET InstancesOf(all), NEW x \in Instances,
             x.id \in Ids, PutInstance(all, list, x),
             Counted("instances"), UNCHANGED <<pageIds, seen, panel>>
      PROVE  Effect /\ RestOK'
  <2>1. /\ SaveInstances(all, list \cup {x})
        /\ spread' = spread \cup Spreads(all, x.id, x.def, x.page)
    BY <1>1 DEF PutInstance
  <2>2. Spreads(all, x.id, x.def, x.page) \subseteq {x.id}
    BY DEF Spreads
  <2> DEFINE X == {x}
             news == list \cup X
  <2>3. /\ X \in SUBSET Instances
        /\ \A y \in X : y.def = x.def /\ y.page = x.page /\ y.id = x.id
        /\ news \subseteq InstancesOf(all) \cup X /\ SaveInstances(all, news)
    BY <2>1
  <2>4. /\ spread' \in SUBSET Ids /\ spread \subseteq spread' /\ x.def \in Slicers
        /\ Spreads(all, x.id, x.def, x.page) \subseteq spread'
    BY <1>1, <2>1, <2>2 DEF TypeOK, Instances
  <2> HIDE DEF X, news
  <2> QED
    BY <1>1, <2>3, <2>4, PlacesEffect
<1>2. ASSUME NEW id \in Ids, NEW s \in Slicers, NEW p \in PageIds, NEW l \in Layouts,
             CreateInstance(id, s, p, l)
      PROVE  Effect /\ RestOK'
  <2> DEFINE x == [id |-> id, def |-> s, page |-> p, layout |-> l]
  <2>1. Counted("instances") /\ UNCHANGED <<pageIds, seen, panel>>
    BY <1>2 DEF CreateInstance
  <2>2. PICK all \in Loaded : PutInstance(all, InstancesOf(all), x)
    BY <1>2 DEF CreateInstance
  <2>3. x \in Instances /\ x.id \in Ids
    BY DEF Instances, InstIds
  <2>4. InstancesOf(all) \in SUBSET InstancesOf(all)
    OBVIOUS
  <2> HIDE DEF x
  <2> QED
    BY <1>1, <2>1, <2>2, <2>3, <2>4
<1>4. ASSUME NEW i, NEW s \in Slicers, NEW p \in PageIds, NEW l \in Layouts,
             UpdateInstance(i, [id |-> i.id, def |-> s, page |-> p, layout |-> l])
      PROVE  Effect /\ RestOK'
  <2> DEFINE x == [id |-> i.id, def |-> s, page |-> p, layout |-> l]
  <2>1. Counted("instances") /\ UNCHANGED <<pageIds, seen, panel>>
    BY <1>4 DEF UpdateInstance
  <2>2. PICK all \in Loaded :
          i \in InstancesOf(all) /\ PutInstance(all, InstancesOf(all) \ {i}, x)
    BY <1>4 DEF UpdateInstance
  <2>3. i \in Instances /\ i.id \in Ids
    BY <2>2, LoadedFacts, InstanceFacts
  <2>4. x \in Instances /\ x.id \in Ids
    BY <2>3 DEF Instances, InstIds
  <2>5. InstancesOf(all) \ {i} \in SUBSET InstancesOf(all)
    OBVIOUS
  <2> HIDE DEF x
  <2> QED
    BY <1>1, <2>1, <2>2, <2>4, <2>5
<1>3. ASSUME NEW id, DeleteInstance(id)
      PROVE  Effect /\ RestOK'
  <2>1. Counted("instances") /\ UNCHANGED <<pageIds, seen, panel, spread>>
    BY <1>3 DEF DeleteInstance
  <2>2. PICK all \in Loaded : SaveInstances(all, {i \in InstancesOf(all) : i.id # id})
    BY <1>3 DEF DeleteInstance
  <2>3. PICK s \in Slicers : TRUE
    BY SlicersAssumption
  <2>4. spread' \in SUBSET Ids /\ spread \subseteq spread'
    BY <2>1 DEF TypeOK
  <2> DEFINE X == {}
             list == {i \in InstancesOf(all) : i.id # id}
  <2>5. /\ X \in SUBSET Instances /\ X = {}
        /\ \A y \in X : y.def = s /\ y.page = NoPage /\ y.id = NoInst
        /\ SaveInstances(all, list) /\ list \subseteq InstancesOf(all) \cup X
    BY <2>2
  <2> HIDE DEF X, list
  <2> QED
    BY <2>1, <2>4, <2>5, PlacesEffect
<1> QED
  BY <1>2, <1>3, <1>4 DEF InstanceStep

LEMMA PageEffect ==
  ASSUME TypeOK, PageStep \/ UNCHANGED vars
  PROVE  Effect /\ RestOK'
<1>1. ASSUME NEW p \in PageIds, DeletePage(p) PROVE Effect /\ RestOK'
  BY <1>1, CountedFacts DEF DeletePage, Effect, Reads, RestOK, TypeOK, APIs
<1>2. ASSUME NEW p \in PageIds, CreatePage(p) PROVE Effect /\ RestOK'
  BY <1>2, CountedFacts DEF CreatePage, Effect, Reads, RestOK, TypeOK, APIs
<1>3. CASE UNCHANGED vars
  BY <1>3 DEF vars, Effect, Reads, RestOK, TypeOK
<1> QED
  BY <1>1, <1>2, <1>3 DEF PageStep

LEMMA NextEffect ==
  ASSUME TypeOK, [Next]_vars PROVE Effect /\ RestOK'
BY HookEffect, PanelEffect, DefEffect, InstanceEffect, PageEffect DEF Next

-----------------------------------------------------------------------------
(* The inductive invariant.                                                   *)
LEMMA InitIInv ==
  ASSUME Init PROVE IInv
<1>1. AreSlicers(slicers) /\ AreSlicers(seen) /\ (~exists => slicers = None)
  BY NoneAreSlicers DEF Init
<1>2. IsMap(legacy.defs, Slicers, LegacyDefs) /\ legacy.instances \in SUBSET LegacyInstances
  <2>1. PICK S \in SUBSET Slicers :
          legacy \in [defs : [S -> LegacyDefs], instances : SUBSET LegacyInstances]
    BY DEF Init
  <2> QED
    BY <2>1 DEF IsMap
<1>3. IsMap(panel, Slicers, Maps(PageIds, Flags))
  BY DEF Init, IsMap, None
<1>4. /\ exists \in BOOLEAN /\ spread \in SUBSET Ids /\ pageIds \in SUBSET PageIds
      /\ ops \in Nat /\ last \in APIs
  BY DEF Init, APIs
<1>5. IdsFit(slicers, seen, spread)
  BY DEF Init, None, IdsFit, Apart, Uses, HasId
<1> QED
  BY <1>1, <1>2, <1>3, <1>4, <1>5 DEF IInv, IdInv, TypeOK

LEMMA EffectIInv ==
  ASSUME IInv, Effect, RestOK' PROVE IInv'
<1>1. TypeOK /\ (~exists => slicers = None) /\ IdInv
  BY DEF IInv
<1>2. CASE Reads
  <2>1. UNCHANGED <<exists, slicers, legacy, spread>> /\ (seen' = seen \/ seen' \in Loaded)
    BY <1>2 DEF Reads
  <2>2. AreSlicers(seen')
    <3>1. CASE seen' = seen
      BY <1>1, <3>1 DEF TypeOK
    <3>2. CASE seen' \in Loaded
      BY <1>1, <3>2, LoadedFacts
    <3> QED
      BY <2>1, <3>1, <3>2
  <2>3. TypeOK'
    BY <1>1, <2>1, <2>2 DEF TypeOK, RestOK
  <2>4. IdsFit(slicers, seen', spread)
    <3>1. IdsFit(slicers, seen, spread)
      BY <1>1 DEF IdInv
    <3>2. CASE seen' = seen
      BY <3>1, <3>2
    <3>3. CASE seen' \in Loaded /\ exists
      <4>1. seen' = slicers
        BY <1>1, <3>3, LoadedFacts
      <4> QED
        BY <3>1, <4>1 DEF IdsFit
    <3>4. CASE seen' \in Loaded /\ ~ exists
      <4>1. Apart(seen', seen', spread)
        BY <3>4, LoadedFits DEF IdsFit
      <4>2. \A s \in Slicers, p \in PageIds, i \in Ids : ~ HasId(slicers, s, p, i)
        BY <1>1, <3>4 DEF HasId, None
      <4> QED
        BY <4>1, <4>2, BareApart DEF IdsFit
    <3> QED
      BY <2>1, <3>2, <3>3, <3>4
  <2>5. IdInv'
    BY <2>1, <2>4 DEF IdInv
  <2> QED
    BY <1>1, <2>1, <2>3, <2>5 DEF IInv
<1>3. ASSUME NEW all, NEW new, Writes(all, new) PROVE IInv'
  <2>1. /\ exists' = TRUE /\ slicers' = new /\ legacy' = NoLegacy
        /\ AreSlicers(new) /\ (seen' = new \/ seen' = seen)
    BY <1>3 DEF Writes, Saved
  <2>2. AreSlicers(seen')
    BY <1>1, <2>1 DEF TypeOK
  <2>3. /\ IsMap(legacy'.defs, Slicers, LegacyDefs)
        /\ legacy'.instances \in SUBSET LegacyInstances
    BY <2>1 DEF NoLegacy, IsMap, None
  <2>4. TypeOK'
    BY <2>1, <2>2, <2>3 DEF TypeOK, RestOK
  <2>5. IdsFit(slicers', seen', spread')
    <3>1. spread \subseteq spread' /\ all \in Loaded
      BY <1>3 DEF Writes
    <3>2. PICK id, t, q : Comes(all, new, id, t, q)
      BY <1>3 DEF Writes
    <3>3. IdsFit(new, seen, spread') /\ IdsFit(new, new, spread')
      BY <3>1, <3>2, ComesFits
    <3> QED
      BY <2>1, <3>3
  <2>6. IdInv'
    BY <2>5 DEF IdInv
  <2> QED
    BY <2>1, <2>4, <2>6 DEF IInv
<1> QED
  BY <1>2, <1>3 DEF Effect

LEMMA Invariant == Spec => []IInv
<1>1. Init => IInv
  BY InitIInv
<1>2. IInv /\ [Next]_vars => IInv'
  <2> SUFFICES ASSUME IInv, [Next]_vars PROVE IInv'
    OBVIOUS
  <2>1. Effect /\ RestOK'
    BY NextEffect DEF IInv
  <2> QED
    BY <2>1, EffectIInv
<1> QED
  BY <1>1, <1>2, PTL DEF Spec

-----------------------------------------------------------------------------
\* The content of slicers.yaml, what the hook and the panel got and the legacy
\* files have their types, whatever requests are made: what a handler writes
\* from an old view of the file is still a list of slicers.
THEOREM TypeCorrect == Spec => []TypeOK
<1>1. IInv => TypeOK
  BY DEF IInv
<1> QED
  BY <1>1, Invariant, PTL

\* Two instances of the file have the same id only if slicer and page of both
\* join to it, or a request gave it to a second place.
\* This needs IdInv, which also speaks of the entries that the hook has: it
\* writes them back (saveInstance, removeInstance, the bulk writes) when the file
\* may have others, and of the ids of places without an entry, which may get one.
THEOREM IdsAreDistinct == Spec => []IdsCollideOnlyBy
<1>1. IInv => IdsCollideOnlyBy
  <2> SUFFICES ASSUME IInv, NEW i \in InstancesOf(slicers), NEW j \in InstancesOf(slicers),
                      i.id = j.id, i # j, i.id \notin spread
               PROVE  i.id = PlaceId[<<i.def, i.page>>] /\ j.id = PlaceId[<<j.def, j.page>>]
    BY DEF IdsCollideOnlyBy
  <2>1. AreSlicers(slicers) /\ Apart(slicers, slicers, spread)
    BY DEF IInv, IdInv, IdsFit, TypeOK
  <2>2. ASSUME NEW k \in InstancesOf(slicers)
        PROVE  /\ k = [id |-> k.id, def |-> k.def, page |-> k.page, layout |-> k.layout]
               /\ k.id \in Ids /\ k.def \in Slicers /\ k.page \in PageIds
               /\ k.layout = slicers[k.def].pages[k.page].layout
               /\ Uses(slicers, k.def, k.page, k.id)
    <3>1. /\ k \in Instances /\ k.id \in Ids /\ k.def \in DOMAIN slicers
          /\ k.page \in DOMAIN slicers[k.def].pages
          /\ k.id = InstanceId(k.def, k.page, slicers[k.def].pages[k.page])
          /\ k.layout = slicers[k.def].pages[k.page].layout
      BY <2>1, InstanceFacts
    <3>2. Uses(slicers, k.def, k.page, k.id)
      BY <3>1 DEF InstanceId, Uses, HasId
    <3> QED
      BY <3>1, <3>2 DEF Instances
  <2>3. ~ (i.def = j.def /\ i.page = j.page)
    BY <2>2
  <2> QED
    BY <2>1, <2>2, <2>3 DEF Apart
<1> QED
  BY <1>1, Invariant, PTL

-----------------------------------------------------------------------------
\* A request about one slicer leaves every other as it was, through each of the
\* APIs and from however old a view.
THEOREM OthersStay == Spec => OthersStayAsTheyWere
<1> DEFINE Stay == exists' /\ last' # "bulk" =>
                     \E all \in Loaded, s \in Slicers :
                       \A t \in Slicers \ {s} : SameBare(t, all, slicers')
<1>1. IInv /\ [Next]_vars => [Stay]_vars
  <2> SUFFICES ASSUME IInv, [Next]_vars, exists', last' # "bulk"
               PROVE  \E all \in Loaded, s \in Slicers :
                        \A t \in Slicers \ {s} : SameBare(t, all, slicers')
    OBVIOUS
  <2>1. Effect
    BY NextEffect DEF IInv
  <2>2. CASE Reads
    <3>1. slicers' = slicers /\ slicers \in Loaded
      BY <2>2 DEF Reads, Loaded
    <3>2. PICK s \in Slicers : TRUE
      BY SlicersAssumption
    <3>3. Leaves(s, slicers, slicers)
      BY SlicersSame DEF IInv, TypeOK
    <3> QED
      BY <3>1, <3>2, <3>3 DEF Leaves
  <2>3. ASSUME NEW all, NEW new, Writes(all, new)
        PROVE  \E a \in Loaded, s \in Slicers :
                 \A t \in Slicers \ {s} : SameBare(t, a, slicers')
    BY <2>3 DEF Writes, Saved, Leaves
  <2> QED
    BY <2>1, <2>2, <2>3 DEF Effect
<1> QED
  BY <1>1, Invariant, PTL DEF Spec, OthersStayAsTheyWere

\* The sync panel and the definitions API give no entry that stays another
\* place or size: both make entries anew from flags, and take the layouts from
\* the file.
THEOREM LayoutsStay == Spec => PanelAndDefsKeepLayouts
<1> DEFINE Keep == last' \in {"panel", "defs"} /\ ops' # ops =>
                     \A s \in DOMAIN slicers \cap DOMAIN slicers' :
                       \A p \in DOMAIN slicers[s].pages \cap DOMAIN slicers'[s].pages :
                         slicers'[s].pages[p].layout = slicers[s].pages[p].layout
<1>1. IInv /\ [Next]_vars => [Keep]_vars
  <2> SUFFICES ASSUME IInv, [Next]_vars, last' \in {"panel", "defs"},
                      NEW s \in DOMAIN slicers \cap DOMAIN slicers',
                      NEW p \in DOMAIN slicers[s].pages \cap DOMAIN slicers'[s].pages
               PROVE  slicers'[s].pages[p].layout = slicers[s].pages[p].layout
    OBVIOUS
  <2>1. Effect
    BY NextEffect DEF IInv
  <2>2. CASE Reads
    BY <2>2 DEF Reads
  <2>3. ASSUME NEW all, NEW new, Writes(all, new)
        PROVE  slicers'[s].pages[p].layout = slicers[s].pages[p].layout
    <3>1. all \in Loaded /\ slicers' = new /\ KeepsLayouts(all, new)
      BY <2>3 DEF Writes, Saved
    <3>2. exists
      BY DEF IInv, None
    <3>3. all = slicers
      BY <3>1, <3>2, LoadedFacts DEF IInv
    <3> QED
      BY <3>1, <3>3 DEF KeepsLayouts
  <2> QED
    BY <2>1, <2>2, <2>3 DEF Effect
<1> QED
  BY <1>1, Invariant, PTL DEF Spec, PanelAndDefsKeepLayouts

-----------------------------------------------------------------------------
LEMMA OnlyRemoval ==
  ASSUME [Next]_vars, last' = "removal", ops' # ops
  PROVE  \E s \in Slicers, p \in PageIds : RemoveInstance(s, p)
<1>1. CASE HookStep
  <2>1. ~ LoadAll
    BY DEF LoadAll
  <2>2. \A s \in Slicers, b \in Bodies : ~ CreateSlicer(s, b, None) /\ ~ UpdateBody(s, b)
    BY DEF CreateSlicer, UpdateBody, Counted
  <2>3. \A s \in Slicers, p \in PageIds, l \in Layouts : ~ SaveInstance(s, p, l)
    BY DEF SaveInstance, UpdatePages, Counted
  <2>4. \A s, t \in Slicers, p \in PageIds, l \in Layouts : ~ DuplicateIndependent(s, t, p, l)
    BY DEF DuplicateIndependent, CreateSlicer, Counted
  <2>5. \A s \in Slicers : ~ DeleteSlicer(s)
    BY DEF DeleteSlicer, Counted
  <2>6. \A S \in SUBSET DOMAIN seen : ~ PutSlicers(S)
    BY DEF PutSlicers, Counted
  <2> QED
    BY <1>1, <2>1, <2>2, <2>3, <2>4, <2>5, <2>6 DEF HookStep
<1>2. CASE PanelStep
  BY <1>2 DEF PanelStep, LoadSync, Toggle, ToggleAll, PutSync, Counted
<1>3. CASE DefStep
  BY <1>3 DEF DefStep, CreateDef, UpdateDefBody, UpdateDefSync, UpdateDef, DeleteDef,
              SaveAllDefs, Counted
<1>4. CASE InstanceStep
  BY <1>4 DEF InstanceStep, CreateInstance, UpdateInstance, DeleteInstance, Counted
<1>5. CASE PageStep \/ UNCHANGED vars
  BY <1>5 DEF PageStep, DeletePage, CreatePage, Counted, vars
<1> QED
  BY <1>1, <1>2, <1>3, <1>4, <1>5 DEF Next

\* Taking a slicer off a page, when the hook has what the file has, makes its
\* filter reach no new page while a synced entry is left.  Without one it may:
\* the slicer then filters its target page, or the whole report.
THEOREM RemovalNarrows == Spec => RemovalNarrowsWhileSynced
<1> DEFINE Narrows == \A s \in Slicers :
                        Removed(s) /\ SyncedTo(slicers'[s].pages) # {}
                        => Reach(s, slicers') \subseteq Reach(s, slicers)
<1>1. IInv /\ [Next]_vars => [Narrows]_vars
  <2> SUFFICES ASSUME IInv, [Next]_vars, NEW s \in Slicers,
                      Removed(s), SyncedTo(slicers'[s].pages) # {}
               PROVE  Reach(s, slicers') \subseteq Reach(s, slicers)
    OBVIOUS
  <2>1. /\ last' = "removal" /\ ops' # ops
        /\ s \in DOMAIN slicers /\ s \in DOMAIN seen /\ seen[s] = slicers[s]
    BY DEF Removed
  <2>2. PICK r \in DOMAIN seen, p \in PlainPages :
          UpdatePages("removal", r, Without(seen[r].pages, {p}))
    BY <2>1, OnlyRemoval DEF RemoveInstance
  <2> DEFINE left == Without(seen[r].pages, {p})
  <2>3. PICK all \in Loaded : /\ r \in DOMAIN all
                              /\ slicers' = With(all, r, [all[r] EXCEPT !.pages = left])
    BY <2>2 DEF UpdatePages, Answered, Saved
  <2>4. all = slicers /\ AreSlicers(all)
    BY <2>1, <2>3, LoadedFacts DEF IInv, None
  <2>5. CASE s # r
    <3>1. slicers'[s] = slicers[s]
      BY <2>1, <2>3, <2>4, <2>5 DEF With
    <3> QED
      BY <3>1 DEF Reach, Reaches
  <2>6. CASE s = r
    <3>1. slicers'[s] = [all[s] EXCEPT !.pages = left]
      BY <2>3, <2>6 DEF With
    <3>2. all[s] = [body |-> all[s].body, pages |-> all[s].pages]
      BY <2>3, <2>4, <2>6, SlicerFacts
    <3>3. slicers'[s].pages = left
      BY <3>1, <3>2
    <3>4. left = Without(slicers[s].pages, {p})
      BY <2>1, <2>6
    <3>5. SyncedTo(left) \subseteq SyncedTo(slicers[s].pages)
      BY <3>4 DEF Without, SyncedTo
    <3>6. left # None /\ slicers[s].pages # None
      BY <3>3, <3>5 DEF SyncedTo, None
    <3>7. SyncedTo(left) # {} /\ SyncedTo(slicers[s].pages) # {}
      BY <3>3, <3>5
    <3> HIDE DEF left
    <3>8. Reach(s, slicers') = SyncedTo(left) \cap pageIds
      BY <3>3, <3>6, <3>7 DEF Reach, Reaches
    <3>9. Reach(s, slicers) = SyncedTo(slicers[s].pages) \cap pageIds
      BY <3>6, <3>7 DEF Reach, Reaches
    <3> QED
      BY <3>5, <3>8, <3>9
  <2> QED
    BY <2>5, <2>6
<1> QED
  BY <1>1, Invariant, PTL DEF Spec, RemovalNarrowsWhileSynced
================================================================================
