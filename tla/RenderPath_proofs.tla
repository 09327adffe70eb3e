--------------------------- MODULE RenderPath_proofs ---------------------------
(* Proofs about the render path: its caches (RenderCache), for every MaxSize >= 4,
   TTL and set of keys and values, and the steps between them (RenderPipeline),
   for every set of threads and every bound.                                  *)
EXTENDS RenderCache, RenderPipeline, FiniteSetTheorems, TLAPS

-----------------------------------------------------------------------------
(* The caches: the types, the size bound, which entries put gives up, and that
   the store implements the lossy cache.                                      *)
Calls == [op : {"get", "put", "clear"}, key : Keys \cup {Nothing},
          value : Values \cup {Nothing}]

\* No entry expires later than one put now would: an older entry never outlives it.
ExpiryInv == \A k \in DOMAIN store : store[k].expiry <= now + TTL

CacheInv ==
  /\ CacheTypeOK
  /\ IsFiniteSet(DOMAIN store)
  /\ SizeBounded
  /\ ExpiryInv

-----------------------------------------------------------------------------
(* Facts about the helpers. *)

LEMMA WithoutFact ==
  ASSUME NEW s, NEW gone
  PROVE  /\ DOMAIN Without(s, gone) = DOMAIN s \ gone
         /\ \A k \in DOMAIN s \ gone : Without(s, gone)[k] = s[k]
  BY DEF Without

LEMMA RoomyFact ==
  /\ DOMAIN Roomy \subseteq DOMAIN store
  /\ \A k \in DOMAIN Roomy : Roomy[k] = store[k]
  /\ Full(store) => DOMAIN Roomy = Live
  /\ ~Full(store) => Roomy = store
<1>1. CASE Full(store)
  BY <1>1, WithoutFact DEF Roomy, Live
<1>2. CASE ~Full(store)
  BY <1>2 DEF Roomy
<1> QED BY <1>1, <1>2

(* What is given up is part of the store; only a full one gives something up. *)
LEMMA EvictedFact ==
  ASSUME NEW gone \in Evicted(Roomy)
  PROVE  /\ gone \subseteq DOMAIN Roomy
         /\ ~Full(Roomy) => gone = {}
         /\ Full(Roomy) => /\ Cardinality(gone) = MaxSize \div 4
                           /\ \A e \in gone, k \in DOMAIN Roomy \ gone :
                                Roomy[e].expiry <= Roomy[k].expiry
<1>1. CASE Full(Roomy)
  BY <1>1 DEF Evicted, Oldest
<1>2. CASE ~Full(Roomy)
  BY <1>2 DEF Evicted
<1> QED BY <1>1, <1>2

(* The entries that put leaves beside its own: their keys, and each unchanged. *)
PutEffect(k, v, gone) ==
  /\ DOMAIN store' = (DOMAIN Roomy \ gone) \cup {k}
  /\ store'[k] = [expiry |-> now + TTL, value |-> v]
  /\ \A j \in DOMAIN Roomy \ gone : j # k => store'[j] = store[j]

LEMMA PutFact ==
  ASSUME NEW k, NEW v, NEW gone \in Evicted(Roomy),
         store' = With(Without(Roomy, gone), k, v)
  PROVE  PutEffect(k, v, gone)
<1> DEFINE kept == Without(Roomy, gone)
<1>1. /\ DOMAIN kept = DOMAIN Roomy \ gone
      /\ \A j \in DOMAIN Roomy \ gone : kept[j] = Roomy[j]
  BY WithoutFact
<1>2. store' = With(kept, k, v)
  OBVIOUS
<1> HIDE DEF kept
<1>3. /\ DOMAIN store' = DOMAIN kept \cup {k}
      /\ store'[k] = [expiry |-> now + TTL, value |-> v]
      /\ \A j \in DOMAIN kept : j # k => store'[j] = kept[j]
  BY <1>2 DEF With
<1> QED BY <1>1, <1>3, RoomyFact DEF PutEffect

(* Making room makes enough of it. *)
LEMMA RoomForOne ==
  ASSUME IsFiniteSet(DOMAIN store), SizeBounded, NEW gone \in Evicted(Roomy)
  PROVE  /\ IsFiniteSet(DOMAIN Roomy \ gone)
         /\ Cardinality(DOMAIN Roomy \ gone) + 1 <= MaxSize
<1> DEFINE D == DOMAIN Roomy
<1>1. /\ IsFiniteSet(D)
      /\ Cardinality(D) \in Nat
      /\ Cardinality(D) <= Cardinality(DOMAIN store)
  BY RoomyFact, FS_Subset, FS_CardinalityType
<1>2. Cardinality(D) <= MaxSize
  <2>1. Cardinality(DOMAIN store) \in Nat
    BY FS_CardinalityType
  <2> QED BY <1>1, <2>1, SizeAssumption DEF SizeBounded
<1>3. /\ IsFiniteSet(D \ gone)
      /\ Cardinality(D \ gone) = Cardinality(D) - Cardinality(D \cap gone)
  BY <1>1, FS_Difference
<1>4. D \cap gone = gone
  BY EvictedFact
<1>5. CASE Full(Roomy)
  <2>1. Cardinality(gone) = MaxSize \div 4
    BY <1>5, EvictedFact
  <2>2. MaxSize \div 4 \in Nat /\ MaxSize \div 4 >= 1
    BY SizeAssumption
  <2>3. Cardinality(D \ gone) = Cardinality(D) - (MaxSize \div 4)
    BY <1>3, <1>4, <2>1
  <2> HIDE DEF D
  <2>4. Cardinality(D \ gone) + 1 <= MaxSize
    BY <1>1, <1>2, <2>2, <2>3, SizeAssumption
  <2> QED BY <1>3, <2>4 DEF D
<1>6. CASE ~Full(Roomy)
  <2>1. gone = {}
    BY <1>6, EvictedFact
  <2>2. D \ gone = D
    BY <2>1
  <2>3. ~(Cardinality(D) >= MaxSize)
    BY <1>6 DEF Full
  <2> QED BY <1>1, <1>3, <2>2, <2>3, SizeAssumption
<1> QED BY <1>5, <1>6

-----------------------------------------------------------------------------
(* The inductive invariant. *)

LEMMA InitCacheInv == CacheInit => CacheInv
<1> SUFFICES ASSUME CacheInit PROVE CacheInv
  OBVIOUS
<1>1. DOMAIN store = {}
  BY DEF CacheInit, NothingStored
<1>2. /\ IsFiniteSet(DOMAIN store)
      /\ Cardinality(DOMAIN store) = 0
  BY <1>1, FS_EmptySet
<1>3. last \in [op : {"get", "put", "clear"}, key : Keys \cup {Nothing},
                value : Values \cup {Nothing}]
  BY DEF CacheInit, NoCall, Call
<1> QED BY <1>1, <1>2, <1>3, SizeAssumption, ClockAssumption
        DEF CacheInit, CacheInv, CacheTypeOK, SizeBounded, ExpiryInv

(* A store whose entries are those of the old one keeps the invariant. *)
LEMMA Shrinks ==
  ASSUME CacheInv, now' = now, last' \in Calls,
         DOMAIN store' \subseteq DOMAIN store,
         \A k \in DOMAIN store' : store'[k] = store[k]
  PROVE  CacheInv'
<1>1. /\ IsFiniteSet(DOMAIN store')
      /\ Cardinality(DOMAIN store') <= Cardinality(DOMAIN store)
  BY FS_Subset DEF CacheInv
<1>2. /\ Cardinality(DOMAIN store') \in Nat
      /\ Cardinality(DOMAIN store) \in Nat
  BY <1>1, FS_CardinalityType DEF CacheInv
<1>3. SizeBounded'
  BY <1>1, <1>2, SizeAssumption DEF CacheInv, SizeBounded
<1>4. CacheTypeOK'
  BY DEF CacheInv, CacheTypeOK, Calls
<1>5. ExpiryInv'
  BY DEF CacheInv, ExpiryInv
<1> QED BY <1>1, <1>3, <1>4, <1>5 DEF CacheInv

LEMMA NextCacheInv == CacheInv /\ [CacheNext]_cacheVars => CacheInv'
<1> SUFFICES ASSUME CacheInv, [CacheNext]_cacheVars PROVE CacheInv'
  OBVIOUS
<1>1. ASSUME NEW k \in Keys, Hit(k) PROVE CacheInv'
  <2>1. last' \in Calls
    <3>1. store[k] \in Entry
      BY <1>1 DEF Hit, CacheInv, CacheTypeOK
    <3> QED BY <1>1, <3>1 DEF Hit, Call, Calls, Entry
  <2> QED BY <1>1, <2>1, Shrinks DEF Hit
<1>2. ASSUME NEW k \in Keys, Miss(k) PROVE CacheInv'
  <2>1. last' \in Calls
    BY <1>2 DEF Miss, Call, Calls
  <2>2. /\ DOMAIN store' = DOMAIN store \ {k}
        /\ \A j \in DOMAIN store' : store'[j] = store[j]
    BY <1>2 DEF Miss, Without
  <2>3. now' = now
    BY <1>2 DEF Miss
  <2> QED BY <2>1, <2>2, <2>3, Shrinks
<1>3. ASSUME NEW k \in Keys, NEW v \in Values, Put(k, v) PROVE CacheInv'
  <2>1. PICK gone \in Evicted(Roomy) : store' = With(Without(Roomy, gone), k, v)
    BY <1>3 DEF Put
  <2> DEFINE rest == DOMAIN Roomy \ gone
  <2>2. /\ DOMAIN store' = rest \cup {k}
        /\ store'[k] = [expiry |-> now + TTL, value |-> v]
        /\ \A j \in rest : j # k => store'[j] = store[j]
    <3>1. PutEffect(k, v, gone)
      BY <2>1, PutFact
    <3> QED BY <3>1 DEF PutEffect
  <2>3. rest \subseteq DOMAIN store
    BY RoomyFact
  <2>4. /\ IsFiniteSet(rest)
        /\ Cardinality(rest) + 1 <= MaxSize
    BY RoomForOne DEF CacheInv
  <2>5. /\ IsFiniteSet(rest \cup {k})
        /\ Cardinality(rest \cup {k}) <= MaxSize
    <3>1. Cardinality(rest) \in Nat
      BY <2>4, FS_CardinalityType
    <3>2. /\ IsFiniteSet(rest \cup {k})
          /\ Cardinality(rest \cup {k}) =
               IF k \in rest THEN Cardinality(rest) ELSE Cardinality(rest) + 1
      BY <2>4, FS_AddElement
    <3> QED BY <2>4, <3>1, <3>2, SizeAssumption
  <2>6. last' \in Calls /\ now' = now
    BY <1>3 DEF Put, Call, Calls
  <2> HIDE DEF rest
  <2>7. now \in Int /\ TTL \in Int
    BY ClockAssumption DEF CacheInv, CacheTypeOK
  <2>8. CacheTypeOK'
    <3>1. store'[k] \in Entry
      BY <2>2, <2>7 DEF Entry
    <3>2. \A j \in DOMAIN store' : store'[j] \in Entry
      BY <2>2, <2>3, <3>1 DEF CacheInv, CacheTypeOK
    <3> QED BY <2>2, <2>3, <2>6, <3>2 DEF CacheInv, CacheTypeOK, Calls
  <2>9. ExpiryInv'
    <3>1. store'[k].expiry <= now + TTL
      BY <2>2, <2>7
    <3>2. \A j \in rest : j # k => store'[j].expiry <= now + TTL
      BY <2>2, <2>3 DEF CacheInv, ExpiryInv
    <3> QED BY <2>2, <2>6, <3>1, <3>2 DEF ExpiryInv
  <2> QED BY <2>2, <2>5, <2>8, <2>9 DEF CacheInv, SizeBounded
<1>4. ASSUME Invalidate PROVE CacheInv'
  <2>1. DOMAIN store' = {}
    BY <1>4 DEF Invalidate, NothingStored
  <2>2. last' \in Calls /\ now' = now
    BY <1>4 DEF Invalidate, NoCall, Call, Calls
  <2> QED BY <2>1, <2>2, Shrinks
<1>5. ASSUME Tick PROVE CacheInv'
  <2>1. now \in Nat /\ now' = now + 1 /\ UNCHANGED <<store, last>>
    BY <1>5 DEF Tick, CacheInv, CacheTypeOK
  <2>2. ExpiryInv'
    <3>1. \A k \in DOMAIN store : store[k].expiry \in Int
      BY DEF CacheInv, CacheTypeOK, Entry
    <3> QED BY <2>1, <3>1, ClockAssumption DEF CacheInv, ExpiryInv
  <2> QED BY <2>1, <2>2 DEF CacheInv, CacheTypeOK, SizeBounded
<1>6. ASSUME UNCHANGED cacheVars PROVE CacheInv'
  BY <1>6 DEF cacheVars, CacheInv, CacheTypeOK, SizeBounded, ExpiryInv
<1> QED BY <1>1, <1>2, <1>3, <1>4, <1>5, <1>6 DEF CacheNext

LEMMA AlwaysCacheInv == CacheSpec => []CacheInv
  BY InitCacheInv, NextCacheInv, PTL DEF CacheSpec

(* The store and the last call always have their types. *)
THEOREM RenderCacheTypes == CacheSpec => []CacheTypeOK
<1>1. CacheInv => CacheTypeOK
  BY DEF CacheInv
<1> QED BY <1>1, AlwaysCacheInv, PTL

(* The cache never holds more than MaxSize entries, whatever MaxSize >= 4 is:
   a quarter of it, rounded down, is then at least one entry.                 *)
THEOREM RenderCacheBounded == CacheSpec => []SizeBounded
<1>1. CacheInv => SizeBounded
  BY DEF CacheInv
<1> QED BY <1>1, AlwaysCacheInv, PTL

-----------------------------------------------------------------------------
(* What put gives up. *)

(* Only a put drops an entry that is alive and keeps another: Miss drops one that
   is not alive, Invalidate keeps none.                                         *)
LEMMA OnlyPutEvicts ==
  ASSUME [CacheNext]_cacheVars, NEW e \in Live \ DOMAIN store', DOMAIN store' # {}
  PROVE  \E k \in Keys, v \in Values : Put(k, v)
<1>1. ASSUME NEW k \in Keys, Hit(k) PROVE FALSE
  BY <1>1 DEF Hit, Live
<1>2. ASSUME NEW k \in Keys, Miss(k) PROVE FALSE
  <2>1. DOMAIN store' = DOMAIN store \ {k}
    BY <1>2 DEF Miss, Without
  <2> QED BY <1>2, <2>1 DEF Miss, Live
<1>3. ASSUME Invalidate PROVE FALSE
  BY <1>3 DEF Invalidate, NothingStored
<1>4. ASSUME Tick \/ UNCHANGED cacheVars PROVE FALSE
  BY <1>4 DEF Tick, cacheVars, Live
<1> QED BY <1>1, <1>2, <1>3, <1>4 DEF CacheNext

LEMMA StepEvictsOldest ==
  ASSUME CacheInv, [CacheNext]_cacheVars, NEW e \in Live \ DOMAIN store', DOMAIN store' # {}
  PROVE  /\ Cardinality(Live) = MaxSize
         /\ \A k \in DOMAIN store \cap DOMAIN store' :
              store[k] = store'[k] => store[e].expiry <= store[k].expiry
<1>1. PICK p \in Keys, v \in Values : Put(p, v)
  BY OnlyPutEvicts
<1>2. PICK gone \in Evicted(Roomy) : store' = With(Without(Roomy, gone), p, v)
  BY <1>1 DEF Put
<1>3. PutEffect(p, v, gone)
  BY <1>2, PutFact
<1>4. DOMAIN store' = (DOMAIN Roomy \ gone) \cup {p}
  BY <1>3 DEF PutEffect
<1>5. e \in DOMAIN store /\ e \in DOMAIN Roomy /\ e \in gone
  BY <1>4, RoomyFact DEF Live
<1>6. /\ Full(Roomy)
      /\ \A k \in DOMAIN Roomy \ gone : Roomy[e].expiry <= Roomy[k].expiry
  BY <1>5, EvictedFact
<1>7. Full(store) /\ DOMAIN Roomy = Live
  BY <1>6, RoomyFact
<1>8. Cardinality(Live) = MaxSize
  <2>1. Cardinality(Live) >= MaxSize
    BY <1>6, <1>7 DEF Full
  <2>2. Live \subseteq DOMAIN store
    BY DEF Live
  <2>3. /\ IsFiniteSet(Live)
        /\ Cardinality(Live) <= Cardinality(DOMAIN store)
    BY <2>2, FS_Subset DEF CacheInv
  <2>4. Cardinality(Live) \in Nat /\ Cardinality(DOMAIN store) \in Nat
    BY <2>3, FS_CardinalityType DEF CacheInv
  <2> QED BY <2>1, <2>3, <2>4, SizeAssumption DEF CacheInv, SizeBounded
<1>9. ASSUME NEW k \in DOMAIN store \cap DOMAIN store', store[k] = store'[k]
      PROVE  store[e].expiry <= store[k].expiry
  <2>1. CASE k \in DOMAIN Roomy \ gone
    BY <1>5, <1>6, <2>1, RoomyFact
  <2>2. CASE k = p
    <3>1. store'[p] = [expiry |-> now + TTL, value |-> v]
      BY <1>3 DEF PutEffect
    <3>2. store[k].expiry = now + TTL
      BY <1>9, <2>2, <3>1
    <3>3. store[e].expiry <= now + TTL
      BY <1>5 DEF CacheInv, ExpiryInv
    <3> QED BY <3>2, <3>3
  <2> QED BY <1>4, <1>9, <2>1, <2>2
<1> QED BY <1>8, <1>9

(* An entry that could still be hit is given up only when MaxSize of them are
   alive, and never before an entry that would expire sooner.                 *)
THEOREM RenderCacheEvictsOldest == CacheSpec => EvictsOldestWhenFull
<1>1. CacheInv /\ [CacheNext]_cacheVars =>
        [\A e \in Live \ DOMAIN store' : DOMAIN store' # {} =>
           /\ Cardinality(Live) = MaxSize
           /\ \A k \in DOMAIN store \cap DOMAIN store' :
                store[k] = store'[k] => store[e].expiry <= store[k].expiry]_cacheVars
  BY StepEvictsOldest
<1> QED BY <1>1, AlwaysCacheInv, PTL DEF CacheSpec, EvictsOldestWhenFull

-----------------------------------------------------------------------------
(* The store implements the lossy cache. *)

LEMMA InitLossy == CacheInit => Lossy!Init
  BY DEF CacheInit, NothingStored, NoCall, Call, Memo, Lossy!Init, Lossy!Empty,
         Lossy!NoCall, Lossy!Call

LEMMA StepLossy ==
  ASSUME CacheInv, [CacheNext]_cacheVars
  PROVE  [Lossy!Next]_<<Memo, last>>
<1>1. ASSUME NEW k \in Keys, Hit(k) PROVE Lossy!Hit(k)
  <2>1. /\ k \in DOMAIN store
        /\ store' = store
        /\ last' = Call("get", k, store[k].value)
    BY <1>1 DEF Hit
  <2>2. Memo[k] = store[k].value /\ Memo' = Memo
    BY <2>1 DEF Memo
  <2>3. store[k].value # Nothing
    <3>1. store[k] \in Entry
      BY <2>1 DEF CacheInv, CacheTypeOK
    <3> QED BY <3>1, NothingAssumption DEF Entry
  <2> QED BY <2>1, <2>2, <2>3 DEF Lossy!Hit, Lossy!Call, Call
<1>2. ASSUME NEW k \in Keys, Miss(k) PROVE Lossy!Miss(k)
  <2>1. /\ DOMAIN store' = DOMAIN store \ {k}
        /\ \A j \in DOMAIN store' : store'[j] = store[j]
        /\ last' = Call("get", k, Nothing)
    BY <1>2 DEF Miss, Without
  <2>2. Memo' = [Memo EXCEPT ![k] = Nothing]
    BY <2>1 DEF Memo
  <2> QED BY <2>1, <2>2 DEF Lossy!Miss, Lossy!Call, Call
<1>3. ASSUME NEW k \in Keys, NEW v \in Values, Put(k, v) PROVE Lossy!Put(k, v)
  <2>1. PICK gone \in Evicted(Roomy) : store' = With(Without(Roomy, gone), k, v)
    BY <1>3 DEF Put
  <2> DEFINE kept == DOMAIN Roomy \ gone
  <2>2. PutEffect(k, v, gone)
    BY <2>1, PutFact
  <2>3. /\ DOMAIN store' = kept \cup {k}
        /\ store'[k].value = v
        /\ \A j \in kept : j # k => store'[j] = store[j]
    BY <2>2 DEF PutEffect
  <2>4. kept \subseteq DOMAIN store /\ kept \in SUBSET Keys
    BY RoomyFact DEF CacheInv, CacheTypeOK
  <2> HIDE DEF kept
  <2>5. Memo' = [j \in Keys |-> IF j = k THEN v
                                ELSE IF j \in kept THEN Memo[j] ELSE Nothing]
    BY <2>3, <2>4 DEF Memo
  <2>6. last' = Call("put", k, v)
    BY <1>3 DEF Put
  <2> QED BY <2>4, <2>5, <2>6 DEF Lossy!Put, Lossy!Call, Call
<1>4. ASSUME Invalidate PROVE Lossy!Clear
  BY <1>4 DEF Invalidate, NothingStored, NoCall, Call, Memo, Lossy!Clear,
              Lossy!Empty, Lossy!NoCall, Lossy!Call
<1>5. ASSUME Tick \/ UNCHANGED cacheVars PROVE UNCHANGED <<Memo, last>>
  BY <1>5 DEF Tick, cacheVars, Memo
<1> QED BY <1>1, <1>2, <1>3, <1>4, <1>5 DEF CacheNext, Lossy!Next

(* Expiry, eviction and invalidation only forget: for every size, TTL and set of
   keys the store implements the lossy cache that the render path is built on.  *)
THEOREM RenderCacheIsLossy == CacheSpec => ImplementsLossyCache
<1>1. CacheSpec => Lossy!Spec
  BY InitLossy, StepLossy, AlwaysCacheInv, PTL DEF CacheSpec, Lossy!Spec
<1> QED BY <1>1 DEF ImplementsLossyCache

-----------------------------------------------------------------------------
(* The steps of a render, of an edit and of an invalidation.                  *)
USE DEF Threads, Version, EditKinds, Files, Model, Load, Engine, Plan, Result

(* What a thread needs at a step was computed before it gets there: a plan
   before it is stored or run, a result before it is answered, a kind of edit
   before a file is written.                                                 *)
LocalsReady ==
  \A t \in Threads :
    /\ pc[t] \in {"planPut", "connect", "materialize"} => loc[t].plan \in Plan
    /\ pc[t] \in {"resultPut", "reply"} => loc[t].result \in Result
    /\ pc[t] # "idle" => loc[t].job # "none"
    /\ pc[t] = "write" => loc[t].job \in EditKinds

-----------------------------------------------------------------------------
(* Locals: what a thread keeps has its type when the value it keeps has.     *)
LEMMA NoLocalsType == NoLocals \in Locals
  BY BoundAssumption DEF Locals, NoLocals, NoFiles, NoModel

LEMMA LocalsFields ==
  ASSUME NEW r \in Locals
  PROVE  /\ \A v \in Model   : [r EXCEPT !.lpsig = v] \in Locals
         /\ \A v \in Model   : [r EXCEPT !.model = v] \in Locals
         /\ \A v \in Version : [r EXCEPT !.sel = v] \in Locals
         /\ \A v \in Version : [r EXCEPT !.psig = v] \in Locals
         /\ \A v \in Plan    : [r EXCEPT !.plan = v] \in Locals
         /\ \A v \in Result  : [r EXCEPT !.result = v] \in Locals
         /\ \A v \in Files   : [r EXCEPT !.wrote = v] \in Locals
  BY DEF Locals

LEMMA LocalsRead ==
  ASSUME TypeOK, NEW t \in Threads
  PROVE  /\ loc[t] \in Locals
         /\ loc[t].rsig \in Version /\ loc[t].psig \in Version
         /\ loc[t].sel \in Version
         /\ loc[t].model \in Model /\ loc[t].lpsig \in Model
         /\ loc[t].model.eng \in Version /\ loc[t].model.aux \in Version
         /\ loc[t].wrote \in Files /\ loc[t].asked \in Files
         /\ loc[t].plan \in Plan \cup {Absent}
         /\ loc[t].result \in Result \cup {Absent}
         /\ loc[t].job \in EditKinds \cup {"none", "batch", "single"}
<1>1. loc[t] \in Locals
  BY DEF TypeOK
<1> QED
  BY <1>1 DEF Locals

(* The versions a thread reads from the disk are versions of its model. *)
LEMMA ModelRead ==
  ASSUME TypeOK, NEW t \in Threads
  PROVE  /\ ModelFiles \in Model
         /\ [loc[t].model EXCEPT !.eng = disk.eng] \in Model
         /\ [loc[t].model EXCEPT !.aux = disk.aux] \in Model
<1>1. disk.eng \in Version /\ disk.aux \in Version
  BY DEF TypeOK
<1>2. loc[t].model \in Model
  BY LocalsRead
<1> QED
  BY <1>1, <1>2 DEF ModelFiles

(* What get returns is an entry or None. *)
LEMMA EntryRead ==
  ASSUME TypeOK, NEW t \in Threads
  PROVE  /\ sqlc[loc[t].psig] \in Plan \cup {Absent}
         /\ resc[loc[t].rsig] \in Result \cup {Absent}
<1>1. sqlc \in [Version -> Plan \cup {Absent}]
  BY DEF TypeOK
<1>2. resc \in [Version -> Result \cup {Absent}]
  BY DEF TypeOK
<1>3. loc[t].psig \in Version /\ loc[t].rsig \in Version
  BY LocalsRead
<1> QED
  BY <1>1, <1>2, <1>3

OthersKept(t) == \A u \in Threads \ {t} : loc'[u] = loc[u]

LEMMA KeepType ==
  ASSUME TypeOK, NEW t \in Threads, NEW r \in Locals, Keep(t, r)
  PROVE  loc' \in [Threads -> Locals] /\ loc'[t] = r /\ OthersKept(t)
  BY DEF TypeOK, Keep, OthersKept

LEMMA KeepLpsig ==
  ASSUME TypeOK, NEW t \in Threads, NEW v \in Model,
         Keep(t, [loc[t] EXCEPT !.lpsig = v])
  PROVE  /\ loc' \in [Threads -> Locals] /\ OthersKept(t)
         /\ loc'[t].lpsig = v
         /\ loc'[t].job = loc[t].job
         /\ loc'[t].asked = loc[t].asked
         /\ loc'[t].rsig = loc[t].rsig
         /\ loc'[t].psig = loc[t].psig
         /\ loc'[t].model = loc[t].model
         /\ loc'[t].plan = loc[t].plan
         /\ loc'[t].result = loc[t].result
         /\ loc'[t].wrote = loc[t].wrote
<1>1. loc[t] \in Locals
  BY LocalsRead
<1>2. [loc[t] EXCEPT !.lpsig = v] \in Locals
  BY <1>1, LocalsFields, Zenon
<1>3. loc'[t] = [loc[t] EXCEPT !.lpsig = v] /\ OthersKept(t) /\ loc' \in [Threads -> Locals]
  BY <1>2, KeepType
<1> QED
  BY <1>1, <1>2, <1>3 DEF Locals

LEMMA KeepModel ==
  ASSUME TypeOK, NEW t \in Threads, NEW v \in Model,
         Keep(t, [loc[t] EXCEPT !.model = v])
  PROVE  /\ loc' \in [Threads -> Locals] /\ OthersKept(t)
         /\ loc'[t].model = v
         /\ loc'[t].job = loc[t].job
         /\ loc'[t].asked = loc[t].asked
         /\ loc'[t].rsig = loc[t].rsig
         /\ loc'[t].psig = loc[t].psig
         /\ loc'[t].lpsig = loc[t].lpsig
         /\ loc'[t].plan = loc[t].plan
         /\ loc'[t].result = loc[t].result
         /\ loc'[t].wrote = loc[t].wrote
<1>1. loc[t] \in Locals
  BY LocalsRead
<1>2. [loc[t] EXCEPT !.model = v] \in Locals
  BY <1>1, LocalsFields, Zenon
<1>3. loc'[t] = [loc[t] EXCEPT !.model = v] /\ OthersKept(t) /\ loc' \in [Threads -> Locals]
  BY <1>2, KeepType
<1> QED
  BY <1>1, <1>2, <1>3 DEF Locals

LEMMA KeepSel ==
  ASSUME TypeOK, NEW t \in Threads, NEW v \in Version,
         Keep(t, [loc[t] EXCEPT !.sel = v])
  PROVE  /\ loc' \in [Threads -> Locals] /\ OthersKept(t)
         /\ loc'[t].sel = v
         /\ loc'[t].job = loc[t].job
         /\ loc'[t].asked = loc[t].asked
         /\ loc'[t].rsig = loc[t].rsig
         /\ loc'[t].psig = loc[t].psig
         /\ loc'[t].lpsig = loc[t].lpsig
         /\ loc'[t].model = loc[t].model
         /\ loc'[t].plan = loc[t].plan
         /\ loc'[t].result = loc[t].result
         /\ loc'[t].wrote = loc[t].wrote
<1>1. loc[t] \in Locals
  BY LocalsRead
<1>2. [loc[t] EXCEPT !.sel = v] \in Locals
  BY <1>1, LocalsFields, Zenon
<1>3. loc'[t] = [loc[t] EXCEPT !.sel = v] /\ OthersKept(t) /\ loc' \in [Threads -> Locals]
  BY <1>2, KeepType
<1> QED
  BY <1>1, <1>2, <1>3 DEF Locals

LEMMA KeepPsig ==
  ASSUME TypeOK, NEW t \in Threads, NEW v \in Version,
         Keep(t, [loc[t] EXCEPT !.psig = v])
  PROVE  /\ loc' \in [Threads -> Locals] /\ OthersKept(t)
         /\ loc'[t].psig = v
         /\ loc'[t].job = loc[t].job
         /\ loc'[t].asked = loc[t].asked
         /\ loc'[t].rsig = loc[t].rsig
         /\ loc'[t].lpsig = loc[t].lpsig
         /\ loc'[t].model = loc[t].model
         /\ loc'[t].plan = loc[t].plan
         /\ loc'[t].result = loc[t].result
         /\ loc'[t].wrote = loc[t].wrote
<1>1. loc[t] \in Locals
  BY LocalsRead
<1>2. [loc[t] EXCEPT !.psig = v] \in Locals
  BY <1>1, LocalsFields, Zenon
<1>3. loc'[t] = [loc[t] EXCEPT !.psig = v] /\ OthersKept(t) /\ loc' \in [Threads -> Locals]
  BY <1>2, KeepType
<1> QED
  BY <1>1, <1>2, <1>3 DEF Locals

LEMMA KeepPlan ==
  ASSUME TypeOK, NEW t \in Threads, NEW v \in Plan,
         Keep(t, [loc[t] EXCEPT !.plan = v])
  PROVE  /\ loc' \in [Threads -> Locals] /\ OthersKept(t)
         /\ loc'[t].plan = v
         /\ loc'[t].job = loc[t].job
         /\ loc'[t].asked = loc[t].asked
         /\ loc'[t].rsig = loc[t].rsig
         /\ loc'[t].psig = loc[t].psig
         /\ loc'[t].lpsig = loc[t].lpsig
         /\ loc'[t].model = loc[t].model
         /\ loc'[t].result = loc[t].result
         /\ loc'[t].wrote = loc[t].wrote
<1>1. loc[t] \in Locals
  BY LocalsRead
<1>2. [loc[t] EXCEPT !.plan = v] \in Locals
  BY <1>1, LocalsFields, Zenon
<1>3. loc'[t] = [loc[t] EXCEPT !.plan = v] /\ OthersKept(t) /\ loc' \in [Threads -> Locals]
  BY <1>2, KeepType
<1> QED
  BY <1>1, <1>2, <1>3 DEF Locals

LEMMA KeepResult ==
  ASSUME TypeOK, NEW t \in Threads, NEW v \in Result,
         Keep(t, [loc[t] EXCEPT !.result = v])
  PROVE  /\ loc' \in [Threads -> Locals] /\ OthersKept(t)
         /\ loc'[t].result = v
         /\ loc'[t].job = loc[t].job
         /\ loc'[t].asked = loc[t].asked
         /\ loc'[t].rsig = loc[t].rsig
         /\ loc'[t].psig = loc[t].psig
         /\ loc'[t].lpsig = loc[t].lpsig
         /\ loc'[t].model = loc[t].model
         /\ loc'[t].plan = loc[t].plan
         /\ loc'[t].wrote = loc[t].wrote
<1>1. loc[t] \in Locals
  BY LocalsRead
<1>2. [loc[t] EXCEPT !.result = v] \in Locals
  BY <1>1, LocalsFields, Zenon
<1>3. loc'[t] = [loc[t] EXCEPT !.result = v] /\ OthersKept(t) /\ loc' \in [Threads -> Locals]
  BY <1>2, KeepType
<1> QED
  BY <1>1, <1>2, <1>3 DEF Locals

LEMMA KeepWrote ==
  ASSUME TypeOK, NEW t \in Threads, NEW v \in Files,
         Keep(t, [loc[t] EXCEPT !.wrote = v])
  PROVE  /\ loc' \in [Threads -> Locals] /\ OthersKept(t)
         /\ loc'[t].wrote = v
         /\ loc'[t].job = loc[t].job
         /\ loc'[t].asked = loc[t].asked
         /\ loc'[t].rsig = loc[t].rsig
         /\ loc'[t].psig = loc[t].psig
         /\ loc'[t].lpsig = loc[t].lpsig
         /\ loc'[t].model = loc[t].model
         /\ loc'[t].plan = loc[t].plan
         /\ loc'[t].result = loc[t].result
<1>1. loc[t] \in Locals
  BY LocalsRead
<1>2. [loc[t] EXCEPT !.wrote = v] \in Locals
  BY <1>1, LocalsFields, Zenon
<1>3. loc'[t] = [loc[t] EXCEPT !.wrote = v] /\ OthersKept(t) /\ loc' \in [Threads -> Locals]
  BY <1>2, KeepType
<1> QED
  BY <1>1, <1>2, <1>3 DEF Locals

-----------------------------------------------------------------------------
LEMMA WrittenType ==
  ASSUME TypeOK, LocalsReady, NEW t \in Threads, Write(t)
  PROVE  WrittenBy(loc[t].job) \in Files
<1>1. disk \in Files /\ disk.eng + disk.aux + disk.sel < MaxWrites
  BY DEF TypeOK, Write
<1>2. /\ [disk EXCEPT !.eng = @ + 1] \in Files
      /\ [disk EXCEPT !.aux = @ + 1] \in Files
      /\ [disk EXCEPT !.sel = @ + 1] \in Files
  BY <1>1, BoundAssumption
<1>3. loc[t].job \in EditKinds
  BY DEF LocalsReady, Write, Step
<1> QED
  BY <1>2, <1>3 DEF WrittenBy

LEMMA TypeRender ==
  ASSUME TypeOK, LocalsReady, NEW t \in Threads, RenderStep(t)
  PROVE  TypeOK'
<1> USE BoundAssumption, ThreadsAssumption, EditsAssumption, LocalsRead
<1>1. CASE BeginBatch(t)
  <2>1. [NoLocals EXCEPT !.job = "batch", !.asked = settled, !.rsig = disk.eng]
        \in Locals
    BY NoLocalsType DEF TypeOK, Locals
  <2>2. loc' \in [Threads -> Locals]
    BY <1>1, <2>1, KeepType DEF BeginBatch, Begin
  <2> QED
        BY <1>1, <2>2 DEF TypeOK, BeginBatch, Begin, Unsettled, Step, Labels,
       files, caches
<1>2. CASE BeginSingle(t)
  <2>1. [NoLocals EXCEPT !.job = "single", !.asked = settled, !.rsig = disk.eng]
        \in Locals
    BY NoLocalsType DEF TypeOK, Locals
  <2>2. loc' \in [Threads -> Locals]
    BY <1>2, <2>1, KeepType DEF BeginSingle, Begin
  <2> QED
        BY <1>2, <2>2 DEF TypeOK, BeginSingle, Begin, Unsettled, Step, Labels,
       files, caches
<1>3. CASE ResultHit(t)
  <2>1. resc[loc[t].rsig] \in Result
    BY <1>3, EntryRead DEF ResultHit
  <2>2. loc' \in [Threads -> Locals]
    BY <1>3, <2>1, KeepResult DEF ResultHit
  <2> QED
    BY <1>3, <2>2 DEF TypeOK, ResultHit, Step, Labels, files, caches
<1>4. CASE ResultMiss(t)
  BY <1>4 DEF TypeOK, ResultMiss, Step, Labels, files, caches
<1>5. CASE ReadSelections(t)
  <2>1. disk.sel \in Version
    BY <1>5 DEF TypeOK, ReadSelections
  <2>2. loc' \in [Threads -> Locals]
    BY <1>5, <2>1, KeepSel DEF ReadSelections
  <2> QED
    BY <1>5, <2>2 DEF TypeOK, ReadSelections, Step, Labels, files, caches
<1>6. CASE PlanKey(t)
  <2>1. disk.eng \in Version
    BY <1>6 DEF TypeOK, PlanKey
  <2>2. loc' \in [Threads -> Locals]
    BY <1>6, <2>1, KeepPsig DEF PlanKey
  <2> QED
    BY <1>6, <2>2 DEF TypeOK, PlanKey, Step, Labels, files, caches
<1>7. CASE PlanHit(t)
  <2>1. sqlc[loc[t].psig] \in Plan
    BY <1>7, EntryRead DEF PlanHit
  <2>2. loc' \in [Threads -> Locals]
    BY <1>7, <2>1, KeepPlan DEF PlanHit
  <2> QED
    BY <1>7, <2>2 DEF TypeOK, PlanHit, Step, Labels, files, caches
<1>8. CASE PlanMiss(t)
  BY <1>8 DEF TypeOK, PlanMiss, Step, Labels, files, caches
<1>9. CASE PrepareEngine(t)
  BY <1>9 DEF TypeOK, PrepareEngine, PreparedEngine, EngineCached, Step, Labels, files, caches
<1>10. CASE Compile(t)
  <2>1. [meas |-> registry, eng |-> loc[t].model.eng, aux |-> loc[t].model.aux, sel |-> loc[t].sel] \in Plan
    BY <1>10 DEF TypeOK, Compile
  <2>2. loc' \in [Threads -> Locals]
    BY <1>10, <2>1, KeepPlan DEF Compile
  <2> QED
    BY <1>10, <2>2 DEF TypeOK, Compile, Step, Labels, files, caches
<1>11. CASE CompileFails(t)
  <2>1. loc' \in [Threads -> Locals]
    BY <1>11, NoLocalsType, KeepType DEF CompileFails, Return
  <2> QED
    BY <1>11, <2>1 DEF TypeOK, CompileFails, Return, Step, Labels, files, caches
<1>12. CASE PlanStore(t)
  BY <1>12 DEF TypeOK, PlanStore, Step, Labels, files, caches
<1>13. CASE ExecuteOnCached(t)
  <2>1. [plan |-> loc[t].plan, conn |-> conn[t]] \in Result
    BY <1>13 DEF TypeOK, LocalsReady, Step, ExecuteOnCached
  <2>2. loc' \in [Threads -> Locals]
    BY <1>13, <2>1, KeepResult DEF ExecuteOnCached, Executed
  <2> QED
        BY <1>13, <2>2 DEF TypeOK, ExecuteOnCached, AfterExecute, Step, Labels,
       files, caches
<1>14. CASE ExecuteOnNew(t)
  <2>1. [plan |-> loc[t].plan, conn |-> loc[t].model.eng] \in Result
    BY <1>14 DEF TypeOK, LocalsReady, Step, ExecuteOnNew
  <2>2. loc' \in [Threads -> Locals]
    BY <1>14, <2>1, KeepResult DEF ExecuteOnNew, Executed
  <2> QED
        BY <1>14, <2>2 DEF TypeOK, ExecuteOnNew, AfterExecute, Step, Labels,
       files, caches
<1>15. CASE ResetRegistry(t)
  BY <1>15 DEF TypeOK, ResetRegistry, Step, Labels, files, caches
<1>16. CASE ExecuteOnMaterialized(t)
  <2>1. [plan |-> loc[t].plan, conn |-> loc[t].model.eng] \in Result
    BY <1>16 DEF TypeOK, LocalsReady, Step, ExecuteOnMaterialized
  <2>2. loc' \in [Threads -> Locals]
    BY <1>16, <2>1, KeepResult DEF ExecuteOnMaterialized, Executed
  <2> QED
        BY <1>16, <2>2 DEF TypeOK, ExecuteOnMaterialized, AfterExecute, Step,
       Labels, files, caches
<1>17. CASE ResultStore(t)
  BY <1>17 DEF TypeOK, ResultStore, Step, Labels, files, caches
<1>18. CASE Reply(t)
  <2>1. loc' \in [Threads -> Locals]
    BY <1>18, NoLocalsType, KeepType DEF Reply, Return
  <2> QED
    BY <1>18, <2>1 DEF TypeOK, Reply, Return, Step, Labels, files, caches
<1>19. CASE PrepareFails(t) \/ RenderFails(t)
  <2>1. loc' \in [Threads -> Locals]
    BY <1>19, NoLocalsType, KeepType DEF PrepareFails, RenderFails, Return
  <2>2. PICK at : Step(t, at, "idle")
    BY <1>19 DEF PrepareFails, RenderFails, Return
  <2>3. pc' \in [Threads -> Labels]
    BY <2>2 DEF TypeOK, Step, Labels
  <2>4. UNCHANGED <<files, caches, lock, conn>>
    BY <1>19 DEF PrepareFails, RenderFails
  <2> QED
    BY <2>1, <2>3, <2>4 DEF TypeOK, files, caches
<1> QED
    BY <1>1, <1>2, <1>3, <1>4, <1>5, <1>6, <1>7, <1>8, <1>9, <1>10, <1>11,
     <1>12, <1>13, <1>14, <1>15, <1>16, <1>17, <1>18, <1>19 DEF RenderStep

LEMMA TypeLoad ==
  ASSUME TypeOK, NEW t \in Threads, LoadStep(t)
  PROVE  TypeOK'
<1> USE BoundAssumption, ThreadsAssumption, EditsAssumption, LocalsRead
<1>1. CASE LoadSignature(t)
  <2>1. ModelFiles \in Model
    BY ModelRead
  <2>2. loc' \in [Threads -> Locals]
    BY <1>1, <2>1, KeepLpsig DEF LoadSignature
  <2> QED
    BY <1>1, <2>2 DEF TypeOK, LoadSignature, Step, Labels, files, caches
<1>2. CASE LoadHit(t)
  <2>1. lp.model \in Model
    BY <1>2 DEF TypeOK, LoadHit, LoadCached
  <2>2. loc' \in [Threads -> Locals]
    BY <1>2, <2>1, KeepModel DEF LoadHit
  <2> QED
        BY <1>2, <2>2 DEF TypeOK, LoadHit, LoadCached, AfterLoad, Step, Labels,
       files, caches
<1>3. CASE LoadMiss(t)
  BY <1>3 DEF TypeOK, LoadMiss, Step, Labels, files, caches
<1>4. CASE ParseModel(t)
  <2>1. [loc[t].model EXCEPT !.eng = disk.eng] \in Model
    BY ModelRead
  <2>2. loc' \in [Threads -> Locals]
    BY <1>4, <2>1, KeepModel DEF ParseModel
  <2> QED
    BY <1>4, <2>2 DEF TypeOK, ParseModel, Step, Labels, files, caches
<1>5. CASE ParseAux(t)
  <2>1. [loc[t].model EXCEPT !.aux = disk.aux] \in Model
    BY ModelRead
  <2>2. loc' \in [Threads -> Locals]
    BY <1>5, <2>1, KeepModel DEF ParseAux
  <2> QED
    BY <1>5, <2>2 DEF TypeOK, ParseAux, Step, Labels, files, caches
<1>6. CASE LoadStore(t)
  BY <1>6 DEF TypeOK, LoadStore, AfterLoad, Step, Labels, files, caches
<1>7. CASE LoadFails(t)
  <2>1. loc' \in [Threads -> Locals]
    BY <1>7, NoLocalsType, KeepType DEF LoadFails, Return
  <2> QED
    BY <1>7, <2>1 DEF TypeOK, LoadFails, Return, Step, Labels, files, caches
<1> QED
  BY <1>1, <1>2, <1>3, <1>4, <1>5, <1>6, <1>7 DEF LoadStep

LEMMA TypeEdit ==
  ASSUME TypeOK, LocalsReady, NEW t \in Threads, EditStep(t)
  PROVE  TypeOK'
<1> USE BoundAssumption, ThreadsAssumption, EditsAssumption, LocalsRead
<1>1. CASE BeginEdit(t)
  <2>1. PICK kind \in Edits : Keep(t, [NoLocals EXCEPT !.job = kind])
    BY <1>1 DEF BeginEdit
  <2>2. [NoLocals EXCEPT !.job = kind] \in Locals
    BY NoLocalsType DEF Locals
  <2>3. loc' \in [Threads -> Locals]
    BY <2>1, <2>2, KeepType
  <2>4. pc' \in [Threads -> Labels]
    BY <1>1 DEF TypeOK, BeginEdit, Step, Labels
  <2> QED
    BY <1>1, <2>3, <2>4 DEF TypeOK, BeginEdit, files, caches
<1>2. CASE RejectEdit(t)
  <2>1. loc' \in [Threads -> Locals]
    BY <1>2, NoLocalsType, KeepType DEF RejectEdit, Return
  <2> QED
    BY <1>2, <2>1 DEF TypeOK, RejectEdit, Return, Step, Labels, files, caches
<1>3. CASE Write(t)
  <2>1. WrittenBy(loc[t].job) \in Files
    BY <1>3, WrittenType
  <2>2. loc' \in [Threads -> Locals]
    BY <1>3, <2>1, KeepWrote DEF Write
  <2> QED
    BY <1>3, <2>1, <2>2 DEF TypeOK, Write, Step, Labels, Invalidates, caches
<1>4. CASE InvalidateEngine(t)
  BY <1>4 DEF TypeOK, InvalidateEngine, Step, Labels, files, caches
<1>5. CASE InvalidateLoad(t)
  BY <1>5 DEF TypeOK, InvalidateLoad, Step, Labels, files, caches
<1>6. CASE InvalidateConnection(t)
  BY <1>6 DEF TypeOK, InvalidateConnection, Step, Labels, files, caches
<1>7. CASE InvalidateResults(t)
  BY <1>7 DEF TypeOK, InvalidateResults, NoEntries, Step, Labels, files, caches
<1>8. CASE InvalidatePlans(t)
  BY <1>8 DEF TypeOK, InvalidatePlans, NoEntries, Step, Labels, files, caches
<1>9. CASE Settle(t)
  <2>1. /\ settled \in Files /\ loc[t].wrote \in Files
        /\ \A a, b \in Version : Later(a, b) \in Version
    BY DEF TypeOK, Later
  <2>2. settled' \in Files
    BY <1>9, <2>1 DEF Settle
  <2>3. pc' \in [Threads -> Labels]
    BY <1>9 DEF TypeOK, Settle, Step, Labels
  <2> QED
    BY <1>9, <2>2, <2>3 DEF TypeOK, Settle, caches
<1>10. CASE FinishEdit(t)
  <2>1. loc' \in [Threads -> Locals]
    BY <1>10, NoLocalsType, KeepType DEF FinishEdit, Return
  <2> QED
    BY <1>10, <2>1 DEF TypeOK, FinishEdit, Return, Step, Labels, files, caches
<1> QED
  BY <1>1, <1>2, <1>3, <1>4, <1>5, <1>6, <1>7, <1>8, <1>9, <1>10 DEF EditStep

-----------------------------------------------------------------------------
LEMMA ReadyRender ==
  ASSUME TypeOK, LocalsReady, NEW t \in Threads, RenderStep(t)
  PROVE  LocalsReady'
<1> USE LocalsRead DEF LocalsReady, OthersKept, Step
<1>0. pc \in [Threads -> Labels]
  BY DEF TypeOK
<1>1. CASE BeginBatch(t)
  <2>1. [NoLocals EXCEPT !.job = "batch", !.asked = settled, !.rsig = disk.eng]
        \in Locals
    BY NoLocalsType DEF TypeOK, Locals
  <2>2. PICK r \in Locals : r.job = "batch" /\ Keep(t, r)
    BY <1>1, <2>1, NoLocalsType DEF BeginBatch, Begin, Locals
  <2>3. OthersKept(t) /\ loc'[t].job = "batch"
    BY <2>2, KeepType
  <2> QED
    BY <1>0, <1>1, <2>3 DEF BeginBatch, Begin
<1>2. CASE BeginSingle(t)
  <2>1. [NoLocals EXCEPT !.job = "single", !.asked = settled, !.rsig = disk.eng]
        \in Locals
    BY NoLocalsType DEF TypeOK, Locals
  <2>2. PICK r \in Locals : r.job = "single" /\ Keep(t, r)
    BY <1>2, <2>1, NoLocalsType DEF BeginSingle, Begin, Locals
  <2>3. OthersKept(t) /\ loc'[t].job = "single"
    BY <2>2, KeepType
  <2> QED
    BY <1>0, <1>2, <2>3 DEF BeginSingle, Begin
<1>3. CASE ResultHit(t)
  <2>1. resc[loc[t].rsig] \in Result
    BY <1>3, EntryRead DEF ResultHit
  <2>2. /\ OthersKept(t)
        /\ loc'[t].job = loc[t].job
        /\ loc'[t].plan = loc[t].plan
        /\ loc'[t].result \in Result
    BY <1>3, <2>1, KeepResult DEF ResultHit
  <2> QED
    BY <1>0, <1>3, <2>2 DEF ResultHit
<1>4. CASE ResultMiss(t)
  BY <1>0, <1>4 DEF ResultMiss
<1>5. CASE ReadSelections(t)
  <2>1. disk.sel \in Version
    BY <1>5 DEF TypeOK, ReadSelections
  <2>2. /\ OthersKept(t)
        /\ loc'[t].job = loc[t].job
        /\ loc'[t].plan = loc[t].plan
        /\ loc'[t].result = loc[t].result
    BY <1>5, <2>1, KeepSel DEF ReadSelections
  <2> QED
    BY <1>0, <1>5, <2>2 DEF ReadSelections
<1>6. CASE PlanKey(t)
  <2>1. disk.eng \in Version
    BY <1>6 DEF TypeOK, PlanKey
  <2>2. /\ OthersKept(t)
        /\ loc'[t].job = loc[t].job
        /\ loc'[t].plan = loc[t].plan
        /\ loc'[t].result = loc[t].result
    BY <1>6, <2>1, KeepPsig DEF PlanKey
  <2> QED
    BY <1>0, <1>6, <2>2 DEF PlanKey
<1>7. CASE PlanHit(t)
  <2>1. sqlc[loc[t].psig] \in Plan
    BY <1>7, EntryRead DEF PlanHit
  <2>2. /\ OthersKept(t)
        /\ loc'[t].job = loc[t].job
        /\ loc'[t].result = loc[t].result
        /\ loc'[t].plan \in Plan
    BY <1>7, <2>1, KeepPlan DEF PlanHit
  <2> QED
    BY <1>0, <1>7, <2>2 DEF PlanHit
<1>8. CASE PlanMiss(t)
  BY <1>0, <1>8 DEF PlanMiss
<1>9. CASE PrepareEngine(t)
  BY <1>0, <1>9 DEF PrepareEngine
<1>10. CASE Compile(t)
  <2>1. [meas |-> registry, eng |-> loc[t].model.eng, aux |-> loc[t].model.aux, sel |-> loc[t].sel] \in Plan
    BY <1>10 DEF TypeOK, Compile
  <2>2. PICK v \in Plan : Keep(t, [loc[t] EXCEPT !.plan = v])
    BY <1>10, <2>1 DEF Compile
  <2>3. /\ OthersKept(t)
        /\ loc'[t].job = loc[t].job
        /\ loc'[t].result = loc[t].result
        /\ loc'[t].plan \in Plan
    BY <2>2, KeepPlan
  <2> QED
    BY <1>0, <1>10, <2>3 DEF Compile
<1>11. CASE CompileFails(t)
  <2>2. OthersKept(t)
    BY <1>11, NoLocalsType, KeepType DEF CompileFails, Return
  <2> QED
    BY <1>0, <1>11, <2>2 DEF CompileFails, Return
<1>12. CASE PlanStore(t)
  BY <1>0, <1>12 DEF PlanStore
<1>13. CASE ExecuteOnCached(t)
  <2>1. [plan |-> loc[t].plan, conn |-> conn[t]] \in Result
    BY <1>13 DEF TypeOK, ExecuteOnCached
  <2>2. PICK v \in Result : Keep(t, [loc[t] EXCEPT !.result = v])
    BY <1>13, <2>1 DEF ExecuteOnCached, Executed
  <2>3. /\ OthersKept(t)
        /\ loc'[t].job = loc[t].job
        /\ loc'[t].plan = loc[t].plan
        /\ loc'[t].result \in Result
    BY <2>2, KeepResult
  <2> QED
    BY <1>0, <1>13, <2>3 DEF ExecuteOnCached, AfterExecute
<1>14. CASE ExecuteOnNew(t)
  <2>1. [plan |-> loc[t].plan, conn |-> loc[t].model.eng] \in Result
    BY <1>14 DEF TypeOK, ExecuteOnNew
  <2>2. PICK v \in Result : Keep(t, [loc[t] EXCEPT !.result = v])
    BY <1>14, <2>1 DEF ExecuteOnNew, Executed
  <2>3. /\ OthersKept(t)
        /\ loc'[t].job = loc[t].job
        /\ loc'[t].plan = loc[t].plan
        /\ loc'[t].result \in Result
    BY <2>2, KeepResult
  <2> QED
    BY <1>0, <1>14, <2>3 DEF ExecuteOnNew, AfterExecute
<1>15. CASE ResetRegistry(t)
  BY <1>0, <1>15 DEF ResetRegistry
<1>16. CASE ExecuteOnMaterialized(t)
  <2>1. [plan |-> loc[t].plan, conn |-> loc[t].model.eng] \in Result
    BY <1>16 DEF TypeOK, ExecuteOnMaterialized
  <2>2. PICK v \in Result : Keep(t, [loc[t] EXCEPT !.result = v])
    BY <1>16, <2>1 DEF ExecuteOnMaterialized, Executed
  <2>3. /\ OthersKept(t)
        /\ loc'[t].job = loc[t].job
        /\ loc'[t].plan = loc[t].plan
        /\ loc'[t].result \in Result
    BY <2>2, KeepResult
  <2> QED
    BY <1>0, <1>16, <2>3 DEF ExecuteOnMaterialized, AfterExecute
<1>17. CASE ResultStore(t)
  BY <1>0, <1>17 DEF ResultStore
<1>18. CASE Reply(t)
  <2>2. OthersKept(t)
    BY <1>18, NoLocalsType, KeepType DEF Reply, Return
  <2> QED
    BY <1>0, <1>18, <2>2 DEF Reply, Return
<1>19. CASE PrepareFails(t) \/ RenderFails(t)
  <2>1. OthersKept(t)
    BY <1>19, NoLocalsType, KeepType DEF PrepareFails, RenderFails, Return
  <2> QED
    BY <1>0, <1>19, <2>1 DEF PrepareFails, RenderFails, Return
<1> QED
    BY <1>1, <1>2, <1>3, <1>4, <1>5, <1>6, <1>7, <1>8, <1>9, <1>10, <1>11,
     <1>12, <1>13, <1>14, <1>15, <1>16, <1>17, <1>18, <1>19 DEF RenderStep

LEMMA ReadyLoad ==
  ASSUME TypeOK, LocalsReady, NEW t \in Threads, LoadStep(t)
  PROVE  LocalsReady'
<1> USE LocalsRead DEF LocalsReady, OthersKept, Step
<1>0. pc \in [Threads -> Labels]
  BY DEF TypeOK
<1>1. CASE LoadSignature(t)
  <2>1. ModelFiles \in Model
    BY ModelRead
  <2>2. /\ OthersKept(t)
        /\ loc'[t].job = loc[t].job
        /\ loc'[t].plan = loc[t].plan
        /\ loc'[t].result = loc[t].result
    BY <1>1, <2>1, KeepLpsig DEF LoadSignature
  <2> QED
    BY <1>0, <1>1, <2>2 DEF LoadSignature
<1>2. CASE LoadHit(t)
  <2>1. lp.model \in Model
    BY <1>2 DEF TypeOK, LoadHit, LoadCached
  <2>2. /\ OthersKept(t)
        /\ loc'[t].job = loc[t].job
        /\ loc'[t].plan = loc[t].plan
        /\ loc'[t].result = loc[t].result
    BY <1>2, <2>1, KeepModel DEF LoadHit
  <2> QED
    BY <1>0, <1>2, <2>2 DEF LoadHit, LoadCached, AfterLoad, Rendering
<1>3. CASE LoadMiss(t)
  BY <1>0, <1>3 DEF LoadMiss
<1>4. CASE ParseModel(t)
  <2>1. [loc[t].model EXCEPT !.eng = disk.eng] \in Model
    BY ModelRead
  <2>2. /\ OthersKept(t)
        /\ loc'[t].job = loc[t].job
        /\ loc'[t].plan = loc[t].plan
        /\ loc'[t].result = loc[t].result
    BY <1>4, <2>1, KeepModel DEF ParseModel
  <2> QED
    BY <1>0, <1>4, <2>2 DEF ParseModel
<1>5. CASE ParseAux(t)
  <2>1. [loc[t].model EXCEPT !.aux = disk.aux] \in Model
    BY ModelRead
  <2>2. /\ OthersKept(t)
        /\ loc'[t].job = loc[t].job
        /\ loc'[t].plan = loc[t].plan
        /\ loc'[t].result = loc[t].result
    BY <1>5, <2>1, KeepModel DEF ParseAux
  <2> QED
    BY <1>0, <1>5, <2>2 DEF ParseAux
<1>6. CASE LoadStore(t)
  BY <1>0, <1>6 DEF LoadStore, AfterLoad, Rendering
<1>7. CASE LoadFails(t)
  <2>1. OthersKept(t)
    BY <1>7, NoLocalsType, KeepType DEF LoadFails, Return
  <2> QED
    BY <1>0, <1>7, <2>1 DEF LoadFails, Return
<1> QED
  BY <1>1, <1>2, <1>3, <1>4, <1>5, <1>6, <1>7 DEF LoadStep

LEMMA ReadyEdit ==
  ASSUME TypeOK, LocalsReady, NEW t \in Threads, EditStep(t)
  PROVE  LocalsReady'
<1> USE LocalsRead DEF LocalsReady, OthersKept, Step
<1>0. pc \in [Threads -> Labels]
  BY DEF TypeOK
<1>1. CASE BeginEdit(t)
  <2>0. PICK kind \in Edits : Keep(t, [NoLocals EXCEPT !.job = kind])
    BY <1>1 DEF BeginEdit
  <2>1. [NoLocals EXCEPT !.job = kind] \in Locals
    BY EditsAssumption, NoLocalsType DEF Locals
  <2>2. OthersKept(t) /\ loc'[t].job = kind /\ kind \in EditKinds /\ kind # "none"
    BY <2>0, <2>1, EditsAssumption, NoLocalsType, KeepType DEF Locals
  <2> QED
    BY <1>0, <1>1, <2>2 DEF BeginEdit
<1>2. CASE RejectEdit(t)
  <2>2. OthersKept(t)
    BY <1>2, NoLocalsType, KeepType DEF RejectEdit, Return
  <2> QED
    BY <1>0, <1>2, <2>2 DEF RejectEdit, Return
<1>3. CASE Write(t)
  <2>1. WrittenBy(loc[t].job) \in Files
    BY <1>3, WrittenType DEF Write
  <2>2. /\ OthersKept(t)
        /\ loc'[t].job = loc[t].job
        /\ loc'[t].plan = loc[t].plan
        /\ loc'[t].result = loc[t].result
    BY <1>3, <2>1, KeepWrote DEF Write
  <2> QED
    BY <1>0, <1>3, <2>2 DEF Write, Invalidates
<1>4. CASE InvalidateEngine(t)
  BY <1>0, <1>4 DEF InvalidateEngine
<1>5. CASE InvalidateLoad(t)
  BY <1>0, <1>5 DEF InvalidateLoad
<1>6. CASE InvalidateConnection(t)
  BY <1>0, <1>6 DEF InvalidateConnection
<1>7. CASE InvalidateResults(t)
  BY <1>0, <1>7 DEF InvalidateResults
<1>8. CASE InvalidatePlans(t)
  BY <1>0, <1>8 DEF InvalidatePlans
<1>9. CASE Settle(t)
  BY <1>0, <1>9 DEF Settle
<1>10. CASE FinishEdit(t)
  <2>2. OthersKept(t)
    BY <1>10, NoLocalsType, KeepType DEF FinishEdit, Return
  <2> QED
    BY <1>0, <1>10, <2>2 DEF FinishEdit, Return
<1> QED
  BY <1>1, <1>2, <1>3, <1>4, <1>5, <1>6, <1>7, <1>8, <1>9, <1>10 DEF EditStep

-----------------------------------------------------------------------------
LEMMA TypeInit == Init => TypeOK
<1> SUFFICES ASSUME Init PROVE TypeOK
  OBVIOUS
<1>1. loc \in [Threads -> Locals]
  BY NoLocalsType DEF Init
<1>2. disk \in Files /\ settled \in Files
  BY BoundAssumption DEF Init, NoFiles
<1>3. sqlc \in [Version -> Plan \cup {Absent}] /\ resc \in [Version -> Result \cup {Absent}]
  BY DEF Init, NoEntries
<1> QED
  BY <1>1, <1>2, <1>3 DEF Init, TypeOK, Labels

LEMMA ReadyInit == Init => LocalsReady
  BY DEF Init, LocalsReady

LEMMA ReadyNext == TypeOK /\ LocalsReady /\ [Next]_vars => TypeOK' /\ LocalsReady'
<1> SUFFICES ASSUME TypeOK, LocalsReady, [Next]_vars PROVE TypeOK' /\ LocalsReady'
  OBVIOUS
<1>1. CASE UNCHANGED vars
  BY <1>1 DEF vars, TypeOK, LocalsReady
<1>2. CASE Next
  <2>1. PICK t \in Threads : RenderStep(t) \/ LoadStep(t) \/ EditStep(t)
    BY <1>2 DEF Next
  <2>2. CASE RenderStep(t)
    BY <2>2, TypeRender, ReadyRender
  <2>3. CASE LoadStep(t)
    BY <2>3, TypeLoad, ReadyLoad
  <2>4. CASE EditStep(t)
    BY <2>4, TypeEdit, ReadyEdit
  <2> QED
    BY <2>1, <2>2, <2>3, <2>4
<1> QED
  BY <1>1, <1>2

(* Every reachable state has its type, whatever the threads and the bound: in
   particular no half-made entry is ever stored or answered.                  *)
THEOREM TypeCorrect == Spec => []TypeOK
<1>1. Init => TypeOK /\ LocalsReady
  BY TypeInit, ReadyInit
<1>2. TypeOK /\ LocalsReady /\ [Next]_vars => (TypeOK /\ LocalsReady)'
  BY ReadyNext
<1> QED
  BY <1>1, <1>2, PTL DEF Spec
-----------------------------------------------------------------------------
(* load_project.  A version of a file that was read after the signature was
   taken is the one of the disk, unless the signature has become stale.       *)
Covers(sig, model) ==
  /\ sig.eng <= disk.eng /\ sig.aux <= disk.aux
  /\ sig.eng = disk.eng => model.eng = disk.eng
  /\ sig.aux = disk.aux => model.aux = disk.aux

LoadLabels == {"loadGet", "parseModel", "parseAux", "loadPut"}

LoadInv ==
  /\ lp # Absent => Covers(lp.sig, lp.model)
  /\ \A t \in Threads :
       /\ pc[t] \in LoadLabels => /\ loc[t].lpsig.eng <= disk.eng
                                  /\ loc[t].lpsig.aux <= disk.aux
       /\ pc[t] \in {"parseAux", "loadPut"} /\ loc[t].lpsig.eng = disk.eng =>
            loc[t].model.eng = disk.eng
       /\ pc[t] = "loadPut" => Covers(loc[t].lpsig, loc[t].model)

(* A step of a thread touches neither the counter nor the locals of another. *)
ThreadsKept(t) == \A u \in Threads \ {t} : pc'[u] = pc[u] /\ loc'[u] = loc[u]

LEMMA StepKeeps ==
  ASSUME TypeOK, NEW t \in Threads, NEW from, NEW to, Step(t, from, to)
  PROVE  (\A u \in Threads \ {t} : pc'[u] = pc[u]) /\ pc'[t] = to /\ pc[t] = from
  BY DEF TypeOK, Step

LEMMA KeepKeeps ==
  ASSUME TypeOK, NEW t \in Threads, NEW r, Keep(t, r)
  PROVE  OthersKept(t)
  BY DEF TypeOK, Keep, OthersKept

(* Outside load_project and the writes, the disk stays, the entry of the
   project cache stays or goes, and nobody enters load_project's own steps.   *)
LEMMA OutsideLoad ==
  ASSUME TypeOK, NEW t \in Threads,
         RenderStep(t) \/ (EditStep(t) /\ ~ Write(t))
  PROVE  /\ disk' = disk
         /\ lp' = lp \/ lp' = Absent
         /\ pc'[t] \notin LoadLabels
         /\ ThreadsKept(t)
<1> USE StepKeeps, KeepKeeps DEF ThreadsKept, OthersKept, LoadLabels, files, caches
<1>1. CASE BeginBatch(t) \/ BeginSingle(t)
  BY <1>1 DEF BeginBatch, BeginSingle, Begin
<1>2. CASE ResultHit(t) \/ ResultMiss(t)
  BY <1>2 DEF ResultHit, ResultMiss
<1>3. CASE ReadSelections(t) \/ PlanKey(t)
  BY <1>3 DEF ReadSelections, PlanKey
<1>4. CASE PlanHit(t) \/ PlanMiss(t) \/ PlanStore(t)
  BY <1>4 DEF PlanHit, PlanMiss, PlanStore
<1>5. CASE PrepareEngine(t)
  BY <1>5 DEF PrepareEngine
<1>6. CASE Compile(t)
  BY <1>6 DEF Compile
<1>7. CASE CompileFails(t) \/ Reply(t) \/ RejectEdit(t) \/ FinishEdit(t)
  BY <1>7 DEF CompileFails, Reply, RejectEdit, FinishEdit, Return
<1>16. CASE PrepareFails(t) \/ RenderFails(t)
  BY <1>16 DEF PrepareFails, RenderFails, Return
<1>8. CASE ExecuteOnCached(t)
  BY <1>8 DEF ExecuteOnCached, Executed, AfterExecute
<1>9. CASE ExecuteOnNew(t)
  BY <1>9 DEF ExecuteOnNew, Executed, AfterExecute
<1>10. CASE ExecuteOnMaterialized(t)
  BY <1>10 DEF ExecuteOnMaterialized, Executed, AfterExecute
<1>11. CASE ResetRegistry(t) \/ ResultStore(t)
  BY <1>11 DEF ResetRegistry, ResultStore
<1>12. CASE BeginEdit(t)
  BY <1>12 DEF BeginEdit
<1>13. CASE InvalidateEngine(t) \/ InvalidateLoad(t) \/ InvalidateConnection(t)
  BY <1>13 DEF InvalidateEngine, InvalidateLoad, InvalidateConnection
<1>14. CASE InvalidateResults(t) \/ InvalidatePlans(t)
  BY <1>14 DEF InvalidateResults, InvalidatePlans
<1>15. CASE Settle(t)
  BY <1>15 DEF Settle
<1> QED
  BY <1>1, <1>2, <1>3, <1>4, <1>5, <1>6, <1>7, <1>8, <1>9, <1>10, <1>11, <1>12,
     <1>13, <1>14, <1>15, <1>16 DEF RenderStep, EditStep

LEMMA LoadInvOutside ==
  ASSUME TypeOK, LoadInv, NEW t \in Threads,
         RenderStep(t) \/ (EditStep(t) /\ ~ Write(t))
  PROVE  LoadInv'
  BY OutsideLoad DEF LoadInv, LoadLabels, Covers, ThreadsKept

LEMMA LoadInvWrite ==
  ASSUME TypeOK, LocalsReady, LoadInv, NEW t \in Threads, Write(t)
  PROVE  LoadInv'
<1>1. /\ disk.eng \in Nat /\ disk.aux \in Nat
      /\ disk'.eng \in {disk.eng, disk.eng + 1}
      /\ disk'.aux \in {disk.aux, disk.aux + 1}
  <2>1. disk' = WrittenBy(loc[t].job) /\ disk \in Files
    BY DEF Write, TypeOK
  <2>2. loc[t].job \in EditKinds
    BY DEF LocalsReady, Write, Step
  <2> QED
    BY <2>1, <2>2, BoundAssumption DEF WrittenBy
<1>2. \A u \in Threads : /\ loc[u].lpsig.eng \in Nat /\ loc[u].lpsig.aux \in Nat
                         /\ loc[u].model.eng \in Nat /\ loc[u].model.aux \in Nat
  BY LocalsRead, BoundAssumption
<1>3. lp # Absent => /\ lp.sig.eng \in Nat /\ lp.sig.aux \in Nat
  BY BoundAssumption DEF TypeOK
<1>4. pc'[t] \notin LoadLabels /\ ThreadsKept(t) /\ lp' = lp
  BY StepKeeps, KeepKeeps DEF Write, ThreadsKept, OthersKept, LoadLabels, caches
<1> QED
  BY <1>1, <1>2, <1>3, <1>4 DEF LoadInv, LoadLabels, Covers, ThreadsKept

LEMMA LoadInvLoad ==
  ASSUME TypeOK, LoadInv, NEW t \in Threads, LoadStep(t)
  PROVE  LoadInv'
<1> USE LocalsRead, StepKeeps DEF LoadLabels, OthersKept
<1>0. ModelFiles \in Model /\ disk \in Files
  BY DEF TypeOK, ModelFiles
<1>1. CASE LoadSignature(t)
  <2>1. OthersKept(t) /\ loc'[t].lpsig = ModelFiles
    BY <1>0, <1>1, KeepLpsig DEF LoadSignature
  <2>2. /\ \A u \in Threads \ {t} : pc'[u] = pc[u]
        /\ pc'[t] = "loadGet" /\ disk' = disk /\ lp' = lp
    BY <1>1 DEF LoadSignature, files, caches
  <2>3. loc'[t].lpsig.eng <= disk.eng /\ loc'[t].lpsig.aux <= disk.aux
    BY <1>0, <2>1, BoundAssumption DEF ModelFiles
  <2> QED
    BY <2>1, <2>2, <2>3 DEF LoadInv, Covers
<1>2. CASE LoadHit(t)
  <2>1. lp.model \in Model
    BY <1>2 DEF TypeOK, LoadHit, LoadCached
  <2>2. OthersKept(t)
    BY <1>2, <2>1, KeepModel DEF LoadHit
  <2>3. /\ \A u \in Threads \ {t} : pc'[u] = pc[u]
        /\ pc'[t] \notin LoadLabels /\ disk' = disk /\ lp' = lp
    BY <1>2 DEF LoadHit, AfterLoad, files, caches
  <2> QED
    BY <2>2, <2>3 DEF LoadInv, Covers
<1>3. CASE LoadMiss(t)
  <2>1. /\ \A u \in Threads \ {t} : pc'[u] = pc[u]
        /\ pc[t] = "loadGet" /\ pc'[t] = "parseModel"
        /\ disk' = disk /\ lp' = lp /\ loc' = loc
    BY <1>3 DEF LoadMiss, files, caches
  <2> QED
    BY <2>1 DEF LoadInv, Covers
<1>4. CASE ParseModel(t)
  <2>1. [loc[t].model EXCEPT !.eng = disk.eng] \in Model
    BY <1>0
  <2>2. PICK v \in Model : v.eng = disk.eng /\ Keep(t, [loc[t] EXCEPT !.model = v])
    BY <1>4, <2>1 DEF ParseModel
  <2>3. /\ OthersKept(t) /\ loc'[t].lpsig = loc[t].lpsig
        /\ loc'[t].model.eng = disk.eng
    BY <2>2, KeepModel
  <2>4. /\ \A u \in Threads \ {t} : pc'[u] = pc[u]
        /\ pc[t] = "parseModel" /\ pc'[t] = "parseAux"
        /\ disk' = disk /\ lp' = lp
    BY <1>4 DEF ParseModel, files, caches
  <2> QED
    BY <2>3, <2>4 DEF LoadInv, Covers
<1>5. CASE ParseAux(t)
  <2>1. [loc[t].model EXCEPT !.aux = disk.aux] \in Model
    BY <1>0
  <2>2. PICK v \in Model : /\ v.aux = disk.aux /\ v.eng = loc[t].model.eng
                           /\ Keep(t, [loc[t] EXCEPT !.model = v])
    BY <1>5, <2>1 DEF ParseAux
  <2>3. /\ OthersKept(t) /\ loc'[t].lpsig = loc[t].lpsig
        /\ loc'[t].model.eng = loc[t].model.eng
        /\ loc'[t].model.aux = disk.aux
    BY <2>2, KeepModel
  <2>4. /\ \A u \in Threads \ {t} : pc'[u] = pc[u]
        /\ pc[t] = "parseAux" /\ pc'[t] = "loadPut"
        /\ disk' = disk /\ lp' = lp
    BY <1>5 DEF ParseAux, files, caches
  <2> QED
    BY <2>3, <2>4 DEF LoadInv, Covers
<1>6. CASE LoadStore(t)
  <2>1. /\ \A u \in Threads \ {t} : pc'[u] = pc[u]
        /\ pc[t] = "loadPut" /\ pc'[t] \notin LoadLabels
        /\ disk' = disk /\ loc' = loc
        /\ lp' = [sig |-> loc[t].lpsig, model |-> loc[t].model]
    BY <1>6 DEF LoadStore, AfterLoad, files
  <2> QED
    BY <2>1 DEF LoadInv, Covers
<1>7. CASE LoadFails(t)
  <2>1. OthersKept(t)
    BY <1>7, NoLocalsType, KeepType DEF LoadFails, Return
  <2>2. /\ \A u \in Threads \ {t} : pc'[u] = pc[u]
        /\ pc'[t] = "idle" /\ disk' = disk /\ lp' = lp
    BY <1>7 DEF LoadFails, Return, files, caches
  <2> QED
    BY <2>1, <2>2 DEF LoadInv, Covers
<1> QED
  BY <1>1, <1>2, <1>3, <1>4, <1>5, <1>6, <1>7 DEF LoadStep

LEMMA LoadInvariant == Spec => [](TypeOK /\ LocalsReady /\ LoadInv)
<1> DEFINE IInv == TypeOK /\ LocalsReady /\ LoadInv
<1>1. Init => IInv
  BY TypeInit, ReadyInit DEF Init, LoadInv, LoadLabels
<1>2. IInv /\ [Next]_vars => IInv'
  <2> SUFFICES ASSUME IInv, [Next]_vars PROVE LoadInv'
    BY ReadyNext
  <2>1. CASE UNCHANGED vars
    BY <2>1 DEF vars, LoadInv, LoadLabels, Covers
  <2>2. CASE Next
    <3>1. PICK t \in Threads : RenderStep(t) \/ LoadStep(t) \/ EditStep(t)
      BY <2>2 DEF Next
    <3> QED
      BY <3>1, LoadInvOutside, LoadInvWrite, LoadInvLoad
  <2> QED
    BY <2>1, <2>2
<1> QED
  BY <1>1, <1>2, PTL DEF Spec

(* The project cache never serves what a signature does not stand for: an
   entry with the signature of the disk holds the model of the disk, although
   the files are read one by one while others are written.                    *)
THEOREM LoadCacheCorrect == Spec => []LoadCacheFaithful
<1>1. TypeOK /\ LoadInv => LoadCacheFaithful
  <2> SUFFICES ASSUME TypeOK, LoadInv, lp # Absent, lp.sig = ModelFiles
               PROVE  lp.model = ModelFiles
    BY DEF LoadCacheFaithful
  <2>1. lp.model \in Model
    BY DEF TypeOK
  <2>2. lp.model.eng = disk.eng /\ lp.model.aux = disk.aux
    BY DEF LoadInv, Covers, ModelFiles
  <2> QED
    BY <2>1, <2>2 DEF ModelFiles
<1> QED
  BY <1>1, LoadInvariant, PTL

-----------------------------------------------------------------------------
(* _ENGINE_LOCK.  The holder is the one thread that plans; the marker of
   _ACTIVE_ENGINE is that of the entry it prepared, and so is the registry but
   for another thread that fills it from a connection, or has done so.  Such a
   thread keeps its connection as long as somebody plans: it drops it only in an
   edit, after it has waited for the lock.                                    *)
Refilling(u) ==
  \/ pc[u] = "materialize"
  \/ conn[u] \in CalcTables /\ pc[u] \notin {"invLoad", "invConn"}

LockInv ==
  /\ ActiveNamesEntry
  /\ \A t \in Threads : pc[t] = "compile" => lock = t /\ active # Absent
  /\ \A t \in Threads : pc[t] = "materialize" => loc[t].model.eng \in CalcTables
  /\ \A t \in Threads : pc[t] = "compile" =>
       registry = engine.meas \/ \E u \in Threads \ {t} : Refilling(u)

(* A step that leaves the engine, the registry and the connections alone, and
   does not go to one of the labels that the invariant is about.              *)
LEMMA LockInvQuiet ==
  ASSUME LockInv, NEW t \in Threads, ThreadsKept(t),
         UNCHANGED <<engine, active, registry, conn, lock>>,
         pc[t] # "materialize",
         pc'[t] \notin {"compile", "materialize", "invLoad", "invConn"}
  PROVE  LockInv'
<1>1. \A u \in Threads : Refilling(u) => Refilling(u)'
  BY DEF Refilling, ThreadsKept
<1>2. \A u \in Threads : pc'[u] = "compile" => pc[u] = "compile"
  BY DEF ThreadsKept
<1>3. \A u \in Threads : pc'[u] = "materialize" =>
        pc[u] = "materialize" /\ loc'[u] = loc[u]
  BY DEF ThreadsKept
<1> QED
  BY <1>1, <1>2, <1>3 DEF LockInv, ActiveNamesEntry

(* A step that leaves the lock: nobody else plans. *)
LEMMA LockInvLeave ==
  ASSUME LockInv, NEW t \in Threads, ThreadsKept(t), pc[t] = "compile",
         pc'[t] \notin {"compile", "materialize"}, UNCHANGED <<engine, active>>
  PROVE  LockInv'
<1>1. \A u \in Threads : pc'[u] # "compile"
  BY DEF LockInv, ThreadsKept
<1>2. \A u \in Threads : pc'[u] = "materialize" =>
        pc[u] = "materialize" /\ loc'[u] = loc[u]
  BY DEF ThreadsKept
<1> QED
  BY <1>1, <1>2 DEF LockInv, ActiveNamesEntry

LEMMA LockInvRender ==
  ASSUME TypeOK, LockInv, NEW t \in Threads, RenderStep(t)
  PROVE  LockInv'
<1> USE StepKeeps DEF files, caches
<1>0. /\ Absent \notin Version /\ Absent \notin Engine /\ CalcTables \subseteq Version
      /\ engine \in Engine \cup {Absent} /\ active \in Version \cup {Absent}
      /\ disk.eng \in Version /\ Free \notin Threads
      /\ loc[t].model.eng \in Version
      /\ conn \in [Threads -> Version \cup {Absent}]
  BY AbsentAssumption, ThreadsAssumption, EditsAssumption, LocalsRead DEF TypeOK
<1>k. ThreadsKept(t)
  BY OutsideLoad
<1>1. CASE BeginBatch(t) \/ BeginSingle(t)
  BY <1>1, <1>k, LockInvQuiet DEF BeginBatch, BeginSingle, Begin
<1>2. CASE ResultHit(t) \/ ResultMiss(t)
  BY <1>2, <1>k, LockInvQuiet DEF ResultHit, ResultMiss
<1>3. CASE ReadSelections(t) \/ PlanKey(t)
  BY <1>3, <1>k, LockInvQuiet DEF ReadSelections, PlanKey
<1>4. CASE PlanHit(t) \/ PlanMiss(t) \/ PlanStore(t)
  BY <1>4, <1>k, LockInvQuiet DEF PlanHit, PlanMiss, PlanStore
<1>5. CASE PrepareEngine(t)
  <2>1. /\ lock = Free /\ lock' = t /\ pc'[t] = "compile"
        /\ \A u \in Threads \ {t} : pc'[u] = pc[u]
        /\ engine' = PreparedEngine(t)
        /\ registry' = PreparedEngine(t).meas /\ active' = disk.eng
        /\ loc' = loc
    BY <1>5 DEF PrepareEngine
  <2>2. PreparedEngine(t) \in Engine /\ PreparedEngine(t).sig = disk.eng
    BY <1>0 DEF PreparedEngine, EngineCached, LockInv, ActiveNamesEntry
  <2>3. \A u \in Threads : pc[u] # "compile"
    BY <1>0, <2>1 DEF LockInv
  <2> QED
    BY <1>0, <2>1, <2>2, <2>3 DEF LockInv, ActiveNamesEntry
<1>6. CASE Compile(t) \/ CompileFails(t)
  BY <1>6, <1>k, LockInvLeave DEF Compile, CompileFails, Return
<1>7. CASE Reply(t) \/ PrepareFails(t) \/ RenderFails(t)
  BY <1>7, <1>k, LockInvQuiet DEF Reply, PrepareFails, RenderFails, Return
<1>8. CASE ExecuteOnCached(t)
  BY <1>8, <1>k, LockInvQuiet DEF ExecuteOnCached, AfterExecute
<1>9. CASE ExecuteOnNew(t)
  <2>1. /\ UNCHANGED <<engine, active, registry, lock>>
        /\ \A u \in Threads \ {t} : conn'[u] = conn[u]
        /\ conn[t] = Absent /\ pc[t] = "connect"
        /\ pc'[t] \notin {"compile", "materialize", "invLoad", "invConn"}
    BY <1>0, <1>9 DEF ExecuteOnNew, AfterExecute
  <2>2. \A u \in Threads : Refilling(u) => Refilling(u)'
    BY <1>0, <1>k, <2>1 DEF Refilling, ThreadsKept
  <2> QED
    BY <1>k, <2>1, <2>2 DEF LockInv, ActiveNamesEntry, ThreadsKept
<1>10. CASE ResetRegistry(t)
  <2>1. /\ UNCHANGED <<engine, active, lock, loc>>
        /\ pc[t] = "connect" /\ pc'[t] = "materialize"
        /\ loc[t].model.eng \in CalcTables
    BY <1>10 DEF ResetRegistry
  <2>2. Refilling(t)'
    BY <2>1 DEF Refilling
  <2> QED
    BY <1>k, <2>1, <2>2 DEF LockInv, ActiveNamesEntry, ThreadsKept
<1>11. CASE ExecuteOnMaterialized(t)
  <2>1. /\ UNCHANGED <<engine, active, lock>>
        /\ pc[t] = "materialize" /\ conn'[t] = loc[t].model.eng
        /\ pc'[t] \notin {"compile", "materialize", "invLoad", "invConn"}
    BY <1>0, <1>11 DEF ExecuteOnMaterialized, AfterExecute
  <2>2. Refilling(t)'
    BY <2>1 DEF Refilling, LockInv
  <2> QED
    BY <1>k, <2>1, <2>2 DEF LockInv, ActiveNamesEntry, ThreadsKept
<1>12. CASE ResultStore(t)
  BY <1>12, <1>k, LockInvQuiet DEF ResultStore
<1> QED
  BY <1>1, <1>2, <1>3, <1>4, <1>5, <1>6, <1>7, <1>8, <1>9, <1>10, <1>11, <1>12
     DEF RenderStep

LEMMA LockInvLoad ==
  ASSUME TypeOK, LockInv, NEW t \in Threads, LoadStep(t)
  PROVE  LockInv'
<1> USE StepKeeps, KeepKeeps DEF files, caches
<1>k. ThreadsKept(t)
  BY DEF ThreadsKept, OthersKept, LoadStep, LoadSignature, LoadHit, LoadMiss,
         ParseModel, ParseAux, LoadStore, LoadFails, Return
<1>1. CASE LoadSignature(t) \/ LoadMiss(t) \/ ParseModel(t) \/ ParseAux(t)
  BY <1>1, <1>k, LockInvQuiet DEF LoadSignature, LoadMiss, ParseModel, ParseAux
<1>2. CASE LoadHit(t)
  BY <1>2, <1>k, LockInvQuiet DEF LoadHit, AfterLoad
<1>3. CASE LoadStore(t)
  BY <1>3, <1>k, LockInvQuiet DEF LoadStore, AfterLoad
<1>4. CASE LoadFails(t)
  BY <1>4, <1>k, LockInvQuiet DEF LoadFails, Return
<1> QED
  BY <1>1, <1>2, <1>3, <1>4 DEF LoadStep

LEMMA LockInvEdit ==
  ASSUME TypeOK, LockInv, NEW t \in Threads, EditStep(t)
  PROVE  LockInv'
<1> USE StepKeeps, KeepKeeps DEF files, caches
<1>k. ThreadsKept(t)
  BY OutsideLoad DEF ThreadsKept, OthersKept, Write
<1>1. CASE BeginEdit(t)
  BY <1>1, <1>k, LockInvQuiet DEF BeginEdit
<1>2. CASE RejectEdit(t) \/ FinishEdit(t)
  BY <1>2, <1>k, LockInvQuiet DEF RejectEdit, FinishEdit, Return
<1>3. CASE Write(t)
  BY <1>3, <1>k, LockInvQuiet DEF Write
<1>4. CASE InvalidateEngine(t)
  <2>1. \A u \in Threads : pc[u] # "compile"
    BY <1>4, ThreadsAssumption DEF InvalidateEngine, LockInv
  <2> QED
    BY <1>4, <1>k, <2>1 DEF InvalidateEngine, LockInv, ActiveNamesEntry, ThreadsKept
<1>5. CASE InvalidateLoad(t) \/ InvalidateConnection(t)
  <2>0. \A u \in Threads \ {t} : conn'[u] = conn[u]
    <3>1. conn \in [Threads -> Version \cup {Absent}]
      BY DEF TypeOK
    <3> QED
      BY <1>5, <3>1 DEF InvalidateLoad, InvalidateConnection
  <2>1. /\ UNCHANGED <<engine, active, registry, lock>>
        /\ pc[t] \in {"invLoad", "invConn"}
        /\ pc'[t] \notin {"compile", "materialize"}
    BY <1>5 DEF InvalidateLoad, InvalidateConnection
  <2>2. \A u \in Threads : Refilling(u) => Refilling(u)'
    BY <1>k, <2>0, <2>1 DEF Refilling, ThreadsKept
  <2> QED
    BY <1>k, <2>1, <2>2 DEF LockInv, ActiveNamesEntry, ThreadsKept
<1>6. CASE InvalidateResults(t) \/ InvalidatePlans(t)
  BY <1>6, <1>k, LockInvQuiet DEF InvalidateResults, InvalidatePlans
<1>7. CASE Settle(t)
  BY <1>7, <1>k, LockInvQuiet DEF Settle
<1> QED
  BY <1>1, <1>2, <1>3, <1>4, <1>5, <1>6, <1>7 DEF EditStep

LEMMA LockInvariant == Spec => [](TypeOK /\ LocalsReady /\ LockInv)
<1>1. Init => LockInv
  BY DEF Init, LockInv, ActiveNamesEntry
<1>2. TypeOK /\ LockInv /\ [Next]_vars => LockInv'
  <2> SUFFICES ASSUME TypeOK, LockInv, [Next]_vars PROVE LockInv'
    OBVIOUS
  <2>1. CASE UNCHANGED vars
    BY <2>1 DEF vars, LockInv, ActiveNamesEntry, Refilling
  <2>2. CASE Next
    BY <2>2, LockInvRender, LockInvLoad, LockInvEdit DEF Next
  <2> QED
    BY <2>1, <2>2
<1> QED
  BY <1>1, <1>2, TypeInit, ReadyInit, ReadyNext, PTL DEF Spec

(* A marker in _ACTIVE_ENGINE always stands for the entry of the cache, so
   get_prepared_engine may return the entry without comparing its signature. *)
THEOREM ActiveMarkerCorrect == Spec => []ActiveNamesEntry
  BY LockInvariant, PTL DEF LockInv

(* Planning under _ENGINE_LOCK meets the measures of the entry it prepared, or
   another thread has a connection whose calculated tables were materialized
   without the lock: without such tables it meets no others.                  *)
THEOREM PlanningCorrect == Spec => []PlansUseTheEntry
<1>1. LockInv => PlansUseTheEntry
  BY DEF LockInv, PlansUseTheEntry, Refilling
<1> QED
  BY <1>1, LockInvariant, PTL
-----------------------------------------------------------------------------
(* Edits beside renders.  The steps that only a render takes; the steps after
   which a cache of results, or of plans, may still hold what an edit of the
   auxiliary files has made stale.                                            *)
RenderLabels == {"resultGet", "selections", "planKey", "planGet", "acquire", "compile",
                 "planPut", "connect", "materialize", "resultPut", "reply"}
ResultsStale == {"invEngine", "invLoad", "invConn", "invResult"}
PlansStale   == ResultsStale \cup {"invPlan"}

(* An edit is of a kind that the users make, and only renders render. *)
JobsInv ==
  \A t \in Threads :
    /\ Editing(t) => loc[t].job \in Edits
    /\ pc[t] \in RenderLabels => Rendering(t)

(* What is on the disk has been settled, or the edit that left it there has not
   finished yet.                                                              *)
SettledInv ==
  /\ settled.eng <= disk.eng /\ settled.aux <= disk.aux
  /\ \A t \in Threads : Unsettled(t) => /\ loc[t].wrote.eng <= disk.eng
                                        /\ loc[t].wrote.aux <= disk.aux
  /\ \/ settled.eng = disk.eng /\ settled.aux = disk.aux
     \/ \E t \in Threads : /\ Unsettled(t)
                           /\ loc[t].wrote.eng = disk.eng
                           /\ loc[t].wrote.aux = disk.aux

(* The three caches that a signature keys hold what their key says; the files
   that no signature covers are those of the disk, but for the time between an
   edit and the invalidation that follows it.                                 *)
Fits(plan, sig, labels) ==
  /\ plan.meas = sig /\ plan.eng = sig
  /\ plan.aux = disk.aux \/ \E t \in Threads : pc[t] \in labels

CachesFit ==
  /\ engine # Absent => engine.meas = engine.sig
  /\ \A v \in Version : sqlc[v] # Absent => Fits(sqlc[v], v, PlansStale)
  /\ \A v \in Version : resc[v] # Absent => Fits(resc[v].plan, v, ResultsStale)

Fresh(plan) == plan.meas = disk.eng /\ plan.eng = disk.eng /\ plan.aux = disk.aux

(* A render that no edit overlaps has, at every step, what is on the disk. *)
UpToDate(t) ==
  /\ loc[t].asked.eng = disk.eng /\ loc[t].asked.aux = disk.aux
  /\ loc[t].rsig = disk.eng
  /\ pc[t] \in LoadLabels => /\ loc[t].lpsig.eng = disk.eng
                             /\ loc[t].lpsig.aux = disk.aux
  /\ pc[t] \in {"selections", "planKey", "planGet", "acquire", "compile",
                "planPut", "connect", "materialize"} =>
       loc[t].model.eng = disk.eng /\ loc[t].model.aux = disk.aux
  /\ pc[t] \in {"planGet", "acquire", "compile", "planPut"} =>
       loc[t].psig = disk.eng
  /\ pc[t] = "compile" => registry \in {Absent, disk.eng}
  /\ pc[t] \in {"planPut", "connect", "materialize"} => Fresh(loc[t].plan)
  /\ pc[t] \in {"resultPut", "reply"} => Fresh(loc[t].result.plan)

AllSettled == \A t \in Threads : ~ Unsettled(t)

CalmInv ==
  ~ overlapped =>
    /\ CachesFit
    /\ \A t \in Threads : Rendering(t) => AllSettled /\ UpToDate(t)

-----------------------------------------------------------------------------
(* What a step of a render, once begun, keeps of the request it serves. *)
SameRequest(t) ==
  /\ loc'[t].job = loc[t].job /\ loc'[t].wrote = loc[t].wrote
  /\ loc'[t].asked = loc[t].asked /\ loc'[t].rsig = loc[t].rsig

LEMMA NoLocalsJob == NoLocals.job = "none"
  BY DEF NoLocals

LEMMA NotAsked ==
  ASSUME NEW t \in Threads, loc[t] = NoLocals
  PROVE  ~ Rendering(t) /\ ~ Editing(t)
  BY NoLocalsJob DEF Rendering, Editing

LEMMA ReturnKeeps ==
  ASSUME TypeOK, NEW t \in Threads, NEW at, Return(t, at)
  PROVE  /\ pc[t] = at /\ pc'[t] = "idle" /\ loc'[t] = NoLocals
         /\ ThreadsKept(t)
<1>1. loc'[t] = NoLocals /\ OthersKept(t)
  BY NoLocalsType, KeepType DEF Return
<1> QED
  BY <1>1, StepKeeps DEF Return, ThreadsKept, OthersKept

LEMMA BeginKeeps ==
  ASSUME TypeOK, NEW t \in Threads, NEW job \in {"batch", "single"}, NEW to,
         Begin(t, job, to)
  PROVE  /\ pc[t] = "idle" /\ pc'[t] = to /\ ThreadsKept(t)
         /\ loc'[t].job = job
         /\ loc'[t].asked = settled /\ loc'[t].rsig = disk.eng
<1> DEFINE r == [NoLocals EXCEPT !.job = job, !.asked = settled, !.rsig = disk.eng]
<1>1. /\ r \in Locals
      /\ r.job = job /\ r.asked = settled /\ r.rsig = disk.eng
  BY NoLocalsType DEF TypeOK, Locals
<1>2. loc'[t] = r /\ OthersKept(t)
  <2>1. Keep(t, r)
    BY DEF Begin
  <2> HIDE DEF r
  <2> QED
    BY <1>1, <2>1, KeepType
<1>3. (\A u \in Threads \ {t} : pc'[u] = pc[u]) /\ pc'[t] = to /\ pc[t] = "idle"
  BY StepKeeps DEF Begin
<1> HIDE DEF r
<1> QED
  BY <1>1, <1>2, <1>3 DEF ThreadsKept, OthersKept

LEMMA RenderKeeps ==
  ASSUME TypeOK, LocalsReady, NEW t \in Threads, RenderStep(t),
         ~ BeginBatch(t), ~ BeginSingle(t)
  PROVE  /\ pc[t] \in RenderLabels
         /\ \/ loc'[t] = NoLocals /\ pc'[t] = "idle"
            \/ SameRequest(t) /\ pc'[t] \in RenderLabels \cup {"loadSig"}
<1> USE StepKeeps, LocalsRead DEF SameRequest, RenderLabels
<1>1. CASE ResultHit(t)
  <2>1. resc[loc[t].rsig] \in Result
    BY <1>1, EntryRead DEF ResultHit
  <2>2. SameRequest(t)
    BY <1>1, <2>1, KeepResult DEF ResultHit
  <2> QED
    BY <1>1, <2>2 DEF ResultHit
<1>2. CASE ResultMiss(t) \/ PlanMiss(t) \/ PlanStore(t) \/ PrepareEngine(t)
           \/ ResetRegistry(t) \/ ResultStore(t)
  BY <1>2 DEF ResultMiss, PlanMiss, PlanStore, PrepareEngine, ResetRegistry,
     ResultStore
<1>3. CASE ReadSelections(t)
  <2>1. disk.sel \in Version
    BY DEF TypeOK
  <2>2. SameRequest(t)
    BY <1>3, <2>1, KeepSel DEF ReadSelections
  <2> QED
    BY <1>3, <2>2 DEF ReadSelections
<1>4. CASE PlanKey(t)
  <2>1. disk.eng \in Version
    BY DEF TypeOK
  <2>2. SameRequest(t)
    BY <1>4, <2>1, KeepPsig DEF PlanKey
  <2> QED
    BY <1>4, <2>2 DEF PlanKey
<1>5. CASE PlanHit(t)
  <2>1. sqlc[loc[t].psig] \in Plan
    BY <1>5, EntryRead DEF PlanHit
  <2>2. SameRequest(t)
    BY <1>5, <2>1, KeepPlan DEF PlanHit
  <2> QED
    BY <1>5, <2>2 DEF PlanHit
<1>6. CASE Compile(t)
  <2>1. [meas |-> registry, eng |-> loc[t].model.eng, aux |-> loc[t].model.aux, sel |-> loc[t].sel] \in Plan
    BY <1>6 DEF TypeOK, Compile
  <2>2. PICK v \in Plan : Keep(t, [loc[t] EXCEPT !.plan = v])
    BY <1>6, <2>1 DEF Compile
  <2>3. SameRequest(t)
    BY <2>2, KeepPlan
  <2> QED
    BY <1>6, <2>3 DEF Compile
<1>7. CASE ExecuteOnCached(t) \/ ExecuteOnNew(t) \/ ExecuteOnMaterialized(t)
  <2>1. PICK c \in Version : Executed(t, c)
    BY <1>7 DEF TypeOK, ExecuteOnCached, ExecuteOnNew, ExecuteOnMaterialized
  <2>2. pc[t] \in {"connect", "materialize"} /\ pc'[t] \in {"resultPut", "reply"}
    BY <1>7 DEF ExecuteOnCached, ExecuteOnNew, ExecuteOnMaterialized, AfterExecute
  <2>3. [plan |-> loc[t].plan, conn |-> c] \in Result
    BY <2>2 DEF LocalsReady
  <2>4. SameRequest(t)
    BY <2>1, <2>3, KeepResult DEF Executed
  <2> QED
    BY <2>2, <2>4
<1>8. CASE PrepareFails(t) \/ CompileFails(t) \/ RenderFails(t) \/ Reply(t)
  BY <1>8, ReturnKeeps DEF PrepareFails, CompileFails, RenderFails, Reply
<1> QED
  BY <1>1, <1>2, <1>3, <1>4, <1>5, <1>6, <1>7, <1>8 DEF RenderStep

LEMMA LoadKeeps ==
  ASSUME TypeOK, NEW t \in Threads, LoadStep(t)
  PROVE  /\ pc[t] \in LoadLabels \cup {"loadSig"} /\ ThreadsKept(t)
         /\ UNCHANGED <<disk, settled, overlapped, engine, registry, sqlc, resc>>
         /\ \/ loc'[t] = NoLocals /\ pc'[t] = "idle"
            \/ SameRequest(t) /\ pc'[t] \in LoadLabels \cup {AfterLoad(t)}
<1> USE StepKeeps DEF SameRequest, LoadLabels, ThreadsKept, OthersKept, files, caches
<1>1. CASE LoadSignature(t)
  <2>1. ModelFiles \in Model
    BY ModelRead
  <2> QED
    BY <1>1, <2>1, KeepLpsig DEF LoadSignature
<1>2. CASE LoadHit(t)
  <2>1. lp.model \in Model
    BY <1>2 DEF TypeOK, LoadHit, LoadCached
  <2> QED
    BY <1>2, <2>1, KeepModel DEF LoadHit
<1>3. CASE LoadMiss(t) \/ LoadStore(t)
  BY <1>3 DEF LoadMiss, LoadStore
<1>4. CASE ParseModel(t)
  <2>1. [loc[t].model EXCEPT !.eng = disk.eng] \in Model
    BY ModelRead
  <2> QED
    BY <1>4, <2>1, KeepModel DEF ParseModel
<1>5. CASE ParseAux(t)
  <2>1. [loc[t].model EXCEPT !.aux = disk.aux] \in Model
    BY ModelRead
  <2> QED
    BY <1>5, <2>1, KeepModel DEF ParseAux
<1>6. CASE LoadFails(t)
  BY <1>6, ReturnKeeps DEF LoadFails
<1> QED
  BY <1>1, <1>2, <1>3, <1>4, <1>5, <1>6 DEF LoadStep

LEMMA EditKeeps ==
  ASSUME TypeOK, LocalsReady, NEW t \in Threads, EditStep(t), ~ BeginEdit(t)
  PROVE  /\ pc[t] \in {"write", "settle", "finish"} \cup PlansStale
         /\ ThreadsKept(t)
         /\ \/ loc'[t] = NoLocals /\ pc'[t] = "idle"
            \/ /\ loc'[t].job = loc[t].job
               /\ pc'[t] \in {"settle", "finish", "loadSig"} \cup PlansStale
<1> USE StepKeeps DEF ThreadsKept, OthersKept, PlansStale, ResultsStale, files, caches
<1>1. CASE RejectEdit(t) \/ FinishEdit(t)
  BY <1>1, ReturnKeeps DEF RejectEdit, FinishEdit
<1>2. CASE Write(t)
  <2>1. WrittenBy(loc[t].job) \in Files
    BY <1>2, WrittenType
  <2>2. loc'[t].job = loc[t].job /\ OthersKept(t)
    BY <1>2, <2>1, KeepWrote DEF Write
  <2> QED
    BY <1>2, <2>2 DEF Write
<1>3. CASE InvalidateEngine(t) \/ InvalidateLoad(t) \/ InvalidateConnection(t)
  BY <1>3 DEF InvalidateEngine, InvalidateLoad, InvalidateConnection
<1>4. CASE InvalidateResults(t) \/ InvalidatePlans(t)
  BY <1>4 DEF InvalidateResults, InvalidatePlans
<1>5. CASE Settle(t)
  BY <1>5 DEF Settle
<1> QED
  BY <1>1, <1>2, <1>3, <1>4, <1>5 DEF EditStep

LEMMA BeginEditKeeps ==
  ASSUME TypeOK, NEW t \in Threads, BeginEdit(t)
  PROVE  /\ pc[t] = "idle" /\ pc'[t] \in {"loadSig", "write"} /\ ThreadsKept(t)
         /\ loc'[t].job \in Edits
<1>1. PICK kind \in Edits : Keep(t, [NoLocals EXCEPT !.job = kind])
  BY DEF BeginEdit
<1>2. /\ [NoLocals EXCEPT !.job = kind] \in Locals
      /\ [NoLocals EXCEPT !.job = kind].job = kind
  BY EditsAssumption, NoLocalsType DEF Locals
<1>3. OthersKept(t) /\ loc'[t].job = kind
  BY <1>1, <1>2, KeepType
<1> QED
  BY <1>3, StepKeeps DEF BeginEdit, ThreadsKept, OthersKept

LEMMA JobsNext == TypeOK /\ LocalsReady /\ JobsInv /\ [Next]_vars => JobsInv'
<1> SUFFICES ASSUME TypeOK, LocalsReady, JobsInv, [Next]_vars PROVE JobsInv'
  OBVIOUS
<1> USE DEF Editing, Rendering
<1>1. CASE UNCHANGED vars
  BY <1>1 DEF vars, JobsInv
<1>2. ASSUME NEW t \in Threads, RenderStep(t) PROVE JobsInv'
  <2>1. ThreadsKept(t)
    BY <1>2, OutsideLoad
  <2>2. CASE BeginBatch(t) \/ BeginSingle(t)
    <3>1. loc'[t].job \in {"batch", "single"}
      BY <2>2, BeginKeeps DEF BeginBatch, BeginSingle
    <3> QED
      BY <2>1, <3>1 DEF JobsInv, ThreadsKept
  <2>3. CASE ~ BeginBatch(t) /\ ~ BeginSingle(t)
    BY <1>2, <2>1, <2>3, RenderKeeps, NoLocalsJob
       DEF JobsInv, ThreadsKept, SameRequest, RenderLabels
  <2> QED
    BY <2>2, <2>3
<1>3. ASSUME NEW t \in Threads, LoadStep(t) PROVE JobsInv'
  BY <1>3, LoadKeeps, NoLocalsJob
     DEF JobsInv, ThreadsKept, SameRequest, RenderLabels, LoadLabels, AfterLoad
<1>4. ASSUME NEW t \in Threads, EditStep(t) PROVE JobsInv'
  <2>1. CASE BeginEdit(t)
    BY <2>1, BeginEditKeeps DEF JobsInv, ThreadsKept, RenderLabels
  <2>2. CASE ~ BeginEdit(t)
    BY <1>4, <2>2, EditKeeps, NoLocalsJob
       DEF JobsInv, ThreadsKept, RenderLabels, PlansStale, ResultsStale
  <2> QED
    BY <2>1, <2>2
<1> QED
  BY <1>1, <1>2, <1>3, <1>4 DEF Next

-----------------------------------------------------------------------------
LEMMA SettledQuiet ==
  ASSUME SettledInv, NEW t \in Threads, ThreadsKept(t),
         disk' = disk, settled' = settled,
         Unsettled(t)' <=> Unsettled(t),
         Unsettled(t) => loc'[t].wrote = loc[t].wrote
  PROVE  SettledInv'
<1>1. \A u \in Threads : /\ Unsettled(u)' <=> Unsettled(u)
                         /\ Unsettled(u) => loc'[u].wrote = loc[u].wrote
  BY DEF ThreadsKept, Unsettled
<1> HIDE DEF Threads
<1> QED
  BY <1>1 DEF SettledInv

LEMMA SettledWrite ==
  ASSUME TypeOK, LocalsReady, SettledInv, NEW t \in Threads, Write(t)
  PROVE  SettledInv'
<1>1. /\ disk' = WrittenBy(loc[t].job) /\ disk' \in Files /\ disk \in Files
      /\ settled' = settled /\ settled \in Files
      /\ Keep(t, [loc[t] EXCEPT !.wrote = WrittenBy(loc[t].job)])
  BY WrittenType DEF Write, TypeOK
<1>2. loc'[t].wrote = disk' /\ OthersKept(t)
  BY <1>1, KeepWrote
<1>3. disk.eng <= disk'.eng /\ disk.aux <= disk'.aux
  <2>1. loc[t].job \in EditKinds
    BY DEF LocalsReady, Write, Step
  <2> QED
    BY <1>1, <2>1, BoundAssumption DEF WrittenBy
<1>4. /\ \A u \in Threads \ {t} : pc'[u] = pc[u]
      /\ Unsettled(t)'
  BY StepKeeps DEF Write, Unsettled
<1>5. \A u \in Threads : /\ loc[u].wrote.eng \in Nat /\ loc[u].wrote.aux \in Nat
  BY LocalsRead, BoundAssumption
<1>6. \A u \in Threads \ {t} : /\ Unsettled(u)' <=> Unsettled(u)
                               /\ loc'[u].wrote = loc[u].wrote
  BY <1>2, <1>4 DEF OthersKept, Unsettled
<1>7. /\ settled.eng \in Nat /\ settled.aux \in Nat /\ disk.eng \in Nat
      /\ disk.aux \in Nat /\ disk'.eng \in Nat /\ disk'.aux \in Nat
  BY <1>1, BoundAssumption
<1>8. \A u \in Threads : Unsettled(u)' => /\ loc'[u].wrote.eng <= disk'.eng
                                          /\ loc'[u].wrote.aux <= disk'.aux
  BY <1>2, <1>3, <1>5, <1>6, <1>7 DEF SettledInv
<1> QED
  BY <1>1, <1>2, <1>3, <1>4, <1>7, <1>8 DEF SettledInv

LEMMA SettledSettle ==
  ASSUME TypeOK, SettledInv, NEW t \in Threads, Settle(t)
  PROVE  SettledInv'
<1>1. /\ settled'.eng = Later(settled.eng, loc[t].wrote.eng)
      /\ settled'.aux = Later(settled.aux, loc[t].wrote.aux)
      /\ disk' = disk /\ loc' = loc
  BY DEF Settle
<1>2. /\ settled.eng \in Nat /\ settled.aux \in Nat
      /\ disk.eng \in Nat /\ disk.aux \in Nat
      /\ \A u \in Threads : loc[u].wrote.eng \in Nat /\ loc[u].wrote.aux \in Nat
  <2>1. disk \in Files /\ settled \in Files
    BY DEF TypeOK
  <2>2. \A u \in Threads : loc[u].wrote \in Files
    BY LocalsRead
  <2> QED
    BY <2>1, <2>2, BoundAssumption
<1>3. Unsettled(t) /\ ~ Unsettled(t)'
  BY StepKeeps DEF Settle, Unsettled
<1>4. \A u \in Threads \ {t} : Unsettled(u)' <=> Unsettled(u)
  BY StepKeeps DEF Settle, Unsettled
<1>5. loc[t].wrote.eng <= disk.eng /\ loc[t].wrote.aux <= disk.aux
  BY <1>3 DEF SettledInv
<1>6. settled'.eng <= disk.eng /\ settled'.aux <= disk.aux
  BY <1>1, <1>2, <1>5 DEF SettledInv, Later
<1>7. CASE \/ settled.eng = disk.eng /\ settled.aux = disk.aux
           \/ loc[t].wrote.eng = disk.eng /\ loc[t].wrote.aux = disk.aux
  <2>1. settled'.eng = disk.eng /\ settled'.aux = disk.aux
    BY <1>1, <1>2, <1>5, <1>7 DEF SettledInv, Later
  <2> QED
    BY <1>1, <1>3, <1>4, <1>6, <2>1 DEF SettledInv
<1>8. CASE \E u \in Threads \ {t} : /\ Unsettled(u)
                                    /\ loc[u].wrote.eng = disk.eng
                                    /\ loc[u].wrote.aux = disk.aux
  BY <1>1, <1>3, <1>4, <1>6, <1>8 DEF SettledInv
<1> QED
  BY <1>7, <1>8 DEF SettledInv

LEMMA SettledNext ==
  TypeOK /\ LocalsReady /\ SettledInv /\ [Next]_vars => SettledInv'
<1> SUFFICES ASSUME TypeOK, LocalsReady, SettledInv, [Next]_vars PROVE SettledInv'
  OBVIOUS
<1>1. CASE UNCHANGED vars
  BY <1>1 DEF vars, SettledInv, Unsettled
<1>2. ASSUME NEW t \in Threads, RenderStep(t) PROVE SettledInv'
  <2>1. ThreadsKept(t) /\ disk' = disk
    BY <1>2, OutsideLoad
  <2>2. settled' = settled
    BY <1>2 DEF RenderStep, BeginBatch, BeginSingle, Begin, ResultHit, ResultMiss,
       ReadSelections, PlanKey, PlanHit, PlanMiss, PrepareEngine, PrepareFails,
       Compile, CompileFails, PlanStore, RenderFails, ExecuteOnCached, ExecuteOnNew,
       ResetRegistry, ExecuteOnMaterialized, ResultStore, Reply, files
  <2>3. ~ Unsettled(t) /\ ~ Unsettled(t)'
    <3>1. CASE BeginBatch(t) \/ BeginSingle(t)
      BY <3>1, BeginKeeps DEF BeginBatch, BeginSingle, Unsettled
    <3>2. CASE ~ BeginBatch(t) /\ ~ BeginSingle(t)
      BY <1>2, <3>2, RenderKeeps DEF RenderLabels, Unsettled
    <3> QED
      BY <3>1, <3>2
  <2> QED
    BY <2>1, <2>2, <2>3, SettledQuiet
<1>3. ASSUME NEW t \in Threads, LoadStep(t) PROVE SettledInv'
  <2>1. ~ Unsettled(t) /\ ~ Unsettled(t)'
    BY <1>3, LoadKeeps DEF LoadLabels, AfterLoad, Unsettled
  <2> QED
    BY <1>3, <2>1, LoadKeeps, SettledQuiet
<1>4. ASSUME NEW t \in Threads, EditStep(t) PROVE SettledInv'
  <2>1. CASE Write(t) \/ Settle(t)
    BY <2>1, SettledWrite, SettledSettle
  <2>2. CASE BeginEdit(t) \/ RejectEdit(t) \/ FinishEdit(t)
    <3>1. ~ Unsettled(t) /\ ~ Unsettled(t)' /\ ThreadsKept(t)
      BY <2>2, BeginEditKeeps, ReturnKeeps DEF RejectEdit, FinishEdit, Unsettled
    <3>2. disk' = disk /\ settled' = settled
      BY <2>2 DEF BeginEdit, RejectEdit, FinishEdit, files
    <3> QED
      BY <3>1, <3>2, SettledQuiet
  <2>3. CASE InvalidateEngine(t) \/ InvalidateLoad(t) \/ InvalidateConnection(t)
             \/ InvalidateResults(t) \/ InvalidatePlans(t)
    <3>1. /\ Unsettled(t) /\ Unsettled(t)' /\ loc' = loc
          /\ disk' = disk /\ settled' = settled
      BY <2>3, StepKeeps DEF InvalidateEngine, InvalidateLoad, InvalidateConnection,
         InvalidateResults, InvalidatePlans, Unsettled, files
    <3>2. ThreadsKept(t)
      BY <2>3, StepKeeps DEF InvalidateEngine, InvalidateLoad, InvalidateConnection,
         InvalidateResults, InvalidatePlans, ThreadsKept
    <3> QED
      BY <3>1, <3>2, SettledQuiet
  <2> QED
    BY <1>4, <2>1, <2>2, <2>3 DEF EditStep
<1> QED
  BY <1>1, <1>2, <1>3, <1>4 DEF Next

-----------------------------------------------------------------------------
(* A step of a thread that answers no render anew: the other renders keep what
   they have, as long as no edit starts to write.                             *)
LEMMA CalmQuiet ==
  ASSUME CalmInv, NEW t \in Threads, ThreadsKept(t),
         overlapped' = overlapped, disk' = disk,
         Unsettled(t)' => Unsettled(t),
         ~ overlapped => /\ registry' \in {registry, Absent, disk.eng}
                         /\ CachesFit'
                         /\ Rendering(t)' => Rendering(t) /\ UpToDate(t)'
  PROVE  CalmInv'
<1> SUFFICES ASSUME ~ overlapped
             PROVE  \A u \in Threads : Rendering(u)' => AllSettled' /\ UpToDate(u)'
  BY DEF CalmInv
<1>1. AllSettled => AllSettled'
  BY DEF AllSettled, Unsettled, ThreadsKept
<1>2. ASSUME NEW u \in Threads \ {t}, Rendering(u)'
      PROVE  Rendering(u) /\ UpToDate(u)'
  <2>1. pc'[u] = pc[u] /\ loc'[u] = loc[u] /\ Rendering(u)
    BY <1>2 DEF ThreadsKept, Rendering
  <2>2. UpToDate(u)
    BY <2>1 DEF CalmInv
  <2> QED
    BY <2>1, <2>2 DEF UpToDate, Fresh
<1> QED
  BY <1>1, <1>2 DEF CalmInv

LEMMA CachesQuiet ==
  ASSUME CachesFit, NEW t \in Threads, ThreadsKept(t),
         disk'.aux = disk.aux, pc[t] \notin PlansStale,
         UNCHANGED <<engine, sqlc, resc>>
  PROVE  CachesFit'
BY DEF CachesFit, Fits, ThreadsKept, PlansStale

(* What a render that no edit overlaps finds in the caches. *)
LEMMA CalmReads ==
  ASSUME TypeOK, CalmInv, ~ overlapped, NEW t \in Threads, Rendering(t)
  PROVE  /\ UpToDate(t) /\ AllSettled /\ CachesFit
         /\ engine # Absent => engine.meas = engine.sig
         /\ \A v \in Version : sqlc[v] # Absent =>
              sqlc[v].meas = v /\ sqlc[v].eng = v /\ sqlc[v].aux = disk.aux
         /\ \A v \in Version : resc[v] # Absent =>
              /\ resc[v].plan.meas = v /\ resc[v].plan.eng = v
              /\ resc[v].plan.aux = disk.aux
<1>1. UpToDate(t) /\ AllSettled /\ CachesFit
  BY DEF CalmInv
<1>2. \A u \in Threads : pc[u] \notin PlansStale
  BY <1>1 DEF AllSettled, Unsettled, PlansStale, ResultsStale
<1> QED
  BY <1>1, <1>2 DEF CachesFit, Fits, PlansStale

LEMMA CalmBegin ==
  ASSUME TypeOK, LocalsReady, JobsInv, SettledInv, CalmInv, NEW t \in Threads,
         BeginBatch(t) \/ BeginSingle(t)
  PROVE  CalmInv'
<1>1. PICK job \in {"batch", "single"}, to \in {"resultGet", "loadSig"} :
        Begin(t, job, to)
  BY DEF BeginBatch, BeginSingle
<1>2. /\ pc[t] = "idle" /\ pc'[t] = to /\ ThreadsKept(t)
      /\ loc'[t].asked = settled /\ loc'[t].rsig = disk.eng
  BY <1>1, BeginKeeps
<1>3. /\ UNCHANGED <<disk, registry, engine, sqlc, resc>>
      /\ overlapped' = (overlapped \/ \E u \in Threads : Unsettled(u))
  BY <1>1 DEF Begin, caches
<1> SUFFICES ASSUME ~ overlapped'
             PROVE  /\ CachesFit'
                    /\ \A u \in Threads : Rendering(u)' => AllSettled' /\ UpToDate(u)'
  BY DEF CalmInv
<1>4. ~ overlapped /\ AllSettled
  BY <1>3 DEF AllSettled
<1>5. CachesFit'
  BY <1>2, <1>3, <1>4, CachesQuiet DEF CalmInv, PlansStale, ResultsStale
<1>6. AllSettled'
  BY <1>2, <1>4 DEF AllSettled, Unsettled, ThreadsKept
<1>7. settled.eng = disk.eng /\ settled.aux = disk.aux
  BY <1>4 DEF SettledInv, AllSettled
<1>8. UpToDate(t)'
  BY <1>2, <1>3, <1>7 DEF UpToDate, LoadLabels
<1>9. ASSUME NEW u \in Threads \ {t}, Rendering(u)' PROVE UpToDate(u)'
  <2>1. pc'[u] = pc[u] /\ loc'[u] = loc[u] /\ UpToDate(u)
    BY <1>2, <1>4, <1>9 DEF ThreadsKept, Rendering, CalmInv
  <2> QED
    BY <1>3, <2>1 DEF UpToDate, Fresh
<1> QED
  BY <1>5, <1>6, <1>8, <1>9

(* The plan cache and the result cache. *)
LEMMA CalmCached ==
  ASSUME TypeOK, LocalsReady, JobsInv, CalmInv, NEW t \in Threads,
         \/ ResultHit(t) \/ ResultMiss(t) \/ PlanHit(t) \/ PlanMiss(t)
         \/ PlanStore(t) \/ ResultStore(t)
  PROVE  CalmInv'
<1> USE StepKeeps DEF SameRequest
<1>1. /\ RenderStep(t) /\ ~ BeginBatch(t) /\ ~ BeginSingle(t)
      /\ pc[t] \in RenderLabels /\ pc'[t] \in RenderLabels \cup {"loadSig"}
  BY DEF RenderStep, BeginBatch, BeginSingle, Begin, RenderLabels, ResultHit,
     ResultMiss, PlanHit, PlanMiss, PlanStore, ResultStore
<1>2. /\ ThreadsKept(t) /\ Rendering(t) /\ ~ Unsettled(t)'
      /\ UNCHANGED <<disk, overlapped, registry, engine>>
  BY <1>1, OutsideLoad DEF JobsInv, Unsettled, RenderLabels, ResultHit,
     ResultMiss, PlanHit, PlanMiss, PlanStore, ResultStore, files, caches
<1> SUFFICES ASSUME ~ overlapped PROVE CachesFit' /\ UpToDate(t)'
  BY <1>2, CalmQuiet
<1>3. /\ UpToDate(t) /\ CachesFit
      /\ \A v \in Version : sqlc[v] # Absent =>
           sqlc[v].meas = v /\ sqlc[v].eng = v /\ sqlc[v].aux = disk.aux
      /\ \A v \in Version : resc[v] # Absent =>
           /\ resc[v].plan.meas = v /\ resc[v].plan.eng = v
           /\ resc[v].plan.aux = disk.aux
      /\ engine # Absent => engine.meas = engine.sig
  BY <1>2, CalmReads
<1>4. /\ disk.eng \in Version /\ loc[t].psig \in Version /\ loc[t].rsig \in Version
      /\ sqlc \in [Version -> Plan \cup {Absent}]
      /\ resc \in [Version -> Result \cup {Absent}]
  BY LocalsRead DEF TypeOK
<1>5. CASE ResultHit(t)
  <2>1. resc[loc[t].rsig] \in Result /\ loc[t].rsig = disk.eng
    BY <1>3, <1>5, EntryRead DEF ResultHit, UpToDate
  <2>2. SameRequest(t) /\ loc'[t].result = resc[loc[t].rsig] /\ pc'[t] = "reply"
    BY <1>5, <2>1, KeepResult DEF ResultHit
  <2>3. UpToDate(t)'
    BY <1>2, <1>3, <1>4, <1>5, <2>1, <2>2 DEF UpToDate, Fresh, LoadLabels, ResultHit
  <2>4. CachesFit'
    BY <1>2, <1>3, <1>5, CachesQuiet DEF ResultHit, PlansStale, ResultsStale, caches
  <2> QED
    BY <2>3, <2>4
<1>6. CASE PlanHit(t)
  <2>1. sqlc[loc[t].psig] \in Plan /\ loc[t].psig = disk.eng
    BY <1>3, <1>6, EntryRead DEF PlanHit, UpToDate
  <2>2. /\ SameRequest(t) /\ loc'[t].plan = sqlc[loc[t].psig] /\ pc'[t] = "connect"
        /\ loc'[t].model = loc[t].model
    BY <1>6, <2>1, KeepPlan DEF PlanHit
  <2>3. UpToDate(t)'
    BY <1>2, <1>3, <1>4, <1>6, <2>1, <2>2 DEF UpToDate, Fresh, LoadLabels, PlanHit
  <2>4. CachesFit'
    BY <1>2, <1>3, <1>6, CachesQuiet DEF PlanHit, PlansStale, ResultsStale, caches
  <2> QED
    BY <2>3, <2>4
<1>7. CASE ResultMiss(t) \/ PlanMiss(t) \/ PlanStore(t) \/ ResultStore(t)
  <2>1. loc' = loc
    BY <1>7 DEF ResultMiss, PlanMiss, PlanStore, ResultStore
  <2>2. UpToDate(t)'
    BY <1>2, <1>3, <1>7, <2>1 DEF UpToDate, Fresh, LoadLabels, ResultMiss, PlanMiss,
       PlanStore, ResultStore
  <2>a. /\ PlanStore(t) => loc[t].psig = disk.eng /\ Fresh(loc[t].plan)
        /\ ResultStore(t) => loc[t].rsig = disk.eng /\ Fresh(loc[t].result.plan)
    BY <1>3 DEF UpToDate, PlanStore, ResultStore
  <2>b. \/ sqlc' = sqlc
        \/ sqlc' = [sqlc EXCEPT ![loc[t].psig] = Absent]
        \/ /\ sqlc' = [sqlc EXCEPT ![loc[t].psig] = loc[t].plan]
           /\ loc[t].psig = disk.eng /\ Fresh(loc[t].plan)
    BY <1>7, <2>a DEF ResultMiss, PlanMiss, PlanStore, ResultStore
  <2>c. \/ resc' = resc
        \/ resc' = [resc EXCEPT ![loc[t].rsig] = Absent]
        \/ /\ resc' = [resc EXCEPT ![loc[t].rsig] = loc[t].result]
           /\ loc[t].rsig = disk.eng /\ Fresh(loc[t].result.plan)
    BY <1>7, <2>a DEF ResultMiss, PlanMiss, PlanStore, ResultStore
  <2>3. ASSUME NEW v \in Version, sqlc'[v] # Absent
        PROVE  sqlc'[v].meas = v /\ sqlc'[v].eng = v /\ sqlc'[v].aux = disk'.aux
    BY <1>2, <1>3, <1>4, <2>b, <2>3 DEF Fresh
  <2>4. ASSUME NEW v \in Version, resc'[v] # Absent
        PROVE  /\ resc'[v].plan.meas = v /\ resc'[v].plan.eng = v
               /\ resc'[v].plan.aux = disk'.aux
    BY <1>2, <1>3, <1>4, <2>c, <2>4 DEF Fresh
  <2>5. CachesFit'
    BY <1>2, <1>3, <2>3, <2>4 DEF CachesFit, Fits
  <2> QED
    BY <2>2, <2>5
<1> QED
  BY <1>5, <1>6, <1>7

(* From the model to the plan. *)
LEMMA CalmPlanned ==
  ASSUME TypeOK, LocalsReady, JobsInv, LockInv, CalmInv, NEW t \in Threads,
         \/ ReadSelections(t) \/ PlanKey(t) \/ PrepareEngine(t) \/ Compile(t)
  PROVE  CalmInv'
<1> USE StepKeeps
<1>1. /\ RenderStep(t) /\ ~ BeginBatch(t) /\ ~ BeginSingle(t)
      /\ pc[t] \in RenderLabels /\ pc'[t] \in RenderLabels
  BY DEF RenderStep, BeginBatch, BeginSingle, Begin, RenderLabels, ReadSelections,
     PlanKey, PrepareEngine, Compile
<1>2. /\ ThreadsKept(t) /\ Rendering(t) /\ ~ Unsettled(t)'
      /\ UNCHANGED <<disk, overlapped, sqlc, resc>>
  BY <1>1, OutsideLoad DEF JobsInv, Unsettled, RenderLabels, ReadSelections,
     PlanKey, PrepareEngine, Compile, files, caches
<1> SUFFICES ASSUME ~ overlapped
             PROVE  /\ registry' \in {registry, Absent, disk.eng}
                    /\ CachesFit' /\ UpToDate(t)'
  BY <1>2, CalmQuiet
<1>3. /\ UpToDate(t) /\ CachesFit
      /\ engine # Absent => engine.meas = engine.sig
  BY <1>2, CalmReads
<1>4. disk.eng \in Version /\ disk.sel \in Version
  BY DEF TypeOK
<1>5. CASE ReadSelections(t)
  <2>1. SameRequest(t) /\ loc'[t].model = loc[t].model /\ pc'[t] = "planKey"
    BY <1>4, <1>5, KeepSel DEF ReadSelections, SameRequest
  <2>2. pc[t] = "selections" /\ UNCHANGED <<engine, registry>>
    BY <1>5 DEF ReadSelections, caches
  <2>3. UpToDate(t)'
    BY <1>2, <1>3, <2>1, <2>2 DEF UpToDate, LoadLabels, SameRequest
  <2>4. CachesFit'
    BY <1>2, <1>3, <2>2, CachesQuiet DEF PlansStale, ResultsStale
  <2> QED
    BY <2>2, <2>3, <2>4
<1>6. CASE PlanKey(t)
  <2>1. /\ SameRequest(t) /\ loc'[t].model = loc[t].model
        /\ loc'[t].psig = disk.eng /\ pc'[t] = "planGet"
    BY <1>4, <1>6, KeepPsig DEF PlanKey, SameRequest
  <2>2. pc[t] = "planKey" /\ UNCHANGED <<engine, registry>>
    BY <1>6 DEF PlanKey, caches
  <2>3. UpToDate(t)'
    BY <1>2, <1>3, <2>1, <2>2 DEF UpToDate, LoadLabels, SameRequest
  <2>4. CachesFit'
    BY <1>2, <1>3, <2>2, CachesQuiet DEF PlansStale, ResultsStale
  <2> QED
    BY <2>2, <2>3, <2>4
<1>7. CASE PrepareEngine(t)
  <2>1. /\ pc[t] = "acquire" /\ pc'[t] = "compile" /\ loc' = loc
        /\ engine' = PreparedEngine(t) /\ registry' = PreparedEngine(t).meas
    BY <1>7 DEF PrepareEngine
  <2>2. loc[t].model.eng = disk.eng
    BY <1>3, <2>1 DEF UpToDate
  <2>3. PreparedEngine(t).meas = disk.eng /\ PreparedEngine(t).sig = disk.eng
    <3>1. CASE EngineCached
      <4>1. engine # Absent /\ engine.sig = disk.eng
        BY <1>4, <3>1, AbsentAssumption DEF EngineCached, LockInv, ActiveNamesEntry
      <4> QED
        BY <1>3, <3>1, <4>1 DEF PreparedEngine
    <3>2. CASE ~ EngineCached
      BY <2>2, <3>2 DEF PreparedEngine
    <3> QED
      BY <3>1, <3>2
  <2>4. UpToDate(t)'
    BY <1>2, <1>3, <2>1, <2>3 DEF UpToDate, LoadLabels
  <2>5. CachesFit'
    <3>1. \A u \in Threads : pc[u] \notin PlansStale
      BY <1>2, CalmReads DEF AllSettled, Unsettled, PlansStale, ResultsStale
    <3> QED
      BY <1>2, <1>3, <2>1, <2>3, <3>1 DEF CachesFit, Fits, PlansStale
  <2> QED
    BY <2>1, <2>3, <2>4, <2>5
<1>8. CASE Compile(t)
  <2> DEFINE p == [meas |-> registry, eng |-> loc[t].model.eng,
                   aux |-> loc[t].model.aux, sel |-> loc[t].sel]
  <2>1. /\ pc[t] = "compile" /\ pc'[t] = "planPut" /\ registry # Absent
        /\ UNCHANGED <<engine, registry>>
    BY <1>8 DEF Compile, caches
  <2>2. /\ registry = disk.eng /\ loc[t].model.eng = disk.eng
        /\ loc[t].model.aux = disk.aux /\ loc[t].psig = disk.eng
    BY <1>3, <2>1 DEF UpToDate
  <2>3. p \in Plan /\ Fresh(p)
    BY <1>4, <2>2, LocalsRead DEF Fresh
  <2>4. PICK v \in Plan : v = p /\ Keep(t, [loc[t] EXCEPT !.plan = v])
    BY <1>8, <2>3 DEF Compile
  <2>5. /\ SameRequest(t) /\ loc'[t].model = loc[t].model
        /\ loc'[t].psig = loc[t].psig /\ loc'[t].plan = p
    BY <2>4, KeepPlan DEF SameRequest
  <2>6. Fresh(loc'[t].plan)
    BY <2>3, <2>5
  <2>7. UpToDate(t)'
    BY <1>2, <1>3, <2>1, <2>2, <2>5, <2>6 DEF UpToDate, LoadLabels, SameRequest, Fresh
  <2>8. CachesFit'
    BY <1>2, <1>3, <2>1, CachesQuiet DEF PlansStale, ResultsStale
  <2> QED
    BY <2>1, <2>7, <2>8
<1> QED
  BY <1>5, <1>6, <1>7, <1>8

(* The query, which may materialize calculated tables, and the failures. *)
LEMMA CalmExecuted ==
  ASSUME TypeOK, LocalsReady, JobsInv, CalmInv, NEW t \in Threads,
         \/ ExecuteOnCached(t) \/ ExecuteOnNew(t) \/ ExecuteOnMaterialized(t)
         \/ ResetRegistry(t)
  PROVE  CalmInv'
<1> USE StepKeeps
<1>1. /\ RenderStep(t) /\ ~ BeginBatch(t) /\ ~ BeginSingle(t)
      /\ pc[t] \in {"connect", "materialize"}
      /\ pc'[t] \in {"materialize", "resultPut", "reply"}
  BY DEF RenderStep, BeginBatch, BeginSingle, Begin, ExecuteOnCached, ExecuteOnNew,
     ExecuteOnMaterialized, ResetRegistry, AfterExecute
<1>2. /\ ThreadsKept(t) /\ Rendering(t) /\ ~ Unsettled(t)'
      /\ UNCHANGED <<disk, overlapped, sqlc, resc, engine>>
  BY <1>1, OutsideLoad DEF JobsInv, Unsettled, RenderLabels, ExecuteOnCached,
     ExecuteOnNew, ExecuteOnMaterialized, ResetRegistry, files, caches
<1> SUFFICES ASSUME ~ overlapped
             PROVE  /\ registry' \in {registry, Absent, disk.eng}
                    /\ CachesFit' /\ UpToDate(t)'
  BY <1>2, CalmQuiet
<1>3. UpToDate(t) /\ CachesFit
  BY <1>2, CalmReads
<1>4. CachesFit'
  BY <1>1, <1>2, <1>3, CachesQuiet DEF PlansStale, ResultsStale
<1>5. loc[t].model.eng = disk.eng /\ Fresh(loc[t].plan)
  BY <1>1, <1>3 DEF UpToDate
<1>6. registry' \in {registry, Absent, disk.eng}
  BY <1>5 DEF ExecuteOnCached, ExecuteOnNew, ExecuteOnMaterialized, ResetRegistry,
     caches
<1>7. CASE ResetRegistry(t)
  <2>1. loc' = loc /\ pc'[t] = "materialize" /\ pc[t] = "connect"
    BY <1>7 DEF ResetRegistry
  <2>2. UpToDate(t)'
    BY <1>2, <1>3, <2>1 DEF UpToDate, LoadLabels, Fresh
  <2> QED
    BY <1>4, <1>6, <2>2
<1>8. CASE ExecuteOnCached(t) \/ ExecuteOnNew(t) \/ ExecuteOnMaterialized(t)
  <2>1. PICK c \in Version : Executed(t, c)
    <3>1. conn \in [Threads -> Version \cup {Absent}] /\ loc[t].model.eng \in Version
      BY LocalsRead DEF TypeOK
    <3> QED
      BY <1>8, <3>1 DEF ExecuteOnCached, ExecuteOnNew, ExecuteOnMaterialized
  <2>2. [plan |-> loc[t].plan, conn |-> c] \in Result
    BY <1>1 DEF LocalsReady
  <2>3. PICK r \in Result : r.plan = loc[t].plan /\ Keep(t, [loc[t] EXCEPT !.result = r])
    BY <2>1, <2>2 DEF Executed
  <2>4. SameRequest(t) /\ loc'[t].result.plan = loc[t].plan
    BY <2>3, KeepResult DEF SameRequest
  <2>5. pc'[t] \in {"resultPut", "reply"}
    BY <1>8 DEF ExecuteOnCached, ExecuteOnNew, ExecuteOnMaterialized, AfterExecute
  <2>6. UpToDate(t)'
    BY <1>2, <1>3, <1>5, <2>4, <2>5 DEF UpToDate, LoadLabels, SameRequest, Fresh
  <2> QED
    BY <1>4, <1>6, <2>6
<1> QED
  BY <1>7, <1>8

(* A request or an edit that ends, whatever the reason. *)
LEMMA CalmReturn ==
  ASSUME TypeOK, CalmInv, NEW t \in Threads, NEW at, Return(t, at),
         at \notin PlansStale, UNCHANGED <<files, caches>>
  PROVE  CalmInv'
<1>1. /\ pc[t] = at /\ pc'[t] = "idle" /\ loc'[t] = NoLocals /\ ThreadsKept(t)
  BY ReturnKeeps
<1>2. UNCHANGED <<disk, overlapped, registry, engine, sqlc, resc>>
  BY DEF files, caches
<1>3. ~ Rendering(t)' /\ ~ Unsettled(t)'
  BY <1>1, NoLocalsJob DEF Rendering, Unsettled
<1>4. ~ overlapped => CachesFit'
  BY <1>1, <1>2, CachesQuiet DEF CalmInv
<1> QED
  BY <1>1, <1>2, <1>3, <1>4, CalmQuiet

(* load_project, for a render or for an edit. *)
LEMMA CalmLoad ==
  ASSUME TypeOK, LocalsReady, LoadInv, CalmInv, NEW t \in Threads, LoadStep(t)
  PROVE  CalmInv'
<1>0. /\ pc[t] \in LoadLabels \cup {"loadSig"} /\ ThreadsKept(t)
      /\ UNCHANGED <<disk, overlapped, registry, engine, sqlc, resc>>
      /\ \/ loc'[t] = NoLocals /\ pc'[t] = "idle"
         \/ SameRequest(t) /\ pc'[t] \in LoadLabels \cup {AfterLoad(t)}
  BY LoadKeeps
<1>1. ~ Unsettled(t)'
  BY <1>0 DEF Unsettled, LoadLabels, AfterLoad
<1>2. ~ overlapped => CachesFit'
  BY <1>0, CachesQuiet DEF CalmInv, PlansStale, ResultsStale, LoadLabels
<1>3. Rendering(t)' => Rendering(t) /\ SameRequest(t)
  BY <1>0, NoLocalsJob DEF Rendering, SameRequest
<1> SUFFICES ASSUME ~ overlapped, Rendering(t)' PROVE UpToDate(t)'
  BY <1>0, <1>1, <1>2, <1>3, CalmQuiet
<1>4. Rendering(t) /\ SameRequest(t) /\ UpToDate(t)
  BY <1>3 DEF CalmInv
<1>5. AfterLoad(t) = "selections" /\ loc'[t] # NoLocals
  BY <1>4, NoLocalsJob DEF AfterLoad, Rendering
<1> USE StepKeeps DEF SameRequest
<1>6. CASE LoadSignature(t)
  <2>1. ModelFiles \in Model
    BY ModelRead
  <2>2. loc'[t].lpsig = ModelFiles /\ pc'[t] = "loadGet"
    BY <1>6, <2>1, KeepLpsig DEF LoadSignature
  <2> QED
    BY <1>0, <1>4, <2>2 DEF UpToDate, ModelFiles
<1>7. CASE LoadHit(t)
  <2>1. lp.model \in Model /\ lp # Absent /\ lp.sig = loc[t].lpsig
    BY <1>7 DEF TypeOK, LoadHit, LoadCached
  <2>2. loc'[t].model = lp.model /\ pc[t] = "loadGet" /\ pc'[t] = "selections"
    BY <1>5, <1>7, <2>1, KeepModel DEF LoadHit
  <2>3. lp.model.eng = disk.eng /\ lp.model.aux = disk.aux
    BY <1>4, <2>1, <2>2 DEF UpToDate, LoadLabels, LoadInv, Covers
  <2> QED
    BY <1>0, <1>4, <2>2, <2>3 DEF UpToDate, LoadLabels
<1>8. CASE LoadMiss(t)
  <2>1. loc' = loc /\ pc[t] = "loadGet" /\ pc'[t] = "parseModel"
    BY <1>8 DEF LoadMiss
  <2> QED
    BY <1>0, <1>4, <2>1 DEF UpToDate, LoadLabels
<1>9. CASE ParseModel(t) \/ ParseAux(t)
  <2>1. /\ [loc[t].model EXCEPT !.eng = disk.eng] \in Model
        /\ [loc[t].model EXCEPT !.aux = disk.aux] \in Model
    BY ModelRead
  <2>2. loc'[t].lpsig = loc[t].lpsig
    BY <1>9, <2>1, KeepModel DEF ParseModel, ParseAux
  <2>3. pc[t] \in {"parseModel", "parseAux"} /\ pc'[t] \in {"parseAux", "loadPut"}
    BY <1>9 DEF ParseModel, ParseAux
  <2> QED
    BY <1>0, <1>4, <2>2, <2>3 DEF UpToDate, LoadLabels
<1>10. CASE LoadStore(t)
  <2>1. loc' = loc /\ pc[t] = "loadPut" /\ pc'[t] = "selections"
    BY <1>5, <1>10 DEF LoadStore
  <2>2. loc[t].model.eng = disk.eng /\ loc[t].model.aux = disk.aux
    BY <1>4, <2>1 DEF UpToDate, LoadLabels, LoadInv, Covers
  <2> QED
    BY <1>0, <1>4, <2>1, <2>2 DEF UpToDate, LoadLabels
<1>11. CASE LoadFails(t)
  BY <1>5, <1>11, ReturnKeeps DEF LoadFails
<1> QED
  BY <1>6, <1>7, <1>8, <1>9, <1>10, <1>11 DEF LoadStep

(* The roles handler aside, an edit that changes what no signature covers is on
   its way to the invalidation as soon as it has written.                     *)
LEMMA CalmWrite ==
  ASSUME "security" \notin Edits, TypeOK, LocalsReady, JobsInv, CalmInv,
         NEW t \in Threads, Write(t)
  PROVE  CalmInv'
<1>1. /\ disk' = WrittenBy(loc[t].job) /\ WrittenBy(loc[t].job) \in Files
      /\ Keep(t, [loc[t] EXCEPT !.wrote = WrittenBy(loc[t].job)])
      /\ overlapped' = (overlapped \/ \E u \in Threads : Rendering(u))
      /\ UNCHANGED <<registry, engine, sqlc, resc>>
      /\ disk \in Files
  BY WrittenType DEF Write, caches, TypeOK
<1>2. loc'[t].job = loc[t].job /\ OthersKept(t)
  BY <1>1, KeepWrote
<1>3. /\ \A u \in Threads \ {t} : pc'[u] = pc[u]
      /\ pc[t] = "write"
      /\ pc'[t] = IF Invalidates(loc[t].job) THEN "invEngine" ELSE "settle"
  BY StepKeeps DEF Write
<1>4. loc[t].job \in {"measure", "aux", "selection"}
  BY <1>3 DEF LocalsReady, JobsInv, Editing
<1> SUFFICES ASSUME ~ overlapped'
             PROVE  CachesFit' /\ \A u \in Threads : ~ Rendering(u)'
  BY DEF CalmInv
<1>5. ~ overlapped /\ CachesFit /\ \A u \in Threads : ~ Rendering(u)
  BY <1>1 DEF CalmInv
<1>6. \A u \in Threads : ~ Rendering(u)'
  BY <1>2, <1>5 DEF Rendering, OthersKept
<1>7. \/ disk'.aux = disk.aux
      \/ pc'[t] = "invEngine"
  BY <1>1, <1>3, <1>4 DEF WrittenBy, Invalidates
<1>8. \A u \in Threads :
        /\ pc[u] \in PlansStale => pc'[u] \in PlansStale
        /\ pc[u] \in ResultsStale => pc'[u] \in ResultsStale
  BY <1>3 DEF PlansStale, ResultsStale
<1>9. CachesFit'
  <2>1. CASE disk'.aux = disk.aux
    BY <1>1, <1>5, <1>8, <2>1 DEF CachesFit, Fits
  <2>2. CASE pc'[t] = "invEngine"
    BY <1>1, <1>5, <2>2 DEF CachesFit, Fits, PlansStale, ResultsStale
  <2> QED
    BY <1>7, <2>1, <2>2
<1> QED
  BY <1>6, <1>9

LEMMA CalmInvalidate ==
  ASSUME TypeOK, CalmInv, NEW t \in Threads,
         \/ InvalidateEngine(t) \/ InvalidateLoad(t) \/ InvalidateConnection(t)
         \/ InvalidateResults(t) \/ InvalidatePlans(t) \/ Settle(t)
  PROVE  CalmInv'
<1>1. /\ Unsettled(t) /\ pc[t] \in PlansStale \cup {"settle"}
      /\ loc' = loc /\ UNCHANGED <<disk, overlapped, registry>>
  BY StepKeeps DEF InvalidateEngine, InvalidateLoad, InvalidateConnection,
     InvalidateResults, InvalidatePlans, Settle, Unsettled, PlansStale, ResultsStale,
     files, caches
<1>2. \A u \in Threads \ {t} : pc'[u] = pc[u]
  BY StepKeeps DEF InvalidateEngine, InvalidateLoad, InvalidateConnection,
     InvalidateResults, InvalidatePlans, Settle
<1>3. ~ overlapped => \A u \in Threads : ~ Rendering(u) /\ ~ Rendering(u)'
  BY <1>1 DEF CalmInv, AllSettled, Rendering
<1> SUFFICES ASSUME ~ overlapped, CachesFit PROVE CachesFit'
  BY <1>1, <1>3 DEF CalmInv
<1>4. CASE InvalidateEngine(t)
  <2>1. pc[t] = "invEngine" /\ pc'[t] = "invLoad"
        /\ engine' = Absent /\ UNCHANGED <<sqlc, resc>>
    BY <1>4, StepKeeps DEF InvalidateEngine
  <2> QED
    BY <1>1, <1>2, <2>1 DEF CachesFit, Fits, PlansStale, ResultsStale
<1>5. CASE InvalidateLoad(t) \/ InvalidateConnection(t)
  <2>1. /\ pc[t] \in {"invLoad", "invConn"} /\ pc'[t] \in {"invConn", "invResult"}
        /\ UNCHANGED <<engine, sqlc, resc>>
    BY <1>5, StepKeeps DEF InvalidateLoad, InvalidateConnection, caches
  <2> QED
    BY <1>1, <1>2, <2>1 DEF CachesFit, Fits, PlansStale, ResultsStale
<1>6. CASE InvalidateResults(t)
  <2>1. /\ pc[t] = "invResult" /\ pc'[t] = "invPlan"
        /\ resc' = NoEntries /\ UNCHANGED <<engine, sqlc>>
    BY <1>6, StepKeeps DEF InvalidateResults
  <2> QED
    BY <1>1, <1>2, <2>1 DEF CachesFit, Fits, PlansStale, ResultsStale, NoEntries
<1>7. CASE InvalidatePlans(t)
  <2>1. /\ pc[t] = "invPlan" /\ pc'[t] = "settle"
        /\ sqlc' = NoEntries /\ UNCHANGED <<engine, resc>>
    BY <1>7, StepKeeps DEF InvalidatePlans
  <2> QED
    BY <1>1, <1>2, <2>1 DEF CachesFit, Fits, PlansStale, ResultsStale, NoEntries
<1>8. CASE Settle(t)
  <2>1. pc[t] = "settle" /\ ThreadsKept(t) /\ UNCHANGED <<engine, sqlc, resc>>
    BY <1>1, <1>2, <1>8, StepKeeps DEF Settle, caches, ThreadsKept
  <2> QED
    BY <1>1, <2>1, CachesQuiet DEF PlansStale, ResultsStale
<1> QED
  BY <1>4, <1>5, <1>6, <1>7, <1>8

LEMMA CalmNext ==
  ASSUME "security" \notin Edits, TypeOK, LocalsReady, LoadInv, LockInv, JobsInv,
         SettledInv, CalmInv, [Next]_vars
  PROVE  CalmInv'
<1>1. CASE UNCHANGED vars
  BY <1>1 DEF vars, CalmInv, CachesFit, Fits, AllSettled, Unsettled, Rendering,
     UpToDate, Fresh
<1>2. ASSUME NEW t \in Threads, RenderStep(t) PROVE CalmInv'
  <2>1. CASE BeginBatch(t) \/ BeginSingle(t)
    BY <2>1, CalmBegin
  <2>2. CASE \/ ResultHit(t) \/ ResultMiss(t) \/ PlanHit(t) \/ PlanMiss(t)
             \/ PlanStore(t) \/ ResultStore(t)
    BY <2>2, CalmCached
  <2>3. CASE ReadSelections(t) \/ PlanKey(t) \/ PrepareEngine(t) \/ Compile(t)
    BY <2>3, CalmPlanned
  <2>4. CASE ExecuteOnCached(t) \/ ExecuteOnNew(t) \/ ExecuteOnMaterialized(t)
             \/ ResetRegistry(t)
    BY <2>4, CalmExecuted
  <2>5. CASE PrepareFails(t) \/ CompileFails(t) \/ RenderFails(t) \/ Reply(t)
    <3>1. PICK at : Return(t, at) /\ at \notin PlansStale
      BY <2>5 DEF PrepareFails, CompileFails, RenderFails, Reply, PlansStale,
         ResultsStale
    <3>2. UNCHANGED <<files, caches>>
      BY <2>5 DEF PrepareFails, CompileFails, RenderFails, Reply
    <3> QED
      BY <3>1, <3>2, CalmReturn
  <2> QED
    BY <1>2, <2>1, <2>2, <2>3, <2>4, <2>5 DEF RenderStep
<1>3. ASSUME NEW t \in Threads, LoadStep(t) PROVE CalmInv'
  BY <1>3, CalmLoad
<1>4. ASSUME NEW t \in Threads, EditStep(t) PROVE CalmInv'
  <2>1. CASE Write(t)
    BY <2>1, CalmWrite
  <2>2. CASE \/ InvalidateEngine(t) \/ InvalidateLoad(t) \/ InvalidateConnection(t)
             \/ InvalidateResults(t) \/ InvalidatePlans(t) \/ Settle(t)
    BY <2>2, CalmInvalidate
  <2>3. CASE RejectEdit(t) \/ FinishEdit(t)
    <3>1. PICK at : Return(t, at) /\ at \notin PlansStale
      BY <2>3 DEF RejectEdit, FinishEdit, PlansStale, ResultsStale
    <3>2. UNCHANGED <<files, caches>>
      BY <2>3 DEF RejectEdit, FinishEdit
    <3> QED
      BY <3>1, <3>2, CalmReturn
  <2>4. CASE BeginEdit(t)
    <3>1. /\ pc[t] = "idle" /\ pc'[t] \in {"loadSig", "write"} /\ ThreadsKept(t)
          /\ loc'[t].job \in EditKinds
      BY <2>4, BeginEditKeeps, EditsAssumption
    <3>2. UNCHANGED <<disk, overlapped, registry, engine, sqlc, resc>>
      BY <2>4 DEF BeginEdit, files, caches
    <3>3. ~ Unsettled(t)' /\ ~ Rendering(t)'
      BY <3>1 DEF Unsettled, Rendering
    <3>4. ~ overlapped => CachesFit'
      BY <3>1, <3>2, CachesQuiet DEF CalmInv, PlansStale, ResultsStale
    <3> QED
      BY <3>1, <3>2, <3>3, <3>4, CalmQuiet
  <2> QED
    BY <1>4, <2>1, <2>2, <2>3, <2>4 DEF EditStep
<1> QED
  BY <1>1, <1>2, <1>3, <1>4 DEF Next

LEMMA CalmInit == Init => JobsInv /\ SettledInv /\ CalmInv
<1> SUFFICES ASSUME Init PROVE JobsInv /\ SettledInv /\ CalmInv
  OBVIOUS
<1>1. \A t \in Threads : pc[t] = "idle" /\ ~ Rendering(t) /\ ~ Editing(t)
  BY NotAsked DEF Init
<1>2. \A t \in Threads : ~ Unsettled(t)
  BY <1>1 DEF Unsettled
<1>3. JobsInv
  BY <1>1 DEF JobsInv, RenderLabels
<1>4. SettledInv
  BY <1>2 DEF Init, NoFiles, SettledInv
<1>5. CachesFit
  BY DEF Init, NoEntries, CachesFit
<1> QED
  BY <1>1, <1>3, <1>4, <1>5 DEF CalmInv

(* An edit of the model files that no render overlaps takes effect, whichever
   of the four caches answers the renders that follow: their measures, their
   relationships and tables and their groups are at least those of the edits
   that had finished when the request came in.  The roles handler is left out:
   it writes a file that no signature covers and invalidates nothing.         *)
THEOREM QuietEditsApply ==
  ASSUME "security" \notin Edits
  PROVE  Spec => []QuietEditsTakeEffect
<1> DEFINE IInv == JobsInv /\ SettledInv /\ CalmInv
<1>1. Init => IInv
  BY CalmInit
<1>2. TypeOK /\ LocalsReady /\ LoadInv /\ LockInv /\ IInv /\ [Next]_vars => IInv'
  BY JobsNext, SettledNext, CalmNext
<1>3. TypeOK /\ IInv => QuietEditsTakeEffect
  <2> SUFFICES ASSUME TypeOK, JobsInv, CalmInv, ~ overlapped,
                      NEW t \in Threads, pc[t] = "reply"
               PROVE  LET answered == loc[t].result.plan IN
                      /\ answered.meas >= loc[t].asked.eng
                      /\ answered.eng  >= loc[t].asked.eng
                      /\ answered.aux  >= loc[t].asked.aux
    BY DEF QuietEditsTakeEffect
  <2>1. UpToDate(t)
    BY DEF JobsInv, RenderLabels, CalmInv
  <2>2. disk.eng \in Nat /\ disk.aux \in Nat
    BY BoundAssumption DEF TypeOK
  <2> QED
    BY <2>1, <2>2 DEF UpToDate, Fresh
<1> QED
  BY <1>1, <1>2, <1>3, LoadInvariant, LockInvariant, PTL DEF Spec
=============================================================================
