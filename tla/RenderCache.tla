------------------------------ MODULE RenderCache ------------------------------
(* RenderResultCache and SQLPlanCache: the same store behind two keys.  Each
   method runs under the lock of its cache, so each is one step; time passes
   between them.                                                              *)
EXTENDS Integers, FiniteSets

CONSTANTS
  Keys,     \* keys: all that a result depends on, hashed
  Values,   \* results or plans
  MaxSize,  \* RESULT_CACHE_MAX, SQL_CACHE_MAX
  TTL,      \* RESULT_CACHE_TTL, SQL_CACHE_TTL
  MaxTime,  \* bound: the clock stops here
  Nothing   \* None

ASSUME SizeAssumption  == MaxSize \in Nat /\ MaxSize >= 4
ASSUME ClockAssumption == TTL \in Nat /\ MaxTime \in Nat
ASSUME NothingAssumption == Nothing \notin Values

VARIABLES
  store,  \* from the keys that have an entry to the entries
  now,    \* time.monotonic()
  last    \* the last call, with what it stored or returned

cacheVars == <<store, now, last>>

Entry == [expiry : Int, value : Values]

Call(op, k, v) == [op |-> op, key |-> k, value |-> v]
NoCall == Call("clear", Nothing, Nothing)

NothingStored == [k \in {} |-> Nothing]

CacheInit == store = NothingStored /\ now = 0 /\ last = NoCall

Without(s, gone) == [k \in DOMAIN s \ gone |-> s[k]]

Expired(s) == {k \in DOMAIN s : now > s[k].expiry}

\* sorted(keys, key=expiry)[:n], any order among equals.
Oldest(s, n) ==
  {old \in SUBSET DOMAIN s :
     /\ Cardinality(old) = n
     /\ \A e \in old, k \in DOMAIN s \ old : s[e].expiry <= s[k].expiry}

-----------------------------------------------------------------------------
\* A hit leaves the entry and its expiry as they are.
Hit(k) ==
  /\ k \in DOMAIN store \ Expired(store)
  /\ last' = Call("get", k, store[k].value)
  /\ UNCHANGED <<store, now>>

\* An expired entry goes when it is asked for.
Miss(k) ==
  /\ k \notin DOMAIN store \ Expired(store)
  /\ store' = Without(store, {k})
  /\ last' = Call("get", k, Nothing)
  /\ UNCHANGED now

\* Mutant of Full: room is made one entry too late.
FullLate(s) == Cardinality(DOMAIN s) > MaxSize

Full(s) == Cardinality(DOMAIN s) >= MaxSize

\* Mutant of Evicted: a quarter of the entries, whichever they are.
EvictedAny(s) ==
  IF Full(s) THEN {old \in SUBSET DOMAIN s : Cardinality(old) = MaxSize \div 4}
  ELSE {{}}

\* The entries to drop when those that expired left no room.
Evicted(s) == IF Full(s) THEN Oldest(s, MaxSize \div 4) ELSE {{}}

\* When the cache is full: first the expired entries, then the oldest quarter.
Roomy == IF Full(store) THEN Without(store, Expired(store)) ELSE store

\* Mutant of With: an entry that is there only gets its new expiry.
WithRefreshed(s, k, v) ==
  [j \in DOMAIN s \cup {k} |->
     IF j # k THEN s[j]
     ELSE [expiry |-> now + TTL, value |-> IF k \in DOMAIN s THEN s[k].value ELSE v]]

With(s, k, v) ==
  [j \in DOMAIN s \cup {k} |->
     IF j = k THEN [expiry |-> now + TTL, value |-> v] ELSE s[j]]

\* Room is made even for a key that is there already.
Put(k, v) ==
  /\ \E gone \in Evicted(Roomy) : store' = With(Without(Roomy, gone), k, v)
  /\ last' = Call("put", k, v)
  /\ UNCHANGED now

\* invalidate_project and invalidate_all are the same.
Invalidate ==
  /\ store' = NothingStored
  /\ last' = NoCall
  /\ UNCHANGED now

Tick ==
  /\ now < MaxTime
  /\ now' = now + 1
  /\ UNCHANGED <<store, last>>

CacheNext ==
  \/ \E k \in Keys : Hit(k) \/ Miss(k)
  \/ \E k \in Keys, v \in Values : Put(k, v)
  \/ Invalidate
  \/ Tick

CacheSpec == CacheInit /\ [][CacheNext]_cacheVars
-----------------------------------------------------------------------------
(* The store and the last call have the types the code gives them. *)
CacheTypeOK ==
  /\ DOMAIN store \subseteq Keys
  /\ \A k \in DOMAIN store : store[k] \in Entry
  /\ last \in [op : {"get", "put", "clear"}, key : Keys \cup {Nothing},
               value : Values \cup {Nothing}]
  /\ now \in Nat

(* However puts, expiries and evictions interleave, put makes enough room for
   its entry: the cache never holds more than MaxSize entries.                *)
SizeBounded == Cardinality(DOMAIN store) <= MaxSize

Live == DOMAIN store \ Expired(store)

(* put gives up an entry that could still be hit only when MaxSize of them are
   alive, and then no entry that it keeps would expire before one it gives up. *)
EvictsOldestWhenFull ==
  [][\A e \in Live \ DOMAIN store' : DOMAIN store' # {} =>
       /\ Cardinality(Live) = MaxSize
       /\ \A k \in DOMAIN store \cap DOMAIN store' :
            store[k] = store'[k] => store[e].expiry <= store[k].expiry]_cacheVars

Memo  == [k \in Keys |-> IF k \in DOMAIN store THEN store[k].value ELSE Nothing]
Lossy == INSTANCE LossyCache WITH memo <- Memo

(* Expiry, eviction and invalidation only ever forget, and no call returns what
   another one put under another key or before a later put or a clear: seen
   through its keys, the store is the lossy cache of the render path.         *)
ImplementsLossyCache == Lossy!Spec
===============================================================================
