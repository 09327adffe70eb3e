------------------------ MODULE FilterContext_proofs ------------------------
(***************************************************************************)
(* What the filters of a visual's query are, for any model, filters,       *)
(* measures and arguments of CALCULATE.                                    *)
(*                                                                         *)
(* The rules of a role are in effect in every query: every context that    *)
(* the compiler makes on its way has the rules of the one it started from  *)
(* (RulesInv).  The order of the arguments of a CALCULATE makes no         *)
(* difference: while they are read, the frame has what those read so far   *)
(* mean together, which is said without an order (ReadInv).  ALLSELECTED   *)
(* restores: the outer filters of every context on the way are those the   *)
(* query came with (OuterInv).                                             *)
(*                                                                         *)
(* A filter that reaches the root of a query is in the query, as the       *)
(* search for joins finds every table that filters come from; it ends, for *)
(* each step of it visits another table.  And where tables are related in  *)
(* one way, joins follow filters: without the relationship by which a      *)
(* table is joined, no filter from beyond it reaches the root.             *)
(***************************************************************************)
EXTENDS FilterContext, FiniteSetTheorems, WellFoundedInduction, TLAPS

IsContext(c) == DOMAIN c = {"inner", "outer", "security", "used"}

\* A context that has the rules it was given.
Ruled(c, rules) == IsContext(c) /\ c.security = rules

IsFrame(f) == DOMAIN f = {"kind", "home", "context", "start", "read", "replaced", "kept", "selected"}

Rules == IF stage = "filters" THEN local.security ELSE entered.security

RulesInv ==
  /\ stage \in {"filters", "measure", "arguments", "inner", "done"}
  /\ Ruled(local, Rules)
  /\ stage # "filters" => IsContext(entered)
  /\ IsFrame(frame)
  /\ stage \in {"arguments", "inner"} => Ruled(frame.context, Rules)
  /\ IsQuery => stage # "filters" /\ Ruled(rows.context, Rules)

-----------------------------------------------------------------------------
(* What is done to a context leaves its rules alone.                          *)

LEMMA EmptyRuled == IsContext(Empty)
BY DEF Empty, IsContext

LEMMA SetOuterRuled ==
  ASSUME NEW c, NEW rules, Ruled(c, rules)
  PROVE  Ruled(SetOuter(c), rules)
BY DEF SetOuter, Ruled, IsContext

LEMMA AppliedRuled ==
  ASSUME NEW c, NEW rules, NEW f, Ruled(c, rules)
  PROVE  Ruled(Applied(c, f), rules) /\ Ruled(AppliedKeep(c, f), rules)
BY DEF Applied, AppliedKeep, Ruled, IsContext

LEMMA RemovedRuled ==
  ASSUME NEW c, NEW rules, NEW K, Ruled(c, rules)
  PROVE  Ruled(Removed(c, K), rules) /\ Ruled(Restored(c, K), rules)
BY DEF Removed, Restored, Ruled, IsContext

LEMMA FrameIsFrame ==
  ASSUME NEW kind, NEW home, NEW c
  PROVE  IsFrame(Frame(kind, home, c)) /\ Frame(kind, home, c).context = c
BY DEF Frame, IsFrame

LEMMA RowsContext ==
  ASSUME NEW kind, NEW root, NEW c, NEW needed
  PROVE  /\ Rows(kind, root, c, needed).context = c
         /\ Rows(kind, root, c, needed).kind = kind
BY DEF Rows

LEMMA NoQuery ==
  ASSUME NEW home
  PROVE  NoRows.kind = "none" /\ Nowhere(home).kind = "nowhere"
BY RowsContext DEF NoRows, Nowhere

LEMMA OwnContext ==
  ASSUME NEW home, NEW c
  PROVE  Own(home, c).context = c /\ Own(home, c).kind = "own"
BY RowsContext DEF Own

\* The rules of a context are in effect, whatever filters it has.
LEMMA RulesInEffect ==
  ASSUME NEW c, NEW k \in DOMAIN c.security
  PROVE  k \in DOMAIN Effective(c) /\ Effective(c)[k] \subseteq c.security[k]
BY DEF Effective, Both

-----------------------------------------------------------------------------
LEMMA InitRules == Init => RulesInv
<1> SUFFICES ASSUME Init PROVE RulesInv
  OBVIOUS
<1>1. IsContext(local)
  BY EmptyRuled DEF Init, IsContext
<1>2. IsFrame(frame)
  BY FrameIsFrame DEF Init
<1>3. rows.kind = "none"
  BY NoQuery DEF Init
<1> QED
  BY <1>1, <1>2, <1>3 DEF Init, RulesInv, Rules, Ruled, IsQuery

\* A reading of an argument, of whatever kind, leaves the frame with the rules.
LEMMA ReadingRules ==
  ASSUME RulesInv, NEW a, NEW changed, Reading(a, changed),
         IsFrame(changed), Ruled(changed.context, Rules)
  PROVE  RulesInv'
<1>1. IsFrame(frame') /\ frame'.context = changed.context
  BY DEF Reading, IsFrame
<1>2. /\ stage = "arguments" /\ stage' = stage /\ local' = local
      /\ entered' = entered /\ rows' = rows
  BY DEF Reading
<1>3. Rules' = Rules
  BY <1>2 DEF Rules
<1> QED
  BY <1>1, <1>2, <1>3 DEF RulesInv, Ruled, IsQuery

LEMMA NextRules == RulesInv /\ [Next]_vars => RulesInv'
<1> SUFFICES ASSUME RulesInv, [Next]_vars PROVE RulesInv'
  OBVIOUS
<1>1. CASE ApplyScopedFilter
  <2>1. Ruled(local', local.security)
    BY <1>1, AppliedRuled DEF ApplyScopedFilter, RulesInv, Rules, Ruled
  <2> QED
    BY <1>1, <2>1 DEF ApplyScopedFilter, RulesInv, Rules, Ruled, IsQuery
<1>2. CASE Enter
  <2>1. Ruled(local', local.security)
    BY <1>2, SetOuterRuled DEF Enter, RulesInv, Rules, Ruled
  <2> QED
    BY <1>2, <2>1 DEF Enter, RulesInv, Rules, Ruled, IsQuery
<1>3. ASSUME NEW home \in Facts, PlainMeasure(home) PROVE RulesInv'
  <2>1. IsQuery' => rows'.context = local
    BY <1>3, NoQuery, OwnContext DEF PlainMeasure, IsQuery
  <2> QED
    BY <1>3, <2>1 DEF PlainMeasure, RulesInv, Rules, IsQuery
<1>4. ASSUME NEW home \in Facts, HoistedMeasure(home) PROVE RulesInv'
  <2>1. IsFrame(frame') /\ frame'.context = local
    BY <1>4, FrameIsFrame DEF HoistedMeasure
  <2>2. ~IsQuery'
    BY <1>4, NoQuery DEF HoistedMeasure, IsQuery
  <2> QED
    BY <1>4, <2>1, <2>2 DEF HoistedMeasure, RulesInv, Rules
<1>5. ASSUME NEW home \in Facts, NestedMeasure(home) PROVE RulesInv'
  <2>1. IsFrame(frame') /\ frame'.context = SetOuter(local)
    BY <1>5, FrameIsFrame DEF NestedMeasure
  <2>2. Ruled(SetOuter(local), Rules)
    BY SetOuterRuled DEF RulesInv
  <2>3. ~IsQuery'
    BY <1>5, NoQuery DEF NestedMeasure, IsQuery
  <2> QED
    BY <1>5, <2>1, <2>2, <2>3 DEF NestedMeasure, RulesInv, Rules
<1>6. ASSUME NEW a \in AllArguments, RemovingArgument(a) PROVE RulesInv'
  <2> DEFINE changed == [frame EXCEPT !.context = Removed(@, ClearedBy(a))]
  <2>1. Reading(a, changed) /\ stage = "arguments"
    BY <1>6 DEF RemovingArgument, Reading
  <2>2. IsFrame(changed) /\ changed.context = Removed(frame.context, ClearedBy(a))
    BY DEF RulesInv, IsFrame
  <2>3. Ruled(changed.context, Rules)
    BY <2>1, <2>2, RemovedRuled DEF RulesInv
  <2> QED
    BY <2>1, <2>2, <2>3, ReadingRules
<1>7. ASSUME NEW a \in AllArguments, AllSelectedArgument(a) PROVE RulesInv'
  <2> DEFINE changed == [frame EXCEPT !.selected = @ \cup SelectedBy(a)]
  <2>1. Reading(a, changed) /\ stage = "arguments"
    BY <1>7 DEF AllSelectedArgument, Reading
  <2>2. IsFrame(changed) /\ changed.context = frame.context
    BY DEF RulesInv, IsFrame
  <2> QED
    BY <2>1, <2>2, ReadingRules DEF RulesInv
<1>8. ASSUME NEW a \in AllArguments, RelationshipArgument(a) PROVE RulesInv'
  <2> DEFINE ids == {r.id : r \in {q \in Range(registry) : q.id = a.rel}}
             changed == [frame EXCEPT !.context = Activating(@, ids)]
  <2>1. Reading(a, changed) /\ stage = "arguments"
    BY <1>8 DEF RelationshipArgument, Reading
  <2>2. Ruled(frame.context, Rules) /\ IsFrame(frame)
    BY <2>1 DEF RulesInv
  <2> HIDE DEF ids
  <2>3. IsFrame(changed) /\ Ruled(changed.context, Rules)
    BY <2>2 DEF Activating, Ruled, IsContext, IsFrame
  <2> QED
    BY <2>1, <2>3, ReadingRules
<1>9. ASSUME NEW a \in AllArguments, PeriodArgument(a) PROVE RulesInv'
  <2> DEFINE c == IF a.keep THEN AppliedKeep(frame.context, One(a.on, a.accept))
                            ELSE Applied(frame.context, One(a.on, a.accept))
             changed == [frame EXCEPT !.context = c]
  <2>1. Reading(a, changed) /\ stage = "arguments"
    BY <1>9 DEF PeriodArgument, Reading
  <2>2. Ruled(c, Rules)
    BY <2>1, AppliedRuled DEF RulesInv
  <2> HIDE DEF c
  <2>3. IsFrame(changed) /\ changed.context = c
    BY DEF RulesInv, IsFrame
  <2> QED
    BY <2>1, <2>2, <2>3, ReadingRules
<1>10. ASSUME NEW a \in AllArguments, FilterArgument(a) PROVE RulesInv'
  <2> DEFINE changed == [frame EXCEPT !.context  = Removed(@, ClearedBy(a)),
                                      !.replaced = IF a.keep THEN @ ELSE Both(@, One(a.on, a.accept)),
                                      !.kept     = IF a.keep THEN Both(@, One(a.on, a.accept)) ELSE @]
  <2>1. Reading(a, changed) /\ stage = "arguments"
    BY <1>10 DEF FilterArgument, Reading
  <2>2. IsFrame(changed) /\ changed.context = Removed(frame.context, ClearedBy(a))
    BY DEF RulesInv, IsFrame
  <2>3. Ruled(changed.context, Rules)
    BY <2>1, <2>2, RemovedRuled DEF RulesInv
  <2> QED
    BY <2>1, <2>2, <2>3, ReadingRules
<1>11. CASE FinishArguments
  <2> DEFINE c == Restored(AppliedKeep(Applied(frame.context, frame.replaced), frame.kept),
                           frame.selected)
  <2>1. Ruled(c, Rules)
    BY <1>11, AppliedRuled, RemovedRuled DEF FinishArguments, RulesInv
  <2>2. /\ frame' = [frame EXCEPT !.context = c]
        /\ local' = IF frame.kind = "hoisted" THEN c ELSE local
        /\ stage = "arguments" /\ stage' = "inner"
        /\ entered' = entered /\ rows' = rows
    BY <1>11 DEF FinishArguments
  <2> HIDE DEF c
  <2>3. IsFrame(frame') /\ frame'.context = c
    BY <2>2 DEF RulesInv, IsFrame
  <2> QED
    BY <2>1, <2>2, <2>3 DEF RulesInv, Rules, IsQuery
<1>12. CASE InnerAggregate
  <2>1. Ruled(SetOuter(frame.context), Rules)
    BY <1>12, SetOuterRuled DEF InnerAggregate, RulesInv
  <2>2. IsQuery' => rows'.context = SetOuter(frame.context)
    BY <1>12, NoQuery, OwnContext DEF InnerAggregate, IsQuery
  <2>3. IsFrame(frame')
    BY <1>12, FrameIsFrame DEF InnerAggregate
  <2> QED
    BY <1>12, <2>1, <2>2, <2>3 DEF InnerAggregate, RulesInv, Rules
<1>13. CASE InnerCalculate
  <2>1. Ruled(SetOuter(frame.context), Rules)
    BY <1>13, SetOuterRuled DEF InnerCalculate, RulesInv
  <2>2. IsFrame(frame') /\ frame'.context = SetOuter(frame.context)
    BY <1>13, FrameIsFrame DEF InnerCalculate
  <2> QED
    BY <1>13, <2>1, <2>2 DEF InnerCalculate, RulesInv, Rules, IsQuery
<1>14. CASE Finish
  <2>1. IsQuery' => rows'.context = local
    <3>1. CASE dims = {}
      BY <1>14, <3>1, NoQuery DEF Finish, IsQuery
    <3>2. CASE dims # {}
      <4>1. PICK root \in mentioned :
              rows' = Rows("shared", root, local, dims \cup mentioned \cup Needed(root, local))
        BY <1>14, <3>2 DEF Finish
      <4> QED
        BY <4>1, RowsContext
    <3> QED
      BY <3>1, <3>2
  <2> QED
    BY <1>14, <2>1 DEF Finish, RulesInv, Rules, IsQuery
<1>15. CASE Done \/ UNCHANGED vars
  <2>1. /\ stage' = stage /\ local' = local /\ frame' = frame
        /\ entered' = entered /\ rows' = rows
    BY <1>15 DEF Done, vars
  <2> QED
    BY <2>1 DEF RulesInv, Rules, IsQuery
<1> QED
  BY <1>1, <1>2, <1>3, <1>4, <1>5, <1>6, <1>7, <1>8, <1>9, <1>10, <1>11, <1>12, <1>13,
     <1>14, <1>15 DEF Next

\* The rules of a role are in effect in every query, whatever filters the visual
\* has and whatever its measures remove.
THEOREM RulesAlwaysStay == Spec => []RulesStay
<1>1. RulesInv => RulesStay
  BY RulesInEffect DEF RulesInv, RulesStay, Ruled, Rules
<1> QED
  BY <1>1, InitRules, NextRules, PTL DEF Spec
-----------------------------------------------------------------------------
(* A context as a record of its parts, and what is done to it, part by part.  *)
Context(inner, outer, security, used) ==
  [inner |-> inner, outer |-> outer, security |-> security, used |-> used]

IsFunction(f) == f = [k \in DOMAIN f |-> f[k]]

IsFormed(c) == /\ c = Context(c.inner, c.outer, c.security, c.used)
               /\ IsFunction(c.inner) /\ IsFunction(c.outer)

LEMMA PartsOf ==
  ASSUME NEW i, NEW o, NEW s, NEW u
  PROVE  /\ Context(i, o, s, u).inner = i
         /\ Context(i, o, s, u).outer = o
         /\ Context(i, o, s, u).security = s
         /\ Context(i, o, s, u).used = u
BY DEF Context

LEMMA AppliedParts ==
  ASSUME NEW i, NEW o, NEW s, NEW u, NEW f
  PROVE  Applied(Context(i, o, s, u), f) = Context(Over(i, f), o, s, u)
BY DEF Applied, Context

LEMMA AppliedKeepParts ==
  ASSUME NEW i, NEW o, NEW s, NEW u, NEW f
  PROVE  AppliedKeep(Context(i, o, s, u), f) = Context(Both(i, f), o, s, u)
BY DEF AppliedKeep, Context

\* Two records of the same fields are equal if they are field by field.
LEMMA RemovedParts ==
  ASSUME NEW i, NEW o, NEW s, NEW u, NEW K
  PROVE  Removed(Context(i, o, s, u), K) = Context(Without(i, K), Without(o, K), s, u)
<1> DEFINE Parts == {"inner", "outer", "security", "used"}
           a == Without(i, K)
           b == Without(o, K)
           d == Removed(Context(i, o, s, u), K)
           e == Context(a, b, s, u)
<1>1. DOMAIN d = Parts /\ d = [x \in DOMAIN d |-> d[x]]
  BY DEF Removed, Context
<1>2. d.inner = a /\ d.outer = b /\ d.security = s /\ d.used = u
  BY DEF Removed, Context
<1>3. DOMAIN e = Parts /\ e = [x \in DOMAIN e |-> e[x]]
  BY DEF Context
<1>4. e.inner = a /\ e.outer = b /\ e.security = s /\ e.used = u
  BY DEF Context
<1> HIDE DEF d, e
<1>5. \A x \in Parts : d[x] = e[x]
  BY <1>2, <1>4
<1> HIDE DEF Parts, a, b
<1>6. d = e
  BY <1>1, <1>3, <1>5
<1> QED
  BY <1>6 DEF a, b, d, e

LEMMA RestoredParts ==
  ASSUME NEW i, NEW o, NEW s, NEW u, NEW K
  PROVE  Restored(Context(i, o, s, u), K) = Context(Without(i, K), o, s, u)
BY DEF Restored, Context

LEMMA ActivatingParts ==
  ASSUME NEW i, NEW o, NEW s, NEW u, NEW K
  PROVE  Activating(Context(i, o, s, u), K) = Context(i, o, s, u \cup K)
BY DEF Activating, Context

LEMMA FormedContext ==
  ASSUME NEW i, NEW o, NEW s, NEW u, IsFunction(i), IsFunction(o)
  PROVE  IsFormed(Context(i, o, s, u))
BY PartsOf DEF IsFormed

LEMMA FunctionsMade ==
  ASSUME NEW f, NEW g, NEW K
  PROVE  IsFunction(None) /\ IsFunction(Over(f, g)) /\ IsFunction(Both(f, g)) /\ IsFunction(Without(f, K))
BY DEF IsFunction, None, Over, Both, Without

LEMMA SetOuterFormed ==
  ASSUME NEW c, IsFormed(c)
  PROVE  IsFormed(SetOuter(c))
<1>1. CASE c.outer # None
  BY <1>1 DEF SetOuter
<1>2. CASE c.outer = None
  <2>1. SetOuter(c) = Context(c.inner, c.inner, c.security, c.used)
    <3> DEFINE i == c.inner
               o == c.outer
               s == c.security
               u == c.used
    <3>1. c = Context(i, o, s, u)
      BY DEF IsFormed
    <3> HIDE DEF i, o, s, u
    <3>2. [c EXCEPT !.outer = i] = Context(i, i, s, u)
      BY <3>1 DEF Context
    <3> QED
      BY <3>2, <1>2 DEF SetOuter, i, o, s, u
  <2> QED
    BY <2>1, FormedContext DEF IsFormed
<1> QED
  BY <1>1, <1>2

LEMMA ChangedFormed ==
  ASSUME NEW c, NEW f, NEW K, IsFormed(c)
  PROVE  /\ IsFormed(Applied(c, f)) /\ IsFormed(AppliedKeep(c, f))
         /\ IsFormed(Removed(c, K)) /\ IsFormed(Restored(c, K))
         /\ IsFormed(Activating(c, K))
<1> DEFINE i == c.inner
           o == c.outer
           s == c.security
           u == c.used
<1>1. c = Context(i, o, s, u) /\ IsFunction(i) /\ IsFunction(o)
  BY DEF IsFormed
<1> HIDE DEF i, o, s, u
<1>2. IsFunction(Over(i, f)) /\ IsFunction(Both(i, f)) /\ IsFunction(Without(i, K)) /\ IsFunction(Without(o, K))
  BY FunctionsMade
<1>3. IsFormed(Applied(c, f))
  BY <1>1, <1>2, AppliedParts, FormedContext
<1>4. IsFormed(AppliedKeep(c, f))
  BY <1>1, <1>2, AppliedKeepParts, FormedContext
<1>5. IsFormed(Removed(c, K))
  BY <1>1, <1>2, RemovedParts, FormedContext
<1>6. IsFormed(Restored(c, K))
  BY <1>1, <1>2, RestoredParts, FormedContext
<1>7. IsFormed(Activating(c, K))
  <2> DEFINE v == u \cup K
  <2>1. Activating(c, K) = Context(i, o, s, v)
    BY <1>1, ActivatingParts
  <2> HIDE DEF v
  <2> QED
    BY <1>1, <2>1, FormedContext
<1> QED
  BY <1>3, <1>4, <1>5, <1>6, <1>7

LEMMA WithoutWithout ==
  ASSUME NEW f, NEW K, NEW L
  PROVE  Without(Without(f, K), L) = Without(f, K \cup L)
BY DEF Without

LEMMA WithoutNothing ==
  ASSUME NEW f, IsFunction(f)
  PROVE  Without(f, {}) = f
BY DEF Without, IsFunction

-----------------------------------------------------------------------------
(* What the arguments of CALCULATE mean together, and with one more.          *)
Cleared(A)   == UNION {ClearedBy(a) : a \in A}
Selected(A)  == UNION {SelectedBy(a) : a \in A}
Activated(reg, A) == {a.rel : a \in {b \in A : b.fn = "USERELATIONSHIP"}}
                       \cap {r.id : r \in Range(reg)}

\* The context after the removals and the relationships of A.
Base(reg, c, A) == Context(Without(c.inner, Cleared(A)), Without(c.outer, Cleared(A)),
                           c.security, c.used \cup Activated(reg, A))

LEMMA OneMore ==
  ASSUME NEW A, NEW a
  PROVE  /\ Cleared(A \cup {a}) = Cleared(A) \cup ClearedBy(a)
         /\ Selected(A \cup {a}) = Selected(A) \cup SelectedBy(a)
BY DEF Cleared, Selected

LEMMA NotSelected ==
  ASSUME NEW A, NEW a, a.fn # "ALLSELECTED"
  PROVE  Selected(A \cup {a}) = Selected(A)
BY DEF Selected, SelectedBy

LEMMA NoArguments ==
  /\ Cleared({}) = {} /\ Selected({}) = {} /\ \A reg : Activated(reg, {}) = {}
  /\ Conditions({}, TRUE) = None /\ Conditions({}, FALSE) = None
<1>1. Cleared({}) = {} /\ Selected({}) = {} /\ \A reg : Activated(reg, {}) = {}
  BY DEF Cleared, Selected, Activated
<1>2. ASSUME NEW keep PROVE Conditions({}, keep) = None
  BY DEF Conditions, None
<1> QED
  BY <1>1, <1>2

LEMMA OtherConditions ==
  ASSUME NEW A, NEW a, NEW keep, ~(a.fn = "filter" /\ a.keep = keep)
  PROVE  Conditions(A \cup {a}, keep) = Conditions(A, keep)
<1>1. {b \in A \cup {a} : b.fn = "filter" /\ b.keep = keep} = {b \in A : b.fn = "filter" /\ b.keep = keep}
  OBVIOUS
<1>2. ASSUME NEW k
      PROVE {v \in Values : \A b \in A \cup {a} : b.fn = "filter" /\ b.keep = keep /\ b.on = k => v \in b.accept}
              = {v \in Values : \A b \in A : b.fn = "filter" /\ b.keep = keep /\ b.on = k => v \in b.accept}
  OBVIOUS
<1> QED
  BY <1>1, <1>2 DEF Conditions

LEMMA OneCondition ==
  ASSUME NEW A, NEW a, a.fn = "filter", a.accept \subseteq Values
  PROVE  Conditions(A \cup {a}, a.keep) = Both(Conditions(A, a.keep), One(a.on, a.accept))
<1> DEFINE keep == a.keep
           Is(b) == b.fn = "filter" /\ b.keep = keep
           On(B) == {b.on : b \in {c \in B : Is(c)}}
           All(B, k) == {v \in Values : \A b \in B : Is(b) /\ b.on = k => v \in b.accept}
           B1 == A \cup {a}
<1>1. \A B : Conditions(B, keep) = [k \in On(B) |-> All(B, k)]
  BY DEF Conditions
<1>2. On(B1) = On(A) \cup {a.on}
  OBVIOUS
<1>3. \A k : k # a.on => All(B1, k) = All(A, k)
  OBVIOUS
<1>4. All(B1, a.on) = All(A, a.on) \cap a.accept
  OBVIOUS
<1>5. a.on \notin On(A) => All(B1, a.on) = a.accept
  <2> SUFFICES ASSUME a.on \notin On(A) PROVE All(A, a.on) = Values
    BY <1>4
  <2>1. \A b \in A : ~(Is(b) /\ b.on = a.on)
    OBVIOUS
  <2> QED
    BY <2>1
<1> HIDE DEF keep, On, All, B1
<1>6. DOMAIN One(a.on, a.accept) = {a.on} /\ One(a.on, a.accept)[a.on] = a.accept
  BY DEF One
<1> DEFINE f == Conditions(A, keep)
           g == One(a.on, a.accept)
<1>7. DOMAIN f = On(A) /\ \A k \in On(A) : f[k] = All(A, k)
  BY <1>1
<1>8. DOMAIN g = {a.on} /\ g[a.on] = a.accept
  BY <1>6
<1> HIDE DEF f, g
<1>9. Both(f, g) = [k \in On(B1) |-> All(B1, k)]
  <2>1. DOMAIN f \cup DOMAIN g = On(B1)
    BY <1>2, <1>7, <1>8
  <2>2. ASSUME NEW k \in On(B1)
        PROVE  (IF k \notin DOMAIN g THEN f[k] ELSE IF k \notin DOMAIN f THEN g[k] ELSE f[k] \cap g[k])
                 = All(B1, k)
    <3>1. CASE k # a.on
      BY <3>1, <1>2, <1>3, <1>7, <1>8
    <3>2. CASE k = a.on /\ k \in On(A)
      BY <3>2, <1>4, <1>7, <1>8
    <3>3. CASE k = a.on /\ k \notin On(A)
      BY <3>3, <1>5, <1>7, <1>8
    <3> QED
      BY <3>1, <3>2, <3>3
  <2> QED
    BY <2>1, <2>2 DEF Both
<1> QED
  BY <1>1, <1>9 DEF f, g, keep, B1

-----------------------------------------------------------------------------
(* While the arguments of a CALCULATE are read, the frame has what those read so
   far mean together, as long as none of them is a period.                     *)
FormInv ==
  /\ IsFormed(local)
  /\ stage \in {"arguments", "inner"} => IsFormed(frame.context) /\ IsFormed(frame.start)

Timeless == \A a \in frame.read : a.fn # "period"

\* What a frame should have after the arguments A.
Fits(reg, f, A) ==
  /\ f.context = Base(reg, f.start, A)
  /\ f.replaced = Conditions(A, FALSE)
  /\ f.kept = Conditions(A, TRUE)
  /\ f.selected = Selected(A)

ReadInv == stage = "arguments" /\ Timeless => Fits(registry, frame, frame.read)

OrderInv == RulesInv /\ FormInv /\ ReadInv /\ OrderMakesNoDifference

\* Without arguments, the frame has the context it started from.
LEMMA BaseOfNone ==
  ASSUME NEW reg, NEW c, IsFormed(c)
  PROVE  Base(reg, c, {}) = c
<1>1. Without(c.inner, {}) = c.inner /\ Without(c.outer, {}) = c.outer
  BY WithoutNothing DEF IsFormed
<1>2. c.used \cup {} = c.used
  OBVIOUS
<1> QED
  BY <1>1, <1>2, NoArguments DEF Base, IsFormed

LEMMA FrameParts ==
  ASSUME NEW kind, NEW home, NEW c
  PROVE  /\ Frame(kind, home, c).start = c /\ Frame(kind, home, c).context = c
         /\ Frame(kind, home, c).read = {} /\ Frame(kind, home, c).selected = {}
         /\ Frame(kind, home, c).replaced = None /\ Frame(kind, home, c).kept = None
BY DEF Frame

\* A new CALCULATE: nothing is read yet.
LEMMA NewFrame ==
  ASSUME NEW kind, NEW home, NEW c, IsFormed(c), frame' = Frame(kind, home, c)
  PROVE  /\ IsFormed(frame'.context) /\ IsFormed(frame'.start)
         /\ ReadInv'
<1>1. /\ frame'.start = c /\ frame'.context = c
      /\ frame'.read = {} /\ frame'.selected = {}
      /\ frame'.replaced = None /\ frame'.kept = None
  BY FrameParts
<1>2. Base(registry', c, {}) = c
  BY BaseOfNone
<1> QED
  BY <1>1, <1>2, NoArguments DEF ReadInv, Fits

LEMMA BaseRemoved ==
  ASSUME NEW reg, NEW c, NEW A, NEW a, a.fn # "USERELATIONSHIP"
  PROVE  Base(reg, c, A \cup {a}) = Removed(Base(reg, c, A), ClearedBy(a))
<1> DEFINE i == Without(c.inner, Cleared(A))
           o == Without(c.outer, Cleared(A))
           u == c.used \cup Activated(reg, A)
<1>1. Activated(reg, A \cup {a}) = Activated(reg, A)
  BY DEF Activated
<1>2. /\ Without(c.inner, Cleared(A \cup {a})) = Without(i, ClearedBy(a))
      /\ Without(c.outer, Cleared(A \cup {a})) = Without(o, ClearedBy(a))
  BY OneMore, WithoutWithout
<1>3. Base(reg, c, A) = Context(i, o, c.security, u)
  BY DEF Base
<1>4. Base(reg, c, A \cup {a}) = Context(Without(i, ClearedBy(a)), Without(o, ClearedBy(a)), c.security, u)
  BY <1>1, <1>2 DEF Base
<1> HIDE DEF i, o, u
<1> QED
  BY <1>3, <1>4, RemovedParts

LEMMA BaseKept ==
  ASSUME NEW reg, NEW c, NEW A, NEW a, a.fn # "USERELATIONSHIP", ClearedBy(a) = {}
  PROVE  Base(reg, c, A \cup {a}) = Base(reg, c, A)
<1>1. Cleared(A \cup {a}) = Cleared(A)
  BY OneMore
<1>2. Activated(reg, A \cup {a}) = Activated(reg, A)
  BY DEF Activated
<1> QED
  BY <1>1, <1>2 DEF Base

LEMMA BaseActivated ==
  ASSUME NEW reg, NEW c, NEW A, NEW a, a.fn = "USERELATIONSHIP"
  PROVE  Base(reg, c, A \cup {a})
           = Activating(Base(reg, c, A), {r.id : r \in {q \in Range(reg) : q.id = a.rel}})
<1> DEFINE new == {r.id : r \in {q \in Range(reg) : q.id = a.rel}}
           i == Without(c.inner, Cleared(A))
           o == Without(c.outer, Cleared(A))
           u == c.used \cup Activated(reg, A)
<1> ClearedBy(a) = {}
  BY DEF ClearedBy
<1>1. Cleared(A \cup {a}) = Cleared(A)
  BY OneMore
<1>2. Activated(reg, A \cup {a}) = Activated(reg, A) \cup new
  <2>1. new = {a.rel} \cap {r.id : r \in Range(reg)}
    OBVIOUS
  <2>2. {b.rel : b \in {d \in A \cup {a} : d.fn = "USERELATIONSHIP"}}
          = {b.rel : b \in {d \in A : d.fn = "USERELATIONSHIP"}} \cup {a.rel}
    OBVIOUS
  <2> HIDE DEF new
  <2> QED
    BY <2>1, <2>2 DEF Activated
<1>3. Base(reg, c, A) = Context(i, o, c.security, u)
  BY DEF Base
<1> HIDE DEF new
<1>4. c.used \cup Activated(reg, A \cup {a}) = u \cup new
  BY <1>2
<1>5. Base(reg, c, A \cup {a}) = Context(i, o, c.security, u \cup new)
  BY <1>1, <1>4 DEF Base
<1> HIDE DEF i, o, u
<1>6. Activating(Context(i, o, c.security, u), new) = Context(i, o, c.security, u \cup new)
  BY ActivatingParts
<1> QED
  BY <1>3, <1>5, <1>6 DEF new

\* One argument is read: the frame is the changed one with the argument.
LEMMA ReadOn ==
  ASSUME NEW a, NEW changed, Reading(a, changed), IsFrame(changed)
  PROVE  /\ stage = "arguments" /\ stage' = stage /\ local' = local /\ registry' = registry
         /\ frame'.start = changed.start /\ frame'.context = changed.context
         /\ frame'.replaced = changed.replaced /\ frame'.kept = changed.kept
         /\ frame'.selected = changed.selected /\ frame'.read = changed.read \cup {a}
BY DEF Reading, IsFrame

LEMMA ReadingOrder ==
  ASSUME OrderInv, NEW a, NEW changed, Reading(a, changed), IsFrame(changed),
         changed.start = frame.start, changed.read = frame.read, IsFormed(changed.context),
         Timeless /\ a.fn # "period" => Fits(registry, changed, frame.read \cup {a})
  PROVE  FormInv' /\ ReadInv' /\ OrderMakesNoDifference'
<1>1. /\ stage = "arguments" /\ stage' = stage /\ local' = local /\ registry' = registry
      /\ frame'.start = changed.start /\ frame'.context = changed.context
      /\ frame'.replaced = changed.replaced /\ frame'.kept = changed.kept
      /\ frame'.selected = changed.selected /\ frame'.read = changed.read \cup {a}
  BY ReadOn
<1>2. FormInv'
  BY <1>1 DEF OrderInv, FormInv
<1>3. ReadInv'
  <2> SUFFICES ASSUME Timeless' PROVE Fits(registry', frame', frame'.read)
    BY DEF ReadInv
  <2>1. Timeless /\ a.fn # "period"
    BY <1>1 DEF Timeless
  <2> QED
    BY <1>1, <2>1 DEF Fits
<1> QED
  BY <1>1, <1>2, <1>3 DEF OrderMakesNoDifference

\* The filters of the arguments read are applied in the order that their meaning
\* has: what replaces, what narrows, and ALLSELECTED.
LEMMA MeaningOfBase ==
  ASSUME NEW c, NEW A, IsFormed(c)
  PROVE  Meaning(c, A)
           = Restored(AppliedKeep(Applied(Base(registry, c, A), Conditions(A, FALSE)), Conditions(A, TRUE)),
                      Selected(A))
<1> DEFINE i  == c.inner
           o  == c.outer
           s  == c.security
           u  == c.used
           K  == Cleared(A)
           R  == Conditions(A, FALSE)
           N  == Conditions(A, TRUE)
           S  == Selected(A)
           U  == Activated(registry, A)
           i0 == Without(i, K)
           i1 == Over(i0, R)
           i2 == Both(i1, N)
           i3 == Without(i2, S)
           o0 == Without(o, K)
           v  == u \cup U
<1>1. c = Context(i, o, s, u)
  BY DEF IsFormed
<1>2. Base(registry, c, A) = Context(i0, o0, s, v)
  BY DEF Base
<1>3. Meaning(c, A) = Activating(Restored(AppliedKeep(Applied(Removed(c, K), R), N), S), U)
  BY DEF Meaning, Cleared, Selected, Activated
<1> HIDE DEF i, o, s, u, K, R, N, S, U
<1>4. Removed(c, K) = Context(i0, o0, s, u)
  BY <1>1, RemovedParts
<1> HIDE DEF i0, o0
<1>5. Applied(Context(i0, o0, s, u), R) = Context(i1, o0, s, u) /\ Applied(Context(i0, o0, s, v), R) = Context(i1, o0, s, v)
  BY AppliedParts
<1> HIDE DEF i1
<1>6. AppliedKeep(Context(i1, o0, s, u), N) = Context(i2, o0, s, u) /\ AppliedKeep(Context(i1, o0, s, v), N) = Context(i2, o0, s, v)
  BY AppliedKeepParts
<1> HIDE DEF i2
<1>7. Restored(Context(i2, o0, s, u), S) = Context(i3, o0, s, u) /\ Restored(Context(i2, o0, s, v), S) = Context(i3, o0, s, v)
  BY RestoredParts
<1> HIDE DEF i3
<1>8. Activating(Context(i3, o0, s, u), U) = Context(i3, o0, s, v)
  BY ActivatingParts
<1>9. Meaning(c, A) = Restored(AppliedKeep(Applied(Base(registry, c, A), R), N), S)
  BY <1>2, <1>3, <1>4, <1>5, <1>6, <1>7, <1>8
<1> QED
  BY <1>9 DEF R, N, S

LEMMA InitOrder == Init => OrderInv
<1> SUFFICES ASSUME Init PROVE OrderInv
  OBVIOUS
<1>1. IsFormed(local)
  <2>1. Empty = Context(None, None, None, {})
    BY DEF Empty, Context
  <2>2. PICK s : local = [Empty EXCEPT !.security = s]
    BY DEF Init
  <2>3. local = Context(None, None, s, {})
    BY <2>1, <2>2 DEF Context
  <2> QED
    BY <2>3, FunctionsMade, FormedContext
<1> QED
  BY <1>1, InitRules DEF Init, OrderInv, FormInv, ReadInv, OrderMakesNoDifference

LEMMA RemovingOrder ==
  ASSUME OrderInv, NEW a \in AllArguments, RemovingArgument(a)
  PROVE  FormInv' /\ ReadInv' /\ OrderMakesNoDifference'
<1> DEFINE new == Removed(frame.context, ClearedBy(a))
           changed == [frame EXCEPT !.context = new]
<1>1. Reading(a, changed) /\ stage = "arguments"
  BY DEF RemovingArgument, Reading
<1>2. IsFrame(frame)
  BY DEF OrderInv, RulesInv
<1>3. IsFormed(new)
  BY <1>1, ChangedFormed DEF OrderInv, FormInv
<1> HIDE DEF new
<1>4. /\ IsFrame(changed) /\ changed.context = new /\ changed.start = frame.start
      /\ changed.read = frame.read /\ changed.replaced = frame.replaced
      /\ changed.kept = frame.kept /\ changed.selected = frame.selected
  BY <1>2 DEF IsFrame
<1> HIDE DEF changed
<1>5. ASSUME Timeless PROVE Fits(registry, changed, frame.read \cup {a})
  <2>1. Fits(registry, frame, frame.read)
    BY <1>1, <1>5 DEF OrderInv, ReadInv
  <2>2. a.fn \in {"REMOVEFILTERS", "ALL", "ALLEXCEPT"}
    BY DEF RemovingArgument
  <2>3. new = Base(registry, frame.start, frame.read \cup {a})
    BY <2>1, <2>2, BaseRemoved DEF Fits, new
  <2>4. /\ Conditions(frame.read \cup {a}, FALSE) = Conditions(frame.read, FALSE)
        /\ Conditions(frame.read \cup {a}, TRUE) = Conditions(frame.read, TRUE)
    BY <2>2, OtherConditions
  <2>5. Selected(frame.read \cup {a}) = Selected(frame.read)
    BY <2>2, NotSelected
  <2> QED
    BY <1>4, <2>1, <2>3, <2>4, <2>5 DEF Fits
<1> QED
  BY <1>1, <1>3, <1>4, <1>5, ReadingOrder

LEMMA AllSelectedOrder ==
  ASSUME OrderInv, NEW a \in AllArguments, AllSelectedArgument(a)
  PROVE  FormInv' /\ ReadInv' /\ OrderMakesNoDifference'
<1> DEFINE new == frame.selected \cup SelectedBy(a)
           changed == [frame EXCEPT !.selected = new]
<1>1. Reading(a, changed) /\ stage = "arguments" /\ a.fn = "ALLSELECTED"
  BY DEF AllSelectedArgument, Reading
<1>2. IsFrame(frame)
  BY DEF OrderInv, RulesInv
<1> HIDE DEF new
<1>3. /\ IsFrame(changed) /\ changed.selected = new /\ changed.context = frame.context
      /\ changed.start = frame.start /\ changed.read = frame.read
      /\ changed.replaced = frame.replaced /\ changed.kept = frame.kept
  BY <1>2 DEF IsFrame
<1>4. IsFormed(changed.context)
  BY <1>1, <1>3 DEF OrderInv, FormInv
<1> HIDE DEF changed
<1>5. ASSUME Timeless PROVE Fits(registry, changed, frame.read \cup {a})
  <2>1. Fits(registry, frame, frame.read)
    BY <1>1, <1>5 DEF OrderInv, ReadInv
  <2>2. ClearedBy(a) = {}
    BY <1>1 DEF ClearedBy
  <2>3. frame.context = Base(registry, frame.start, frame.read \cup {a})
    BY <1>1, <2>1, <2>2, BaseKept DEF Fits
  <2>4. /\ Conditions(frame.read \cup {a}, FALSE) = Conditions(frame.read, FALSE)
        /\ Conditions(frame.read \cup {a}, TRUE) = Conditions(frame.read, TRUE)
    BY <1>1, OtherConditions
  <2>5. Selected(frame.read \cup {a}) = new
    BY <2>1, OneMore DEF Fits, new
  <2> QED
    BY <1>3, <2>1, <2>3, <2>4, <2>5 DEF Fits
<1> QED
  BY <1>1, <1>3, <1>4, <1>5, ReadingOrder

LEMMA RelationshipOrder ==
  ASSUME OrderInv, NEW a \in AllArguments, RelationshipArgument(a)
  PROVE  FormInv' /\ ReadInv' /\ OrderMakesNoDifference'
<1> DEFINE new == Activating(frame.context, {r.id : r \in {q \in Range(registry) : q.id = a.rel}})
           changed == [frame EXCEPT !.context = new]
<1>1. Reading(a, changed) /\ stage = "arguments" /\ a.fn = "USERELATIONSHIP"
  BY DEF RelationshipArgument, Reading
<1>2. IsFrame(frame)
  BY DEF OrderInv, RulesInv
<1>3. IsFormed(new)
  BY <1>1, ChangedFormed DEF OrderInv, FormInv
<1>4. Fits(registry, frame, frame.read) => new = Base(registry, frame.start, frame.read \cup {a})
  BY <1>1, BaseActivated DEF Fits
<1> HIDE DEF new
<1>5. /\ IsFrame(changed) /\ changed.context = new /\ changed.start = frame.start
      /\ changed.read = frame.read /\ changed.replaced = frame.replaced
      /\ changed.kept = frame.kept /\ changed.selected = frame.selected
  BY <1>2 DEF IsFrame
<1> HIDE DEF changed
<1>6. ASSUME Timeless PROVE Fits(registry, changed, frame.read \cup {a})
  <2>1. Fits(registry, frame, frame.read)
    BY <1>1, <1>6 DEF OrderInv, ReadInv
  <2>2. /\ Conditions(frame.read \cup {a}, FALSE) = Conditions(frame.read, FALSE)
        /\ Conditions(frame.read \cup {a}, TRUE) = Conditions(frame.read, TRUE)
    BY <1>1, OtherConditions
  <2>3. Selected(frame.read \cup {a}) = Selected(frame.read)
    BY <1>1, NotSelected
  <2> QED
    BY <1>4, <1>5, <2>1, <2>2, <2>3 DEF Fits
<1> QED
  BY <1>1, <1>3, <1>5, <1>6, ReadingOrder

LEMMA PeriodOrder ==
  ASSUME OrderInv, NEW a \in AllArguments, PeriodArgument(a)
  PROVE  FormInv' /\ ReadInv' /\ OrderMakesNoDifference'
<1> DEFINE new == IF a.keep THEN AppliedKeep(frame.context, One(a.on, a.accept))
                            ELSE Applied(frame.context, One(a.on, a.accept))
           changed == [frame EXCEPT !.context = new]
<1>1. Reading(a, changed) /\ stage = "arguments" /\ a.fn = "period"
  BY DEF PeriodArgument, Reading
<1>2. IsFrame(frame)
  BY DEF OrderInv, RulesInv
<1>3. IsFormed(new)
  BY <1>1, ChangedFormed DEF OrderInv, FormInv
<1> HIDE DEF new
<1>4. /\ IsFrame(changed) /\ changed.context = new /\ changed.start = frame.start
      /\ changed.read = frame.read
  BY <1>2 DEF IsFrame
<1> QED
  BY <1>1, <1>3, <1>4, ReadingOrder

LEMMA FilterOrder ==
  ASSUME OrderInv, NEW a \in AllArguments, FilterArgument(a)
  PROVE  FormInv' /\ ReadInv' /\ OrderMakesNoDifference'
<1> DEFINE new == Removed(frame.context, ClearedBy(a))
           replaced == IF a.keep THEN frame.replaced ELSE Both(frame.replaced, One(a.on, a.accept))
           kept == IF a.keep THEN Both(frame.kept, One(a.on, a.accept)) ELSE frame.kept
           changed == [frame EXCEPT !.context = new, !.replaced = replaced, !.kept = kept]
<1>1. Reading(a, changed) /\ stage = "arguments" /\ a.fn = "filter"
  BY DEF FilterArgument, Reading
<1>2. IsFrame(frame)
  BY DEF OrderInv, RulesInv
<1>3. IsFormed(new)
  BY <1>1, ChangedFormed DEF OrderInv, FormInv
<1> HIDE DEF new, replaced, kept
<1>4. /\ IsFrame(changed) /\ changed.context = new /\ changed.start = frame.start
      /\ changed.read = frame.read /\ changed.replaced = replaced
      /\ changed.kept = kept /\ changed.selected = frame.selected
  BY <1>2 DEF IsFrame
<1> HIDE DEF changed
<1>5. ASSUME Timeless PROVE Fits(registry, changed, frame.read \cup {a})
  <2>1. Fits(registry, frame, frame.read)
    BY <1>1, <1>5 DEF OrderInv, ReadInv
  <2>2. new = Base(registry, frame.start, frame.read \cup {a})
    BY <1>1, <2>1, BaseRemoved DEF Fits, new
  <2>3. a.keep \in BOOLEAN /\ a.accept \subseteq Values
    BY ArgumentsAssumption
  <2>4. /\ replaced = Conditions(frame.read \cup {a}, FALSE)
        /\ kept = Conditions(frame.read \cup {a}, TRUE)
    <3>1. CASE a.keep
      <4>1. a.keep = TRUE
        BY <2>3, <3>1
      <4>2. Conditions(frame.read \cup {a}, FALSE) = Conditions(frame.read, FALSE)
        BY <4>1, OtherConditions
      <4>3. Conditions(frame.read \cup {a}, TRUE) = Both(Conditions(frame.read, TRUE), One(a.on, a.accept))
        BY <1>1, <2>3, <4>1, OneCondition
      <4> QED
        BY <2>1, <3>1, <4>2, <4>3 DEF Fits, replaced, kept
    <3>2. CASE ~a.keep
      <4>1. a.keep = FALSE
        BY <2>3, <3>2
      <4>2. Conditions(frame.read \cup {a}, TRUE) = Conditions(frame.read, TRUE)
        BY <4>1, OtherConditions
      <4>3. Conditions(frame.read \cup {a}, FALSE) = Both(Conditions(frame.read, FALSE), One(a.on, a.accept))
        BY <1>1, <2>3, <4>1, OneCondition
      <4> QED
        BY <2>1, <3>2, <4>2, <4>3 DEF Fits, replaced, kept
    <3> QED
      BY <3>1, <3>2
  <2>5. Selected(frame.read \cup {a}) = Selected(frame.read)
    BY <1>1, NotSelected
  <2> QED
    BY <1>4, <2>1, <2>2, <2>4, <2>5 DEF Fits
<1> QED
  BY <1>1, <1>3, <1>4, <1>5, ReadingOrder

LEMMA FinishOrder ==
  ASSUME OrderInv, FinishArguments
  PROVE  FormInv' /\ ReadInv' /\ OrderMakesNoDifference'
<1> DEFINE new == Restored(AppliedKeep(Applied(frame.context, frame.replaced), frame.kept), frame.selected)
<1>1. /\ stage = "arguments" /\ stage' = "inner" /\ registry' = registry
      /\ frame' = [frame EXCEPT !.context = new]
      /\ local' = IF frame.kind = "hoisted" THEN new ELSE local
  BY DEF FinishArguments
<1>2. IsFrame(frame)
  BY DEF OrderInv, RulesInv
<1>3. IsFormed(new)
  BY <1>1, ChangedFormed DEF OrderInv, FormInv
<1>4. Timeless => new = Meaning(frame.start, frame.read)
  BY <1>1, MeaningOfBase DEF OrderInv, FormInv, ReadInv, Fits
<1> HIDE DEF new
<1>5. frame'.context = new /\ frame'.start = frame.start /\ frame'.read = frame.read
  BY <1>1, <1>2 DEF IsFrame
<1>6. FormInv' /\ ReadInv'
  BY <1>1, <1>3, <1>5 DEF OrderInv, FormInv, ReadInv
<1>7. OrderMakesNoDifference'
  <2>1. Meaning(frame.start, frame.read)' = Meaning(frame.start, frame.read)
    BY <1>1, <1>5 DEF Meaning
  <2> QED
    BY <1>4, <1>5, <2>1 DEF OrderMakesNoDifference, Timeless
<1> QED
  BY <1>6, <1>7

LEMMA NextOrder == OrderInv /\ [Next]_vars => OrderInv'
<1> SUFFICES ASSUME OrderInv, [Next]_vars PROVE FormInv' /\ ReadInv' /\ OrderMakesNoDifference'
  BY NextRules DEF OrderInv
<1>1. CASE ApplyScopedFilter
  <2>1. IsFormed(local')
    BY <1>1, ChangedFormed DEF ApplyScopedFilter, OrderInv, FormInv
  <2> QED
    BY <1>1, <2>1 DEF ApplyScopedFilter, OrderInv, FormInv, ReadInv, OrderMakesNoDifference
<1>2. CASE Enter
  <2>1. IsFormed(local')
    BY <1>2, SetOuterFormed DEF Enter, OrderInv, FormInv
  <2> QED
    BY <1>2, <2>1 DEF Enter, FormInv, ReadInv, OrderMakesNoDifference
<1>3. ASSUME NEW home \in Facts, PlainMeasure(home) PROVE FormInv' /\ ReadInv' /\ OrderMakesNoDifference'
  BY <1>3 DEF PlainMeasure, OrderInv, FormInv, ReadInv, OrderMakesNoDifference
<1>4. ASSUME NEW home \in Facts, HoistedMeasure(home) PROVE FormInv' /\ ReadInv' /\ OrderMakesNoDifference'
  <2>1. IsFormed(local) /\ local' = local /\ frame' = Frame("hoisted", home, local) /\ stage' = "arguments"
    BY <1>4 DEF HoistedMeasure, OrderInv, FormInv
  <2>2. IsFormed(frame'.context) /\ IsFormed(frame'.start) /\ ReadInv'
    BY <2>1, NewFrame
  <2> QED
    BY <2>1, <2>2 DEF FormInv, OrderMakesNoDifference
<1>5. ASSUME NEW home \in Facts, NestedMeasure(home) PROVE FormInv' /\ ReadInv' /\ OrderMakesNoDifference'
  <2>1. IsFormed(local) /\ local' = local /\ frame' = Frame("nested", home, SetOuter(local)) /\ stage' = "arguments"
    BY <1>5 DEF NestedMeasure, OrderInv, FormInv
  <2>2. IsFormed(frame'.context) /\ IsFormed(frame'.start) /\ ReadInv'
    BY <2>1, NewFrame, SetOuterFormed
  <2> QED
    BY <2>1, <2>2 DEF FormInv, OrderMakesNoDifference
<1>6. CASE InnerAggregate
  BY <1>6 DEF InnerAggregate, OrderInv, FormInv, ReadInv, OrderMakesNoDifference
<1>7. CASE InnerCalculate
  <2>1. /\ IsFormed(local) /\ local' = local /\ IsFormed(frame.context)
        /\ frame' = Frame("nested", frame.home, SetOuter(frame.context)) /\ stage' = "arguments"
    BY <1>7 DEF InnerCalculate, OrderInv, FormInv
  <2>2. IsFormed(frame'.context) /\ IsFormed(frame'.start) /\ ReadInv'
    BY <2>1, NewFrame, SetOuterFormed
  <2> QED
    BY <2>1, <2>2 DEF FormInv, OrderMakesNoDifference
<1>8. CASE Finish
  BY <1>8 DEF Finish, OrderInv, FormInv, ReadInv, OrderMakesNoDifference
<1>9. CASE Done \/ UNCHANGED vars
  <2>1. stage' = stage /\ local' = local /\ frame' = frame /\ registry' = registry
    BY <1>9 DEF Done, vars
  <2>2. Meaning(frame.start, frame.read)' = Meaning(frame.start, frame.read)
    BY <2>1 DEF Meaning
  <2> QED
    BY <2>1, <2>2 DEF OrderInv, FormInv, ReadInv, Timeless, OrderMakesNoDifference
<1> QED
  BY <1>1, <1>2, <1>3, <1>4, <1>5, <1>6, <1>7, <1>8, <1>9, RemovingOrder, AllSelectedOrder,
     RelationshipOrder, PeriodOrder, FilterOrder, FinishOrder DEF Next

\* The arguments of a CALCULATE mean the same in whatever order they are read,
\* unless one of them is a period.
THEOREM ArgumentsHaveNoOrder == Spec => []OrderMakesNoDifference
<1>1. OrderInv => OrderMakesNoDifference
  BY DEF OrderInv
<1> QED
  BY <1>1, InitOrder, NextOrder, PTL DEF Spec

-----------------------------------------------------------------------------
(* The outer filters of every context on the way are those the query came with, but
   for keys that were taken off on purpose, until those of a CALCULATE are captured. *)
SameOuter(c) == \A k : k \notin lifted => Same(c.outer, entered.outer, k)

OuterInv ==
  /\ stage = "filters" => local.outer = None
  /\ stage # "filters" => entered.outer = entered.inner
  /\ stage # "filters" /\ ~captured =>
       /\ SameOuter(local)
       /\ stage \in {"arguments", "inner"} => SameOuter(frame.context)
  /\ stage = "inner" => DOMAIN frame.context.inner \cap frame.selected = {}

LEMMA OuterParts ==
  ASSUME NEW c, NEW rules, Ruled(c, rules), NEW f, NEW K
  PROVE  /\ Applied(c, f).outer = c.outer /\ AppliedKeep(c, f).outer = c.outer
         /\ Activating(c, K).outer = c.outer /\ Restored(c, K).outer = c.outer
         /\ Removed(c, K).outer = Without(c.outer, K)
         /\ Restored(c, K).inner = Without(c.inner, K)
         /\ SetOuter(c).inner = c.inner
BY DEF Ruled, IsContext, Applied, AppliedKeep, Activating, Restored, Removed, SetOuter

\* A context whose inner filters are the outer ones, or which has no inner filter of
\* a key, has the outer filter in effect, and the rules.
LEMMA OuterInEffect ==
  ASSUME NEW c, NEW k, k \notin DOMAIN c.inner \/ c.inner = c.outer
  PROVE  Same(Effective(c), Both(c.outer, c.security), k)
<1>1. Same(Over(c.outer, c.inner), c.outer, k)
  BY DEF Over, Same
<1> QED
  BY <1>1 DEF Effective, Both, Same

LEMMA SameRules ==
  ASSUME NEW f, NEW g, NEW s, NEW k, Same(f, g, k)
  PROVE  Same(Both(f, s), Both(g, s), k)
BY DEF Same, Both

LEMMA AllSelected ==
  ASSUME RulesInv, OuterInv
  PROVE  AllSelectedRestores
<1> SUFFICES ASSUME stage = "inner", ~captured, NEW k \in frame.selected \ lifted
             PROVE  Same(Effective(frame.context), Effective(entered), k)
  BY DEF AllSelectedRestores
<1>1. Same(frame.context.outer, entered.outer, k)
  BY DEF OuterInv, SameOuter
<1>2. Same(Effective(frame.context), Both(frame.context.outer, frame.context.security), k)
  BY OuterInEffect DEF OuterInv
<1>3. Same(Effective(entered), Both(entered.outer, entered.security), k)
  BY OuterInEffect DEF OuterInv
<1>4. frame.context.security = entered.security
  BY DEF RulesInv, Ruled, Rules
<1>5. Same(Both(frame.context.outer, entered.security), Both(entered.outer, entered.security), k)
  BY <1>1, SameRules
<1> QED
  BY <1>2, <1>3, <1>4, <1>5 DEF Same

LEMMA ReadingOuter ==
  ASSUME RulesInv, OuterInv, NEW a, NEW changed, Reading(a, changed), IsFrame(changed),
         \/ changed.context.outer = frame.context.outer
         \/ changed.context.outer = Without(frame.context.outer, ClearedBy(a))
  PROVE  OuterInv'
<1>1. /\ stage = "arguments" /\ stage' = stage /\ local' = local
      /\ frame'.context = changed.context
  BY ReadOn
<1>2. lifted' = lifted \cup ClearedBy(a) /\ entered' = entered /\ captured' = captured
  BY DEF Reading
<1>3. ASSUME ~captured PROVE SameOuter(local)' /\ SameOuter(frame.context)'
  <2>1. SameOuter(local) /\ SameOuter(frame.context)
    BY <1>1, <1>3 DEF OuterInv
  <2>2. SameOuter(local)'
    BY <1>1, <1>2, <2>1 DEF SameOuter
  <2>3. ASSUME NEW k, k \notin lifted' PROVE Same(changed.context.outer, entered.outer, k)
    <3>1. k \notin lifted /\ k \notin ClearedBy(a)
      BY <1>2, <2>3
    <3>2. Same(frame.context.outer, entered.outer, k)
      BY <2>1, <3>1 DEF SameOuter
    <3> QED
      BY <3>1, <3>2 DEF Same, Without
  <2> QED
    BY <1>1, <1>2, <2>2, <2>3 DEF SameOuter
<1> QED
  BY <1>1, <1>2, <1>3 DEF OuterInv

LEMMA NextOuter == RulesInv /\ OuterInv /\ [Next]_vars => OuterInv'
<1> SUFFICES ASSUME RulesInv, OuterInv, [Next]_vars PROVE OuterInv'
  OBVIOUS
<1>1. CASE ApplyScopedFilter
  <2>1. local'.outer = local.outer
    BY <1>1, OuterParts DEF ApplyScopedFilter, RulesInv
  <2> QED
    BY <1>1, <2>1 DEF ApplyScopedFilter, OuterInv
<1>2. CASE Enter
  <2>1. local.outer = None /\ local' = SetOuter(local) /\ entered' = local' /\ stage' = "measure"
    BY <1>2 DEF Enter, OuterInv
  <2>2. local' = [local EXCEPT !.outer = local.inner]
    BY <2>1 DEF SetOuter
  <2>3. local'.outer = local'.inner
    BY <2>2 DEF RulesInv, Ruled, IsContext
  <2> QED
    BY <2>1, <2>3 DEF OuterInv, SameOuter, Same
<1>3. ASSUME NEW home \in Facts, PlainMeasure(home) PROVE OuterInv'
  BY <1>3 DEF PlainMeasure, OuterInv, SameOuter
<1>4. ASSUME NEW home \in Facts, HoistedMeasure(home) PROVE OuterInv'
  <2>1. frame'.context = local
    BY <1>4, FrameParts DEF HoistedMeasure
  <2> QED
    BY <1>4, <2>1 DEF HoistedMeasure, OuterInv, SameOuter
<1>5. ASSUME NEW home \in Facts, NestedMeasure(home) PROVE OuterInv'
  <2>1. frame'.context = SetOuter(local)
    BY <1>5, FrameParts DEF NestedMeasure
  <2>2. ~captured' => ~captured /\ SetOuter(local) = local
    BY <1>5 DEF NestedMeasure, Captures
  <2> QED
    BY <1>5, <2>1, <2>2 DEF NestedMeasure, OuterInv, SameOuter
<1>6. ASSUME NEW a \in AllArguments, RemovingArgument(a) PROVE OuterInv'
  <2> DEFINE new == Removed(frame.context, ClearedBy(a))
             changed == [frame EXCEPT !.context = new]
  <2>1. Reading(a, changed) /\ stage = "arguments"
    BY <1>6 DEF RemovingArgument, Reading
  <2>2. new.outer = Without(frame.context.outer, ClearedBy(a))
    BY <2>1, OuterParts DEF RulesInv
  <2> HIDE DEF new
  <2>3. IsFrame(changed) /\ changed.context = new
    BY DEF RulesInv, IsFrame
  <2> QED
    BY <2>1, <2>2, <2>3, ReadingOuter
<1>7. ASSUME NEW a \in AllArguments, AllSelectedArgument(a) PROVE OuterInv'
  <2> DEFINE changed == [frame EXCEPT !.selected = @ \cup SelectedBy(a)]
  <2>1. Reading(a, changed)
    BY <1>7 DEF AllSelectedArgument
  <2>2. IsFrame(changed) /\ changed.context = frame.context
    BY DEF RulesInv, IsFrame
  <2> QED
    BY <2>1, <2>2, ReadingOuter
<1>8. ASSUME NEW a \in AllArguments, RelationshipArgument(a) PROVE OuterInv'
  <2> DEFINE new == Activating(frame.context, {r.id : r \in {q \in Range(registry) : q.id = a.rel}})
             changed == [frame EXCEPT !.context = new]
  <2>1. Reading(a, changed) /\ stage = "arguments"
    BY <1>8 DEF RelationshipArgument, Reading
  <2>2. new.outer = frame.context.outer
    BY <2>1, OuterParts DEF RulesInv
  <2> HIDE DEF new
  <2>3. IsFrame(changed) /\ changed.context = new
    BY DEF RulesInv, IsFrame
  <2> QED
    BY <2>1, <2>2, <2>3, ReadingOuter
<1>9. ASSUME NEW a \in AllArguments, PeriodArgument(a) PROVE OuterInv'
  <2> DEFINE new == IF a.keep THEN AppliedKeep(frame.context, One(a.on, a.accept))
                              ELSE Applied(frame.context, One(a.on, a.accept))
             changed == [frame EXCEPT !.context = new]
  <2>1. Reading(a, changed) /\ stage = "arguments"
    BY <1>9 DEF PeriodArgument, Reading
  <2>2. new.outer = frame.context.outer
    BY <2>1, OuterParts DEF RulesInv
  <2> HIDE DEF new
  <2>3. IsFrame(changed) /\ changed.context = new
    BY DEF RulesInv, IsFrame
  <2> QED
    BY <2>1, <2>2, <2>3, ReadingOuter
<1>10. ASSUME NEW a \in AllArguments, FilterArgument(a) PROVE OuterInv'
  <2> DEFINE new == Removed(frame.context, ClearedBy(a))
             replaced == IF a.keep THEN frame.replaced ELSE Both(frame.replaced, One(a.on, a.accept))
             kept == IF a.keep THEN Both(frame.kept, One(a.on, a.accept)) ELSE frame.kept
             changed == [frame EXCEPT !.context = new, !.replaced = replaced, !.kept = kept]
  <2>1. Reading(a, changed) /\ stage = "arguments"
    BY <1>10 DEF FilterArgument, Reading
  <2>2. new.outer = Without(frame.context.outer, ClearedBy(a))
    BY <2>1, OuterParts DEF RulesInv
  <2> HIDE DEF new, replaced, kept
  <2>3. IsFrame(changed) /\ changed.context = new
    BY DEF RulesInv, IsFrame
  <2> QED
    BY <2>1, <2>2, <2>3, ReadingOuter
<1>11. CASE FinishArguments
  <2> DEFINE c == AppliedKeep(Applied(frame.context, frame.replaced), frame.kept)
             new == Restored(c, frame.selected)
  <2>1. /\ stage = "arguments" /\ stage' = "inner" /\ entered' = entered
        /\ captured' = captured /\ lifted' = lifted
        /\ frame' = [frame EXCEPT !.context = new]
        /\ local' = IF frame.kind = "hoisted" THEN new ELSE local
    BY <1>11 DEF FinishArguments
  <2>2. Ruled(frame.context, Rules) /\ IsFrame(frame)
    BY <2>1 DEF RulesInv
  <2>3. c.outer = frame.context.outer /\ Ruled(c, Rules)
    BY <2>2, AppliedRuled, OuterParts
  <2> HIDE DEF c
  <2>4. new.outer = frame.context.outer /\ new.inner = Without(c.inner, frame.selected)
    BY <2>3, OuterParts
  <2>5. DOMAIN new.inner \cap frame.selected = {}
    BY <2>4 DEF Without
  <2> HIDE DEF new
  <2>6. frame'.context = new /\ frame'.selected = frame.selected
    BY <2>1, <2>2 DEF IsFrame
  <2>7. ASSUME ~captured PROVE SameOuter(local)' /\ SameOuter(frame.context)'
    <3>1. \A k : k \notin lifted => Same(new.outer, entered.outer, k) /\ Same(local.outer, entered.outer, k)
      BY <2>1, <2>4, <2>7 DEF OuterInv, SameOuter
    <3>2. local' = new \/ local' = local
      BY <2>1
    <3>3. SameOuter(local)'
      BY <2>1, <3>1, <3>2 DEF SameOuter
    <3>4. SameOuter(frame.context)'
      BY <2>1, <2>6, <3>1 DEF SameOuter
    <3> QED
      BY <3>3, <3>4
  <2>8. DOMAIN frame'.context.inner \cap frame'.selected = {}
    BY <2>5, <2>6
  <2> QED
    BY <2>1, <2>7, <2>8 DEF OuterInv
<1>12. CASE InnerAggregate
  <2>1. ~captured' => ~captured
    BY <1>12 DEF InnerAggregate, Captures
  <2> QED
    BY <1>12, <2>1 DEF InnerAggregate, OuterInv, SameOuter
<1>13. CASE InnerCalculate
  <2>1. frame'.context = SetOuter(frame.context)
    BY <1>13, FrameParts DEF InnerCalculate
  <2>2. ~captured' => ~captured /\ SetOuter(frame.context) = frame.context
    BY <1>13 DEF InnerCalculate, Captures
  <2> QED
    BY <1>13, <2>1, <2>2 DEF InnerCalculate, OuterInv, SameOuter
<1>14. CASE Finish
  BY <1>14 DEF Finish, OuterInv, SameOuter
<1>15. CASE Done \/ UNCHANGED vars
  <2>1. /\ stage' = stage /\ local' = local /\ frame' = frame /\ entered' = entered
        /\ lifted' = lifted /\ captured' = captured
    BY <1>15 DEF Done, vars
  <2> QED
    BY <2>1 DEF OuterInv, SameOuter
<1> QED
  BY <1>1, <1>2, <1>3, <1>4, <1>5, <1>6, <1>7, <1>8, <1>9, <1>10, <1>11, <1>12, <1>13,
     <1>14, <1>15 DEF Next

\* ALLSELECTED of a key has the filter the query came with in effect again, however
\* deep the CALCULATE is and whatever those around it set.
THEOREM AllSelectedAlwaysRestores == Spec => []AllSelectedRestores
<1>1. Init => OuterInv
  <2> SUFFICES ASSUME Init PROVE OuterInv
    OBVIOUS
  <2>1. local.outer = None
    BY DEF Init, Empty
  <2> QED
    BY <2>1 DEF Init, OuterInv
<1> QED
  BY <1>1, InitRules, NextRules, NextOuter, AllSelected, PTL DEF Spec
-----------------------------------------------------------------------------
(* The relationships of a query, and what their steps lead to.  Of a set of
   numbers there is a least: this is what stands for induction.               *)
LEMMA Least ==
  ASSUME NEW S, S \subseteq Nat, S # {}
  PROVE  \E n \in S : \A m \in S : n <= m
<1> DEFINE below == OpToRel(<, Nat)
<1>1. IsWellFoundedOn(below, Nat)
  BY NatLessThanWellFounded
<1>2. \A m, k \in Nat : m < k => <<m, k>> \in below
  BY DEF OpToRel
<1> HIDE DEF below
<1>3. PICK n \in S : \A m \in S : <<m, n>> \notin below
  BY <1>1, WFMin
<1>4. ASSUME NEW m \in S PROVE n <= m
  <2>1. m \in Nat /\ n \in Nat
    OBVIOUS
  <2>2. ~(m < n)
    BY <1>2, <1>3, <2>1
  <2> QED
    BY <2>1, <2>2
<1> QED
  BY <1>4

LEMMA LeastIsMin ==
  ASSUME NEW S, S \subseteq Nat, S # {}
  PROVE  Min(S) \in S /\ \A m \in S : Min(S) <= m
BY Least DEF Min

LEMMA ReachedStart ==
  ASSUME NEW steps, NEW t \in Tables
  PROVE  t \in Reached(steps, t)
BY DEF Reached

LEMMA ReachedOn ==
  ASSUME NEW steps, NEW t, NEW s \in steps, s[1] \in Reached(steps, t), s[2] \in Tables
  PROVE  s[2] \in Reached(steps, t)
BY DEF Reached

LEMMA ReachedWithin ==
  ASSUME NEW steps, NEW t, NEW S, S \subseteq Tables, t \in S,
         \A s \in steps : s[1] \in S => s[2] \in S
  PROVE  Reached(steps, t) \subseteq S
BY DEF Reached

\* What a query uses: each pair of tables once.
IsUsed(used) ==
  /\ DOMAIN used \subseteq Nat
  /\ \A i \in DOMAIN used : IsRelationship(used[i])
  /\ \A i, j \in DOMAIN used : Pair(used[i]) = Pair(used[j]) => i = j

LEMMA ChosenOfPair ==
  ASSUME NEW reg, IsRegistry(reg), NEW overrides, NEW i \in DOMAIN reg
  PROVE  /\ Pair(Chosen(reg, overrides, Pair(reg[i]))) = Pair(reg[i])
         /\ IsRelationship(Chosen(reg, overrides, Pair(reg[i])))
<1> DEFINE between    == {j \in DOMAIN reg : Pair(reg[j]) = Pair(reg[i])}
           overridden == {j \in between : reg[j].id \in overrides}
           active     == {j \in between : reg[j].active}
           S == IF overridden # {} THEN overridden ELSE IF active # {} THEN active ELSE between
<1>1. S \subseteq between /\ S # {}
  OBVIOUS
<1>2. S \subseteq Nat
  BY <1>1 DEF IsRegistry
<1>3. Chosen(reg, overrides, Pair(reg[i])) = reg[Min(S)]
  BY DEF Chosen
<1> HIDE DEF S
<1>4. Min(S) \in between
  BY <1>1, <1>2, LeastIsMin
<1> QED
  BY <1>3, <1>4 DEF IsRegistry

LEMMA UsedIsUsed ==
  ASSUME NEW reg, IsRegistry(reg), NEW overrides
  PROVE  IsUsed(Used(reg, overrides))
<1> DEFINE used == Used(reg, overrides)
<1>1. DOMAIN used = Firsts(reg) /\ Firsts(reg) \subseteq DOMAIN reg /\ DOMAIN reg \subseteq Nat
  BY DEF Used, Firsts, IsRegistry
<1>2. \A i \in DOMAIN used : used[i] = Chosen(reg, overrides, Pair(reg[i]))
  BY DEF Used
<1> HIDE DEF used
<1>3. \A i \in DOMAIN used : Pair(used[i]) = Pair(reg[i]) /\ IsRelationship(used[i])
  BY <1>1, <1>2, ChosenOfPair
<1>4. ASSUME NEW i \in DOMAIN used, NEW j \in DOMAIN used, Pair(used[i]) = Pair(used[j])
      PROVE  i = j
  <2>1. Pair(reg[i]) = Pair(reg[j]) /\ i \in Firsts(reg) /\ j \in Firsts(reg)
    BY <1>1, <1>3, <1>4
  <2>2. i <= j /\ j <= i /\ i \in Nat /\ j \in Nat
    BY <1>1, <2>1 DEF Firsts
  <2> QED
    BY <2>2
<1>5. DOMAIN used \subseteq Nat
  BY <1>1
<1> QED
  BY <1>3, <1>4, <1>5 DEF used, IsUsed
-----------------------------------------------------------------------------
(* The search: a queue of different tables, each but the first related to one
   before it.                                                                 *)
IsSearch(used, root, q) ==
  /\ q \in Seq(Tables) /\ Len(q) >= 1 /\ q[1] = root
  /\ \A m, n \in 1..Len(q) : q[m] = q[n] => m = n
  /\ \A n \in 2..Len(q) : \E m \in 1..(n - 1) : Related(used, q[m], q[n])

IsComplete(used, q) == \A n \in DOMAIN q : Finds(used, q, n) = {}

LEMMA OtherEnd ==
  ASSUME NEW r, IsRelationship(r), NEW t \in Pair(r)
  PROVE  Other(r, t) \in Tables /\ t \in Tables /\ Pair(r) = {t, Other(r, t)}
BY DEF IsRelationship, Pair, Other

LEMMA FirstSearch ==
  ASSUME NEW used, NEW root \in Tables
  PROVE  IsSearch(used, root, <<root>>)
BY DEF IsSearch

LEMMA VisitIsSearch ==
  ASSUME NEW used, IsUsed(used), NEW root, NEW q, IsSearch(used, root, q)
  PROVE  /\ IsSearch(used, root, Visit(used, q))
         /\ \/ IsComplete(used, q) /\ Visit(used, q) = q
            \/ Len(Visit(used, q)) = Len(q) + 1
<1> DEFINE finding == {n \in DOMAIN q : Finds(used, q, n) # {}}
<1>1. CASE finding = {}
  BY <1>1 DEF Visit, IsComplete
<1>2. CASE finding # {}
  <2> DEFINE n == Min(finding)
             i == Min(Finds(used, q, n))
             u == Other(used[i], q[n])
  <2>1. q \in Seq(Tables) /\ DOMAIN q = 1..Len(q) /\ Len(q) \in Nat
    BY DEF IsSearch
  <2>2. finding \subseteq Nat
    BY <2>1
  <2>3. n \in finding
    BY <1>2, <2>2, LeastIsMin
  <2>4. Visit(used, q) = Append(q, u)
    BY <1>2 DEF Visit
  <2> HIDE DEF n
  <2>5. n \in 1..Len(q) /\ Finds(used, q, n) # {} /\ Finds(used, q, n) \subseteq Nat
    BY <2>1, <2>3 DEF Finds, IsUsed
  <2>6. i \in Finds(used, q, n)
    BY <2>5, LeastIsMin
  <2> HIDE DEF i
  <2>7. i \in DOMAIN used /\ q[n] \in Pair(used[i]) /\ u \notin ToSet(q)
    BY <2>6 DEF Finds
  <2>8. u \in Tables /\ Pair(used[i]) = {q[n], u}
    BY <2>7, OtherEnd DEF IsUsed
  <2> HIDE DEF u, finding
  <2>9. \A m \in 1..Len(q) : q[m] # u
    BY <2>1, <2>7 DEF ToSet
  <2>10. Related(used, q[n], u)
    BY <2>5, <2>7, <2>8, <2>9 DEF Related
  <2> DEFINE p == Append(q, u)
  <2>11. /\ p \in Seq(Tables) /\ Len(p) = Len(q) + 1
         /\ \A m \in 1..Len(q) : p[m] = q[m]
         /\ p[Len(q) + 1] = u
    BY <2>1, <2>8
  <2> HIDE DEF p
  <2>12. \A m, k \in 1..Len(p) : p[m] = p[k] => m = k
    BY <2>1, <2>9, <2>11 DEF IsSearch
  <2>13. \A k \in 2..Len(p) : \E m \in 1..(k - 1) : Related(used, p[m], p[k])
    <3>1. SUFFICES ASSUME NEW k \in 2..Len(p) PROVE \E m \in 1..(k - 1) : Related(used, p[m], p[k])
      OBVIOUS
    <3>2. CASE k = Len(q) + 1
      BY <3>2, <2>1, <2>5, <2>10, <2>11
    <3>3. CASE k # Len(q) + 1
      <4>1. k \in 2..Len(q)
        BY <3>3, <2>1, <2>11
      <4>2. PICK m \in 1..(k - 1) : Related(used, q[m], q[k])
        BY <4>1 DEF IsSearch
      <4> QED
        BY <4>1, <4>2, <2>1, <2>11
    <3> QED
      BY <3>2, <3>3
  <2>14. p[1] = root
    BY <2>1, <2>11 DEF IsSearch
  <2>15. IsSearch(used, root, p)
    BY <2>1, <2>11, <2>12, <2>13, <2>14 DEF IsSearch
  <2> QED
    BY <2>4, <2>11, <2>15 DEF p
<1> QED
  BY <1>1, <1>2

\* A search visits no more tables than there are.
LEMMA SearchIsShort ==
  ASSUME NEW used, NEW root, NEW q, IsSearch(used, root, q)
  PROVE  Len(q) <= Cardinality(Tables)
<1>1. q \in Seq(Tables) /\ DOMAIN q = 1..Len(q) /\ Len(q) \in Nat
  BY DEF IsSearch
<1>2. q \in Injection(1..Len(q), Tables)
  BY <1>1 DEF IsSearch, Injection, IsInjective
<1>3. Cardinality(1..Len(q)) <= Cardinality(Tables)
  BY <1>2, FS_Injection, TablesAssumption
<1>4. Cardinality(1..Len(q)) = Len(q)
  BY <1>1, FS_Interval
<1> QED
  BY <1>3, <1>4

\* The search exists: any number of steps can be made.
LEMMA SearchSteps ==
  ASSUME NEW used, NEW root
  PROVE  Search(used, root) =
           [n \in 0..Cardinality(Tables) |->
              IF n = 0 THEN <<root>> ELSE Visit(used, Search(used, root)[n - 1])]
<1> DEFINE Steps(f, m) == f = [n \in 0..m |-> IF n = 0 THEN <<root>> ELSE Visit(used, f[n - 1])]
           Bad == {m \in Nat : ~\E f : Steps(f, m)}
<1>1. Bad = {}
  <2> SUFFICES ASSUME Bad # {} PROVE FALSE
    OBVIOUS
  <2>1. PICK m \in Bad : \A k \in Bad : m <= k
    <3>1. Bad \subseteq Nat
      OBVIOUS
    <3> HIDE DEF Bad
    <3> QED
      BY <3>1, Least
  <2>2. m # 0
    <3>1. Steps([n \in 0..0 |-> <<root>>], 0)
      OBVIOUS
    <3> QED
      BY <2>1, <3>1
  <2>3. m \in Nat /\ m - 1 \in Nat /\ m - 1 \notin Bad
    BY <2>1, <2>2
  <2>4. PICK f : Steps(f, m - 1)
    BY <2>3
  <2> DEFINE g == [n \in 0..m |-> IF n < m THEN f[n] ELSE Visit(used, f[m - 1])]
  <2>5. \A n \in 0..m : g[n] = IF n = 0 THEN <<root>> ELSE Visit(used, g[n - 1])
    <3> SUFFICES ASSUME NEW n \in 0..m PROVE g[n] = IF n = 0 THEN <<root>> ELSE Visit(used, g[n - 1])
      OBVIOUS
    <3>1. CASE n = 0
      BY <3>1, <2>2, <2>3, <2>4
    <3>2. CASE n # 0 /\ n < m
      <4>1. n \in 0..(m - 1) /\ n - 1 \in 0..m /\ n - 1 < m
        BY <3>2, <2>3
      <4>2. f[n] = Visit(used, f[n - 1])
        BY <4>1, <3>2, <2>4
      <4> QED
        BY <4>1, <4>2, <3>2
    <3>3. CASE n = m
      <4>1. n - 1 \in 0..m /\ n - 1 < m /\ ~(n < m) /\ n # 0
        BY <3>3, <2>2, <2>3
      <4> QED
        BY <4>1, <3>3
    <3> QED
      BY <3>1, <3>2, <3>3, <2>3
  <2>6. Steps(g, m)
    <3>1. g = [n \in 0..m |-> g[n]]
      OBVIOUS
    <3> HIDE DEF g
    <3> QED
      BY <2>5, <3>1
  <2> QED
    BY <2>1, <2>6
<1>2. Cardinality(Tables) \in Nat
  BY FS_CardinalityType, TablesAssumption
<1>3. \E f : Steps(f, Cardinality(Tables))
  BY <1>1, <1>2
<1>4. Search(used, root) = CHOOSE f : Steps(f, Cardinality(Tables))
  BY DEF Search
<1> HIDE DEF Steps
<1>5. Steps(Search(used, root), Cardinality(Tables))
  BY <1>3, <1>4
<1> QED
  BY <1>5 DEF Steps

\* A step after which nothing more is found was the last; there is one, as each
\* step before it visits another table.
LEMMA SearchEnds ==
  ASSUME NEW used, IsUsed(used), NEW root \in Tables
  PROVE  IsSearch(used, root, Queue(used, root)) /\ IsComplete(used, Queue(used, root))
<1> DEFINE N == Cardinality(Tables)
           q == Search(used, root)
           Fine(n) == /\ IsSearch(used, root, q[n])
                      /\ Len(q[n]) = n + 1 \/ IsComplete(used, q[n])
           Bad == {n \in 0..N : ~Fine(n)}
<1>1. N \in Nat
  BY FS_CardinalityType, TablesAssumption
<1>2. \A n \in 0..N : q[n] = IF n = 0 THEN <<root>> ELSE Visit(used, q[n - 1])
  <2>1. q = [n \in 0..N |-> IF n = 0 THEN <<root>> ELSE Visit(used, q[n - 1])]
    BY SearchSteps
  <2> HIDE DEF q, N
  <2> QED
    BY <2>1
<1> HIDE DEF q, N
<1>3. Bad = {}
  <2> SUFFICES ASSUME Bad # {} PROVE FALSE
    OBVIOUS
  <2>1. PICK n \in Bad : \A k \in Bad : n <= k
    <3>1. Bad \subseteq Nat
      BY <1>1
    <3> HIDE DEF Bad
    <3> QED
      BY <3>1, Least
  <2>2. CASE n = 0
    <3>1. q[0] = <<root>>
      BY <1>1, <1>2
    <3>2. Fine(0)
      BY <3>1, FirstSearch
    <3> QED
      BY <2>1, <2>2, <3>2
  <2>3. CASE n # 0
    <3>1. n - 1 \in 0..N /\ n \in Nat /\ n - 1 \notin Bad
      BY <1>1, <2>1, <2>3
    <3>2. Fine(n - 1)
      BY <3>1
    <3>3. q[n] = Visit(used, q[n - 1])
      BY <1>2, <2>1, <2>3
    <3> DEFINE p == q[n - 1]
    <3>4. IsSearch(used, root, p) /\ (Len(p) = n \/ IsComplete(used, p))
      BY <3>1, <3>2
    <3> HIDE DEF p
    <3>5. /\ IsSearch(used, root, Visit(used, p))
          /\ \/ IsComplete(used, p) /\ Visit(used, p) = p
             \/ Len(Visit(used, p)) = Len(p) + 1
      BY <3>4, VisitIsSearch
    <3>6. Len(Visit(used, p)) = n + 1 \/ IsComplete(used, Visit(used, p))
      <4>1. CASE IsComplete(used, p) /\ Visit(used, p) = p
        BY <4>1
      <4>2. CASE Len(Visit(used, p)) = Len(p) + 1 /\ Len(p) = n
        BY <4>2
      <4>3. CASE Len(Visit(used, p)) = Len(p) + 1 /\ IsComplete(used, p)
        <5>1. Visit(used, p) = p
          BY <4>3 DEF Visit, IsComplete
        <5> QED
          BY <4>3, <5>1
      <4> QED
        BY <3>4, <3>5, <4>1, <4>2, <4>3
    <3>7. Fine(n)
      BY <3>3, <3>5, <3>6 DEF p
    <3> QED
      BY <2>1, <3>7
  <2> QED
    BY <2>2, <2>3
<1>4. Fine(N)
  BY <1>1, <1>3
<1>5. Len(q[N]) <= N /\ Len(q[N]) \in Nat
  <2> DEFINE p == q[N]
  <2>1. IsSearch(used, root, p)
    BY <1>4
  <2> HIDE DEF p
  <2>2. Len(p) <= N
    BY <2>1, SearchIsShort DEF N
  <2>3. Len(p) \in Nat
    BY <2>1 DEF IsSearch
  <2> QED
    BY <2>2, <2>3 DEF p
<1>6. IsComplete(used, q[N])
  BY <1>1, <1>4, <1>5
<1> QED
  BY <1>4, <1>6 DEF Queue, q, N

LEMMA CompletePairs ==
  ASSUME NEW used, IsUsed(used), NEW q, IsComplete(used, q),
         NEW i \in DOMAIN used, Pair(used[i]) \cap ToSet(q) # {}
  PROVE  Pair(used[i]) \subseteq ToSet(q)
<1>1. PICK n \in DOMAIN q : q[n] \in Pair(used[i])
  BY DEF ToSet
<1>2. Other(used[i], q[n]) \in ToSet(q)
  BY <1>1 DEF IsComplete, Finds
<1>3. Pair(used[i]) = {q[n], Other(used[i], q[n])}
  BY <1>1, OtherEnd DEF IsUsed
<1> QED
  BY <1>1, <1>2, <1>3 DEF ToSet

LEMMA DirectionEnds ==
  ASSUME NEW r, NEW d \in Directions(r)
  PROVE  Pair(r) = {d[1], d[2]}
BY DEF Directions, Pair

\* Filters reach the root from no table that the search does not find.
LEMMA PropagatingIsFound ==
  ASSUME NEW reg, IsRegistry(reg), NEW overrides, NEW root \in Tables
  PROVE  Propagating(reg, overrides, root) \subseteq ToSet(Queue(Used(reg, overrides), root))
<1> DEFINE used    == Used(reg, overrides)
           q       == Queue(used, root)
           enabled == {r \in Range(used) : Enabled(r, overrides)}
           steps   == {<<d[2], d[1]>> : d \in UNION {Directions(r) : r \in enabled}}
<1>1. IsUsed(used)
  BY UsedIsUsed
<1>2. Propagating(reg, overrides, root) = Reached(steps, root)
  BY DEF Propagating
<1> HIDE DEF used
<1>3. IsSearch(used, root, q) /\ IsComplete(used, q)
  BY <1>1, SearchEnds
<1> HIDE DEF q
<1>4. ToSet(q) \subseteq Tables /\ root \in ToSet(q)
  BY <1>3 DEF IsSearch, ToSet
<1>5. ASSUME NEW s \in steps, s[1] \in ToSet(q) PROVE s[2] \in ToSet(q)
  <2>1. PICK r \in enabled : \E d \in Directions(r) : s = <<d[2], d[1]>>
    OBVIOUS
  <2>2. PICK d \in Directions(r) : s = <<d[2], d[1]>>
    BY <2>1
  <2>3. PICK i \in DOMAIN used : r = used[i]
    BY DEF Range
  <2>4. Pair(used[i]) = {s[1], s[2]}
    BY <2>2, <2>3, DirectionEnds
  <2> QED
    BY <1>1, <1>3, <1>5, <2>4, CompletePairs
<1> HIDE DEF steps
<1>6. Reached(steps, root) \subseteq ToSet(q)
  BY <1>4, <1>5, ReachedWithin
<1> QED
  BY <1>2, <1>6 DEF q, used

LEMMA JoinedAre ==
  ASSUME NEW reg, NEW overrides, NEW root, NEW needed, NEW filtering
  PROVE  LET q     == Queue(Used(reg, overrides), root)
             goals == Targets(needed, filtering, Propagating(reg, overrides, root)) \cap ToSet(q)
         IN Rowset(reg, overrides, root, needed, filtering).joined
              = {root} \cup UNION {Way(Used(reg, overrides), q, t) : t \in goals}
BY DEF Rowset

\* A table whose filter reaches the root is joined, if it is needed.
LEMMA NeededIsJoined ==
  ASSUME NEW reg, IsRegistry(reg), NEW overrides, NEW root \in Tables, NEW needed, NEW filtering,
         NEW t \in needed, t \in Propagating(reg, overrides, root)
  PROVE  t \in Rowset(reg, overrides, root, needed, filtering).joined
<1> DEFINE used  == Used(reg, overrides)
           q     == Queue(used, root)
           goals == Targets(needed, filtering, Propagating(reg, overrides, root)) \cap ToSet(q)
<1>1. t \in ToSet(q) /\ t \in Tables
  BY PropagatingIsFound DEF Propagating, Reached
<1>2. t \in goals
  BY <1>1 DEF Targets
<1>3. t \in Way(used, q, t)
  BY <1>1, ReachedStart DEF Way
<1>4. Rowset(reg, overrides, root, needed, filtering).joined
        = {root} \cup UNION {Way(used, q, u) : u \in goals}
  BY JoinedAre
<1> HIDE DEF goals, q, used
<1> QED
  BY <1>2, <1>3, <1>4

-----------------------------------------------------------------------------
(* Where a table hangs.                                                       *)
LEMMA ParentBefore ==
  ASSUME NEW used, NEW root, NEW q, IsSearch(used, root, q), NEW t \in ToSet(q), t # root
  PROVE  \E m, n \in 1..Len(q) : /\ m < n /\ q[n] = t /\ q[m] = Parent(used, q, t)
                                 /\ Related(used, q[m], t)
<1> DEFINE above == {n \in DOMAIN q : Related(used, q[n], t)}
<1>1. DOMAIN q = 1..Len(q) /\ Len(q) \in Nat
  BY DEF IsSearch
<1>2. PICK n \in 1..Len(q) : q[n] = t
  BY <1>1 DEF ToSet
<1>3. n \in 2..Len(q)
  BY <1>1, <1>2 DEF IsSearch
<1>4. PICK k \in 1..(n - 1) : Related(used, q[k], t)
  BY <1>2, <1>3 DEF IsSearch
<1>5. k \in above /\ above \subseteq Nat
  BY <1>1, <1>3, <1>4
<1>6. Parent(used, q, t) = q[Min(above)]
  BY DEF Parent
<1>7. Min(above) \in above /\ Min(above) <= k
  BY <1>5, LeastIsMin
<1> HIDE DEF above
<1> DEFINE m == Min(above)
<1>8. m \in 1..Len(q) /\ Related(used, q[m], t) /\ m < n
  BY <1>1, <1>3, <1>5, <1>7 DEF above
<1> QED
  BY <1>2, <1>6, <1>8

LEMMA EdgeOfRelated ==
  ASSUME NEW used, NEW t, NEW u, Related(used, u, t)
  PROVE  /\ Edge(used, t, u) \in Range(used) /\ Pair(Edge(used, t, u)) = {t, u}
         /\ t # u
<1>1. PICK i \in DOMAIN used : Pair(used[i]) = {u, t}
  BY DEF Related
<1>2. used[i] \in Range(used) /\ Pair(used[i]) = {t, u}
  BY <1>1 DEF Range
<1> QED
  BY <1>2 DEF Edge, Related

-----------------------------------------------------------------------------
(* Joins where tables are related in one way.  Without the relationship by which a
   table is joined, the rest of the tables fall apart: those on the side of the
   root, and those beyond.                                                    *)
LEMMA TiesBothWays ==
  ASSUME NEW used, IsUsed(used), NEW s \in Ties(used)
  PROVE  <<s[2], s[1]>> \in Ties(used) /\ s[1] \in Tables /\ s[2] \in Tables
<1>1. PICK r \in Range(used) : s \in {<<r.from, r.to>>, <<r.to, r.from>>}
  BY DEF Ties
<1>2. r.from \in Tables /\ r.to \in Tables
  BY DEF Range, IsUsed, IsRelationship
<1> QED
  BY <1>1, <1>2 DEF Ties

LEMMA TiesOfPair ==
  ASSUME NEW used, NEW i \in DOMAIN used, NEW t, NEW u, Pair(used[i]) = {t, u}
  PROVE  <<t, u>> \in Ties(used)
<1>1. used[i] \in Range(used)
  BY DEF Range
<1>2. \/ used[i].from = t /\ used[i].to = u
      \/ used[i].from = u /\ used[i].to = t
  BY DEF Pair
<1> QED
  BY <1>1, <1>2 DEF Ties

LEMMA ReachedFromEach ==
  ASSUME NEW used, IsUsed(used), NEW root \in Tables, NEW t, NEW u,
         t \in Reached(Ties(used), root), u \in Reached(Ties(used), root)
  PROVE  u \in Reached(Ties(used), t)
<1> DEFINE C == Reached(Ties(used), t)
           D == {v \in Tables : v \notin C}
<1>1. t \in Tables /\ u \in Tables /\ C \subseteq Tables
  BY DEF Reached
<1>2. t \in C
  BY <1>1, ReachedStart
<1>3. \A s \in Ties(used) : s[1] \in C => s[2] \in C
  BY ReachedOn, TiesBothWays
<1> HIDE DEF C
<1>4. root \in C
  <2> SUFFICES ASSUME root \notin C PROVE FALSE
    OBVIOUS
  <2>1. root \in D /\ D \subseteq Tables
    OBVIOUS
  <2>2. ASSUME NEW s \in Ties(used), s[1] \in D PROVE s[2] \in D
    <3> DEFINE back == <<s[2], s[1]>>
    <3>1. back \in Ties(used) /\ back[1] = s[2] /\ back[2] = s[1] /\ s[2] \in Tables
      BY TiesBothWays
    <3> HIDE DEF back
    <3> QED
      BY <1>3, <2>2, <3>1
  <2> HIDE DEF D
  <2>3. Reached(Ties(used), root) \subseteq D
    BY <2>1, <2>2, ReachedWithin
  <2> QED
    BY <1>2, <2>3 DEF D
<1>5. Reached(Ties(used), root) \subseteq C
  BY <1>1, <1>3, <1>4, ReachedWithin
<1> QED
  BY <1>5 DEF C

\* The relationships but one.
But(used, e) == [j \in DOMAIN used \ {e} |-> used[j]]

\* The side of the root without a relationship.
Side(used, e, root) == Reached(Ties(But(used, e)), root)

LEMMA ButIsUsed ==
  ASSUME NEW used, IsUsed(used), NEW e
  PROVE  IsUsed(But(used, e))
BY DEF IsUsed, But

LEMMA OnTheSide ==
  ASSUME NEW used, IsUsed(used), NEW e, NEW root, NEW t, NEW u, NEW i \in DOMAIN used, i # e,
         Pair(used[i]) = {t, u}, t \in Side(used, e, root)
  PROVE  u \in Side(used, e, root)
<1> DEFINE s == <<t, u>>
<1>1. i \in DOMAIN But(used, e) /\ Pair(But(used, e)[i]) = {t, u}
  BY DEF But
<1>2. s \in Ties(But(used, e))
  BY <1>1, TiesOfPair
<1>3. s[1] = t /\ s[2] = u
  OBVIOUS
<1> HIDE DEF s
<1>4. s[2] \in Tables
  BY <1>2, ButIsUsed, TiesBothWays
<1> QED
  BY <1>2, <1>3, <1>4, ReachedOn DEF Side

\* The two ends of the relationship are not on one side.
LEMMA SidesOfEdge ==
  ASSUME NEW used, IsUsed(used), Straight(used), NEW e \in DOMAIN used, NEW root \in Tables,
         NEW t, NEW u, Pair(used[e]) = {t, u}, t \in Side(used, e, root)
  PROVE  u \notin Side(used, e, root)
<1> SUFFICES ASSUME u \in Side(used, e, root) PROVE FALSE
  OBVIOUS
<1>1. used[e].to \notin Reached(Ties(But(used, e)), used[e].from)
  BY DEF Straight, But
<1>2. used[e].from \in Side(used, e, root) /\ used[e].to \in Side(used, e, root)
  BY DEF Pair
<1>3. IsUsed(But(used, e))
  BY ButIsUsed
<1>4. used[e].to \in Reached(Ties(But(used, e)), used[e].from)
  BY <1>2, <1>3, ReachedFromEach DEF Side
<1> QED
  BY <1>1, <1>4

\* All tables before one in the queue are on the side of the root without the
\* relationship by which it is joined.
LEMMA BeforeOnTheSide ==
  ASSUME NEW used, IsUsed(used), NEW root \in Tables, NEW q, IsSearch(used, root, q),
         NEW e \in DOMAIN used, NEW n \in 1..Len(q), NEW p, Pair(used[e]) = {q[n], p},
         NEW k \in 1..(n - 1)
  PROVE  q[k] \in Side(used, e, root)
<1> DEFINE Bad == {j \in 1..(n - 1) : q[j] \notin Side(used, e, root)}
<1>1. Len(q) \in Nat /\ n \in Nat
  BY DEF IsSearch
<1>2. Bad = {}
  <2> SUFFICES ASSUME Bad # {} PROVE FALSE
    OBVIOUS
  <2>1. PICK j \in Bad : \A i \in Bad : j <= i
    <3>1. Bad \subseteq Nat
      BY <1>1
    <3> HIDE DEF Bad
    <3> QED
      BY <3>1, Least
  <2>2. j # 1
    <3>1. q[1] \in Side(used, e, root)
      BY ReachedStart DEF Side, IsSearch
    <3> QED
      BY <2>1, <3>1
  <2>3. j \in 2..Len(q) /\ j < n /\ j \in Nat
    BY <1>1, <2>1, <2>2
  <2>4. PICK m \in 1..(j - 1) : Related(used, q[m], q[j])
    BY <2>3 DEF IsSearch
  <2>5. PICK i \in DOMAIN used : Pair(used[i]) = {q[m], q[j]}
    BY <2>4 DEF Related
  <2>6. q[m] # q[n] /\ q[j] # q[n]
    BY <1>1, <2>3 DEF IsSearch
  <2>7. i # e
    BY <2>5, <2>6
  <2>8. q[m] \in Side(used, e, root)
    BY <1>1, <2>1, <2>3
  <2> QED
    BY <2>1, <2>5, <2>7, <2>8, OnTheSide
<1> QED
  BY <1>2

\* A table is beyond the relationship by which it is joined, and the table it hangs
\* on is not.
LEMMA EdgeBetweenSides ==
  ASSUME NEW used, IsUsed(used), Straight(used), NEW root \in Tables, NEW q, IsSearch(used, root, q),
         NEW x \in ToSet(q), x # root, NEW e \in DOMAIN used, Pair(used[e]) = {x, Parent(used, q, x)}
  PROVE  Parent(used, q, x) \in Side(used, e, root) /\ x \notin Side(used, e, root)
<1> DEFINE p == Parent(used, q, x)
<1>1. PICK m, n \in 1..Len(q) : m < n /\ q[n] = x /\ q[m] = p
  BY ParentBefore
<1>2. m \in 1..(n - 1) /\ Pair(used[e]) = {q[n], p}
  BY <1>1 DEF IsSearch
<1> HIDE DEF p
<1>3. p \in Side(used, e, root)
  BY <1>1, <1>2, BeforeOnTheSide
<1>4. Pair(used[e]) = {p, x}
  BY <1>1, <1>2
<1>5. x \notin Side(used, e, root)
  BY <1>3, <1>4, SidesOfEdge
<1> QED
  BY <1>3, <1>5 DEF p

\* Who hangs on the side of the root is there by a way on that side.
LEMMA WayOnTheSide ==
  ASSUME NEW used, IsUsed(used), Straight(used), NEW root \in Tables, NEW q, IsSearch(used, root, q),
         NEW x \in ToSet(q), x # root, NEW e \in DOMAIN used, Pair(used[e]) = {x, Parent(used, q, x)},
         NEW t \in ToSet(q), t \in Side(used, e, root)
  PROVE  x \notin Way(used, q, t)
<1> DEFINE W == ToSet(q) \cap Side(used, e, root)
           steps == {<<u, Parent(used, q, u)>> : u \in ToSet(q) \ {q[1]}}
<1>1. x \notin Side(used, e, root)
  BY EdgeBetweenSides
<1>2. q[1] = root /\ ToSet(q) \subseteq Tables /\ Len(q) \in Nat
  BY DEF IsSearch, ToSet
<1>3. ASSUME NEW u \in ToSet(q) \ {root}, u \in W PROVE Parent(used, q, u) \in W
  <2>1. PICK m, n \in 1..Len(q) : m < n /\ q[n] = u /\ q[m] = Parent(used, q, u) /\ Related(used, q[m], u)
    BY ParentBefore
  <2>2. PICK i \in DOMAIN used : Pair(used[i]) = {q[m], u}
    BY <2>1 DEF Related
  <2>3. q[m] \in ToSet(q)
    BY <2>1 DEF ToSet, IsSearch
  <2>4. i # e
    <3> SUFFICES ASSUME i = e PROVE FALSE
      OBVIOUS
    <3>1. q[m] = x /\ u = Parent(used, q, x)
      BY <1>1, <1>3, <2>2
    <3>2. PICK k, j \in 1..Len(q) : k < j /\ q[j] = x /\ q[k] = Parent(used, q, x)
      BY ParentBefore
    <3>3. j = m /\ k = n
      BY <2>1, <3>1, <3>2 DEF IsSearch
    <3> QED
      BY <1>2, <2>1, <3>2, <3>3
  <2>5. Pair(used[i]) = {u, q[m]}
    BY <2>2
  <2>6. q[m] \in Side(used, e, root)
    BY <1>3, <2>4, <2>5, OnTheSide
  <2> QED
    BY <2>1, <2>3, <2>6
<1>4. ASSUME NEW s \in steps, s[1] \in W PROVE s[2] \in W
  <2>1. PICK u \in ToSet(q) \ {root} : s = <<u, Parent(used, q, u)>>
    BY <1>2
  <2> QED
    BY <1>3, <1>4, <2>1
<1>5. W \subseteq Tables /\ t \in W
  BY <1>2
<1> HIDE DEF W, steps
<1>6. Reached(steps, t) \subseteq W
  BY <1>4, <1>5, ReachedWithin
<1> QED
  BY <1>1, <1>6 DEF Way, W, steps

\* Filters that do not pass a relationship stay on a side of it.
LEMMA PropagatingOnTheSide ==
  ASSUME NEW reg, IsRegistry(reg), NEW overrides, NEW root \in Tables, NEW e \in DOMAIN Used(reg, overrides),
         NEW x, NEW p, Pair(Used(reg, overrides)[e]) = {x, p},
         x \notin Side(Used(reg, overrides), e, root),
         ~(Enabled(Used(reg, overrides)[e], overrides) /\ <<x, p>> \in Directions(Used(reg, overrides)[e]))
  PROVE  Propagating(reg, overrides, root) \subseteq Side(Used(reg, overrides), e, root)
<1> DEFINE used    == Used(reg, overrides)
           S       == Side(used, e, root)
           enabled == {r \in Range(used) : Enabled(r, overrides)}
           steps   == {<<d[2], d[1]>> : d \in UNION {Directions(r) : r \in enabled}}
<1>1. IsUsed(used)
  BY UsedIsUsed
<1>2. Propagating(reg, overrides, root) = Reached(steps, root)
  BY DEF Propagating
<1> HIDE DEF used
<1>3. S \subseteq Tables /\ root \in S
  BY ReachedStart DEF Side, Reached
<1>4. ASSUME NEW s \in steps, s[1] \in S PROVE s[2] \in S
  <2>1. PICK r \in enabled : \E d \in Directions(r) : s = <<d[2], d[1]>>
    OBVIOUS
  <2>2. PICK d \in Directions(r) : s = <<d[2], d[1]>>
    BY <2>1
  <2>3. PICK i \in DOMAIN used : r = used[i]
    BY DEF Range
  <2>4. Pair(used[i]) = {s[1], s[2]} /\ d = <<s[2], s[1]>>
    BY <2>2, <2>3, DirectionEnds DEF Directions
  <2>5. CASE i = e
    <3>1. s[1] = p /\ s[2] = x
      BY <1>4, <2>4, <2>5 DEF used
    <3> QED
      BY <2>2, <2>3, <2>4, <2>5, <3>1 DEF used
  <2>6. CASE i # e
    BY <1>1, <1>4, <2>4, <2>6, OnTheSide
  <2> QED
    BY <2>5, <2>6
<1> HIDE DEF steps, S
<1>5. Reached(steps, root) \subseteq S
  BY <1>3, <1>4, ReachedWithin
<1> QED
  BY <1>2, <1>5 DEF S, used

LEMMA EdgesAre ==
  ASSUME NEW reg, NEW overrides, NEW root, NEW needed, NEW filtering
  PROVE  LET s == Rowset(reg, overrides, root, needed, filtering)
             q == Queue(Used(reg, overrides), root)
         IN /\ DOMAIN s.edge = s.joined \ {root}
            /\ \A t \in DOMAIN s.edge :
                 s.edge[t] = Edge(Used(reg, overrides), t, Parent(Used(reg, overrides), q, t))
BY DEF Rowset

\* The joins of a query whose tables are needed for their filters alone.
LEMMA JoinFollows ==
  ASSUME NEW reg, IsRegistry(reg), NEW overrides, Straight(Used(reg, overrides)), NEW root \in Tables,
         NEW needed, NEW filtering, \A t \in needed : t = root \/ t \in filtering,
         NEW x \in DOMAIN Rowset(reg, overrides, root, needed, filtering).edge
  PROVE  /\ ~Multiplies(Rowset(reg, overrides, root, needed, filtering), x)
         /\ Enabled(Rowset(reg, overrides, root, needed, filtering).edge[x], overrides)
<1> DEFINE used  == Used(reg, overrides)
           q     == Queue(used, root)
           s     == Rowset(reg, overrides, root, needed, filtering)
           goals == Targets(needed, filtering, Propagating(reg, overrides, root)) \cap ToSet(q)
           p     == Parent(used, q, x)
<1>1. /\ DOMAIN s.edge = s.joined \ {root}
      /\ s.edge[x] = Edge(used, x, p)
  BY EdgesAre
<1>2. s.joined = {root} \cup UNION {Way(used, q, t) : t \in goals}
  BY JoinedAre
<1>3. IsUsed(used) /\ IsSearch(used, root, q)
  BY UsedIsUsed, SearchEnds
<1>4. PICK t \in goals : x \in Way(used, q, t)
  BY <1>1, <1>2
<1>5. x # root
  BY <1>1
<1>6. q[1] = root /\ ToSet(q) \subseteq Tables /\ t \in ToSet(q) /\ t \in needed
      /\ (t \in filtering => t \in Propagating(reg, overrides, root))
  BY <1>3 DEF IsSearch, ToSet, Targets
<1> DEFINE steps == {<<u, Parent(used, q, u)>> : u \in ToSet(q) \ {q[1]}}
<1>7. Way(used, q, t) = Reached(steps, t)
  BY DEF Way
<1>8. t # root
  <2> SUFFICES ASSUME t = root PROVE FALSE
    OBVIOUS
  <2> DEFINE S == {root}
  <2>1. \A a \in steps : a[1] \in S => a[2] \in S
    BY <1>6
  <2>2. S \subseteq Tables /\ t \in S
    OBVIOUS
  <2> HIDE DEF steps, S
  <2>3. Reached(steps, t) \subseteq S
    BY <2>1, <2>2, ReachedWithin
  <2> QED
    BY <1>4, <1>5, <1>7, <2>3 DEF S
<1>9. t \in Propagating(reg, overrides, root)
  BY <1>6, <1>8
<1>10. x \in ToSet(q)
  <2>1. ASSUME NEW a \in steps PROVE a[2] \in ToSet(q)
    <3>1. PICK u \in ToSet(q) \ {root} : a = <<u, Parent(used, q, u)>>
      BY <1>6
    <3>2. Parent(used, q, u) \in ToSet(q)
      BY <1>3, <3>1, ParentBefore DEF ToSet, IsSearch
    <3> QED
      BY <3>1, <3>2
  <2> HIDE DEF steps
  <2>2. Reached(steps, t) \subseteq ToSet(q)
    BY <1>6, <2>1, ReachedWithin
  <2> QED
    BY <1>4, <1>7, <2>2
<1> HIDE DEF used, q, s, p, goals, steps
<1>11. Related(used, p, x)
  BY <1>3, <1>5, <1>10, ParentBefore DEF p
<1>12. /\ s.edge[x] \in Range(used)
       /\ Pair(s.edge[x]) = {x, p} /\ x # p
  BY <1>1, <1>11, EdgeOfRelated
<1>13. PICK e \in DOMAIN used : s.edge[x] = used[e]
  BY <1>12 DEF Range
<1>14. Straight(used)
  BY DEF used
<1>15. x \notin Side(used, e, root)
  BY <1>3, <1>5, <1>10, <1>12, <1>13, <1>14, EdgeBetweenSides DEF p
<1>16. t \notin Side(used, e, root)
  BY <1>3, <1>4, <1>5, <1>6, <1>10, <1>12, <1>13, <1>14, WayOnTheSide DEF p
<1>17. Enabled(used[e], overrides) /\ <<x, p>> \in Directions(used[e])
  BY <1>9, <1>12, <1>13, <1>15, <1>16, PropagatingOnTheSide DEF used
<1>18. ~used[e].both /\ used[e].card \in {"manyToOne", "oneToMany"}
  BY <1>14 DEF Straight
<1>19. x \notin ManySide(used[e])
  BY <1>12, <1>17, <1>18 DEF Directions, ManySide
<1> QED
  BY <1>13, <1>17, <1>19 DEF Multiplies, s

-----------------------------------------------------------------------------
(* The tables of a query.                                                     *)
QueryInv ==
  /\ registry \in Registries
  /\ mentioned \subseteq Tables
  /\ stage \in {"arguments", "inner"} => frame.home \in Tables
  /\ IsQuery => rows.root \in Tables /\ FilterTables(rows.context) \subseteq rows.needed
  /\ rows.kind = "own" => rows.needed = {rows.root} \cup FilterTables(rows.context)

LEMMA RowsParts ==
  ASSUME NEW kind, NEW root, NEW c, NEW needed
  PROVE  /\ Rows(kind, root, c, needed).root = root
         /\ Rows(kind, root, c, needed).needed = needed
BY DEF Rows

\* A query of its own needs its root, and the tables that have filters.
LEMMA OwnQuery ==
  ASSUME NEW home \in Tables, NEW c, rows' = Own(home, c)
  PROVE  /\ rows'.kind = "own" /\ rows'.root \in Tables
         /\ FilterTables(rows'.context) \subseteq rows'.needed
         /\ rows'.needed = {rows'.root} \cup FilterTables(rows'.context)
<1>1. /\ rows'.kind = "own" /\ rows'.root = home /\ rows'.context = c
      /\ rows'.needed = {home} \cup FilterTables(c)
  BY RowsContext, RowsParts DEF Own, Needed
<1> QED
  BY <1>1

LEMMA ReadingQuery ==
  ASSUME QueryInv, NEW a \in AllArguments, NEW changed, Reading(a, changed), IsFrame(changed),
         changed.home = frame.home
  PROVE  QueryInv'
<1>1. /\ stage = "arguments" /\ stage' = stage /\ registry' = registry /\ rows' = rows
      /\ frame'.home = changed.home
      /\ mentioned' = mentioned \cup (IF a.on = <<>> THEN {} ELSE {a.on[1]})
  BY DEF Reading, Mention, IsFrame
<1>2. mentioned' \subseteq Tables
  BY <1>1, ArgumentsAssumption DEF QueryInv
<1> QED
  BY <1>1, <1>2 DEF QueryInv, IsQuery

LEMMA InitQuery == Init => QueryInv
<1> SUFFICES ASSUME Init PROVE QueryInv
  OBVIOUS
<1>1. ~IsQuery /\ rows.kind # "own"
  BY NoQuery DEF Init, IsQuery
<1> QED
  BY <1>1 DEF Init, QueryInv

LEMMA NextQuery == RulesInv /\ QueryInv /\ [Next]_vars => QueryInv'
<1> SUFFICES ASSUME RulesInv, QueryInv, [Next]_vars PROVE QueryInv'
  OBVIOUS
<1>1. CASE ApplyScopedFilter \/ Enter
  BY <1>1 DEF ApplyScopedFilter, Enter, QueryInv, IsQuery
<1>2. ASSUME NEW home \in Facts, PlainMeasure(home) PROVE QueryInv'
  <2>1. home \in Tables /\ mentioned' \subseteq Tables
    BY <1>2, FactsAssumption DEF PlainMeasure, Mention, QueryInv
  <2>2. stage' = "measure" /\ registry' = registry
    BY <1>2 DEF PlainMeasure
  <2>3. CASE rows' = Own(home, local)
    BY <2>1, <2>2, <2>3, OwnQuery DEF QueryInv
  <2>4. CASE rows' = NoRows \/ rows' = Nowhere(home)
    BY <2>1, <2>2, <2>4, NoQuery DEF QueryInv, IsQuery
  <2> QED
    BY <1>2, <2>3, <2>4 DEF PlainMeasure
<1>3. ASSUME NEW home \in Facts, HoistedMeasure(home) \/ NestedMeasure(home) PROVE QueryInv'
  <2>1. home \in Tables /\ mentioned' \subseteq Tables
    BY <1>3, FactsAssumption DEF HoistedMeasure, NestedMeasure, Mention, QueryInv
  <2>2. registry' = registry /\ rows' = NoRows
    BY <1>3 DEF HoistedMeasure, NestedMeasure
  <2>3. frame'.home = home
    BY <1>3 DEF HoistedMeasure, NestedMeasure, Frame
  <2> QED
    BY <2>1, <2>2, <2>3, NoQuery DEF QueryInv, IsQuery
<1>4. ASSUME NEW a \in AllArguments, RemovingArgument(a) PROVE QueryInv'
  <2> DEFINE new == Removed(frame.context, ClearedBy(a))
             changed == [frame EXCEPT !.context = new]
  <2>1. Reading(a, changed)
    BY <1>4 DEF RemovingArgument
  <2> HIDE DEF new
  <2>2. IsFrame(changed) /\ changed.home = frame.home
    BY DEF RulesInv, IsFrame
  <2> QED
    BY <2>1, <2>2, ReadingQuery
<1>5. ASSUME NEW a \in AllArguments, AllSelectedArgument(a) PROVE QueryInv'
  <2> DEFINE changed == [frame EXCEPT !.selected = @ \cup SelectedBy(a)]
  <2>1. Reading(a, changed)
    BY <1>5 DEF AllSelectedArgument
  <2>2. IsFrame(changed) /\ changed.home = frame.home
    BY DEF RulesInv, IsFrame
  <2> QED
    BY <2>1, <2>2, ReadingQuery
<1>6. ASSUME NEW a \in AllArguments, RelationshipArgument(a) PROVE QueryInv'
  <2> DEFINE new == Activating(frame.context, {r.id : r \in {q \in Range(registry) : q.id = a.rel}})
             changed == [frame EXCEPT !.context = new]
  <2>1. Reading(a, changed)
    BY <1>6 DEF RelationshipArgument
  <2> HIDE DEF new
  <2>2. IsFrame(changed) /\ changed.home = frame.home
    BY DEF RulesInv, IsFrame
  <2> QED
    BY <2>1, <2>2, ReadingQuery
<1>7. ASSUME NEW a \in AllArguments, PeriodArgument(a) PROVE QueryInv'
  <2> DEFINE new == IF a.keep THEN AppliedKeep(frame.context, One(a.on, a.accept))
                              ELSE Applied(frame.context, One(a.on, a.accept))
             changed == [frame EXCEPT !.context = new]
  <2>1. Reading(a, changed)
    BY <1>7 DEF PeriodArgument
  <2> HIDE DEF new
  <2>2. IsFrame(changed) /\ changed.home = frame.home
    BY DEF RulesInv, IsFrame
  <2> QED
    BY <2>1, <2>2, ReadingQuery
<1>8. ASSUME NEW a \in AllArguments, FilterArgument(a) PROVE QueryInv'
  <2> DEFINE new == Removed(frame.context, ClearedBy(a))
             replaced == IF a.keep THEN frame.replaced ELSE Both(frame.replaced, One(a.on, a.accept))
             kept == IF a.keep THEN Both(frame.kept, One(a.on, a.accept)) ELSE frame.kept
             changed == [frame EXCEPT !.context = new, !.replaced = replaced, !.kept = kept]
  <2>1. Reading(a, changed)
    BY <1>8 DEF FilterArgument
  <2> HIDE DEF new, replaced, kept
  <2>2. IsFrame(changed) /\ changed.home = frame.home
    BY DEF RulesInv, IsFrame
  <2> QED
    BY <2>1, <2>2, ReadingQuery
<1>9. CASE FinishArguments
  <2>1. PICK c : frame' = [frame EXCEPT !.context = c]
    BY <1>9 DEF FinishArguments
  <2>2. frame'.home = frame.home
    BY <2>1 DEF RulesInv, IsFrame
  <2> QED
    BY <1>9, <2>2 DEF FinishArguments, QueryInv, IsQuery
<1>10. CASE InnerAggregate
  <2>1. /\ registry' = registry /\ mentioned' = mentioned /\ stage' = "measure"
        /\ frame.home \in Tables
    BY <1>10 DEF InnerAggregate, QueryInv
  <2>2. CASE frame.kind = "nested"
    <3>1. rows' = Own(frame.home, SetOuter(frame.context))
      BY <1>10, <2>2 DEF InnerAggregate
    <3> QED
      BY <2>1, <3>1, OwnQuery DEF QueryInv
  <2>3. CASE frame.kind # "nested"
    <3>1. rows' = NoRows \/ rows' = Nowhere(frame.home)
      BY <1>10, <2>3 DEF InnerAggregate
    <3> QED
      BY <2>1, <3>1, NoQuery DEF QueryInv, IsQuery
  <2> QED
    BY <2>2, <2>3
<1>11. CASE InnerCalculate
  <2>1. frame'.home = frame.home
    BY <1>11 DEF InnerCalculate, Frame
  <2> QED
    BY <1>11, <2>1 DEF InnerCalculate, QueryInv, IsQuery
<1>12. CASE Finish
  <2>1. registry' = registry /\ mentioned' = mentioned /\ stage' = "done"
    BY <1>12 DEF Finish
  <2>2. CASE dims = {}
    BY <1>12, <2>1, <2>2, NoQuery DEF Finish, QueryInv, IsQuery
  <2>3. CASE dims # {}
    <3>1. PICK root \in mentioned :
            rows' = Rows("shared", root, local, dims \cup mentioned \cup Needed(root, local))
      BY <1>12, <2>3 DEF Finish
    <3>2. /\ rows'.kind = "shared" /\ rows'.root = root /\ rows'.context = local
          /\ rows'.needed = dims \cup mentioned \cup Needed(root, local)
      BY <3>1, RowsContext, RowsParts
    <3>3. FilterTables(local) \subseteq rows'.needed
      BY <3>2 DEF Needed
    <3> QED
      BY <2>1, <3>2, <3>3 DEF QueryInv
  <2> QED
    BY <2>2, <2>3
<1>13. CASE Done \/ UNCHANGED vars
  <2>1. stage' = stage /\ frame' = frame /\ rows' = rows /\ registry' = registry /\ mentioned' = mentioned
    BY <1>13 DEF Done, vars
  <2> QED
    BY <2>1 DEF QueryInv, IsQuery
<1> QED
  BY <1>1, <1>2, <1>3, <1>4, <1>5, <1>6, <1>7, <1>8, <1>9, <1>10, <1>11, <1>12, <1>13 DEF Next

\* A filter or a rule that is in effect on a table is in every query whose root it
\* can reach, in any model.
THEOREM FiltersAlwaysReach == Spec => []FiltersReachTheRoot
<1>1. ASSUME QueryInv PROVE FiltersReachTheRoot
  <2> SUFFICES ASSUME IsQuery,
                      NEW t \in FilterTables(rows.context),
                      t \in Propagating(registry, rows.context.used, rows.root),
                      t \notin FilterOnly(rows)
               PROVE  t \in Statement(rows).joined
    BY DEF FiltersReachTheRoot
  <2>1. IsRegistry(registry) /\ rows.root \in Tables /\ t \in rows.needed \ FilterOnly(rows)
    BY <1>1, RegistriesAssumption DEF QueryInv
  <2> QED
    BY <2>1, NeededIsJoined DEF Statement, RowsetOf
<1> QED
  BY <1>1, InitRules, NextRules, InitQuery, NextQuery, PTL DEF Spec

\* Where tables are related in one way and in one direction, joins follow filters,
\* in any model.
THEOREM JoinsAlwaysFollow == Spec => []JoinsFollowFilters
<1>1. ASSUME QueryInv PROVE JoinsFollowFilters
  <2> DEFINE used == rows.context.used
             filtering == FilterTables(rows.context)
             s == Statement(rows)
  <2> SUFFICES ASSUME rows.kind = "own", Straight(Used(registry, used)), NEW t \in DOMAIN s.edge
               PROVE  ~Multiplies(s, t) /\ Enabled(s.edge[t], used)
    BY DEF JoinsFollowFilters
  <2>1. IsRegistry(registry) /\ rows.root \in Tables /\ rows.needed = {rows.root} \cup filtering
    BY <1>1, RegistriesAssumption DEF QueryInv, IsQuery
  <2>2. s = Rowset(registry, used, rows.root, rows.needed \ FilterOnly(rows), filtering)
    BY DEF Statement, RowsetOf
  <2>3. \A u \in rows.needed \ FilterOnly(rows) : u = rows.root \/ u \in filtering
    BY <2>1
  <2> HIDE DEF used, filtering, s
  <2> QED
    BY <2>1, <2>2, <2>3, JoinFollows
<1> QED
  BY <1>1, InitRules, NextRules, InitQuery, NextQuery, PTL DEF Spec
================================================================================
