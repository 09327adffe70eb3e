----------------------------- MODULE Visuals_proofs -----------------------------
(* Proofs about how visuals are asked for and answered: the browser's side
   (VisualRender), and the server's (VisualRequests with MatrixTotals).

   The browser, for any visuals, any limits and any number of passes: a spinner is
   never left alone, and what stays on the screen is what is wanted, but in the
   excused cases.  The pass that holds the token of a visual has a request for it
   (OwnersRun).  A visual that loads and whose token nobody holds was cancelled,
   so its fingerprint is gone and a pass still has it to do (Cancelled); without
   a fingerprint no pass can skip it, unless it takes the request of another
   for its own, which is one of the excused cases.  The same pass is the reason
   that a visual becomes what is wanted: FreshInv, below.

   The requests, for any payloads, selections and sizes of the cache: what is in the
   cache fits its key (PlansInv), an answer remembers what it was asked for
   (AnswersInv), and what was validated stays valid (PickedInv).

   The matrix, for any facts, depths, expansions and caps, and whether or not the
   totals fail: MatrixInv says, pass by pass, which cells there are and of which
   facts each of them is the sum.                                               *)
EXTENDS VisualRender, VisualRequests, FiniteSetTheorems, NaturalsInduction,
        WellFoundedInduction, TLAPS

-----------------------------------------------------------------------------
(* The browser.                                                               *)
PassOK(r) ==
  /\ r \in Pass
  /\ r.stage = "single" => r.batch = {}
  /\ r.stage = "begun" => r.batch = {} /\ r.running = {} /\ r.last = {}
  /\ r.stage # "idle" => r.version # 0

PassesOK == \A p \in Passes : PassOK(passes[p])

OwnersRun == \A v \in Visuals : owner[v] # NoOwner => Requested(v)

Cancelled ==
  \A v \in Visuals :
    loading[v] /\ owner[v] = NoOwner =>
      v \in cards \cup excused \/ (stamp[v] = None /\ (v \in present => Queued(v)))

IInv == TypeOK /\ version # 0 /\ PassesOK /\ OwnersRun /\ Cancelled

LEMMA Spinners == ASSUME IInv PROVE SpinsOnlyBy
BY DEF IInv, TypeOK, OwnersRun, Cancelled, SpinsOnlyBy

-----------------------------------------------------------------------------
(* The operators.                                                             *)
LEMMA NoPassOK == PassOK(NoPass)
BY DEF PassOK, NoPass, Pass, Stages

\* Ended changes nothing that the invariant speaks of.
LEMMA EndedFacts ==
  ASSUME NEW r, PassOK(r)
  PROVE  /\ PassOK(Ended(r))
         /\ Ended(r).todo = r.todo /\ Ended(r).last = r.last
         /\ Ended(r).batch = r.batch /\ Ended(r).running = r.running
<1>1. CASE r.stage = "single" /\ r.todo \cup r.last \cup r.running = {}
  <2>1. Ended(r) = NoPass
    BY <1>1 DEF Ended
  <2>2. r.todo = {} /\ r.last = {} /\ r.running = {} /\ r.batch = {}
    BY <1>1 DEF PassOK
  <2> QED
    BY <2>1, <2>2, NoPassOK DEF NoPass
<1>2. CASE ~(r.stage = "single" /\ r.todo \cup r.last \cup r.running = {})
  BY <1>2 DEF Ended
<1> QED
  BY <1>1, <1>2

LEMMA AsksType ==
  ASSUME NEW r \in Pass, NEW v \in Visuals
  PROVE  /\ Asks(r, v) \in Filters
         /\ r.version # 0 => Asks(r, v) # None
BY DEF Asks, FiltersFor, Filters, None, Pass

LEMMA WantedType ==
  ASSUME TypeOK, NEW v \in Visuals
  PROVE  /\ WantedBy(v) \in Answers
         /\ version # 0 => WantedBy(v).of # None
BY DEF TypeOK, WantedBy, FiltersFor, Filters, None, Answers

LEMMA NothingType == None \in Filters /\ Nothing \in Answers
BY DEF None, Filters, Nothing, Answers

\* One pass becomes r, and the others are at most aborted.
LEMMA AfterFacts ==
  ASSUME TypeOK, PassesOK, NEW p \in Passes, NEW r, PassOK(r), NEW S
  PROVE  LET after == PassesAfter(p, r, S)
         IN /\ after \in [Passes -> Pass]
            /\ \A q \in Passes : PassOK(after[q])
            /\ after[p] = r
            /\ \A q \in Passes \ {p} :
                 /\ after[q].todo = passes[q].todo /\ after[q].last = passes[q].last
                 /\ after[q].batch = passes[q].batch
                 /\ after[q].running = passes[q].running
<1> DEFINE after == PassesAfter(p, r, S)
<1>1. after[p] = r
  BY DEF PassesAfter
<1>2. ASSUME NEW q \in Passes \ {p}
      PROVE  /\ PassOK(after[q])
             /\ after[q].todo = passes[q].todo /\ after[q].last = passes[q].last
             /\ after[q].batch = passes[q].batch
             /\ after[q].running = passes[q].running
  <2>1. after[q] = [passes[q] EXCEPT !.aborted = TRUE] \/ after[q] = passes[q]
    BY DEF PassesAfter
  <2>2. PassOK(passes[q])
    BY DEF PassesOK
  <2> QED
    BY <2>1, <2>2 DEF PassOK, Pass
<1>3. \A q \in Passes : PassOK(after[q])
  BY <1>1, <1>2
<1>4. after = [q \in Passes |-> after[q]]
  BY DEF PassesAfter
<1>5. after \in [Passes -> Pass]
  BY <1>3, <1>4 DEF PassOK
<1> QED
  BY <1>1, <1>2, <1>3, <1>5

-----------------------------------------------------------------------------
(* The initial states.                                                        *)
LEMMA InitIInv == PageInit => IInv
<1> SUFFICES ASSUME PageInit PROVE IInv
  OBVIOUS
<1> DEFINE first == [NoPass EXCEPT !.stage = "begun", !.version = 1, !.todo = AtFirst]
<1>1. PassOK(first)
  <2>1. ASSUME NEW r \in Pass, r.batch = {}, r.running = {}, r.last = {}
        PROVE  PassOK([r EXCEPT !.stage = "begun", !.version = 1, !.todo = AtFirst])
    <3> DEFINE s == [r EXCEPT !.stage = "begun", !.version = 1, !.todo = AtFirst]
    <3>1. s \in Pass
      BY <2>1, PageAssumption DEF Pass, Stages
    <3>2. s.stage = "begun" /\ s.version = 1 /\ s.batch = {} /\ s.running = {} /\ s.last = {}
      BY <2>1 DEF Pass
    <3> HIDE DEF s
    <3>3. PassOK(s)
      BY <3>1, <3>2 DEF PassOK
    <3> QED
      BY <3>3 DEF s
  <2>2. NoPass \in Pass /\ NoPass.batch = {} /\ NoPass.running = {} /\ NoPass.last = {}
    BY NoPassOK DEF NoPass, PassOK
  <2> QED
    BY <2>1, <2>2
<1>2. passes = [p \in Passes |-> IF \A q \in Passes : p <= q THEN first ELSE NoPass]
  BY DEF PageInit
<1> HIDE DEF first
<1>3. PassesOK /\ passes \in [Passes -> Pass]
  BY <1>1, <1>2, NoPassOK DEF PassesOK, PassOK
<1>4. TypeOK
  BY <1>3, NothingType, PageAssumption DEF PageInit, TypeOK, NoOwner
<1>5. OwnersRun /\ Cancelled /\ version # 0
  BY DEF PageInit, OwnersRun, Cancelled, NoOwner
<1> QED
  BY <1>3, <1>4, <1>5 DEF IInv

-----------------------------------------------------------------------------
(* What the steps of a pass have in common: it becomes s.                     *)
LEMMA OnePass ==
  ASSUME IInv, NEW p \in Passes, NEW s, PassOK(s), NEW S,
         passes' = PassesAfter(p, s, S) \/ passes' = [passes EXCEPT ![p] = s]
  PROVE  /\ passes' \in [Passes -> Pass] /\ PassesOK'
         /\ passes'[p] = s
         /\ \A q \in Passes \ {p} :
              /\ passes'[q].todo = passes[q].todo /\ passes'[q].last = passes[q].last
              /\ passes'[q].batch = passes[q].batch
              /\ passes'[q].running = passes[q].running
<1>1. passes \in [Passes -> Pass] /\ PassesOK /\ TypeOK
  BY DEF IInv, TypeOK
<1>2. CASE passes' = PassesAfter(p, s, S)
  BY <1>1, <1>2, AfterFacts DEF PassesOK
<1>3. CASE passes' = [passes EXCEPT ![p] = s]
  BY <1>1, <1>3 DEF PassesOK, PassOK
<1> QED
  BY <1>2, <1>3

\* The answers of S with the tokens of p arrive.
LEMMA AnswerKeeps ==
  ASSUME IInv, NEW p \in Passes, NEW s, PassOK(s), NEW S \in SUBSET Visuals,
         NEW bad \in SUBSET S, NEW drilled, Answer(p, S, bad, drilled),
         UNCHANGED <<wanted, timer, cards>>, events' \in Nat,
         pending' \in [Visuals -> Filters],
         passes' = [passes EXCEPT ![p] = s],
         s.todo = passes[p].todo, s.last = passes[p].last,
         \A v \in Visuals \ S : owner[v] = p /\ Requested(v) => v \in s.batch \cup s.running
  PROVE  IInv'
<1>1. TypeOK /\ PassesOK /\ OwnersRun /\ Cancelled /\ version # 0
  BY DEF IInv
<1>2. /\ passes' \in [Passes -> Pass] /\ PassesOK' /\ passes'[p] = s
      /\ \A q \in Passes \ {p} :
              /\ passes'[q].todo = passes[q].todo /\ passes'[q].last = passes[q].last
              /\ passes'[q].batch = passes[q].batch
              /\ passes'[q].running = passes[q].running
  BY OnePass
<1>3. /\ owner' = [v \in Visuals |-> IF v \in S THEN NoOwner ELSE owner[v]]
      /\ loading' = [v \in Visuals |-> v \notin S /\ loading[v]]
      /\ erred' = [v \in Visuals |-> v \in bad \/ (v \notin S /\ erred[v])]
      /\ \A v \in Visuals \ S : stamp'[v] = stamp[v]
      /\ excused' \subseteq excused /\ excused \subseteq excused' \cup S
  BY DEF Answer
<1>4. stamp' \in [Visuals -> Filters] /\ shown' \in [Visuals -> Answers]
  <2>1. passes[p] \in Pass /\ \A v \in Visuals : Asks(passes[p], v) \in Filters
    BY <1>1, AsksType DEF TypeOK
  <2>2. \A v \in Visuals : [of |-> Asks(passes[p], v), deep |-> v \in drilled] \in Answers
    BY <2>1 DEF Answers
  <2> QED
    BY <1>1, <2>1, <2>2 DEF Answer, TypeOK
<1>5. TypeOK'
  BY <1>1, <1>2, <1>3, <1>4 DEF TypeOK, wanted
<1>6. OwnersRun'
  BY <1>1, <1>2, <1>3 DEF OwnersRun, Requested, TypeOK, NoOwner
<1>7. Cancelled'
  <2> SUFFICES ASSUME NEW v \in Visuals, loading'[v], owner'[v] = NoOwner
               PROVE  \/ v \in cards' \cup excused'
                      \/ stamp'[v] = None /\ (v \in present' => Queued(v)')
    BY DEF Cancelled
  <2>1. v \notin S /\ loading[v] /\ owner[v] = NoOwner /\ stamp'[v] = stamp[v]
    BY <1>3
  <2>2. v \in cards \cup excused => v \in cards' \cup excused'
    BY <1>3, <2>1
  <2>3. Queued(v) => Queued(v)'
    BY <1>2 DEF Queued
  <2> QED
    BY <1>1, <2>1, <2>2, <2>3 DEF Cancelled, wanted
<1> QED
  BY <1>1, <1>2, <1>5, <1>6, <1>7 DEF IInv, wanted

LEMMA BatchAnsweredKeeps ==
  ASSUME IInv, NEW p \in Passes, BatchAnswered(p)
  PROVE  IInv'
<1> DEFINE r == passes[p]
           s == [r EXCEPT !.stage = "single", !.batch = {}, !.aborted = FALSE]
           S == Current(p, r.batch)
           none == {}
<1>1. TypeOK /\ PassOK(r) /\ r \in Pass
  BY DEF IInv, PassesOK, PassOK
<1>2. /\ s.stage = "single" /\ s.batch = {} /\ s.running = r.running
      /\ s.todo = r.todo /\ s.last = r.last /\ s.version = r.version
  BY <1>1 DEF Pass
<1>3. PassOK(s)
  <2>1. s \in Pass
    BY <1>1 DEF Pass, Stages
  <2>2. r.version # 0
    BY <1>1 DEF BatchAnswered, PassOK
  <2> QED
    BY <1>2, <2>1, <2>2 DEF PassOK
<1> HIDE DEF s
<1>4. /\ PassOK(Ended(s)) /\ Ended(s).todo = r.todo /\ Ended(s).last = r.last
      /\ Ended(s).running = r.running
  BY <1>2, <1>3, EndedFacts
<1>5. passes' = [passes EXCEPT ![p] = Ended(s)]
  BY DEF BatchAnswered, s
<1>6. PICK bad \in SUBSET S : Answer(p, S, bad, none) /\ events' \in Nat
  <2>1. ASSUME NEW b, ServerSays(b) PROVE events' \in Nat
    BY <1>1, <2>1 DEF TypeOK, ServerSays, Event
  <2> QED
    BY <1>1, <2>1 DEF BatchAnswered, TypeOK
<1>7. S \in SUBSET Visuals
  BY <1>1 DEF Pass, Current
<1>8. pending' \in [Visuals -> Filters] /\ UNCHANGED <<wanted, timer, cards>>
  BY <1>1 DEF BatchAnswered, TypeOK
<1>9. \A v \in Visuals \ S : owner[v] = p /\ Requested(v) =>
                               v \in Ended(s).batch \cup Ended(s).running
  BY <1>4 DEF Requested, Current
<1> HIDE DEF r, S, none
<1> QED
  BY <1>4, <1>5, <1>6, <1>7, <1>8, <1>9, AnswerKeeps DEF r

LEMMA AnsweredKeeps ==
  ASSUME IInv, NEW p \in Passes, NEW v \in Visuals, RequestAnswered(p, v)
  PROVE  IInv'
<1> DEFINE r == passes[p]
           s == [r EXCEPT !.running = @ \ {v}, !.drilled = @ \ {v}]
           S == Current(p, {v})
<1>1. TypeOK /\ PassOK(r) /\ r \in Pass
  BY DEF IInv, PassesOK, PassOK
<1>2. /\ s.stage = r.stage /\ s.batch = r.batch /\ s.running = r.running \ {v}
      /\ s.todo = r.todo /\ s.last = r.last /\ s.version = r.version
  BY <1>1 DEF Pass
<1>3. PassOK(s)
  <2>1. s \in Pass
    BY <1>1 DEF Pass
  <2> QED
    BY <1>1, <1>2, <2>1 DEF PassOK
<1> HIDE DEF s
<1>4. /\ PassOK(Ended(s)) /\ Ended(s).todo = r.todo /\ Ended(s).last = r.last
      /\ Ended(s).running = r.running \ {v} /\ Ended(s).batch = r.batch
  BY <1>2, <1>3, EndedFacts
<1>5. passes' = [passes EXCEPT ![p] = Ended(s)]
  BY DEF RequestAnswered, s
<1>6. PICK bad \in SUBSET S : Answer(p, S, bad, r.drilled) /\ events' \in Nat
  <2>1. ASSUME NEW b, ServerSays(b) PROVE events' \in Nat
    BY <1>1, <2>1 DEF TypeOK, ServerSays, Event
  <2> QED
    BY <1>1, <2>1 DEF RequestAnswered, TypeOK
<1>7. S \in SUBSET Visuals /\ S = {w \in {v} : owner[w] = p}
  BY DEF Current
<1>8. pending' \in [Visuals -> Filters] /\ UNCHANGED <<wanted, timer, cards>>
  BY <1>1, NothingType DEF RequestAnswered, TypeOK
<1>9. \A w \in Visuals \ S : owner[w] = p /\ Requested(w) =>
                               w \in Ended(s).batch \cup Ended(s).running
  BY <1>4, <1>7 DEF Requested
<1> HIDE DEF r, S
<1> QED
  BY <1>4, <1>5, <1>6, <1>7, <1>8, <1>9, AnswerKeeps DEF r

-----------------------------------------------------------------------------
(* A visual that is skipped has a fingerprint, or its token is somebody's, or
   it takes the request of another: in no case is it cancelled.               *)
LEMMA SkipKeeps ==
  ASSUME IInv, NEW p \in Passes, NEW v \in Visuals, Skip(p, v)
  PROVE  IInv'
<1> DEFINE r == passes[p]
           s == Without(r, v)
<1>1. TypeOK /\ PassOK(r) /\ r \in Pass /\ OwnersRun /\ Cancelled /\ version # 0
  BY DEF IInv, PassesOK, PassOK
<1>2. /\ s.stage = r.stage /\ s.batch = r.batch /\ s.running = r.running
      /\ s.todo = r.todo \ {v} /\ s.last = r.last \ {v} /\ s.version = r.version
      /\ s \in Pass
  BY <1>1 DEF Pass, Without
<1>3. PassOK(s)
  BY <1>1, <1>2 DEF PassOK
<1>4. r.stage = "single" /\ Known(r, v) /\ passes' = [passes EXCEPT ![p] = Ended(s)]
  BY DEF Skip, Turn
<1> HIDE DEF s
<1>5. /\ PassOK(Ended(s)) /\ Ended(s).todo = r.todo \ {v} /\ Ended(s).last = r.last \ {v}
      /\ Ended(s).batch = r.batch /\ Ended(s).running = r.running
  BY <1>2, <1>3, EndedFacts
<1>6. /\ passes' \in [Passes -> Pass] /\ PassesOK' /\ passes'[p] = Ended(s)
      /\ \A q \in Passes \ {p} :
              /\ passes'[q].todo = passes[q].todo /\ passes'[q].last = passes[q].last
              /\ passes'[q].batch = passes[q].batch
              /\ passes'[q].running = passes[q].running
  BY <1>4, <1>5, OnePass
<1>7. UNCHANGED <<wanted, states, timer, owner, pending, stamp, cards, events>>
  BY DEF Skip
<1>8. excused' = excused \cup SkippedAstray(r, {v})
  BY DEF Skip
<1>9. TypeOK'
  BY <1>1, <1>6, <1>7, <1>8 DEF TypeOK, wanted, states, SkippedAstray
<1>10. OwnersRun'
  BY <1>1, <1>5, <1>6, <1>7 DEF OwnersRun, Requested, TypeOK, NoOwner
<1>11. Cancelled'
  <2> SUFFICES ASSUME NEW w \in Visuals, loading[w], owner[w] = NoOwner,
                      w \notin cards' \cup excused'
               PROVE  stamp'[w] = None /\ (w \in present' => Queued(w)')
    BY <1>7 DEF Cancelled, states
  <2>1. stamp[w] = None /\ (w \in present => Queued(w))
    BY <1>1, <1>7, <1>8 DEF Cancelled
  <2>2. w # v
    <3> SUFFICES ASSUME w = v PROVE FALSE
      OBVIOUS
    <3>1. Asks(r, v) # None
      BY <1>1, <1>4, AsksType DEF PassOK
    <3>2. v \in SkippedAstray(r, {v})
      BY <2>1, <3>1 DEF SkippedAstray, Astray
    <3> QED
      BY <1>8, <3>2
  <2>3. Queued(w) => Queued(w)'
    BY <1>5, <1>6, <2>2 DEF Queued
  <2> QED
    BY <1>7, <2>1, <2>3 DEF wanted
<1> QED
  BY <1>1, <1>6, <1>7, <1>9, <1>10, <1>11 DEF IInv, wanted

LEMMA AskKeeps ==
  ASSUME IInv, NEW p \in Passes, NEW v \in Visuals, Ask(p, v)
  PROVE  IInv'
<1> DEFINE r == passes[p]
           s == [Without(r, v) EXCEPT !.running = @ \cup {v},
                                      !.drilled = @ \cup (deep \cap {v})]
<1>1. TypeOK /\ PassOK(r) /\ r \in Pass /\ OwnersRun /\ Cancelled /\ version # 0
  BY DEF IInv, PassesOK, PassOK
<1>2. /\ s.stage = r.stage /\ s.batch = r.batch /\ s.running = r.running \cup {v}
      /\ s.todo = r.todo \ {v} /\ s.last = r.last \ {v} /\ s.version = r.version
      /\ s \in Pass
  BY <1>1 DEF Pass, Without, TypeOK
<1>3. r.stage = "single" /\ passes' = PassesAfter(p, s, {v})
  BY DEF Ask, Turn
<1> HIDE DEF s
<1>4. PassOK(s)
  BY <1>1, <1>2, <1>3 DEF PassOK
<1>5. /\ passes' \in [Passes -> Pass] /\ PassesOK' /\ passes'[p] = s
      /\ \A q \in Passes \ {p} :
              /\ passes'[q].todo = passes[q].todo /\ passes'[q].last = passes[q].last
              /\ passes'[q].batch = passes[q].batch
              /\ passes'[q].running = passes[q].running
  BY <1>3, <1>4, OnePass
<1>6. /\ owner' = [owner EXCEPT ![v] = p] /\ pending' = [pending EXCEPT ![v] = Asks(r, v)]
      /\ loading' = [loading EXCEPT ![v] = TRUE] /\ erred' = [erred EXCEPT ![v] = FALSE]
      /\ excused' = excused \cup AskedLate(r, {v})
      /\ UNCHANGED <<wanted, shown, timer, stamp, cards, events>>
  BY DEF Ask
<1>7. TypeOK'
  BY <1>1, <1>5, <1>6, AsksType DEF TypeOK, wanted, AskedLate
<1>8. OwnersRun'
  BY <1>1, <1>2, <1>5, <1>6 DEF OwnersRun, Requested, TypeOK, NoOwner
<1>9. Cancelled'
  <2> SUFFICES ASSUME NEW w \in Visuals, loading'[w], owner'[w] = NoOwner,
                      w \notin cards' \cup excused'
               PROVE  stamp'[w] = None /\ (w \in present' => Queued(w)')
    BY DEF Cancelled
  <2>1. w # v
    BY <1>1, <1>6, PassesAssumption DEF TypeOK, NoOwner
  <2>2. loading[w] /\ owner[w] = NoOwner /\ w \notin cards \cup excused
    BY <1>1, <1>6, <2>1 DEF TypeOK
  <2>3. stamp[w] = None /\ (w \in present => Queued(w))
    BY <1>1, <2>2 DEF Cancelled
  <2>4. Queued(w) => Queued(w)'
    BY <1>2, <1>5, <2>1 DEF Queued
  <2> QED
    BY <1>6, <2>3, <2>4 DEF wanted
<1> QED
  BY <1>1, <1>5, <1>6, <1>7, <1>8, <1>9 DEF IInv, wanted

-----------------------------------------------------------------------------
(* A pass chooses.  It has no requests yet, so it holds no token.             *)
LEMMA LaunchBatchKeeps ==
  ASSUME IInv, NEW p \in Passes, LaunchBatch(p)
  PROVE  IInv'
<1> DEFINE r == passes[p]
           ids == BatchIds(r)
           s == [r EXCEPT !.stage = "batch", !.batch = ids, !.todo = @ \ Candidates(r)]
<1>1. TypeOK /\ PassOK(r) /\ r \in Pass /\ OwnersRun /\ Cancelled /\ version # 0
  BY DEF IInv, PassesOK, PassOK
<1>2. ids \subseteq Candidates(r) /\ ids \subseteq Visuals /\ Candidates(r) \subseteq Visuals
  BY <1>1 DEF BatchIds, Candidates, Pass
<1>3. \A v \in Candidates(r) \ ids : stamp[v] = Asks(r, v)
  BY DEF BatchIds
<1> HIDE DEF ids
<1>4. /\ s.stage = "batch" /\ s.batch = ids /\ s.running = r.running
      /\ s.todo = r.todo \ Candidates(r) /\ s.last = r.last /\ s.version = r.version
  BY <1>1 DEF Pass
<1>5. s \in Pass
  BY <1>1, <1>2 DEF Pass, Stages
<1>6. r.stage = "begun" /\ passes' = PassesAfter(p, s, ids)
  BY DEF LaunchBatch, ids
<1> HIDE DEF s
<1>7. PassOK(s)
  BY <1>1, <1>4, <1>5, <1>6 DEF PassOK
<1>8. /\ passes' \in [Passes -> Pass] /\ PassesOK' /\ passes'[p] = s
      /\ \A q \in Passes \ {p} :
              /\ passes'[q].todo = passes[q].todo /\ passes'[q].last = passes[q].last
              /\ passes'[q].batch = passes[q].batch
              /\ passes'[q].running = passes[q].running
  BY <1>6, <1>7, OnePass
<1>9. /\ owner' = [v \in Visuals |-> IF v \in ids THEN p ELSE owner[v]]
      /\ loading' = [v \in Visuals |-> v \in ids \/ loading[v]]
      /\ erred' = [v \in Visuals |-> v \notin ids /\ erred[v]]
      /\ excused \subseteq excused'
      /\ UNCHANGED <<wanted, shown, timer, pending, stamp, cards, events>>
  BY DEF LaunchBatch, ids
<1>10. excused' \subseteq Visuals
  BY <1>1, <1>2 DEF LaunchBatch, AskedLate, SkippedAstray, TypeOK, ids
<1>11. TypeOK'
  BY <1>1, <1>8, <1>9, <1>10 DEF TypeOK, wanted
<1>12. OwnersRun'
  BY <1>1, <1>2, <1>4, <1>6, <1>8, <1>9 DEF OwnersRun, Requested, TypeOK, NoOwner, PassOK
<1>13. Cancelled'
  <2> SUFFICES ASSUME NEW w \in Visuals, loading'[w], owner'[w] = NoOwner,
                      w \notin cards' \cup excused'
               PROVE  stamp'[w] = None /\ (w \in present' => Queued(w)')
    BY DEF Cancelled
  <2>1. w \notin ids
    BY <1>9, PassesAssumption DEF NoOwner
  <2>2. loading[w] /\ owner[w] = NoOwner /\ w \notin cards \cup excused
    BY <1>9, <2>1
  <2>3. stamp[w] = None /\ (w \in present => Queued(w))
    BY <1>1, <2>2 DEF Cancelled
  <2>4. w \notin Candidates(r)
    BY <1>1, <1>3, <1>6, <2>1, <2>3, AsksType DEF PassOK
  <2>5. Queued(w) => Queued(w)'
    BY <1>4, <1>8, <2>4 DEF Queued
  <2> QED
    BY <1>9, <2>3, <2>5 DEF wanted
<1> QED
  BY <1>1, <1>8, <1>9, <1>11, <1>12, <1>13 DEF IInv, wanted

LEMMA LaunchSinglesKeeps ==
  ASSUME IInv, NEW p \in Passes, LaunchSingles(p)
  PROVE  IInv'
<1> DEFINE r == passes[p]
           ids == BatchIds(r)
<1>1. TypeOK /\ PassOK(r) /\ r \in Pass /\ OwnersRun /\ Cancelled /\ version # 0
  BY DEF IInv, PassesOK, PassOK
<1>2. ids \subseteq Candidates(r) /\ ids \subseteq Visuals /\ Candidates(r) \subseteq Visuals
  BY <1>1 DEF BatchIds, Candidates, Pass
<1>3. \A v \in Candidates(r) \ ids : stamp[v] = Asks(r, v)
  BY DEF BatchIds
<1> HIDE DEF ids
<1>4. r.stage = "begun"
  BY DEF LaunchSingles
<1>5. PICK s \in Pass :
        /\ s.stage = "single" /\ s.batch = r.batch /\ s.running = r.running
        /\ s.version = r.version
        /\ r.todo \cup r.last \subseteq s.todo \cup s.last \cup (Candidates(r) \ ids)
        /\ passes' = [passes EXCEPT ![p] = Ended(s)]
  <2>1. CASE passes' = [passes EXCEPT ![p] = Ended([r EXCEPT !.stage = "single"])]
    <3> DEFINE s == [r EXCEPT !.stage = "single"]
    <3>1. /\ s \in Pass /\ s.stage = "single" /\ s.batch = r.batch /\ s.running = r.running
          /\ s.version = r.version /\ s.todo = r.todo /\ s.last = r.last
      BY <1>1 DEF Pass, Stages
    <3> HIDE DEF s
    <3>2. passes' = [passes EXCEPT ![p] = Ended(s)]
      BY <2>1 DEF s
    <3> QED
      BY <3>1, <3>2
  <2>2. CASE passes' = [passes EXCEPT ![p] =
               Ended([r EXCEPT !.stage = "single", !.todo = @ \ Candidates(r), !.last = ids])]
    <3> DEFINE s == [r EXCEPT !.stage = "single", !.todo = @ \ Candidates(r), !.last = ids]
    <3>1. /\ s.stage = "single" /\ s.batch = r.batch /\ s.running = r.running
          /\ s.version = r.version /\ s.todo = r.todo \ Candidates(r) /\ s.last = ids
      BY <1>1 DEF Pass
    <3>2. s \in Pass
      BY <1>1, <1>2 DEF Pass, Stages
    <3> HIDE DEF s
    <3>3. passes' = [passes EXCEPT ![p] = Ended(s)]
      BY <2>2 DEF s
    <3>4. r.last = {}
      BY <1>1, <1>4 DEF PassOK
    <3> QED
      BY <3>1, <3>2, <3>3, <3>4
  <2> QED
    BY <2>1, <2>2 DEF LaunchSingles, ids
<1>6. PassOK(s)
  BY <1>1, <1>5, <1>4 DEF PassOK
<1>7. /\ PassOK(Ended(s)) /\ Ended(s).todo = s.todo /\ Ended(s).last = s.last
      /\ Ended(s).batch = r.batch /\ Ended(s).running = r.running
  BY <1>5, <1>6, EndedFacts
<1>8. /\ passes' \in [Passes -> Pass] /\ PassesOK' /\ passes'[p] = Ended(s)
      /\ \A q \in Passes \ {p} :
              /\ passes'[q].todo = passes[q].todo /\ passes'[q].last = passes[q].last
              /\ passes'[q].batch = passes[q].batch
              /\ passes'[q].running = passes[q].running
  BY <1>5, <1>7, OnePass
<1>9. UNCHANGED <<wanted, states, timer, owner, pending, stamp, cards, events>>
  BY DEF LaunchSingles
<1>10. excused \subseteq excused' /\ excused' \subseteq Visuals
  BY <1>1, <1>2 DEF LaunchSingles, SkippedAstray, TypeOK
<1>11. TypeOK'
  BY <1>1, <1>8, <1>9, <1>10 DEF TypeOK, wanted, states
<1>12. OwnersRun'
  BY <1>1, <1>7, <1>8, <1>9 DEF OwnersRun, Requested, TypeOK, NoOwner
<1>13. Cancelled'
  <2> SUFFICES ASSUME NEW w \in Visuals, loading[w], owner[w] = NoOwner,
                      w \notin cards \cup excused
               PROVE  stamp[w] = None /\ (w \in present => Queued(w)')
    BY <1>9, <1>10 DEF Cancelled, wanted, states
  <2>1. stamp[w] = None /\ (w \in present => Queued(w))
    BY <1>1 DEF Cancelled
  <2>2. w \notin Candidates(r) \ ids
    BY <1>1, <1>3, <1>4, <2>1, AsksType DEF PassOK
  <2>3. Queued(w) => Queued(w)'
    BY <1>5, <1>7, <1>8, <2>2 DEF Queued
  <2> QED
    BY <2>1, <2>3
<1> QED
  BY <1>1, <1>8, <1>9, <1>11, <1>12, <1>13 DEF IInv, wanted

-----------------------------------------------------------------------------
(* A pass begins, in the place of one that has ended.                         *)
LEMMA BeginFacts ==
  ASSUME IInv, version' \in Nat \ {0}, present' \subseteq Visuals, clicks' \subseteq Visuals,
         NEW force \in BOOLEAN, NEW only \in BOOLEAN, NEW merged \in BOOLEAN,
         Begin(force, only, merged)
  PROVE  /\ passes' \in [Passes -> Pass] /\ PassesOK'
         /\ timer' = FALSE
         /\ excused \subseteq excused' /\ excused' \subseteq Visuals
         /\ \A v \in Visuals : Queued(v) => Queued(v)'
         /\ \A v \in ToRender(present', clicks', only) : Queued(v)'
         /\ \A q \in Passes, v \in Visuals :
              v \in passes[q].batch \cup passes[q].running =>
                v \in passes'[q].batch \cup passes'[q].running
<1> DEFINE due == ToRender(present', clicks', only)
<1>1. TypeOK /\ PassesOK
  BY DEF IInv
<1>2. due \subseteq Visuals
  BY KindsAssumption DEF ToRender
<1>3. PICK p \in Passes :
        /\ passes[p] = NoPass
        /\ passes' = [passes EXCEPT ![p] =
             [NoPass EXCEPT !.stage = "begun", !.version = version', !.clicks = clicks',
                            !.force = force, !.only = only, !.todo = due]]
  BY DEF Begin, First
<1> DEFINE s == [NoPass EXCEPT !.stage = "begun", !.version = version', !.clicks = clicks',
                               !.force = force, !.only = only, !.todo = due]
<1>4. /\ s \in Pass /\ s.stage = "begun" /\ s.version = version' /\ s.todo = due
      /\ s.last = {} /\ s.batch = {} /\ s.running = {}
  <2>1. ASSUME NEW r \in Pass, r.last = {}, r.batch = {}, r.running = {},
               NEW t, t = [r EXCEPT !.stage = "begun", !.version = version',
                                    !.clicks = clicks', !.force = force, !.only = only,
                                    !.todo = due]
        PROVE  /\ t \in Pass /\ t.stage = "begun" /\ t.version = version' /\ t.todo = due
               /\ t.last = {} /\ t.batch = {} /\ t.running = {}
    <3>1. t \in Pass
      BY <1>2, <2>1 DEF Pass, Stages
    <3>2. /\ t.stage = "begun" /\ t.version = version' /\ t.todo = due
          /\ t.last = {} /\ t.batch = {} /\ t.running = {}
      BY <2>1 DEF Pass
    <3> QED
      BY <3>1, <3>2
  <2>2. /\ NoPass \in Pass /\ NoPass.last = {} /\ NoPass.batch = {} /\ NoPass.running = {}
    BY NoPassOK DEF NoPass, PassOK
  <2> QED
    BY <2>1, <2>2
<1>5. passes' = [passes EXCEPT ![p] = s]
  BY <1>3
<1> HIDE DEF s
<1>6. PassOK(s)
  BY <1>4 DEF PassOK
<1>7. /\ passes' \in [Passes -> Pass] /\ PassesOK' /\ passes'[p] = s
      /\ \A q \in Passes \ {p} :
              /\ passes'[q].todo = passes[q].todo /\ passes'[q].last = passes[q].last
              /\ passes'[q].batch = passes[q].batch
              /\ passes'[q].running = passes[q].running
  BY <1>5, <1>6, OnePass
<1>8. /\ passes[p].todo = {} /\ passes[p].last = {} /\ passes[p].batch = {}
      /\ passes[p].running = {}
  BY <1>3 DEF NoPass
<1>9. timer' = FALSE /\ excused \subseteq excused' /\ excused' \subseteq Visuals
  BY <1>1 DEF Begin, TypeOK
<1>10. \A v \in Visuals : Queued(v) => Queued(v)'
  BY <1>7, <1>8 DEF Queued
<1>11. \A v \in due : Queued(v)'
  BY <1>4, <1>7 DEF Queued
<1>12. \A q \in Passes, v \in Visuals :
              v \in passes[q].batch \cup passes[q].running =>
                v \in passes'[q].batch \cup passes'[q].running
  BY <1>7, <1>8
<1> QED
  BY <1>7, <1>9, <1>10, <1>11, <1>12

\* It begins beside those that are under way.
LEMMA BeginBeside ==
  ASSUME IInv, version' \in Nat \ {0}, loads' \in Nat, events' \in Nat,
         NEW force \in BOOLEAN, NEW only \in BOOLEAN, NEW merged \in BOOLEAN,
         UNCHANGED <<present, clicks, deep, states, cards, owner, pending, stamp>>,
         Begin(force, only, merged)
  PROVE  IInv'
<1>1. TypeOK /\ PassesOK /\ OwnersRun /\ Cancelled
  BY DEF IInv
<1>2. /\ passes' \in [Passes -> Pass] /\ PassesOK' /\ timer' = FALSE
      /\ excused \subseteq excused' /\ excused' \subseteq Visuals
      /\ \A v \in Visuals : Queued(v) => Queued(v)'
      /\ \A q \in Passes, v \in Visuals :
              v \in passes[q].batch \cup passes[q].running =>
                v \in passes'[q].batch \cup passes'[q].running
  <2>1. present' \subseteq Visuals /\ clicks' \subseteq Visuals
    BY <1>1 DEF TypeOK
  <2> QED
    BY <2>1, BeginFacts
<1>3. TypeOK'
  BY <1>1, <1>2 DEF TypeOK, states
<1>4. OwnersRun'
  BY <1>1, <1>2 DEF OwnersRun, Requested, TypeOK, NoOwner
<1>5. Cancelled'
  BY <1>1, <1>2 DEF Cancelled, states
<1> QED
  BY <1>2, <1>3, <1>4, <1>5 DEF IInv

\* Or all others are cancelled.  What loads is in the new pass, or left out of
\* it although a call that was not for interactions alone is merged.
LEMMA BeginAlone ==
  ASSUME IInv, version' \in Nat \ {0}, loads' \in Nat, events' \in Nat,
         present' \subseteq Visuals, clicks' \subseteq Visuals, deep' \subseteq Visuals,
         shown' \in [Visuals -> Answers],
         loading' \in [Visuals -> BOOLEAN], erred' \in [Visuals -> BOOLEAN],
         NEW force \in BOOLEAN, NEW only \in BOOLEAN, UNCHANGED cards,
         CancelAll, Begin(force, only, only)
  PROVE  IInv'
<1>1. TypeOK
  BY DEF IInv
<1>2. /\ passes' \in [Passes -> Pass] /\ PassesOK' /\ timer' = FALSE
      /\ excused' \subseteq Visuals
      /\ \A v \in ToRender(present', clicks', only) : Queued(v)'
  BY BeginFacts
<1>3. TypeOK'
  BY <1>1, <1>2, NothingType DEF TypeOK, CancelAll, NoOwner
<1>4. OwnersRun'
  BY DEF OwnersRun, CancelAll
<1>5. \A v \in Visuals : owner'[v] = NoOwner /\ stamp'[v] = None
  BY DEF CancelAll
<1>6. ASSUME NEW v \in present', ~Queued(v)' PROVE v \in excused'
  <2>1. only /\ v \in present' \ ToRender(present', clicks', only)
    BY <1>2, <1>6 DEF ToRender
  <2>2. WantedBy(v).of' # None
    BY <1>3, WantedType DEF WantedBy, FiltersFor, None
  <2>3. Astray(v, WantedBy(v).of)'
    BY <1>5, <2>2 DEF Astray
  <2> QED
    BY <2>1, <2>3 DEF Begin
<1>7. Cancelled'
  BY <1>5, <1>6 DEF Cancelled
<1> QED
  BY <1>2, <1>3, <1>4, <1>7 DEF IInv

-----------------------------------------------------------------------------
(* What the user does, the loads and the cards.                               *)
LEMMA EventType == ASSUME TypeOK, Event \/ UNCHANGED events PROVE events' \in Nat
BY DEF TypeOK, Event

LEMMA DebouncedKeeps ==
  ASSUME IInv, events' \in Nat, NEW sources \in SUBSET Visuals, Debounced(sources)
  PROVE  IInv'
<1>1. TypeOK /\ PassesOK /\ OwnersRun /\ Cancelled /\ version # 0
  BY DEF IInv
<1>2. TypeOK' /\ PassesOK' /\ version' # 0
  BY <1>1 DEF TypeOK, PassesOK, Debounced, states
<1>3. OwnersRun' /\ Cancelled'
  BY <1>1 DEF OwnersRun, Requested, Cancelled, Queued, Debounced, states
<1> QED
  BY <1>2, <1>3 DEF IInv

LEMMA UserKeeps == ASSUME IInv, User PROVE IInv'
<1>1. TypeOK /\ PassesOK /\ OwnersRun /\ Cancelled /\ version \in Nat \ {0}
  BY DEF IInv, TypeOK
<1>2. ASSUME NEW v \in Visuals, ClickOn(v) PROVE IInv'
  <2>1. events' \in Nat
    BY <1>1, <1>2, EventType DEF ClickOn
  <2>2. clicks \ {v} \in SUBSET Visuals /\ clicks \cup {v} \in SUBSET Visuals
    BY <1>1 DEF TypeOK
  <2>3. Debounced(clicks \ {v}) \/ Debounced(clicks \cup {v})
    BY <1>2 DEF ClickOn
  <2> QED
    BY <2>1, <2>2, <2>3, DebouncedKeeps
<1>3. ASSUME ClearClicks PROVE IInv'
  <2>1. events' \in Nat
    BY <1>1, <1>3, EventType DEF ClearClicks
  <2>2. Debounced({}) /\ {} \in SUBSET Visuals
    BY <1>3 DEF ClearClicks
  <2> QED
    BY <2>1, <2>2, DebouncedKeeps
<1>4. ASSUME NEW v \in Visuals, AddVisual(v) PROVE IInv'
  <2>1. events' \in Nat
    BY <1>1, <1>4, EventType DEF AddVisual
  <2>2. /\ version' \in Nat \ {0} /\ loads' \in Nat /\ present' \subseteq Visuals
        /\ clicks' \subseteq Visuals /\ deep' \subseteq Visuals
        /\ shown' \in [Visuals -> Answers]
        /\ loading' \in [Visuals -> BOOLEAN] /\ erred' \in [Visuals -> BOOLEAN]
        /\ UNCHANGED cards /\ timer \in BOOLEAN
    BY <1>1, <1>4 DEF AddVisual, TypeOK, states
  <2>3. CancelAll /\ Begin(FALSE, timer, timer)
    BY <1>4 DEF AddVisual
  <2> QED
    BY <2>1, <2>2, <2>3, BeginAlone
<1>5. ASSUME NEW v \in Visuals, RemoveVisual(v) PROVE IInv'
  <2>1. events' \in Nat
    BY <1>1, <1>5, EventType DEF RemoveVisual
  <2>2. /\ version' \in Nat \ {0} /\ loads' \in Nat /\ present' \subseteq Visuals
        /\ clicks' \subseteq Visuals /\ deep' \subseteq Visuals
        /\ shown' \in [Visuals -> Answers]
        /\ loading' \in [Visuals -> BOOLEAN] /\ erred' \in [Visuals -> BOOLEAN]
        /\ UNCHANGED cards /\ timer \in BOOLEAN
    BY <1>1, <1>5, NothingType DEF RemoveVisual, TypeOK
  <2>3. CancelAll /\ Begin(FALSE, timer, timer)
    BY <1>5 DEF RemoveVisual
  <2> QED
    BY <2>1, <2>2, <2>3, BeginAlone
<1>6. ASSUME Reload PROVE IInv'
  <2>1. TypeOK'
    BY <1>1, <1>6, NothingType DEF Reload, Cleared, Event, TypeOK, hook
  <2>2. PassesOK' /\ OwnersRun' /\ version' # 0
    BY <1>1, <1>6 DEF Reload, PassesOK, OwnersRun, Requested, hook
  <2>3. Cancelled'
    BY <1>6 DEF Reload, Cleared, Cancelled
  <2> QED
    BY <2>1, <2>2, <2>3 DEF IInv
<1>7. ASSUME ChangeRole PROVE IInv'
  <2>1. events' \in Nat
    BY <1>1, <1>7, EventType DEF ChangeRole
  <2>2. /\ version' \in Nat \ {0} /\ loads' \in Nat /\ present' \subseteq Visuals
        /\ clicks' \subseteq Visuals /\ deep' \subseteq Visuals /\ UNCHANGED cards
    BY <1>1, <1>7 DEF ChangeRole, TypeOK
  <2>3. /\ shown' \in [Visuals -> Answers]
        /\ loading' \in [Visuals -> BOOLEAN] /\ erred' \in [Visuals -> BOOLEAN]
    BY <1>7, NothingType DEF ChangeRole, Cleared
  <2>4. CancelAll /\ Begin(TRUE, TRUE, TRUE)
    BY <1>7 DEF ChangeRole
  <2> QED
    BY <2>1, <2>2, <2>3, <2>4, BeginAlone
<1>8. ASSUME NEW v \in Visuals, CardRenders(v) PROVE IInv'
  <2>1. /\ UNCHANGED <<present, version, clicks, loads, shown, hook>>
        /\ cards' = cards \cup {v} /\ excused \subseteq excused'
        /\ loading' = [loading EXCEPT ![v] = TRUE]
    BY <1>8 DEF CardRenders
  <2>2. TypeOK'
    BY <1>1, <1>8 DEF CardRenders, Drill, Event, TypeOK, hook
  <2>3. PassesOK' /\ OwnersRun' /\ version' # 0
    BY <1>1, <2>1 DEF PassesOK, OwnersRun, Requested, hook
  <2>4. Cancelled'
    BY <1>1, <2>1 DEF Cancelled, Queued, TypeOK, hook
  <2> QED
    BY <2>2, <2>3, <2>4 DEF IInv
<1> QED
  BY <1>2, <1>3, <1>4, <1>5, <1>6, <1>7, <1>8 DEF User

LEMMA LoadEndsKeeps == ASSUME IInv, LoadEnds PROVE IInv'
<1>1. TypeOK /\ PassesOK /\ OwnersRun /\ Cancelled /\ version \in Nat \ {0}
  BY DEF IInv, TypeOK
<1>2. /\ loads' \in Nat /\ events' \in Nat /\ timer \in BOOLEAN
      /\ UNCHANGED <<present, clicks, deep, states, cards, events>>
  BY <1>1 DEF LoadEnds, TypeOK
<1>3. CASE /\ version' = version + 1 /\ UNCHANGED <<owner, pending, stamp>>
           /\ Begin(TRUE, timer, timer)
  <2>1. version' \in Nat \ {0}
    BY <1>1, <1>3
  <2> QED
    BY <1>2, <1>3, <2>1, BeginBeside
<1>4. CASE UNCHANGED <<version, hook, excused>>
  <2>1. TypeOK' /\ PassesOK' /\ OwnersRun' /\ version' # 0
    BY <1>1, <1>2, <1>4 DEF TypeOK, PassesOK, OwnersRun, Requested, hook, states
  <2>2. Cancelled'
    BY <1>1, <1>2, <1>4 DEF Cancelled, Queued, hook, states
  <2> QED
    BY <2>1, <2>2 DEF IInv
<1> QED
  BY <1>3, <1>4 DEF LoadEnds

LEMMA CardAnsweredKeeps ==
  ASSUME IInv, NEW v \in Visuals, CardAnswered(v) PROVE IInv'
<1>1. TypeOK /\ PassesOK /\ OwnersRun /\ Cancelled /\ version # 0
  BY DEF IInv
<1>2. /\ cards' = cards \ {v} /\ excused \subseteq excused'
      /\ loading' = [loading EXCEPT ![v] = FALSE]
      /\ UNCHANGED <<wanted, hook>>
  BY DEF CardAnswered
<1>3. [of |-> [version |-> 0, clicks |-> {}], deep |-> v \in deep] \in Answers
  BY DEF Answers, Filters
<1>4. TypeOK'
  <2>1. /\ shown' \in [Visuals -> Answers] /\ erred' \in [Visuals -> BOOLEAN]
        /\ excused' \subseteq Visuals
    BY <1>1, <1>3 DEF CardAnswered, TypeOK
  <2>2. events' \in Nat
    BY <1>1, EventType DEF CardAnswered
  <2> QED
    BY <1>1, <1>2, <2>1, <2>2 DEF TypeOK, wanted, hook
<1>5. PassesOK' /\ OwnersRun' /\ version' # 0
  BY <1>1, <1>2 DEF PassesOK, OwnersRun, Requested, hook, wanted
<1>6. Cancelled'
  BY <1>1, <1>2 DEF Cancelled, Queued, TypeOK, hook, wanted
<1> QED
  BY <1>4, <1>5, <1>6 DEF IInv

-----------------------------------------------------------------------------
LEMMA NextIInv == IInv /\ [PageNext]_pageVars => IInv'
<1> SUFFICES ASSUME IInv, [PageNext]_pageVars PROVE IInv'
  OBVIOUS
<1>1. CASE User
  BY <1>1, UserKeeps
<1>2. CASE TimerFires
  <2>1. TypeOK /\ version \in Nat \ {0}
    BY DEF IInv, TypeOK
  <2>2. /\ version' \in Nat \ {0} /\ loads' \in Nat /\ events' \in Nat
        /\ UNCHANGED <<present, clicks, deep, states, cards, owner, pending, stamp>>
        /\ Begin(FALSE, TRUE, FALSE)
    BY <1>2, <2>1 DEF TimerFires, TypeOK, wanted
  <2> QED
    BY <2>2, BeginBeside
<1>3. CASE \E p \in Passes : \/ LaunchBatch(p) \/ LaunchSingles(p)
                             \/ \E v \in Visuals : Skip(p, v) \/ Ask(p, v)
  BY <1>3, LaunchBatchKeeps, LaunchSinglesKeeps, SkipKeeps, AskKeeps
<1>4. CASE LoadEnds
  BY <1>4, LoadEndsKeeps
<1>5. CASE \E v \in Visuals : CardAnswered(v)
  BY <1>5, CardAnsweredKeeps
<1>6. CASE \E p \in Passes : BatchAnswered(p) \/ \E v \in Visuals : RequestAnswered(p, v)
  BY <1>6, BatchAnsweredKeeps, AnsweredKeeps
<1>7. CASE UNCHANGED pageVars
  <2>1. TypeOK'
    BY <1>7 DEF IInv, TypeOK, pageVars, wanted, states, hook
  <2>2. PassesOK' /\ OwnersRun' /\ version' # 0
    BY <1>7 DEF IInv, PassesOK, OwnersRun, Requested, pageVars, wanted, states, hook
  <2>3. Cancelled'
    BY <1>7 DEF IInv, Cancelled, Queued, pageVars, wanted, states, hook
  <2> QED
    BY <2>1, <2>2, <2>3 DEF IInv
<1> QED
  BY <1>1, <1>2, <1>3, <1>4, <1>5, <1>6, <1>7 DEF PageNext, Browser, Server

LEMMA Invariant == PageSpec => []IInv
<1>1. PageInit => IInv
  BY InitIInv
<1>2. IInv /\ [PageNext]_pageVars => IInv'
  BY NextIInv
<1> QED
  BY <1>1, <1>2, PTL DEF PageSpec

(* The state of the page and of the hook keeps its type: tokens are those of
   passes, and what a pass goes over are visuals (useVisualRender.ts).        *)
THEOREM TypeCorrect == PageSpec => []TypeOK
<1>1. IInv => TypeOK
  BY DEF IInv
<1> QED
  BY <1>1, Invariant, PTL

(* No spinner is left alone, however passes, aborts, cancelled effects and
   answers with old tokens mix: a visual that loads has a request whose answer
   will be heeded, or a pass or a card that is to ask for it, except in the ways
   SpinsOnlyBy excuses (renderAll, render and cancelAll of useVisualRender.ts). *)
THEOREM SpinnersAreKept == PageSpec => []SpinsOnlyBy
<1>1. IInv => SpinsOnlyBy
  BY Spinners
<1> QED
  BY <1>1, Invariant, PTL

-----------------------------------------------------------------------------
(* What the visuals show.  The argument: a visual that is not excused either
   shows what is wanted, or the request with its latest token asks for it, or a
   pass, or the debounced one, is still due to ask for it (Due, OnItsWay).  A
   pass that skips it relies on its fingerprint, which is of what it shows
   (ShowsStamp); an answer is for the drill level of the moment (LevelAsked).  *)
Due(v) ==
  \/ \E p \in Passes : /\ v \in passes[p].todo \cup passes[p].last
                       /\ Asks(passes[p], v) = WantedBy(v).of
  \/ timer /\ v \in Affected

OnItsWay(v) ==
  IF owner[v] = NoOwner THEN erred[v] \/ shown[v] = WantedBy(v) \/ v \in cards
                       ELSE InFlight(v) = WantedBy(v).of

ShowsStamp(v) ==
  stamp[v] # None => shown[v] = [of |-> stamp[v], deep |-> v \in deep]

LevelAsked(v) ==
  owner[v] # NoOwner =>
    LET r == passes[owner[v]]
    IN /\ v \in r.batch => v \notin deep
       /\ v \in r.running => (v \in r.drilled <=> v \in deep)

Fresh(v) == (Due(v) \/ OnItsWay(v)) /\ ShowsStamp(v) /\ LevelAsked(v)

Tidy(r) == r.drilled \subseteq r.running /\ (r.todo \cup r.last) \cap r.running = {}

AllTidy  == \A p \in Passes : Tidy(passes[p])
FreshInv == AllTidy /\ \A v \in present \ excused : Fresh(v)

\* When nothing is under way, nothing is due, and no visual has a token.
LEMMA FreshAtRest == ASSUME IInv, FreshInv PROVE StaleOnlyBy
<1> SUFFICES ASSUME AtRest, NEW v \in present, v \notin excused
             PROVE  erred[v] \/ shown[v] = WantedBy(v)
  BY DEF StaleOnlyBy
<1>1. TypeOK /\ OwnersRun /\ v \in Visuals
  BY DEF IInv, TypeOK
<1>2. \A p \in Passes : /\ passes[p].todo = {} /\ passes[p].last = {}
                        /\ passes[p].batch = {} /\ passes[p].running = {}
  BY DEF AtRest, NoPass
<1>3. owner[v] = NoOwner
  BY <1>1, <1>2 DEF OwnersRun, Requested, TypeOK
<1>4. ~ Due(v) /\ v \notin cards
  BY <1>2 DEF Due, AtRest
<1> QED
  BY <1>3, <1>4 DEF FreshInv, Fresh, OnItsWay

-----------------------------------------------------------------------------
(* What a pass that becomes s keeps of what it had for a visual as r.         *)
KeepsDue(r, s, v) ==
  v \in r.todo \cup r.last => v \in s.todo \cup s.last /\ Asks(s, v) = Asks(r, v)

KeepsRequest(r, s, v) ==
  /\ v \in s.batch <=> v \in r.batch
  /\ v \in s.running <=> v \in r.running
  /\ v \in s.drilled <=> v \in r.drilled
  /\ v \in r.batch \cup r.running => Asks(s, v) = Asks(r, v)

LEMMA AsksSame ==
  ASSUME NEW r, NEW s, NEW v, s.version = r.version, s.clicks = r.clicks
  PROVE  Asks(s, v) = Asks(r, v)
BY DEF Asks

LEMMA EndedKeeps ==
  ASSUME NEW s, PassOK(s), Tidy(s)
  PROVE  /\ Tidy(Ended(s))
         /\ \A v : KeepsDue(s, Ended(s), v) /\ KeepsRequest(s, Ended(s), v)
<1>1. CASE s.stage = "single" /\ s.todo \cup s.last \cup s.running = {}
  <2>1. Ended(s) = NoPass
    BY <1>1 DEF Ended
  <2>2. /\ s.todo = {} /\ s.last = {} /\ s.running = {} /\ s.batch = {} /\ s.drilled = {}
    BY <1>1 DEF PassOK, Tidy
  <2> QED
    BY <2>1, <2>2 DEF NoPass, Tidy, KeepsDue, KeepsRequest
<1>2. CASE ~(s.stage = "single" /\ s.todo \cup s.last \cup s.running = {})
  BY <1>2 DEF Ended, KeepsDue, KeepsRequest
<1> QED
  BY <1>1, <1>2

\* The other passes, when one becomes s.
LEMMA OthersKeep ==
  ASSUME IInv, AllTidy, NEW p \in Passes, NEW s, PassOK(s), Tidy(s), NEW S,
         passes' = PassesAfter(p, s, S) \/ passes' = [passes EXCEPT ![p] = s]
  PROVE  /\ AllTidy'
         /\ passes'[p] = s
         /\ \A q \in Passes \ {p} : \A v : /\ KeepsDue(passes[q], passes'[q], v)
                                           /\ KeepsRequest(passes[q], passes'[q], v)
<1>1. passes \in [Passes -> Pass]
  BY DEF IInv, TypeOK
<1>2. passes'[p] = s
  BY <1>1 DEF PassesAfter
<1>3. ASSUME NEW q \in Passes \ {p}
      PROVE  passes'[q] = passes[q] \/ passes'[q] = [passes[q] EXCEPT !.aborted = TRUE]
  BY <1>1 DEF PassesAfter
<1>4. ASSUME NEW q \in Passes \ {p}
      PROVE  /\ passes'[q].todo = passes[q].todo /\ passes'[q].last = passes[q].last
             /\ passes'[q].batch = passes[q].batch
             /\ passes'[q].running = passes[q].running
             /\ passes'[q].drilled = passes[q].drilled
             /\ passes'[q].version = passes[q].version
             /\ passes'[q].clicks = passes[q].clicks
  <2>1. passes[q] \in Pass
    BY <1>1
  <2> QED
    BY <1>3, <2>1 DEF Pass
<1>5. AllTidy'
  BY <1>2, <1>4 DEF AllTidy, Tidy
<1>6. ASSUME NEW q \in Passes \ {p}, NEW v
      PROVE  /\ KeepsDue(passes[q], passes'[q], v)
             /\ KeepsRequest(passes[q], passes'[q], v)
  BY <1>4, AsksSame DEF KeepsDue, KeepsRequest
<1> QED
  BY <1>2, <1>5, <1>6

-----------------------------------------------------------------------------
(* What keeps a visual fresh.                                                 *)
SameVisual(v) ==
  /\ shown'[v] = shown[v] /\ erred'[v] = erred[v]
  /\ stamp'[v] = stamp[v] /\ owner'[v] = owner[v]
  /\ v \in deep' <=> v \in deep
  /\ v \in cards => v \in cards'
  /\ WantedBy(v)' = WantedBy(v)

LEMMA RequestSame ==
  ASSUME IInv, NEW v \in Visuals, SameVisual(v), ShowsStamp(v), LevelAsked(v),
         owner[v] # NoOwner => KeepsRequest(passes[owner[v]], passes'[owner[v]], v)
  PROVE  (OnItsWay(v) => OnItsWay(v)') /\ ShowsStamp(v)' /\ LevelAsked(v)'
<1>1. owner[v] # NoOwner => Requested(v)
  BY DEF IInv, OwnersRun
<1>2. OnItsWay(v) => OnItsWay(v)'
  BY <1>1 DEF OnItsWay, SameVisual, InFlight, KeepsRequest, Requested
<1>3. ShowsStamp(v)'
  BY DEF ShowsStamp, SameVisual
<1>4. LevelAsked(v)'
  BY DEF LevelAsked, SameVisual, KeepsRequest
<1> QED
  BY <1>2, <1>3, <1>4

LEMMA DueSame ==
  ASSUME NEW v \in Visuals, Due(v), WantedBy(v)' = WantedBy(v), timer => timer',
         \A q \in Passes : KeepsDue(passes[q], passes'[q], v)
  PROVE  Due(v)'
BY DEF Due, KeepsDue

LEMMA FreshSame ==
  ASSUME IInv, NEW v \in Visuals, Fresh(v), SameVisual(v), timer => timer',
         \A q \in Passes : KeepsDue(passes[q], passes'[q], v),
         owner[v] # NoOwner => KeepsRequest(passes[owner[v]], passes'[owner[v]], v)
  PROVE  Fresh(v)'
BY RequestSame, DueSame DEF Fresh, SameVisual

\* What a pass may skip is on its way.
LEMMA NotAstray ==
  ASSUME IInv, NEW v \in Visuals, ShowsStamp(v), ~ Astray(v, WantedBy(v).of)
  PROVE  OnItsWay(v)
<1>1. WantedBy(v).of # None /\ WantedBy(v) = [of |-> WantedBy(v).of, deep |-> v \in deep]
  BY WantedType DEF IInv, WantedBy
<1> QED
  BY <1>1 DEF Astray, OnItsWay, ShowsStamp

\* A pass leaves a visual out, or goes on without it: it is due elsewhere, or on
\* its way.
LEMMA FreshWithout ==
  ASSUME IInv, NEW v \in Visuals, Fresh(v), SameVisual(v), timer' = timer,
         NEW p \in Passes,
         Astray(v, Asks(passes[p], v)) => v \in excused',
         v \notin excused',
         \A q \in Passes \ {p} : KeepsDue(passes[q], passes'[q], v),
         owner[v] # NoOwner => KeepsRequest(passes[owner[v]], passes'[owner[v]], v)
  PROVE  Fresh(v)'
<1>1. (OnItsWay(v) => OnItsWay(v)') /\ ShowsStamp(v)' /\ LevelAsked(v)'
  BY RequestSame DEF Fresh
<1>2. CASE Asks(passes[p], v) = WantedBy(v).of
  BY <1>1, <1>2, NotAstray DEF Fresh
<1>3. CASE Asks(passes[p], v) # WantedBy(v).of
  <2>1. Due(v) => Due(v)'
    BY <1>3 DEF Due, KeepsDue, SameVisual
  <2> QED
    BY <1>1, <2>1 DEF Fresh
<1> QED
  BY <1>2, <1>3

-----------------------------------------------------------------------------
(* The steps of a pass.                                                       *)
LEMMA SkipFresh ==
  ASSUME IInv, FreshInv, NEW p \in Passes, NEW v \in Visuals, Skip(p, v)
  PROVE  FreshInv'
<1> DEFINE r == passes[p]
           s == Without(r, v)
<1>1. TypeOK /\ PassOK(r) /\ r \in Pass /\ AllTidy /\ Tidy(r)
  BY DEF IInv, PassesOK, PassOK, FreshInv, AllTidy
<1>2. /\ s.stage = r.stage /\ s.batch = r.batch /\ s.running = r.running
      /\ s.todo = r.todo \ {v} /\ s.last = r.last \ {v} /\ s.version = r.version
      /\ s.clicks = r.clicks /\ s.drilled = r.drilled /\ s \in Pass
  BY <1>1 DEF Pass, Without
<1>3. PassOK(s) /\ Tidy(s)
  BY <1>1, <1>2 DEF PassOK, Tidy
<1>4. passes' = [passes EXCEPT ![p] = Ended(s)]
  BY DEF Skip
<1>5. \A w \in Visuals : /\ w # v => KeepsDue(r, s, w)
                         /\ KeepsRequest(r, s, w)
  BY <1>2, AsksSame DEF KeepsDue, KeepsRequest
<1> HIDE DEF s
<1>6. /\ PassOK(Ended(s)) /\ Tidy(Ended(s))
      /\ \A w \in Visuals : /\ w # v => KeepsDue(r, Ended(s), w)
                            /\ KeepsRequest(r, Ended(s), w)
  BY <1>3, <1>5, EndedFacts, EndedKeeps DEF KeepsDue, KeepsRequest
<1>7. /\ AllTidy' /\ passes'[p] = Ended(s)
      /\ \A q \in Passes \ {p} : \A w : /\ KeepsDue(passes[q], passes'[q], w)
                                        /\ KeepsRequest(passes[q], passes'[q], w)
  <2> DEFINE e == Ended(s)
  <2>1. PassOK(e) /\ Tidy(e) /\ passes' = [passes EXCEPT ![p] = e]
    BY <1>4, <1>6
  <2> HIDE DEF e
  <2>2. /\ AllTidy' /\ passes'[p] = e
        /\ \A q \in Passes \ {p} : \A w : /\ KeepsDue(passes[q], passes'[q], w)
                                          /\ KeepsRequest(passes[q], passes'[q], w)
    BY <1>1, <2>1, OthersKeep
  <2> QED
    BY <2>2 DEF e
<1>8. /\ UNCHANGED <<wanted, states, timer, owner, pending, stamp, cards, events>>
      /\ excused' = excused \cup SkippedAstray(r, {v})
  BY DEF Skip
<1>9. \A w \in Visuals : SameVisual(w)
  BY <1>8 DEF SameVisual, wanted, states, WantedBy
<1> SUFFICES ASSUME NEW w \in present', w \notin excused' PROVE Fresh(w)'
  BY <1>7 DEF FreshInv
<1>10. w \in Visuals /\ Fresh(w) /\ SameVisual(w) /\ timer' = timer
  BY <1>1, <1>8, <1>9 DEF FreshInv, TypeOK, wanted
<1>11. owner[w] # NoOwner => KeepsRequest(passes[owner[w]], passes'[owner[w]], w)
  BY <1>1, <1>6, <1>7, <1>10 DEF TypeOK
<1>12. CASE w = v
  <2>1. Astray(v, Asks(r, v)) => v \in excused'
    BY <1>8 DEF SkippedAstray
  <2> QED
    BY <1>7, <1>10, <1>11, <1>12, <2>1, FreshWithout
<1>13. CASE w # v
  BY <1>6, <1>7, <1>10, <1>11, <1>13, FreshSame
<1> QED
  BY <1>12, <1>13

LEMMA AskFresh ==
  ASSUME IInv, FreshInv, NEW p \in Passes, NEW v \in Visuals, Ask(p, v)
  PROVE  FreshInv'
<1> DEFINE r == passes[p]
           s == [Without(r, v) EXCEPT !.running = @ \cup {v},
                                      !.drilled = @ \cup (deep \cap {v})]
<1>1. TypeOK /\ PassOK(r) /\ r \in Pass /\ AllTidy /\ Tidy(r)
  BY DEF IInv, PassesOK, PassOK, FreshInv, AllTidy
<1>2. /\ s.stage = r.stage /\ s.batch = r.batch /\ s.running = r.running \cup {v}
      /\ s.todo = r.todo \ {v} /\ s.last = r.last \ {v} /\ s.version = r.version
      /\ s.clicks = r.clicks /\ s.drilled = r.drilled \cup (deep \cap {v})
      /\ s \in Pass
  BY <1>1 DEF Pass, Without, TypeOK
<1>3. r.stage = "single" /\ passes' = PassesAfter(p, s, {v}) /\ v \in r.todo \cup r.last
  BY DEF Ask, Turn
<1> HIDE DEF s
<1>4. PassOK(s) /\ Tidy(s)
  BY <1>1, <1>2, <1>3 DEF PassOK, Tidy
<1>5. /\ AllTidy' /\ passes'[p] = s
      /\ \A q \in Passes \ {p} : \A w : /\ KeepsDue(passes[q], passes'[q], w)
                                        /\ KeepsRequest(passes[q], passes'[q], w)
  BY <1>1, <1>3, <1>4, OthersKeep
<1>6. \A w \in Visuals : w # v => KeepsDue(r, s, w) /\ KeepsRequest(r, s, w)
  BY <1>2, AsksSame DEF KeepsDue, KeepsRequest
<1>7. /\ owner' = [owner EXCEPT ![v] = p] /\ erred' = [erred EXCEPT ![v] = FALSE]
      /\ excused' = excused \cup AskedLate(r, {v})
      /\ UNCHANGED <<wanted, shown, timer, stamp, cards, events>>
  BY DEF Ask
<1> SUFFICES ASSUME NEW w \in present', w \notin excused' PROVE Fresh(w)'
  BY <1>5 DEF FreshInv
<1>8. w \in Visuals /\ Fresh(w) /\ timer' = timer
  BY <1>1, <1>7 DEF FreshInv, TypeOK, wanted
<1>9. CASE w = v
  <2>1. Asks(r, v) = WantedBy(v).of
    BY <1>7, <1>9 DEF AskedLate
  <2>2. WantedBy(v)' = WantedBy(v) /\ Asks(s, v) = Asks(r, v)
    BY <1>2, <1>7, AsksSame DEF WantedBy, wanted
  <2>3. owner'[v] = p /\ p # NoOwner
    BY <1>1, <1>7, PassesAssumption DEF TypeOK, NoOwner
  <2>4. OnItsWay(v)'
    BY <1>5, <2>1, <2>2, <2>3 DEF OnItsWay, InFlight
  <2>5. ShowsStamp(v)'
    BY <1>7, <1>8, <1>9 DEF Fresh, ShowsStamp, wanted
  <2>6. LevelAsked(v)'
    <3>1. v \notin r.drilled /\ r.batch = {}
      BY <1>1, <1>3 DEF Tidy, PassOK
    <3>2. v \notin s.batch /\ (v \in s.drilled <=> v \in deep) /\ deep' = deep
      BY <1>2, <1>7, <3>1 DEF wanted
    <3> QED
      BY <1>5, <2>3, <3>2 DEF LevelAsked
  <2> QED
    BY <1>9, <2>4, <2>5, <2>6 DEF Fresh
<1>10. CASE w # v
  <2>1. SameVisual(w)
    BY <1>1, <1>7, <1>8, <1>10 DEF SameVisual, wanted, WantedBy, TypeOK
  <2>2. owner[w] # NoOwner => KeepsRequest(passes[owner[w]], passes'[owner[w]], w)
    BY <1>1, <1>5, <1>6, <1>8, <1>10 DEF TypeOK
  <2>3. \A q \in Passes : KeepsDue(passes[q], passes'[q], w)
    BY <1>5, <1>6, <1>8, <1>10
  <2> QED
    BY <1>8, <2>1, <2>2, <2>3, FreshSame
<1> QED
  BY <1>9, <1>10

LEMMA LaunchBatchFresh ==
  ASSUME IInv, FreshInv, NEW p \in Passes, LaunchBatch(p)
  PROVE  FreshInv'
<1> DEFINE r == passes[p]
           ids == BatchIds(r)
           s == [r EXCEPT !.stage = "batch", !.batch = ids, !.todo = @ \ Candidates(r)]
<1>1. TypeOK /\ PassOK(r) /\ r \in Pass /\ AllTidy /\ Tidy(r)
  BY DEF IInv, PassesOK, PassOK, FreshInv, AllTidy
<1>2. /\ ids \subseteq Candidates(r) /\ ids \subseteq Visuals
      /\ Candidates(r) \subseteq r.todo /\ ids \cap deep = {}
  BY <1>1 DEF BatchIds, Candidates, Pass
<1>3. /\ passes' = PassesAfter(p, s, ids) /\ r.stage = "begun"
      /\ owner' = [v \in Visuals |-> IF v \in ids THEN p ELSE owner[v]]
      /\ erred' = [v \in Visuals |-> v \notin ids /\ erred[v]]
      /\ excused' = excused \cup AskedLate(r, ids) \cup SkippedAstray(r, Candidates(r) \ ids)
      /\ UNCHANGED <<wanted, shown, timer, pending, stamp, cards, events>>
  BY DEF LaunchBatch
<1> HIDE DEF ids
<1>4. /\ s.stage = "batch" /\ s.batch = ids /\ s.running = r.running
      /\ s.todo = r.todo \ Candidates(r) /\ s.last = r.last /\ s.version = r.version
      /\ s.clicks = r.clicks /\ s.drilled = r.drilled
      /\ r.running = {} /\ r.batch = {}
  BY <1>1, <1>3 DEF Pass, PassOK
<1>5. s \in Pass
  BY <1>1, <1>2 DEF Pass, Stages
<1> HIDE DEF s
<1>6. PassOK(s) /\ Tidy(s)
  BY <1>1, <1>3, <1>4, <1>5 DEF PassOK, Tidy
<1>7. /\ AllTidy' /\ passes'[p] = s
      /\ \A q \in Passes \ {p} : \A w : /\ KeepsDue(passes[q], passes'[q], w)
                                        /\ KeepsRequest(passes[q], passes'[q], w)
  BY <1>1, <1>3, <1>6, OthersKeep
<1>8. \A w \in Visuals : w \notin Candidates(r) => KeepsDue(r, s, w)
  BY <1>4, AsksSame DEF KeepsDue
<1> SUFFICES ASSUME NEW w \in present', w \notin excused' PROVE Fresh(w)'
  BY <1>7 DEF FreshInv
<1>9. w \in Visuals /\ Fresh(w) /\ timer' = timer
  BY <1>1, <1>3 DEF FreshInv, TypeOK, wanted
<1>10. CASE w \in ids
  <2>1. Asks(r, w) = WantedBy(w).of
    BY <1>3, <1>10 DEF AskedLate
  <2>2. WantedBy(w)' = WantedBy(w) /\ Asks(s, w) = Asks(r, w)
    BY <1>3, <1>4, AsksSame DEF WantedBy, wanted
  <2>3. owner'[w] = p /\ p # NoOwner
    BY <1>3, <1>9, <1>10, PassesAssumption DEF NoOwner
  <2>4. OnItsWay(w)'
    BY <1>7, <2>1, <2>2, <2>3 DEF OnItsWay, InFlight
  <2>5. ShowsStamp(w)'
    BY <1>3, <1>9 DEF Fresh, ShowsStamp, wanted
  <2>6. LevelAsked(w)'
    BY <1>2, <1>3, <1>4, <1>7, <1>10, <2>3 DEF LevelAsked, wanted
  <2> QED
    BY <2>4, <2>5, <2>6 DEF Fresh
<1>11. CASE w \notin ids
  <2>1. SameVisual(w)
    BY <1>1, <1>3, <1>9, <1>11 DEF SameVisual, wanted, WantedBy, TypeOK
  <2>2. owner[w] # NoOwner => owner[w] \in Passes \ {p}
    <3>1. owner[w] = p /\ owner[w] # NoOwner => w \in r.batch \cup r.running
      BY <1>9 DEF IInv, OwnersRun, Requested
    <3> QED
      BY <1>1, <1>4, <1>9, <3>1 DEF TypeOK
  <2>3. owner[w] # NoOwner => KeepsRequest(passes[owner[w]], passes'[owner[w]], w)
    BY <1>7, <2>2
  <2>4. CASE w \in Candidates(r)
    <3>1. Astray(w, Asks(r, w)) => w \in excused'
      BY <1>3, <1>11, <2>4 DEF SkippedAstray
    <3> QED
      BY <1>7, <1>9, <2>1, <2>3, <3>1, FreshWithout
  <2>5. CASE w \notin Candidates(r)
    BY <1>7, <1>8, <1>9, <2>1, <2>3, <2>5, FreshSame
  <2> QED
    BY <2>4, <2>5
<1> QED
  BY <1>10, <1>11

LEMMA LaunchSinglesFresh ==
  ASSUME IInv, FreshInv, NEW p \in Passes, LaunchSingles(p)
  PROVE  FreshInv'
<1> DEFINE r == passes[p]
           ids == BatchIds(r)
           left == Candidates(r) \ ids
<1>1. TypeOK /\ PassOK(r) /\ r \in Pass /\ AllTidy /\ Tidy(r)
  BY DEF IInv, PassesOK, PassOK, FreshInv, AllTidy
<1>2. /\ ids \subseteq Candidates(r) /\ ids \subseteq Visuals
      /\ Candidates(r) \subseteq r.todo
  BY <1>1 DEF BatchIds, Candidates, Pass
<1>3. r.stage = "begun" /\ r.batch = {} /\ r.running = {} /\ r.drilled = {} /\ r.last = {}
  BY <1>1 DEF LaunchSingles, PassOK, Tidy
<1>4. PICK s \in Pass :
        /\ s.stage = "single" /\ s.batch = r.batch /\ s.running = r.running
        /\ s.version = r.version /\ s.clicks = r.clicks /\ s.drilled = r.drilled
        /\ passes' = [passes EXCEPT ![p] = Ended(s)]
        /\ \/ s.todo = r.todo /\ s.last = r.last
           \/ /\ s.todo = r.todo \ Candidates(r) /\ s.last = ids
              /\ excused' = excused \cup SkippedAstray(r, left)
  <2>1. CASE passes' = [passes EXCEPT ![p] = Ended([r EXCEPT !.stage = "single"])]
    <3> DEFINE s == [r EXCEPT !.stage = "single"]
    <3>1. /\ s \in Pass /\ s.stage = "single" /\ s.batch = r.batch /\ s.running = r.running
          /\ s.version = r.version /\ s.todo = r.todo /\ s.last = r.last
          /\ s.clicks = r.clicks /\ s.drilled = r.drilled
      BY <1>1 DEF Pass, Stages
    <3> HIDE DEF s
    <3>2. passes' = [passes EXCEPT ![p] = Ended(s)]
      BY <2>1 DEF s
    <3> QED
      BY <3>1, <3>2
  <2>2. CASE /\ passes' = [passes EXCEPT ![p] =
                  Ended([r EXCEPT !.stage = "single", !.todo = @ \ Candidates(r), !.last = ids])]
             /\ excused' = excused \cup SkippedAstray(r, Candidates(r) \ ids)
    <3> DEFINE s == [r EXCEPT !.stage = "single", !.todo = @ \ Candidates(r), !.last = ids]
    <3>1. /\ s.stage = "single" /\ s.batch = r.batch /\ s.running = r.running
          /\ s.version = r.version /\ s.todo = r.todo \ Candidates(r) /\ s.last = ids
          /\ s.clicks = r.clicks /\ s.drilled = r.drilled
      BY <1>1 DEF Pass
    <3>2. s \in Pass
      BY <1>1, <1>2 DEF Pass, Stages
    <3> HIDE DEF s
    <3>3. passes' = [passes EXCEPT ![p] = Ended(s)]
      BY <2>2 DEF s
    <3> QED
      BY <2>2, <3>1, <3>2, <3>3
  <2> QED
    BY <2>1, <2>2 DEF LaunchSingles
<1> HIDE DEF ids
<1>5. PassOK(s) /\ Tidy(s)
  BY <1>1, <1>3, <1>4 DEF PassOK, Tidy
<1>6. PassOK(Ended(s)) /\ Tidy(Ended(s))
  BY <1>5, EndedFacts, EndedKeeps
<1>7. \A w \in Visuals : /\ KeepsDue(s, Ended(s), w) /\ KeepsRequest(s, Ended(s), w)
                         /\ KeepsRequest(r, s, w)
  BY <1>4, <1>5, EndedKeeps, AsksSame DEF KeepsRequest
<1>8. \A w \in Visuals : KeepsRequest(r, Ended(s), w)
  BY <1>7 DEF KeepsRequest
<1>9. /\ AllTidy' /\ passes'[p] = Ended(s)
      /\ \A q \in Passes \ {p} : \A w : /\ KeepsDue(passes[q], passes'[q], w)
                                        /\ KeepsRequest(passes[q], passes'[q], w)
  <2> DEFINE e == Ended(s)
  <2>1. PassOK(e) /\ Tidy(e) /\ passes' = [passes EXCEPT ![p] = e]
    BY <1>4, <1>6
  <2> HIDE DEF e
  <2>2. /\ AllTidy' /\ passes'[p] = e
        /\ \A q \in Passes \ {p} : \A w : /\ KeepsDue(passes[q], passes'[q], w)
                                          /\ KeepsRequest(passes[q], passes'[q], w)
    BY <1>1, <2>1, OthersKeep
  <2> QED
    BY <2>2 DEF e
<1>10. UNCHANGED <<wanted, states, timer, owner, pending, stamp, cards, events>>
  BY DEF LaunchSingles
<1>11. excused \subseteq excused'
  BY DEF LaunchSingles
<1> SUFFICES ASSUME NEW w \in present', w \notin excused' PROVE Fresh(w)'
  BY <1>9 DEF FreshInv
<1>12. w \in Visuals /\ Fresh(w) /\ SameVisual(w) /\ timer' = timer
  BY <1>1, <1>10, <1>11 DEF FreshInv, TypeOK, wanted, states, SameVisual, WantedBy
<1>13. owner[w] # NoOwner => KeepsRequest(passes[owner[w]], passes'[owner[w]], w)
  BY <1>1, <1>8, <1>9, <1>12 DEF TypeOK
<1>14. CASE KeepsDue(r, s, w)
  <2>1. KeepsDue(r, Ended(s), w)
    BY <1>7, <1>12, <1>14 DEF KeepsDue
  <2> QED
    BY <1>9, <1>12, <1>13, <2>1, FreshSame
<1>15. CASE ~ KeepsDue(r, s, w)
  <2>1. /\ w \in left
        /\ excused' = excused \cup SkippedAstray(r, left)
    BY <1>2, <1>3, <1>4, <1>15, AsksSame DEF KeepsDue
  <2>2. Astray(w, Asks(r, w)) => w \in excused'
    BY <2>1 DEF SkippedAstray
  <2> QED
    BY <1>9, <1>12, <1>13, <2>2, FreshWithout
<1> QED
  BY <1>14, <1>15

-----------------------------------------------------------------------------
(* Answers.                                                                   *)
LEMMA AnswerFresh ==
  ASSUME IInv, FreshInv, NEW p \in Passes, NEW s, PassOK(s), Tidy(s),
         NEW S \in SUBSET Visuals, NEW bad \in SUBSET S, NEW drilled,
         Answer(p, S, bad, drilled),
         UNCHANGED <<wanted, timer, cards>>,
         passes' = [passes EXCEPT ![p] = s],
         \A w \in S : owner[w] = p /\ (LevelAsked(w) => (w \in drilled <=> w \in deep)),
         \A w \in Visuals : KeepsDue(passes[p], s, w),
         \A w \in Visuals \ S : owner[w] = p => KeepsRequest(passes[p], s, w)
  PROVE  FreshInv'
<1>1. TypeOK /\ AllTidy
  BY DEF IInv, FreshInv
<1>2. /\ AllTidy' /\ passes'[p] = s
      /\ \A q \in Passes \ {p} : \A w : /\ KeepsDue(passes[q], passes'[q], w)
                                        /\ KeepsRequest(passes[q], passes'[q], w)
  BY <1>1, OthersKeep
<1> SUFFICES ASSUME NEW w \in present', w \notin excused' PROVE Fresh(w)'
  BY <1>2 DEF FreshInv
<1>3. w \in Visuals /\ w \in present /\ timer' = timer /\ WantedBy(w)' = WantedBy(w)
  BY <1>1 DEF TypeOK, wanted, WantedBy
<1>4. \A q \in Passes : KeepsDue(passes[q], passes'[q], w)
  BY <1>2, <1>3
<1>5. WantedBy(w) = [of |-> WantedBy(w).of, deep |-> w \in deep]
  BY DEF WantedBy
<1>6. CASE w \notin S
  <2>1. erred'[w] = erred[w]
    BY <1>1, <1>3, <1>6 DEF Answer, TypeOK
  <2>a. SameVisual(w) /\ w \notin excused
    BY <1>3, <1>6, <2>1 DEF Answer, SameVisual, wanted
  <2>2. owner[w] # NoOwner => KeepsRequest(passes[owner[w]], passes'[owner[w]], w)
    BY <1>1, <1>2, <1>3, <1>6 DEF TypeOK
  <2> QED
    BY <1>3, <1>4, <2>a, <2>2, FreshSame DEF FreshInv
<1>7. CASE w \in bad
  <2>1. /\ owner'[w] = NoOwner /\ erred'[w] /\ w \notin excused
        /\ shown'[w] = shown[w] /\ stamp'[w] = stamp[w] /\ deep' = deep
    BY <1>3, <1>7 DEF Answer, wanted
  <2>2. ShowsStamp(w)' /\ LevelAsked(w)' /\ OnItsWay(w)'
    BY <1>3, <2>1 DEF FreshInv, Fresh, ShowsStamp, LevelAsked, OnItsWay
  <2> QED
    BY <2>2 DEF Fresh
<1>8. CASE w \in S \ bad
  <2> DEFINE a == [of |-> Asks(passes[p], w), deep |-> w \in drilled]
  <2>1. /\ owner'[w] = NoOwner /\ deep' = deep
        /\ shown'[w] = a /\ stamp'[w] = Asks(passes[p], w)
        /\ w \in excused => a = WantedBy(w)
    BY <1>3, <1>8 DEF Answer, wanted
  <2>2. LevelAsked(w)'
    BY <2>1 DEF LevelAsked
  <2>3. w \in drilled <=> w \in deep
    <3>1. CASE w \in excused
      BY <1>5, <2>1, <3>1
    <3>2. CASE w \notin excused
      BY <1>3, <1>8, <3>2 DEF FreshInv, Fresh
    <3> QED
      BY <3>1, <3>2
  <2>4. a = [of |-> Asks(passes[p], w), deep |-> w \in deep]
    BY <2>3
  <2>5. ShowsStamp(w)'
    BY <2>1, <2>4 DEF ShowsStamp
  <2>6. CASE a = WantedBy(w)
    BY <1>3, <2>1, <2>2, <2>5, <2>6 DEF Fresh, OnItsWay
  <2>7. CASE a # WantedBy(w)
    <3>1. w \notin excused /\ owner[w] = p /\ p # NoOwner
      BY <1>8, <2>1, <2>7, PassesAssumption DEF NoOwner
    <3>2. ~ OnItsWay(w)
      BY <1>5, <2>4, <2>7, <3>1 DEF OnItsWay, InFlight
    <3>3. Due(w)
      BY <1>3, <3>1, <3>2 DEF FreshInv, Fresh
    <3>4. Due(w)'
      BY <1>3, <1>4, <3>3, DueSame
    <3> QED
      BY <2>2, <2>5, <3>4 DEF Fresh
  <2> QED
    BY <2>6, <2>7
<1> QED
  BY <1>6, <1>7, <1>8

LEMMA BatchAnsweredFresh ==
  ASSUME IInv, FreshInv, NEW p \in Passes, BatchAnswered(p)
  PROVE  FreshInv'
<1> DEFINE r == passes[p]
           s == [r EXCEPT !.stage = "single", !.batch = {}, !.aborted = FALSE]
           S == Current(p, r.batch)
           none == {}
<1>1. TypeOK /\ PassOK(r) /\ r \in Pass /\ Tidy(r)
  BY DEF IInv, PassesOK, PassOK, FreshInv, AllTidy
<1>2. /\ s.stage = "single" /\ s.batch = {} /\ s.running = r.running
      /\ s.todo = r.todo /\ s.last = r.last /\ s.version = r.version
      /\ s.clicks = r.clicks /\ s.drilled = r.drilled
  BY <1>1 DEF Pass
<1>3. PassOK(s) /\ Tidy(s)
  <2>1. s \in Pass
    BY <1>1 DEF Pass, Stages
  <2>2. r.version # 0
    BY <1>1 DEF BatchAnswered, PassOK
  <2> QED
    BY <1>1, <1>2, <2>1, <2>2 DEF PassOK, Tidy
<1>4. passes' = [passes EXCEPT ![p] = Ended(s)]
  BY DEF BatchAnswered
<1> HIDE DEF s
<1>5. PassOK(Ended(s)) /\ Tidy(Ended(s))
  BY <1>3, EndedFacts, EndedKeeps
<1>6. \A w \in Visuals : /\ KeepsDue(s, Ended(s), w) /\ KeepsRequest(s, Ended(s), w)
                         /\ KeepsDue(r, s, w)
                         /\ w \notin r.batch => KeepsRequest(r, s, w)
  BY <1>2, <1>3, EndedKeeps, AsksSame DEF KeepsRequest, KeepsDue
<1>7. \A w \in Visuals : /\ KeepsDue(r, Ended(s), w)
                         /\ w \notin r.batch => KeepsRequest(r, Ended(s), w)
  BY <1>6 DEF KeepsRequest, KeepsDue
<1>8. PICK bad \in SUBSET S : Answer(p, S, bad, none)
  BY DEF BatchAnswered
<1>9. /\ S \in SUBSET Visuals /\ UNCHANGED <<wanted, timer, cards>>
      /\ \A w \in Visuals \ S : owner[w] = p => w \notin r.batch
  BY <1>1 DEF Pass, Current, BatchAnswered
<1>10. \A w \in S : owner[w] = p /\ (LevelAsked(w) => (w \in none <=> w \in deep))
  BY PassesAssumption DEF Current, LevelAsked, NoOwner
<1> DEFINE e == Ended(s)
<1>11. /\ PassOK(e) /\ Tidy(e) /\ passes' = [passes EXCEPT ![p] = e]
       /\ \A w \in Visuals : KeepsDue(passes[p], e, w)
       /\ \A w \in Visuals \ S : owner[w] = p => KeepsRequest(passes[p], e, w)
  BY <1>4, <1>5, <1>7, <1>9
<1> HIDE DEF e, S, none
<1> QED
  BY <1>8, <1>9, <1>10, <1>11, AnswerFresh

LEMMA AnsweredFresh ==
  ASSUME IInv, FreshInv, NEW p \in Passes, NEW v \in Visuals, RequestAnswered(p, v)
  PROVE  FreshInv'
<1> DEFINE r == passes[p]
           s == [r EXCEPT !.running = @ \ {v}, !.drilled = @ \ {v}]
           S == Current(p, {v})
<1>1. TypeOK /\ PassOK(r) /\ r \in Pass /\ Tidy(r)
  BY DEF IInv, PassesOK, PassOK, FreshInv, AllTidy
<1>2. /\ s.stage = r.stage /\ s.batch = r.batch /\ s.running = r.running \ {v}
      /\ s.todo = r.todo /\ s.last = r.last /\ s.version = r.version
      /\ s.clicks = r.clicks /\ s.drilled = r.drilled \ {v}
  BY <1>1 DEF Pass
<1>3. PassOK(s) /\ Tidy(s)
  <2>1. s \in Pass
    BY <1>1 DEF Pass
  <2> QED
    BY <1>1, <1>2, <2>1 DEF PassOK, Tidy
<1>4. passes' = [passes EXCEPT ![p] = Ended(s)]
  BY DEF RequestAnswered
<1> HIDE DEF s
<1>5. PassOK(Ended(s)) /\ Tidy(Ended(s))
  BY <1>3, EndedFacts, EndedKeeps
<1>6. \A w \in Visuals : /\ KeepsDue(s, Ended(s), w) /\ KeepsRequest(s, Ended(s), w)
                         /\ KeepsDue(r, s, w)
                         /\ w # v => KeepsRequest(r, s, w)
  BY <1>2, <1>3, EndedKeeps, AsksSame DEF KeepsRequest, KeepsDue
<1>7. \A w \in Visuals : /\ KeepsDue(r, Ended(s), w)
                         /\ w # v => KeepsRequest(r, Ended(s), w)
  BY <1>6 DEF KeepsRequest, KeepsDue
<1>8. PICK bad \in SUBSET S : Answer(p, S, bad, r.drilled)
  BY DEF RequestAnswered
<1>9. /\ S \in SUBSET Visuals /\ UNCHANGED <<wanted, timer, cards>>
      /\ \A w \in Visuals \ S : owner[w] = p => w # v
  BY <1>1 DEF Pass, Current, RequestAnswered
<1>10. \A w \in S : owner[w] = p /\ (LevelAsked(w) => (w \in r.drilled <=> w \in deep))
  BY PassesAssumption DEF RequestAnswered, Current, LevelAsked, NoOwner
<1> DEFINE e == Ended(s)
<1>11. /\ PassOK(e) /\ Tidy(e) /\ passes' = [passes EXCEPT ![p] = e]
       /\ \A w \in Visuals : KeepsDue(passes[p], e, w)
       /\ \A w \in Visuals \ S : owner[w] = p => KeepsRequest(passes[p], e, w)
  BY <1>4, <1>5, <1>7, <1>9
<1> HIDE DEF e, S
<1> QED
  BY <1>8, <1>9, <1>10, <1>11, AnswerFresh

-----------------------------------------------------------------------------
(* A pass begins: it is due to ask for what it goes over, and what it leaves out
   without an excuse is not astray, or is neither a source nor affected.      *)
LEMMA BeginDue ==
  ASSUME IInv, FreshInv, NEW force, NEW only, NEW merged, Begin(force, only, merged)
  PROVE  /\ AllTidy'
         /\ \A v \in ToRender(present', clicks', only) : Due(v)'
         /\ \A q \in Passes : \A v : /\ KeepsDue(passes[q], passes'[q], v)
                                     /\ KeepsRequest(passes[q], passes'[q], v)
         /\ \A v \in present' \ ToRender(present', clicks', only) :
              Astray(v, WantedBy(v).of)' /\ v \notin excused' => ~ merged /\ v \notin clicks'
<1> DEFINE due == ToRender(present', clicks', only)
           s == [NoPass EXCEPT !.stage = "begun", !.version = version', !.clicks = clicks',
                               !.force = force, !.only = only, !.todo = due]
<1>1. PICK p \in Passes : passes[p] = NoPass /\ passes' = [passes EXCEPT ![p] = s]
  BY DEF Begin, First
<1>2. /\ s.version = version' /\ s.clicks = clicks' /\ s.todo = due
      /\ s.last = {} /\ s.batch = {} /\ s.running = {} /\ s.drilled = {}
  BY DEF NoPass
<1> HIDE DEF s
<1>3. passes'[p] = s /\ \A q \in Passes \ {p} : passes'[q] = passes[q]
  BY <1>1 DEF IInv, TypeOK
<1>4. AllTidy'
  BY <1>2, <1>3 DEF FreshInv, AllTidy, Tidy
<1>5. ASSUME NEW v \in due PROVE Due(v)'
  <2>1. Asks(s, v) = (WantedBy(v).of)'
    BY <1>2 DEF Asks, WantedBy
  <2> QED
    BY <1>2, <1>3, <2>1 DEF Due
<1>6. ASSUME NEW q \in Passes, NEW v
      PROVE  KeepsDue(passes[q], passes'[q], v) /\ KeepsRequest(passes[q], passes'[q], v)
  BY <1>1, <1>2, <1>3 DEF KeepsDue, KeepsRequest, NoPass
<1>7. \A v \in present' \ due :
        Astray(v, WantedBy(v).of)' /\ v \notin excused' => ~ merged /\ v \notin clicks'
  BY DEF Begin
<1> QED
  BY <1>4, <1>5, <1>6, <1>7

\* It begins beside those that are under way.
LEMMA BeginBesideFresh ==
  ASSUME IInv, IInv', FreshInv, NEW force, NEW only \in BOOLEAN, NEW merged \in BOOLEAN,
         Begin(force, only, merged),
         merged = only \/ version' = version,
         UNCHANGED <<present, clicks, deep, states, cards, owner, pending, stamp>>
  PROVE  FreshInv'
<1>1. /\ AllTidy'
      /\ \A v \in ToRender(present', clicks', only) : Due(v)'
      /\ \A q \in Passes : \A v : /\ KeepsDue(passes[q], passes'[q], v)
                                  /\ KeepsRequest(passes[q], passes'[q], v)
      /\ \A v \in present' \ ToRender(present', clicks', only) :
           Astray(v, WantedBy(v).of)' /\ v \notin excused' => ~ merged /\ v \notin clicks'
  BY BeginDue
<1> SUFFICES ASSUME NEW v \in present', v \notin excused' PROVE Fresh(v)'
  BY <1>1 DEF FreshInv
<1>2. /\ v \in Visuals /\ Fresh(v) /\ TypeOK
      /\ excused \subseteq excused'
  BY DEF IInv, TypeOK, FreshInv, Begin
<1>3. owner[v] # NoOwner => KeepsRequest(passes[owner[v]], passes'[owner[v]], v)
  BY <1>1, <1>2 DEF TypeOK
<1>4. ShowsStamp(v)' /\ LevelAsked(v)'
  BY <1>2, <1>3 DEF Fresh, ShowsStamp, LevelAsked, KeepsRequest, states
<1>5. CASE v \in ToRender(present', clicks', only)
  BY <1>1, <1>4, <1>5 DEF Fresh
<1>6. CASE ~ Astray(v, WantedBy(v).of)'
  <2>1. (WantedBy(v) = [of |-> WantedBy(v).of, deep |-> v \in deep])'
    BY DEF WantedBy
  <2>2. (WantedBy(v).of # None)'
    BY <1>2 DEF IInv, TypeOK, WantedBy, FiltersFor, None
  <2>3. OnItsWay(v)'
    BY <1>4, <1>6, <2>1, <2>2 DEF Astray, OnItsWay, ShowsStamp
  <2> QED
    BY <1>4, <2>3 DEF Fresh
<1>7. CASE v \notin ToRender(present', clicks', only) /\ Astray(v, WantedBy(v).of)'
  <2>1. ~ merged /\ v \notin clicks'
    BY <1>1, <1>7
  <2>2. only
    BY <1>7 DEF ToRender
  <2>3. v \notin Affected /\ version' = version
    BY <1>7, <2>1, <2>2 DEF ToRender
  <2>4. SameVisual(v)
    BY <1>2, <2>3 DEF SameVisual, states, WantedBy
  <2>5. Due(v) => Due(v)'
    BY <1>1, <2>3, <2>4 DEF Due, KeepsDue, SameVisual
  <2>6. OnItsWay(v) => OnItsWay(v)'
    BY <1>2, <1>3, <2>4, RequestSame DEF Fresh
  <2> QED
    BY <1>2, <1>4, <2>5, <2>6 DEF Fresh
<1> QED
  BY <1>5, <1>6, <1>7

\* Or all others are cancelled, and their fingerprints with them.
LEMMA BeginAloneFresh ==
  ASSUME IInv, IInv', FreshInv, NEW force, NEW only \in BOOLEAN,
         CancelAll, Begin(force, only, only)
  PROVE  FreshInv'
<1>1. /\ AllTidy'
      /\ \A v \in ToRender(present', clicks', only) : Due(v)'
      /\ \A v \in present' \ ToRender(present', clicks', only) :
           Astray(v, WantedBy(v).of)' /\ v \notin excused' => ~ only /\ v \notin clicks'
  BY BeginDue
<1> SUFFICES ASSUME NEW v \in present', v \notin excused' PROVE Fresh(v)'
  BY <1>1 DEF FreshInv
<1>2. v \in Visuals /\ version' # 0
  BY DEF IInv, TypeOK
<1>3. owner'[v] = NoOwner /\ stamp'[v] = None
  BY <1>2 DEF CancelAll
<1>4. ShowsStamp(v)' /\ LevelAsked(v)'
  BY <1>3 DEF ShowsStamp, LevelAsked
<1>5. Astray(v, WantedBy(v).of)'
  <2>1. (WantedBy(v).of # None)'
    BY <1>2 DEF WantedBy, FiltersFor, None
  <2> QED
    BY <1>3, <2>1 DEF Astray
<1>6. v \in ToRender(present', clicks', only)
  BY <1>1, <1>5 DEF ToRender
<1> QED
  BY <1>1, <1>4, <1>6 DEF Fresh

-----------------------------------------------------------------------------
(* What the user does, the loads and the cards: no pass has a turn.           *)
Standing ==
  /\ UNCHANGED <<owner, stamp, passes, present, version>>
  /\ excused \subseteq excused'
  /\ timer => timer'

\* Such a step changes what a visual shows only with an excuse, and what it is to
\* show only with a debounced pass.
Stands(v) ==
  /\ shown'[v] = shown[v]
  /\ v \in deep' <=> v \in deep
  /\ \/ WantedBy(v)' = WantedBy(v) /\ (erred[v] => erred'[v] \/ v \in cards')
                                   /\ (v \in cards => v \in cards' \/ erred'[v])
     \/ timer' /\ v \in Affected

LEMMA StandingFresh ==
  ASSUME IInv, FreshInv, Standing, \A v \in present : v \notin excused' => Stands(v)
  PROVE  FreshInv'
<1>1. AllTidy'
  BY DEF FreshInv, AllTidy, Tidy, Standing
<1> SUFFICES ASSUME NEW v \in present', v \notin excused' PROVE Fresh(v)'
  BY <1>1 DEF FreshInv
<1>2. v \in present /\ v \in Visuals /\ Fresh(v) /\ Stands(v)
  BY DEF Standing, FreshInv, IInv, TypeOK
<1>3. ShowsStamp(v)' /\ LevelAsked(v)'
  BY <1>2 DEF Fresh, ShowsStamp, LevelAsked, Stands, Standing
<1>4. CASE timer' /\ v \in Affected
  BY <1>3, <1>4 DEF Fresh, Due
<1>5. CASE /\ WantedBy(v)' = WantedBy(v)
           /\ erred[v] => erred'[v] \/ v \in cards'
           /\ v \in cards => v \in cards' \/ erred'[v]
  <2>1. Due(v) => Due(v)'
    BY <1>5 DEF Due, Standing
  <2>2. OnItsWay(v) => OnItsWay(v)'
    BY <1>2, <1>5 DEF OnItsWay, InFlight, Standing, Stands
  <2> QED
    BY <1>2, <1>3, <2>1, <2>2 DEF Fresh
<1> QED
  BY <1>2, <1>4, <1>5 DEF Stands

LEMMA DebouncedFresh ==
  ASSUME IInv, FreshInv, NEW sources, Debounced(sources) PROVE FreshInv'
<1>1. Standing
  BY DEF Standing, Debounced
<1>2. ASSUME NEW v \in present PROVE Stands(v)
  BY DEF Stands, Debounced, states, WantedBy, FiltersFor
<1> QED
  BY <1>1, <1>2, StandingFresh

LEMMA CardRendersFresh ==
  ASSUME IInv, FreshInv, NEW v \in Visuals, CardRenders(v) PROVE FreshInv'
<1>1. /\ UNCHANGED <<present, version, clicks, loads, shown, hook>>
      /\ cards' = cards \cup {v} /\ erred' = [erred EXCEPT ![v] = FALSE]
      /\ excused' = IF deep' = deep THEN excused ELSE excused \cup {v}
      /\ Drill(v) /\ TypeOK
  BY DEF CardRenders, IInv
<1>2. Standing
  BY <1>1 DEF Standing, hook
<1>3. ASSUME NEW w \in present, w \notin excused' PROVE Stands(w)
  <2>1. w \in deep' <=> w \in deep
    BY <1>1, <1>3 DEF Drill
  <2>2. WantedBy(w)' = WantedBy(w)
    BY <1>1, <2>1 DEF WantedBy
  <2>3. /\ erred[w] => erred'[w] \/ w \in cards'
        /\ w \in cards => w \in cards'
    BY <1>1 DEF TypeOK
  <2> QED
    BY <1>1, <2>1, <2>2, <2>3 DEF Stands
<1> QED
  BY <1>2, <1>3, StandingFresh

LEMMA CardAnsweredFresh ==
  ASSUME IInv, FreshInv, NEW v \in Visuals, CardAnswered(v) PROVE FreshInv'
<1>1. UNCHANGED <<wanted, hook>> /\ cards' = cards \ {v} /\ TypeOK
  BY DEF CardAnswered, IInv
<1>2. \/ /\ v \in excused' /\ excused \subseteq excused'
         /\ \A w \in Visuals \ {v} : shown'[w] = shown[w] /\ erred'[w] = erred[w]
      \/ /\ erred'[v] /\ excused' = excused /\ shown' = shown
         /\ \A w \in Visuals \ {v} : erred'[w] = erred[w]
  BY <1>1 DEF CardAnswered, TypeOK
<1>3. Standing
  BY <1>1, <1>2 DEF Standing, wanted, hook
<1>4. ASSUME NEW w \in present, w \notin excused' PROVE Stands(w)
  <2>1. w \in Visuals /\ WantedBy(w)' = WantedBy(w) /\ deep' = deep
    BY <1>1 DEF TypeOK, wanted, WantedBy
  <2>2. /\ shown'[w] = shown[w]
        /\ erred[w] => erred'[w]
        /\ w \in cards => w \in cards' \/ erred'[w]
    BY <1>1, <1>2, <1>4, <2>1
  <2> QED
    BY <2>1, <2>2 DEF Stands
<1> QED
  BY <1>3, <1>4, StandingFresh

LEMMA UserFresh == ASSUME IInv, IInv', FreshInv, User PROVE FreshInv'
<1>1. TypeOK /\ timer \in BOOLEAN
  BY DEF IInv, TypeOK
<1>2. ASSUME NEW v \in Visuals, ClickOn(v) PROVE FreshInv'
  BY <1>2, DebouncedFresh DEF ClickOn
<1>3. ASSUME ClearClicks PROVE FreshInv'
  BY <1>3, DebouncedFresh DEF ClearClicks
<1>4. ASSUME NEW v \in Visuals, AddVisual(v) \/ RemoveVisual(v) PROVE FreshInv'
  <2>1. CancelAll /\ Begin(FALSE, timer, timer)
    BY <1>4 DEF AddVisual, RemoveVisual
  <2> QED
    BY <1>1, <2>1, BeginAloneFresh
<1>5. ASSUME ChangeRole PROVE FreshInv'
  <2>1. CancelAll /\ Begin(TRUE, TRUE, TRUE)
    BY <1>5 DEF ChangeRole
  <2> QED
    BY <2>1, BeginAloneFresh
<1>6. ASSUME Reload PROVE FreshInv'
  <2>1. Standing
    BY <1>6 DEF Reload, Standing, hook
  <2>2. \A v \in present : v \in excused'
    BY <1>6 DEF Reload
  <2> QED
    BY <2>1, <2>2, StandingFresh
<1>7. ASSUME NEW v \in Visuals, CardRenders(v) PROVE FreshInv'
  BY <1>7, CardRendersFresh
<1> QED
  BY <1>2, <1>3, <1>4, <1>5, <1>6, <1>7 DEF User

LEMMA LoadEndsFresh == ASSUME IInv, IInv', FreshInv, LoadEnds PROVE FreshInv'
<1>1. timer \in BOOLEAN /\ UNCHANGED <<present, clicks, deep, states, cards, events>>
  BY DEF IInv, TypeOK, LoadEnds
<1>2. CASE UNCHANGED <<owner, pending, stamp>> /\ Begin(TRUE, timer, timer)
  <2>1. UNCHANGED <<present, clicks, deep, states, cards, owner, pending, stamp>>
    BY <1>1, <1>2
  <2> QED
    BY <1>1, <1>2, <2>1, BeginBesideFresh
<1>3. CASE UNCHANGED <<version, hook, excused>>
  <2>1. Standing
    BY <1>1, <1>3 DEF Standing, hook
  <2>2. \A v \in present : Stands(v)
    BY <1>1, <1>3 DEF Stands, WantedBy, states
  <2> QED
    BY <2>1, <2>2, StandingFresh
<1> QED
  BY <1>2, <1>3 DEF LoadEnds

-----------------------------------------------------------------------------
\* The first pass has all visuals to do.
LEMMA InitFresh == PageInit => FreshInv
<1> SUFFICES ASSUME PageInit PROVE FreshInv
  OBVIOUS
<1> DEFINE first == [NoPass EXCEPT !.stage = "begun", !.version = 1, !.todo = AtFirst]
<1>1. /\ first.version = 1 /\ first.clicks = {} /\ first.todo = AtFirst
      /\ first.last = {} /\ first.running = {} /\ first.drilled = {}
  BY DEF NoPass
<1>2. passes = [p \in Passes |-> IF \A q \in Passes : p <= q THEN first ELSE NoPass]
  BY DEF PageInit
<1> HIDE DEF first
<1>3. AllTidy
  BY <1>1, <1>2 DEF AllTidy, Tidy, NoPass
<1>4. ASSUME NEW v \in present PROVE Fresh(v)
  <2>1. v \in AtFirst /\ v \in Visuals /\ version = 1 /\ clicks = {}
        /\ owner[v] = NoOwner /\ stamp[v] = None
    BY PageAssumption DEF PageInit
  <2>2. PICK p \in Passes : \A q \in Passes : p <= q
    BY FirstAssumption
  <2>3. passes[p] = first
    BY <1>2, <2>2
  <2>4. Asks(first, v) = WantedBy(v).of
    BY <1>1, <2>1 DEF Asks, WantedBy
  <2>5. Due(v)
    BY <1>1, <2>1, <2>3, <2>4 DEF Due
  <2> QED
    BY <2>1, <2>5 DEF Fresh, ShowsStamp, LevelAsked
<1> QED
  BY <1>3, <1>4 DEF FreshInv

LEMMA NextFresh == IInv /\ IInv' /\ FreshInv /\ [PageNext]_pageVars => FreshInv'
<1> SUFFICES ASSUME IInv, IInv', FreshInv, [PageNext]_pageVars PROVE FreshInv'
  OBVIOUS
<1>1. CASE User
  BY <1>1, UserFresh
<1>2. CASE TimerFires
  <2>1. /\ UNCHANGED <<present, clicks, deep, states, cards, owner, pending, stamp>>
        /\ version' = version /\ Begin(FALSE, TRUE, FALSE)
    BY <1>2 DEF TimerFires, wanted
  <2> QED
    BY <2>1, BeginBesideFresh
<1>3. CASE \E p \in Passes : \/ LaunchBatch(p) \/ LaunchSingles(p)
                             \/ \E v \in Visuals : Skip(p, v) \/ Ask(p, v)
  BY <1>3, LaunchBatchFresh, LaunchSinglesFresh, SkipFresh, AskFresh
<1>4. CASE LoadEnds
  BY <1>4, LoadEndsFresh
<1>5. CASE \E v \in Visuals : CardAnswered(v)
  BY <1>5, CardAnsweredFresh
<1>6. CASE \E p \in Passes : BatchAnswered(p) \/ \E v \in Visuals : RequestAnswered(p, v)
  BY <1>6, BatchAnsweredFresh, AnsweredFresh
<1>7. CASE UNCHANGED pageVars
  <2>1. Standing
    BY <1>7 DEF Standing, pageVars, wanted, hook
  <2>2. \A v \in present : Stands(v)
    BY <1>7 DEF Stands, WantedBy, pageVars, wanted, states
  <2> QED
    BY <2>1, <2>2, StandingFresh
<1> QED
  BY <1>1, <1>2, <1>3, <1>4, <1>5, <1>6, <1>7 DEF PageNext, Browser, Server

LEMMA FreshInvariant == PageSpec => [](IInv /\ FreshInv)
<1>1. PageInit => IInv /\ FreshInv
  BY InitIInv, InitFresh
<1>2. IInv /\ FreshInv /\ [PageNext]_pageVars => (IInv /\ FreshInv)'
  BY NextIInv, NextFresh
<1> QED
  BY <1>1, <1>2, PTL DEF PageSpec

(* When everything has been answered, each visual shows an error or what the
   filters, the selections and its drill level ask for, except in the ways
   StaleOnlyBy excuses: whatever passes are aborted, superseded or merged, no
   fingerprint keeps a visual from being asked for again with what is wanted now
   (renderAll, renderAllCoalesced and cancelAll of useVisualRender.ts).       *)
THEOREM VisualsAreFresh == PageSpec => []StaleOnlyBy
<1>1. IInv /\ FreshInv => StaleOnlyBy
  BY FreshAtRest
<1> QED
  BY <1>1, FreshInvariant, PTL

-----------------------------------------------------------------------------
(* The plans.  What is planned for a key is what the key asks for, but for the
   levels expanded and the selections stored when it was planned.             *)
PlanFits(e) ==
  /\ e.question.passing = Passing(Asked(e.key.def, e.key.filters, e.key), e.key.def.page, VisualId)
  /\ e.question.levels = LevelsShown(e.key.def, [level |-> e.key.level, expand |-> e.expand])
  /\ e.picks \in Nat /\ e.picks <= picks
  /\ e.picks = picks => e.question.items = [kind \in Kinds |-> EffectiveOf(e.key.def, kind)]

AnswerFits ==
  answer.kind = "data" =>
    /\ PlanFits(answer.entry)
    /\ answer.entry.key = KeyOf(answer.def, answer.filters, answer.drill)

PlansInv ==
  /\ picks \in Nat
  /\ \A e \in plans : PlanFits(e)
  /\ AnswerFits

LEMMA PlanOfFits ==
  ASSUME picks \in Nat, NEW def, NEW fs, NEW drill
  PROVE  PlanFits(PlanOf(def, fs, drill)) /\ PlanOf(def, fs, drill).key = KeyOf(def, fs, drill)
<1> DEFINE e == PlanOf(def, fs, drill)
<1>1. /\ e.key = KeyOf(def, fs, drill) /\ e.question = Question(def, fs, drill)
      /\ e.expand = drill.expand /\ e.picks = picks
  BY DEF PlanOf
<1>2. /\ e.key.def = def /\ e.key.filters = fs /\ e.key.level = drill.level
      /\ e.key.drilled = drill.drilled
  BY <1>1 DEF KeyOf
<1>3. /\ e.question.levels = LevelsShown(def, drill)
      /\ e.question.passing = Passing(Asked(def, fs, drill), def.page, VisualId)
      /\ e.question.items = [kind \in Kinds |-> EffectiveOf(def, kind)]
  BY <1>1 DEF Question
<1>4. LevelsShown(def, drill) = LevelsShown(def, [level |-> e.key.level, expand |-> e.expand])
  BY <1>1, <1>2 DEF LevelsShown
<1>5. Asked(def, fs, drill) = Asked(def, fs, e.key)
  BY <1>2 DEF Asked, DrillItems
<1> QED BY <1>1, <1>2, <1>3, <1>4, <1>5 DEF PlanFits

LEMMA UsedFits ==
  ASSUME picks \in Nat, NEW cache, \A e \in cache : PlanFits(e), NEW def, NEW fs, NEW drill
  PROVE  /\ PlanFits(Used(cache, def, fs, drill))
         /\ Used(cache, def, fs, drill).key = KeyOf(def, fs, drill)
         /\ \A e \in Kept(cache, Used(cache, def, fs, drill)) : PlanFits(e)
<1> DEFINE e == Used(cache, def, fs, drill)
<1>1. PlanFits(e) /\ e.key = KeyOf(def, fs, drill)
  <2>1. CASE Found(cache, def, fs, drill) = {}
    BY <2>1, PlanOfFits DEF Used
  <2>2. CASE Found(cache, def, fs, drill) # {}
    <3>1. e \in Found(cache, def, fs, drill)
      BY <2>2 DEF Used
    <3> QED BY <3>1 DEF Found
  <2> QED BY <2>1, <2>2
<1> QED BY <1>1 DEF Kept

\* What is planned stays fitting as long as nothing is stored.
LEMMA FitStays ==
  ASSUME UNCHANGED <<selected, picks>>
  PROVE  \A e : PlanFits(e) => PlanFits(e)'
BY DEF PlanFits, EffectiveOf, Loaded, CalcLoaded

\* An answer that needs no plan leaves the plans fitting, and so does one that
\* shows a plan that fits its question.
LEMMA NoDataFits ==
  ASSUME PlansInv, UNCHANGED <<selected, picks>>, plans' \subseteq plans, answer'.kind # "data"
  PROVE  PlansInv'
BY FitStays DEF PlansInv, AnswerFits

LEMMA DataFits ==
  ASSUME PlansInv, UNCHANGED <<selected, picks>>,
         NEW e, PlanFits(e), e.key = KeyOf(answer'.def, answer'.filters, answer'.drill),
         answer'.entry = e, \A x \in plans' : PlanFits(x)
  PROVE  PlansInv'
<1>1. PlanFits(e)'
  BY FitStays
<1>2. \A x \in plans' : PlanFits(x)'
  BY FitStays
<1>3. e.key = KeyOf(answer.def, answer.filters, answer.drill)'
  BY DEF KeyOf
<1> QED BY <1>1, <1>2, <1>3 DEF PlansInv, AnswerFits

LEMMA AskOneFits ==
  ASSUME PlansInv, NEW route, NEW p, NEW def, NEW fs, NEW drill, AskOne(route, p, def, fs, drill)
  PROVE  PlansInv'
<1>1. UNCHANGED <<selected, picks>>
  BY DEF AskOne, Answered, stores
<1>2. CASE ~ Answerable(def, fs, drill)
  BY <1>1, <1>2, NoDataFits DEF AskOne, Answered, Fails
<1>3. CASE Answerable(def, fs, drill)
  <2>1. PICK e : e = Used(plans, def, fs, drill)
    OBVIOUS
  <2>2. plans' = Kept(plans, e) /\ answer' = Figures(route, p, def, fs, drill, e, e)
    BY <1>3, <2>1 DEF AskOne, Answered
  <2>3. /\ answer'.entry = e /\ answer'.def = def /\ answer'.filters = fs /\ answer'.drill = drill
    BY <2>2 DEF Figures
  <2>4. /\ PlanFits(e) /\ e.key = KeyOf(def, fs, drill)
        /\ \A x \in Kept(plans, e) : PlanFits(x)
    BY <2>1, UsedFits DEF PlansInv
  <2> QED BY <2>2, <2>3, <2>4, <1>1, DataFits
<1> QED BY <1>2, <1>3

LEMMA AskTwoFits ==
  ASSUME PlansInv, NEW p, NEW def, NEW base, NEW both, AskTwo(p, def, base, both)
  PROVE  PlansInv'
<1>1. PICK first : first = Used(plans, def, base, Undrilled)
  OBVIOUS
<1>2. PICK second : second = Used(Kept(plans, first), def, both, Undrilled)
  OBVIOUS
<1>3. /\ PlanFits(first) /\ first.key = KeyOf(def, base, Undrilled)
      /\ \A x \in Kept(plans, first) : PlanFits(x)
  BY <1>1, UsedFits DEF PlansInv
<1>4. /\ PlanFits(second) /\ second.key = KeyOf(def, both, Undrilled)
      /\ \A x \in Kept(Kept(plans, first), second) : PlanFits(x)
  BY <1>2, <1>3, UsedFits DEF PlansInv
<1>5. UNCHANGED <<selected, picks>>
  BY DEF AskTwo, Answered, stores
<1>6. CASE answer' = Figures("highlight", p, def, base, Undrilled, first, first)
           /\ plans' = Kept(plans, first)
  <2>1. /\ answer'.entry = first /\ answer'.def = def /\ answer'.filters = base
        /\ answer'.drill = Undrilled
    BY <1>6 DEF Figures
  <2> QED BY <2>1, <1>3, <1>5, <1>6, DataFits
<1>7. CASE answer' = Figures("highlight", p, def, both, Undrilled, second, first)
           /\ plans' = Kept(Kept(plans, first), second)
  <2>1. /\ answer'.entry = second /\ answer'.def = def /\ answer'.filters = both
        /\ answer'.drill = Undrilled
    BY <1>7 DEF Figures
  <2> QED BY <2>1, <1>4, <1>5, <1>7, DataFits
<1>8. \/ answer' = Figures("highlight", p, def, base, Undrilled, first, first)
         /\ plans' = Kept(plans, first)
      \/ answer' = Figures("highlight", p, def, both, Undrilled, second, first)
         /\ plans' = Kept(Kept(plans, first), second)
  BY <1>1, <1>2 DEF AskTwo, Answered
<1> QED BY <1>6, <1>7, <1>8

LEMMA InitPlans == RequestInit => PlansInv
BY DEF RequestInit, PlansInv, AnswerFits, NoAnswer

LEMMA PlansStep == PlansInv /\ [RequestNext]_allVars => PlansInv'
<1> SUFFICES ASSUME PlansInv, [RequestNext]_allVars PROVE PlansInv'
  OBVIOUS
<1>1. ASSUME NEW kind \in Kinds, NEW put, PutSelections(kind, put) PROVE PlansInv'
  <2>1. answer' = NoAnswer /\ plans' = plans /\ picks' = picks + 1
    BY <1>1 DEF PutSelections, Store, Changed, Idle
  <2>2. \A e : PlanFits(e) => PlanFits(e)'
    BY <2>1 DEF PlansInv, PlanFits
  <2> QED BY <2>1, <2>2 DEF PlansInv, AnswerFits, NoAnswer
<1>2. ASSUME NEW parameters, PutParameters(parameters) PROVE PlansInv'
  BY <1>2, NoDataFits DEF PutParameters, Idle, NoAnswer
<1>3. ASSUME NEW def, SaveVisual(def) PROVE PlansInv'
  BY <1>3, NoDataFits DEF SaveVisual, Changed, Idle, NoAnswer
<1>4. CASE DayPasses
  BY <1>4, NoDataFits DEF DayPasses, Changed, Idle, NoAnswer
<1>5. CASE ForgetPlans
  BY <1>5, NoDataFits DEF ForgetPlans, Idle, NoAnswer, stores
<1>6. ASSUME NEW p, Render(p) PROVE PlansInv'
  <2>1. UNCHANGED <<selected, picks>>
    BY <1>6 DEF Render, AskOne, Answered, stores
  <2>2. CASE AskOne("render", p, Rendered(p), RenderFilters(p), DrillOf(p))
    BY <2>2, AskOneFits
  <2> QED BY <1>6, <2>1, <2>2, NoDataFits DEF Render, Answered, Fails, Drawn
<1>7. ASSUME NEW p, Highlight(p) PROVE PlansInv'
  <2>1. CASE AskTwo(p, Rendered(p), RenderFilters(p), RenderFilters(p) \o ParsedClicks(p.clicks))
    BY <2>1, AskTwoFits
  <2>2. CASE UNCHANGED plans /\ Answered(Fails("highlight", p))
    BY <2>2, NoDataFits DEF Answered, Fails, stores
  <2> QED BY <1>7, <2>1, <2>2 DEF Highlight
<1>8. ASSUME NEW p, Batch(p) PROVE PlansInv'
  <2>1. UNCHANGED <<selected, picks>>
    BY <1>8 DEF Batch, AskOne, Answered, stores
  <2>2. CASE AskOne("batch", p, file, BatchFilters(p), Undrilled)
    BY <2>2, AskOneFits
  <2> QED BY <1>8, <2>1, <2>2, NoDataFits DEF Batch, Answered, Fails, Drawn
<1>9. ASSUME NEW p, Tooltip(p) PROVE PlansInv'
  BY <1>9, AskOneFits DEF Tooltip
<1>10. ASSUME NEW p, Export(p) PROVE PlansInv'
  BY <1>10, AskOneFits DEF Export
<1>11. ASSUME NEW kind, GetSelections(kind) PROVE PlansInv'
  BY <1>11, NoDataFits DEF GetSelections, stores
<1>12. ASSUME NEW p, RenderMatrix(p) PROVE PlansInv'
  <2>1. UNCHANGED <<selected, picks, plans>> /\ answer'.kind = "matrix"
    BY <1>12 DEF RenderMatrix, stores
  <2> QED BY <2>1, NoDataFits
<1>13. CASE Receive
  BY <1>13, NoDataFits DEF Receive, NoAnswer, stores
<1>14. CASE FillMatrix \/ UNCHANGED allVars
  <2>1. UNCHANGED <<selected, picks, plans, answer>>
    BY <1>14 DEF FillMatrix, requestVars, allVars
  <2> QED BY <2>1, FitStays DEF PlansInv, AnswerFits, KeyOf
<1> QED
  BY <1>1, <1>2, <1>3, <1>4, <1>5, <1>6, <1>7, <1>8, <1>9, <1>10, <1>11, <1>12, <1>13, <1>14
     DEF RequestNext, ChangeStep, RequestStep

LEMMA PlansImply == PlansInv => PlansFitTheirRequests
<1> SUFFICES ASSUME PlansInv, answer.kind = "data"
             PROVE  LET asked == Question(answer.def, answer.filters, answer.drill)
                        planned == answer.entry.question
                    IN /\ planned.passing = asked.passing
                       /\ planned.levels # asked.levels => answer.entry.expand # answer.drill.expand
                       /\ planned.items # asked.items => answer.entry.picks # picks
  BY DEF PlansFitTheirRequests
<1> DEFINE e == answer.entry
           asked == Question(answer.def, answer.filters, answer.drill)
<1>1. PlanFits(e) /\ e.key = KeyOf(answer.def, answer.filters, answer.drill)
  BY DEF PlansInv, AnswerFits
<1>2. /\ e.key.def = answer.def /\ e.key.filters = answer.filters
      /\ e.key.level = answer.drill.level /\ e.key.drilled = answer.drill.drilled
  BY <1>1 DEF KeyOf
<1>3. /\ asked.levels = LevelsShown(answer.def, answer.drill)
      /\ asked.passing = Passing(Asked(answer.def, answer.filters, answer.drill), answer.def.page, VisualId)
      /\ asked.items = [kind \in Kinds |-> EffectiveOf(answer.def, kind)]
  BY DEF Question
<1>4. Asked(answer.def, answer.filters, answer.drill) = Asked(e.key.def, e.key.filters, e.key)
  BY <1>2 DEF Asked, DrillItems
<1>5. e.question.passing = asked.passing
  BY <1>1, <1>2, <1>3, <1>4 DEF PlanFits
<1>6. e.expand = answer.drill.expand => e.question.levels = asked.levels
  BY <1>1, <1>2, <1>3 DEF PlanFits, LevelsShown
<1>7. e.picks = picks => e.question.items = asked.items
  BY <1>1, <1>2, <1>3 DEF PlanFits
<1> QED BY <1>5, <1>6, <1>7

(* An answer of any of the routes is planned for what its request asks: the key of
   the cache of plans has the definition, the filters and the drill.  What the key
   leaves out, the levels expanded and the stored selections, is all that may
   differ.                                                                     *)
THEOREM PlansAlwaysFit == RequestSpec => []PlansFitTheirRequests
BY InitPlans, PlansStep, PlansImply, PTL DEF RequestSpec

-----------------------------------------------------------------------------
(* The filters of a request.  What a slicer selects holds in each answer: the filters
   are applied in an order in which only those that SlicersHold names come after it
   and do not narrow (SlicerLasts).  A batch and a render ask for the same, since a
   default says the same to nobody as to the visual, if no filter is for the visual
   (NoneApart).  A request fails for what is selected only if that was stored
   unchecked: what was checked is still valid when it is read (PickedInv), although
   it is made canonical in between.                                            *)
LEMMA LeastNumber ==
  ASSUME NEW S, S \subseteq Nat, S # {}
  PROVE  \E n \in S : \A m \in S : n <= m
<1> DEFINE below == OpToRel(<, Nat)
<1>1. IsWellFoundedOn(below, Nat)
  BY NatLessThanWellFounded
<1>2. \A m, k \in Nat : m < k => <<m, k>> \in below
  BY DEF OpToRel
<1> HIDE DEF below
<1>3. PICK n \in S : \A m \in S : <<m, n>> \notin below
  BY <1>1, WFMin
<1>4. ASSUME NEW m \in S PROVE n <= m
  <2>1. m \in Nat /\ n \in Nat
    OBVIOUS
  <2>2. ~(m < n)
    BY <1>2, <1>3, <2>1
  <2> QED BY <2>1, <2>2
<1> QED BY <1>4

\* What holds of 0, and of each number after one it holds of, holds up to a bound:
\* the numbers it holds of are given as a set.
LEMMA UpTo ==
  ASSUME NEW N \in Nat, NEW S, 0 \in S, \A n \in 1..N : n - 1 \in S => n \in S
  PROVE  \A n \in 0..N : n \in S
<1> DEFINE bad == {n \in 0..N : n \notin S}
<1> SUFFICES ASSUME bad # {} PROVE FALSE
  OBVIOUS
<1>0. bad \subseteq Nat /\ bad \subseteq 0..N
  OBVIOUS
<1>1. PICK n \in bad : \A m \in bad : n <= m
  <2> HIDE DEF bad
  <2> QED BY <1>0, LeastNumber
<1>2. n \in 1..N /\ n - 1 \in 0..N
  BY <1>1
<1>3. n - 1 \notin bad
  BY <1>1, <1>2
<1> QED BY <1>1, <1>2, <1>3

-----------------------------------------------------------------------------
(* Lists.  The recursive functions that Lists, RequestFilters and SequencesExt are
   made of are unfolded up to the length of a list.                           *)
LEMMA AmongGot ==
  ASSUME NEW s, Len(s) \in Nat, NEW S
  PROVE  \E got : /\ got[0] = <<>> /\ Among(s, S) = got[Len(s)]
                  /\ \A n \in 1..Len(s) : got[n] =
                       (IF s[n] \in S THEN Append(got[n - 1], s[n]) ELSE got[n - 1])
<1> DEFINE N == Len(s)
           Is(g, m) == g = [n \in 0..m |-> IF n = 0 THEN <<>>
                                           ELSE (IF s[n] \in S THEN Append(g[n - 1], s[n]) ELSE g[n - 1])]
           good == {m \in 0..N : \E g : Is(g, m)}
<1>1. 0 \in good
  <2>1. Is([n \in 0..0 |-> <<>>], 0)
    OBVIOUS
  <2> HIDE DEF Is
  <2> QED BY <2>1
<1>2. ASSUME NEW m \in 1..N, m - 1 \in good PROVE m \in good
  <2>1. PICK g : Is(g, m - 1)
    BY <1>2
  <2> DEFINE h == [n \in 0..m |-> IF n = m
                                  THEN (IF s[n] \in S THEN Append(g[n - 1], s[n]) ELSE g[n - 1])
                                  ELSE g[n]]
  <2>2. \A n \in 0..m : n # m => h[n] = g[n]
    OBVIOUS
  <2>3. Is(h, m)
    <3>1. ASSUME NEW n \in 0..m
          PROVE  h[n] = IF n = 0 THEN <<>>
                        ELSE (IF s[n] \in S THEN Append(h[n - 1], s[n]) ELSE h[n - 1])
      <4>1. CASE n = m
        <5>1. n = 0 \/ (n - 1 \in 0..m /\ n - 1 # m)
          BY <4>1
        <5> QED BY <4>1, <5>1, <2>2
      <4>2. CASE n # m
        <5>1. n \in 0..(m - 1) /\ h[n] = g[n]
          BY <4>2, <2>2
        <5>2. CASE n = 0
          BY <5>1, <5>2, <2>1
        <5>3. CASE n # 0
          <6>1. n - 1 \in 0..m /\ n - 1 # m
            BY <5>1, <5>3
          <6>2. h[n - 1] = g[n - 1]
            BY <6>1, <2>2
          <6> QED BY <5>1, <5>3, <6>2, <2>1
        <5> QED BY <5>2, <5>3
      <4> QED BY <4>1, <4>2
    <3> HIDE DEF h
    <3>2. h = [n \in 0..m |-> h[n]]
      BY DEF h
    <3> QED BY <3>1, <3>2
  <2> HIDE DEF h, Is
  <2> QED BY <2>3
<1>3. N \in good
  <2> HIDE DEF good
  <2>1. \A n \in 0..N : n \in good
    BY <1>1, <1>2, UpTo
  <2> QED BY <2>1
<1>4. PICK g : Is(g, N)
  BY <1>3
<1> DEFINE got == CHOOSE f : Is(f, N)
<1>5. Is(got, N)
  <2> HIDE DEF Is
  <2> QED BY <1>4
<1>6. Among(s, S) = got[N]
  BY DEF Among
<1> HIDE DEF got
<1>7. \A n \in 0..N : got[n] = IF n = 0 THEN <<>>
                               ELSE (IF s[n] \in S THEN Append(got[n - 1], s[n]) ELSE got[n - 1])
  BY <1>5
<1>8. \A n \in 1..N : n \in 0..N /\ n # 0
  OBVIOUS
<1> HIDE DEF Is
<1> QED BY <1>6, <1>7, <1>8

LEMMA OnceGot ==
  ASSUME NEW s, Len(s) \in Nat
  PROVE  \E got : /\ got[0] = <<>> /\ Once(s) = got[Len(s)]
                  /\ \A n \in 1..Len(s) : got[n] =
                       (IF s[n] \in ToSet(got[n - 1]) THEN got[n - 1] ELSE Append(got[n - 1], s[n]))
<1> DEFINE N == Len(s)
           Is(g, m) == g = [n \in 0..m |-> IF n = 0 THEN <<>>
                                           ELSE (IF s[n] \in ToSet(g[n - 1]) THEN g[n - 1] ELSE Append(g[n - 1], s[n]))]
           good == {m \in 0..N : \E g : Is(g, m)}
<1>1. 0 \in good
  <2>1. Is([n \in 0..0 |-> <<>>], 0)
    OBVIOUS
  <2> HIDE DEF Is
  <2> QED BY <2>1
<1>2. ASSUME NEW m \in 1..N, m - 1 \in good PROVE m \in good
  <2>1. PICK g : Is(g, m - 1)
    BY <1>2
  <2> DEFINE h == [n \in 0..m |-> IF n = m
                                  THEN (IF s[n] \in ToSet(g[n - 1]) THEN g[n - 1] ELSE Append(g[n - 1], s[n]))
                                  ELSE g[n]]
  <2>2. \A n \in 0..m : n # m => h[n] = g[n]
    OBVIOUS
  <2>3. Is(h, m)
    <3>1. ASSUME NEW n \in 0..m
          PROVE  h[n] = IF n = 0 THEN <<>>
                        ELSE (IF s[n] \in ToSet(h[n - 1]) THEN h[n - 1] ELSE Append(h[n - 1], s[n]))
      <4>1. CASE n = m
        <5>1. n = 0 \/ (n - 1 \in 0..m /\ n - 1 # m)
          BY <4>1
        <5> QED BY <4>1, <5>1, <2>2
      <4>2. CASE n # m
        <5>1. n \in 0..(m - 1) /\ h[n] = g[n]
          BY <4>2, <2>2
        <5>2. CASE n = 0
          BY <5>1, <5>2, <2>1
        <5>3. CASE n # 0
          <6>1. n - 1 \in 0..m /\ n - 1 # m
            BY <5>1, <5>3
          <6>2. h[n - 1] = g[n - 1]
            BY <6>1, <2>2
          <6> QED BY <5>1, <5>3, <6>2, <2>1
        <5> QED BY <5>2, <5>3
      <4> QED BY <4>1, <4>2
    <3> HIDE DEF h
    <3>2. h = [n \in 0..m |-> h[n]]
      BY DEF h
    <3> QED BY <3>1, <3>2
  <2> HIDE DEF h, Is
  <2> QED BY <2>3
<1>3. N \in good
  <2> HIDE DEF good
  <2>1. \A n \in 0..N : n \in good
    BY <1>1, <1>2, UpTo
  <2> QED BY <2>1
<1>4. PICK g : Is(g, N)
  BY <1>3
<1> DEFINE got == CHOOSE f : Is(f, N)
<1>5. Is(got, N)
  <2> HIDE DEF Is
  <2> QED BY <1>4
<1>6. Once(s) = got[N]
  BY DEF Once
<1> HIDE DEF got
<1>7. \A n \in 0..N : got[n] = IF n = 0 THEN <<>>
                               ELSE (IF s[n] \in ToSet(got[n - 1]) THEN got[n - 1] ELSE Append(got[n - 1], s[n]))
  BY <1>5
<1>8. \A n \in 1..N : n \in 0..N /\ n # 0
  OBVIOUS
<1> HIDE DEF Is
<1> QED BY <1>6, <1>7, <1>8

LEMMA ThroughGot ==
  ASSUME NEW fs, Len(fs) \in Nat
  PROVE  \E got : /\ got[0] = Open /\ Through(fs) = got[Len(fs)]
                  /\ \A n \in 1..Len(fs) : got[n] = Narrowed(got[n - 1], fs[n])
<1> DEFINE N == Len(fs)
           Is(g, m) == g = [n \in 0..m |-> IF n = 0 THEN Open
                                           ELSE Narrowed(g[n - 1], fs[n])]
           good == {m \in 0..N : \E g : Is(g, m)}
<1>1. 0 \in good
  <2>1. Is([n \in 0..0 |-> Open], 0)
    OBVIOUS
  <2> HIDE DEF Is
  <2> QED BY <2>1
<1>2. ASSUME NEW m \in 1..N, m - 1 \in good PROVE m \in good
  <2>1. PICK g : Is(g, m - 1)
    BY <1>2
  <2> DEFINE h == [n \in 0..m |-> IF n = m THEN (Narrowed(g[n - 1], fs[n])) ELSE g[n]]
  <2>2. \A n \in 0..m : n # m => h[n] = g[n]
    OBVIOUS
  <2>3. Is(h, m)
    <3>1. ASSUME NEW n \in 0..m
          PROVE  h[n] = IF n = 0 THEN Open ELSE Narrowed(h[n - 1], fs[n])
      <4>1. CASE n = m
        <5>1. n = 0 \/ (n - 1 \in 0..m /\ n - 1 # m)
          BY <4>1
        <5> QED BY <4>1, <5>1, <2>2
      <4>2. CASE n # m
        <5>1. n \in 0..(m - 1) /\ h[n] = g[n]
          BY <4>2, <2>2
        <5>2. CASE n = 0
          BY <5>1, <5>2, <2>1
        <5>3. CASE n # 0
          <6>1. n - 1 \in 0..m /\ n - 1 # m
            BY <5>1, <5>3
          <6>2. h[n - 1] = g[n - 1]
            BY <6>1, <2>2
          <6> QED BY <5>1, <5>3, <6>2, <2>1
        <5> QED BY <5>2, <5>3
      <4> QED BY <4>1, <4>2
    <3> HIDE DEF h
    <3>2. h = [n \in 0..m |-> h[n]]
      BY DEF h
    <3> QED BY <3>1, <3>2
  <2> HIDE DEF h, Is
  <2> QED BY <2>3
<1>3. N \in good
  <2> HIDE DEF good
  <2>1. \A n \in 0..N : n \in good
    BY <1>1, <1>2, UpTo
  <2> QED BY <2>1
<1>4. PICK g : Is(g, N)
  BY <1>3
<1> DEFINE got == CHOOSE f : Is(f, N)
<1>5. Is(got, N)
  <2> HIDE DEF Is
  <2> QED BY <1>4
<1>6. Through(fs) = got[N]
  BY DEF Through
<1> HIDE DEF got
<1>7. \A n \in 0..N : got[n] = IF n = 0 THEN Open ELSE Narrowed(got[n - 1], fs[n])
  BY <1>5
<1>8. \A n \in 1..N : n \in 0..N /\ n # 0
  OBVIOUS
<1> HIDE DEF Is
<1> QED BY <1>6, <1>7, <1>8

LEMMA FlattenGot ==
  ASSUME NEW seqs, Len(seqs) \in Nat \ {0}
  PROVE  \E got : /\ got[1] = seqs[1] /\ FlattenSeq(seqs) = got[Len(seqs)]
                  /\ \A n \in 2..Len(seqs) : got[n] = (got[n - 1] \o seqs[n])
<1> DEFINE N == Len(seqs)
           Is(g, m) == g = [n \in 1..m |-> IF n = 1 THEN seqs[n]
                                           ELSE (g[n - 1] \o seqs[n])]
           good == {m \in 0..N : \E g : Is(g, m)}
<1>1. 0 \in good
  <2>1. Is([n \in 1..0 |-> seqs[n]], 0)
    OBVIOUS
  <2> HIDE DEF Is
  <2> QED BY <2>1
<1>2. ASSUME NEW m \in 1..N, m - 1 \in good PROVE m \in good
  <2>1. PICK g : Is(g, m - 1)
    BY <1>2
  <2> DEFINE h == [n \in 1..m |-> IF n = m THEN (IF n = 1 THEN seqs[n]
                                                 ELSE (g[n - 1] \o seqs[n])) ELSE g[n]]
  <2>2. \A n \in 1..m : n # m => h[n] = g[n]
    OBVIOUS
  <2>3. Is(h, m)
    <3>1. ASSUME NEW n \in 1..m
          PROVE  h[n] = IF n = 1 THEN seqs[n] ELSE (h[n - 1] \o seqs[n])
      <4>1. CASE n = m
        <5>1. n = 1 \/ (n - 1 \in 1..m /\ n - 1 # m)
          BY <4>1
        <5> QED BY <4>1, <5>1, <2>2
      <4>2. CASE n # m
        <5>1. n \in 1..(m - 1) /\ h[n] = g[n]
          BY <4>2, <2>2
        <5>2. CASE n = 1
          BY <5>1, <5>2, <2>1
        <5>3. CASE n # 1
          <6>1. n - 1 \in 1..m /\ n - 1 # m
            BY <5>1, <5>3
          <6>2. h[n - 1] = g[n - 1]
            BY <6>1, <2>2
          <6> QED BY <5>1, <5>3, <6>2, <2>1
        <5> QED BY <5>2, <5>3
      <4> QED BY <4>1, <4>2
    <3> HIDE DEF h
    <3>2. h = [n \in 1..m |-> h[n]]
      BY DEF h
    <3> QED BY <3>1, <3>2
  <2> HIDE DEF h, Is
  <2> QED BY <2>3
<1>3. N \in good
  <2> HIDE DEF good
  <2>1. \A n \in 0..N : n \in good
    BY <1>1, <1>2, UpTo
  <2> QED BY <2>1
<1>4. PICK g : Is(g, N)
  BY <1>3
<1> DEFINE got == CHOOSE f : Is(f, N)
<1>5. Is(got, N)
  <2> HIDE DEF Is
  <2> QED BY <1>4
<1>6. FlattenSeq(seqs) = got[N]
  BY DEF FlattenSeq
<1> HIDE DEF got
<1>7. \A n \in 1..N : got[n] = IF n = 1 THEN seqs[n] ELSE (got[n - 1] \o seqs[n])
  BY <1>5
<1>8. 1 \in 1..N /\ \A n \in 2..N : n \in 1..N /\ n # 1
  OBVIOUS
<1> HIDE DEF Is
<1> QED BY <1>6, <1>7, <1>8

LEMMA ListIs ==
  ASSUME NEW s, NEW T, s \in Seq(T)
  PROVE  IsList(s) /\ ToSet(s) \subseteq T
<1>1. Len(s) \in Nat /\ s \in [1..Len(s) -> T] /\ DOMAIN s = 1..Len(s)
  OBVIOUS
<1>2. s \in [1..Len(s) -> ToSet(s)]
  BY <1>1 DEF ToSet
<1>3. s \in Seq(ToSet(s))
  BY <1>1, <1>2
<1> QED BY <1>1, <1>3 DEF IsList, ToSet

LEMMA NoneIs == IsList(<<>>) /\ ToSet(<<>>) = {}
BY DEF ToSet, IsList

LEMMA ListFacts ==
  ASSUME NEW s, IsList(s)
  PROVE  /\ Len(s) \in Nat /\ DOMAIN s = 1..Len(s)
         /\ \A i \in 1..Len(s) : s[i] \in ToSet(s)
BY DEF IsList

LEMMA AppendIs ==
  ASSUME NEW T, NEW s \in Seq(T), NEW x
  PROVE  /\ ToSet(Append(s, x)) = ToSet(s) \cup {x}
         /\ x \in T => Append(s, x) \in Seq(T)
<1>1. s \in Seq(T \cup {x}) /\ Len(s) \in Nat /\ DOMAIN s = 1..Len(s)
  OBVIOUS
<1>2. DOMAIN Append(s, x) = 1..(Len(s) + 1)
  BY <1>1
<1>3. \A i \in 1..(Len(s) + 1) : Append(s, x)[i] = IF i = Len(s) + 1 THEN x ELSE s[i]
  BY <1>1
<1> QED BY <1>1, <1>2, <1>3 DEF ToSet

LEMMA ConcatIs ==
  ASSUME NEW s, IsList(s), NEW t, IsList(t)
  PROVE  /\ IsList(s \o t) /\ ToSet(s \o t) = ToSet(s) \cup ToSet(t)
         /\ Len(s \o t) = Len(s) + Len(t)
         /\ \A i \in 1..Len(s \o t) : (s \o t)[i] = IF i <= Len(s) THEN s[i] ELSE t[i - Len(s)]
<1> DEFINE T == ToSet(s) \cup ToSet(t)
<1>1. s \in Seq(T) /\ t \in Seq(T)
  BY DEF IsList
<1>2. /\ s \o t \in Seq(T) /\ Len(s \o t) = Len(s) + Len(t)
      /\ \A i \in 1..Len(s \o t) : (s \o t)[i] = IF i <= Len(s) THEN s[i] ELSE t[i - Len(s)]
  BY <1>1
<1>3. IsList(s \o t) /\ ToSet(s \o t) \subseteq T
  BY <1>2, ListIs
<1>4. /\ Len(s) \in Nat /\ DOMAIN s = 1..Len(s)
      /\ Len(t) \in Nat /\ DOMAIN t = 1..Len(t)
      /\ DOMAIN (s \o t) = 1..(Len(s) + Len(t))
  BY <1>1, <1>2
<1>5. \A i \in DOMAIN s : s[i] = (s \o t)[i] /\ i \in DOMAIN (s \o t)
  BY <1>2, <1>4
<1>6. \A i \in DOMAIN t : t[i] = (s \o t)[i + Len(s)] /\ i + Len(s) \in DOMAIN (s \o t)
  BY <1>2, <1>4
<1>7. T \subseteq ToSet(s \o t)
  BY <1>5, <1>6 DEF ToSet
<1> QED BY <1>2, <1>3, <1>7

LEMMA AmongIs ==
  ASSUME NEW s, IsList(s), NEW S
  PROVE  IsList(Among(s, S)) /\ ToSet(Among(s, S)) = ToSet(s) \cap S
<1> DEFINE N == Len(s)
<1>1. N \in Nat /\ DOMAIN s = 1..N /\ \A i \in 1..N : s[i] \in ToSet(s)
  BY ListFacts
<1>2. PICK got : /\ got[0] = <<>> /\ Among(s, S) = got[N]
                   /\ \A n \in 1..N :
                        got[n] = IF s[n] \in S THEN Append(got[n - 1], s[n]) ELSE got[n - 1]
  BY <1>1, AmongGot
<1> DEFINE good == {n \in 0..N : /\ got[n] \in Seq(ToSet(s))
                                 /\ ToSet(got[n]) = {s[i] : i \in 1..n} \cap S}
<1>3. 0 \in good
  <2>1. <<>> \in Seq(ToSet(s)) /\ {s[i] : i \in 1..0} = {}
    OBVIOUS
  <2>2. got[0] \in Seq(ToSet(s)) /\ ToSet(got[0]) = {s[i] : i \in 1..0} \cap S
    BY <1>2, <2>1, NoneIs
  <2>3. 0 \in 0..N
    BY <1>1
  <2> QED BY <2>2, <2>3
<1>4. ASSUME NEW n \in 1..N, n - 1 \in good PROVE n \in good
  <2> DEFINE before == got[n - 1]
  <2>1. before \in Seq(ToSet(s)) /\ ToSet(before) = {s[i] : i \in 1..(n - 1)} \cap S
    BY <1>4
  <2>2. got[n] = IF s[n] \in S THEN Append(before, s[n]) ELSE before
    BY <1>1, <1>2
  <2>3. {s[i] : i \in 1..n} = {s[i] : i \in 1..(n - 1)} \cup {s[n]}
    BY <1>1
  <2> HIDE DEF before
  <2>4. /\ Append(before, s[n]) \in Seq(ToSet(s))
        /\ ToSet(Append(before, s[n])) = ToSet(before) \cup {s[n]}
    BY <1>1, <2>1, AppendIs
  <2>5. /\ got[n] \in Seq(ToSet(s))
        /\ ToSet(got[n]) = {s[i] : i \in 1..n} \cap S
    BY <2>1, <2>2, <2>3, <2>4
  <2>6. n \in 0..N
    OBVIOUS
  <2> QED BY <2>5, <2>6
<1>5. N \in good
  <2> HIDE DEF good
  <2>1. \A n \in 0..N : n \in good
    BY <1>1, <1>3, <1>4, UpTo
  <2> QED BY <1>1, <2>1
<1>6. {s[i] : i \in 1..N} = ToSet(s)
  BY <1>1 DEF ToSet
<1> QED BY <1>2, <1>5, <1>6, ListIs

LEMMA OnceIs ==
  ASSUME NEW s, IsList(s)
  PROVE  /\ IsList(Once(s)) /\ ToSet(Once(s)) = ToSet(s)
         /\ Len(s) = 1 => Once(s) = s
<1> DEFINE N == Len(s)
<1>1. N \in Nat /\ DOMAIN s = 1..N /\ \A i \in 1..N : s[i] \in ToSet(s)
  BY ListFacts
<1>2. PICK got : /\ got[0] = <<>> /\ Once(s) = got[N]
                 /\ \A n \in 1..N :
                      got[n] = IF s[n] \in ToSet(got[n - 1]) THEN got[n - 1] ELSE Append(got[n - 1], s[n])
  BY <1>1, OnceGot
<1> DEFINE good == {n \in 0..N : /\ got[n] \in Seq(ToSet(s))
                                 /\ ToSet(got[n]) = {s[i] : i \in 1..n}}
<1>3. 0 \in good
  <2>1. <<>> \in Seq(ToSet(s)) /\ {s[i] : i \in 1..0} = {}
    OBVIOUS
  <2>2. got[0] \in Seq(ToSet(s)) /\ ToSet(got[0]) = {s[i] : i \in 1..0}
    BY <1>2, <2>1, NoneIs
  <2>3. 0 \in 0..N
    BY <1>1
  <2> QED BY <2>2, <2>3
<1>4. ASSUME NEW n \in 1..N, n - 1 \in good PROVE n \in good
  <2> DEFINE before == got[n - 1]
  <2>1. before \in Seq(ToSet(s)) /\ ToSet(before) = {s[i] : i \in 1..(n - 1)}
    BY <1>4
  <2>2. got[n] = IF s[n] \in ToSet(before) THEN before ELSE Append(before, s[n])
    BY <1>1, <1>2
  <2>3. {s[i] : i \in 1..n} = {s[i] : i \in 1..(n - 1)} \cup {s[n]}
    BY <1>1
  <2> HIDE DEF before
  <2>4. /\ Append(before, s[n]) \in Seq(ToSet(s))
        /\ ToSet(Append(before, s[n])) = ToSet(before) \cup {s[n]}
    BY <1>1, <2>1, AppendIs
  <2>5. got[n] \in Seq(ToSet(s)) /\ ToSet(got[n]) = {s[i] : i \in 1..n}
    BY <2>1, <2>2, <2>3, <2>4
  <2>6. n \in 0..N
    OBVIOUS
  <2> QED BY <2>5, <2>6
<1>5. N \in good
  <2> HIDE DEF good
  <2>1. \A n \in 0..N : n \in good
    BY <1>1, <1>3, <1>4, UpTo
  <2> QED BY <1>1, <2>1
<1>6. {s[i] : i \in 1..N} = ToSet(s)
  BY <1>1 DEF ToSet
<1>7. ASSUME N = 1 PROVE Once(s) = s
  <2>1. s[1] \notin ToSet(got[0])
    BY <1>2, NoneIs
  <2>2. got[1] = IF s[1] \in ToSet(got[0]) THEN got[0] ELSE Append(got[0], s[1])
    <3>1. 1 \in 1..N /\ 1 - 1 = 0
      BY <1>7
    <3> HIDE DEF N
    <3> QED BY <1>2, <3>1
  <2>3. Once(s) = Append(<<>>, s[1])
    BY <1>2, <1>7, <2>1, <2>2
  <2>4. s \in Seq(ToSet(s)) /\ Len(s) = 1
    BY <1>7 DEF IsList
  <2>5. s = <<s[1]>>
    BY <2>4
  <2> QED BY <2>3, <2>5
<1> QED BY <1>2, <1>5, <1>6, <1>7, ListIs

\* Of a list with one element, all is taken or nothing.
LEMMA AmongOne ==
  ASSUME NEW s, IsList(s), Len(s) = 1, NEW S, s[1] \in S
  PROVE  Among(s, S) = s
<1>1. PICK got : /\ got[0] = <<>> /\ Among(s, S) = got[Len(s)]
                 /\ \A n \in 1..Len(s) :
                      got[n] = IF s[n] \in S THEN Append(got[n - 1], s[n]) ELSE got[n - 1]
  <2>1. Len(s) \in Nat
    OBVIOUS
  <2> QED BY <2>1, AmongGot
<1>2. got[1] = IF s[1] \in S THEN Append(got[0], s[1]) ELSE got[0]
  BY <1>1
<1>3. Among(s, S) = Append(<<>>, s[1])
  BY <1>1, <1>2
<1>4. s \in Seq(ToSet(s))
  BY DEF IsList
<1>5. s = <<s[1]>>
  BY <1>4
<1> QED BY <1>3, <1>5

LEMMA FlattenIs ==
  ASSUME NEW seqs, IsList(seqs), \A i \in 1..Len(seqs) : IsList(seqs[i])
  PROVE  /\ IsList(FlattenSeq(seqs))
         /\ ToSet(FlattenSeq(seqs)) = UNION {ToSet(seqs[i]) : i \in 1..Len(seqs)}
<1> DEFINE N == Len(seqs)
<1>1. N \in Nat /\ DOMAIN seqs = 1..N
  BY ListFacts
<1>2. CASE N = 0
  <2>1. seqs \in Seq(ToSet(seqs))
    BY DEF IsList
  <2>2. seqs = <<>>
    BY <1>2, <2>1
  <2>3. FlattenSeq(seqs) = seqs
    BY <1>2 DEF FlattenSeq
  <2>4. {ToSet(seqs[i]) : i \in 1..N} = {}
    BY <1>2
  <2> QED BY <2>2, <2>3, <2>4, NoneIs
<1>3. CASE N # 0
  <2>1. PICK got : /\ got[1] = seqs[1] /\ FlattenSeq(seqs) = got[N]
                   /\ \A n \in 2..N : got[n] = got[n - 1] \o seqs[n]
    BY <1>1, <1>3, FlattenGot
  <2> DEFINE all(n) == UNION {ToSet(seqs[i]) : i \in 1..n}
             good == {n \in 0..N : n = 0 \/ (IsList(got[n]) /\ ToSet(got[n]) = all(n))}
  <2>2. 0 \in good
    BY <1>1
  <2>3. ASSUME NEW n \in 1..N, n - 1 \in good PROVE n \in good
    <3>1. n \in 0..N
      BY <1>1
    <3>2. CASE n = 1
      <4>1. all(1) = ToSet(seqs[1])
        <5>1. 1..1 = {1}
          OBVIOUS
        <5> QED BY <5>1
      <4> HIDE DEF all
      <4> QED BY <3>1, <3>2, <4>1, <2>1
    <3>3. CASE n # 1
      <4>1. n \in 2..N /\ n - 1 # 0
        BY <1>1, <3>3
      <4>2. IsList(got[n - 1]) /\ ToSet(got[n - 1]) = all(n - 1)
        BY <2>3, <4>1
      <4>3. got[n] = got[n - 1] \o seqs[n] /\ IsList(seqs[n])
        BY <2>1, <4>1
      <4>4. all(n) = all(n - 1) \cup ToSet(seqs[n])
        <5>1. 1..n = 1..(n - 1) \cup {n}
          BY <1>1, <4>1
        <5> QED BY <5>1
      <4> HIDE DEF all
      <4>5. IsList(got[n]) /\ ToSet(got[n]) = all(n)
        BY <4>2, <4>3, <4>4, ConcatIs
      <4> QED BY <3>1, <4>5
    <3> QED BY <3>2, <3>3
  <2>4. N \in good
    <3> HIDE DEF good
    <3>1. \A n \in 0..N : n \in good
      BY <1>1, <2>2, <2>3, UpTo
    <3> QED BY <1>1, <3>1
  <2> QED BY <1>3, <2>1, <2>4
<1> QED BY <1>2, <1>3

\* A filter holds to the end, if what comes after it keeps or lets through no more.
LEMMA ThroughHolds ==
  ASSUME NEW fs, IsList(fs), NEW c \in Columns, NEW L,
         NEW k \in 1..Len(fs), fs[k].on = c, LetsThrough(fs[k].op, fs[k].values) \subseteq L,
         \A n \in (k + 1)..Len(fs) :
           fs[n].on = c => fs[n].keep \/ LetsThrough(fs[n].op, fs[n].values) \subseteq L
  PROVE  Through(fs)[c] \subseteq L
<1> DEFINE N == Len(fs)
<1>1. N \in Nat
  BY ListFacts
<1>2. PICK got : /\ got[0] = Open /\ Through(fs) = got[N]
                 /\ \A n \in 1..N : got[n] = Narrowed(got[n - 1], fs[n])
  BY <1>1, ThroughGot
<1> DEFINE good == {n \in 0..N : DOMAIN got[n] = Columns /\ (n >= k => got[n][c] \subseteq L)}
<1>3. 0 \in good
  BY <1>1, <1>2 DEF Open
<1>4. ASSUME NEW n \in 1..N, n - 1 \in good PROVE n \in good
  <2> DEFINE before == got[n - 1]
  <2>1. n \in 0..N /\ DOMAIN before = Columns /\ (n - 1 >= k => before[c] \subseteq L)
    BY <1>1, <1>4
  <2>2. got[n] = Narrowed(before, fs[n])
    BY <1>2
  <2> HIDE DEF before
  <2>3. DOMAIN got[n] = Columns
    BY <2>1, <2>2 DEF Narrowed
  <2>4. ASSUME n >= k PROVE got[n][c] \subseteq L
    <3>1. CASE n = k
      <4>1. got[n][c] = IF fs[n].keep THEN before[c] \cap LetsThrough(fs[n].op, fs[n].values)
                                      ELSE LetsThrough(fs[n].op, fs[n].values)
        BY <2>1, <2>2, <3>1 DEF Narrowed
      <4> QED BY <4>1, <3>1
    <3>2. CASE n # k
      <4>1. n \in (k + 1)..N /\ before[c] \subseteq L
        BY <1>1, <2>1, <2>4, <3>2
      <4>2. CASE fs[n].on # c
        BY <4>1, <4>2, <2>1, <2>2 DEF Narrowed
      <4>3. CASE fs[n].on = c
        <5>1. got[n][c] = IF fs[n].keep THEN before[c] \cap LetsThrough(fs[n].op, fs[n].values)
                                        ELSE LetsThrough(fs[n].op, fs[n].values)
          BY <2>1, <2>2, <4>3 DEF Narrowed
        <5> QED BY <5>1, <4>1, <4>3
      <4> QED BY <4>2, <4>3
    <3> QED BY <3>1, <3>2
  <2> QED BY <2>1, <2>3, <2>4
<1>5. N \in good
  <2> HIDE DEF good
  <2>1. \A n \in 0..N : n \in good
    BY <1>1, <1>3, <1>4, UpTo
  <2> QED BY <1>1, <2>1
<1> QED BY <1>1, <1>2, <1>5

\* What comes after a place of a list, when another list is put behind it.
LEMMA After ==
  ASSUME NEW s, IsList(s), NEW t, IsList(t), NEW k \in 1..Len(s),
         NEW T, \A n \in (k + 1)..Len(s) : s[n] \in T
  PROVE  /\ IsList(s \o t) /\ k \in 1..Len(s \o t) /\ (s \o t)[k] = s[k]
         /\ \A n \in (k + 1)..Len(s \o t) : (s \o t)[n] \in T \cup ToSet(t)
<1>1. /\ Len(s) \in Nat /\ Len(t) \in Nat /\ \A i \in 1..Len(t) : t[i] \in ToSet(t)
  BY ListFacts
<1>2. /\ IsList(s \o t) /\ Len(s \o t) = Len(s) + Len(t)
      /\ \A i \in 1..Len(s \o t) : (s \o t)[i] = IF i <= Len(s) THEN s[i] ELSE t[i - Len(s)]
  BY ConcatIs
<1>3. k \in 1..Len(s \o t) /\ (s \o t)[k] = s[k]
  BY <1>1, <1>2
<1>4. ASSUME NEW n \in (k + 1)..Len(s \o t) PROVE (s \o t)[n] \in T \cup ToSet(t)
  <2>1. n \in 1..Len(s \o t) /\ (s \o t)[n] = IF n <= Len(s) THEN s[n] ELSE t[n - Len(s)]
    BY <1>1, <1>2
  <2>2. CASE n <= Len(s)
    <3>1. n \in (k + 1)..Len(s)
      BY <1>1, <1>2, <2>2
    <3> QED BY <3>1, <2>1, <2>2
  <2>3. CASE ~ (n <= Len(s))
    <3>1. n - Len(s) \in 1..Len(t)
      BY <1>1, <1>2, <2>3
    <3> QED BY <3>1, <2>1, <2>3, <1>1
  <2> QED BY <2>2, <2>3
<1> QED BY <1>2, <1>3, <1>4

\* An element of a list that is put behind another one has a place in both.
LEMMA Behind ==
  ASSUME NEW s, IsList(s), NEW t, IsList(t), NEW x \in ToSet(t)
  PROVE  /\ IsList(s \o t)
         /\ \E k \in 1..Len(s \o t) :
              (s \o t)[k] = x /\ \A n \in (k + 1)..Len(s \o t) : (s \o t)[n] \in ToSet(t)
<1>1. /\ Len(s) \in Nat /\ Len(t) \in Nat /\ DOMAIN t = 1..Len(t)
      /\ \A i \in 1..Len(t) : t[i] \in ToSet(t)
  BY ListFacts
<1>2. /\ IsList(s \o t) /\ Len(s \o t) = Len(s) + Len(t)
      /\ \A i \in 1..Len(s \o t) : (s \o t)[i] = IF i <= Len(s) THEN s[i] ELSE t[i - Len(s)]
  BY ConcatIs
<1>3. PICK m \in 1..Len(t) : t[m] = x
  BY <1>1 DEF ToSet
<1> DEFINE k == Len(s) + m
<1>4. k \in 1..Len(s \o t) /\ (s \o t)[k] = x
  BY <1>1, <1>2, <1>3
<1>5. ASSUME NEW n \in (k + 1)..Len(s \o t) PROVE (s \o t)[n] \in ToSet(t)
  <2>1. n \in 1..Len(s \o t) /\ ~ (n <= Len(s)) /\ n - Len(s) \in 1..Len(t)
    BY <1>1, <1>2
  <2> QED BY <2>1, <1>1, <1>2
<1> HIDE DEF k
<1> QED BY <1>2, <1>4, <1>5

-----------------------------------------------------------------------------
(* What applies to a visual, and in which order.                              *)
LEMMA GroupsAre ==
  ASSUME NEW fs, IsList(fs)
  PROVE  /\ \A scope, ours : IsList(Group(fs, scope, ours))
         /\ \A scope, ours : ToSet(Group(fs, scope, ours)) =
                                  {f \in ToSet(fs) : f.scope = scope /\ (f.source = "slicer") = ours}
         /\ IsList(Overlays(fs))
         /\ ToSet(Overlays(fs)) = {f \in ToSet(fs) : f.scope = "interaction"}
<1>1. ASSUME NEW scope, NEW ours
      PROVE  /\ IsList(Group(fs, scope, ours))
             /\ ToSet(Group(fs, scope, ours)) =
                  {f \in ToSet(fs) : f.scope = scope /\ (f.source = "slicer") = ours}
  <2> DEFINE S == {f \in ToSet(fs) : f.scope = scope /\ (f.source = "slicer") = ours}
  <2>1. Group(fs, scope, ours) = Among(fs, S)
    BY DEF Group
  <2>2. ToSet(fs) \cap S = S
    OBVIOUS
  <2> HIDE DEF S
  <2>3. IsList(Among(fs, S)) /\ ToSet(Among(fs, S)) = S
    BY <2>2, AmongIs
  <2>4. IsList(Group(fs, scope, ours)) /\ ToSet(Group(fs, scope, ours)) = S
    BY <2>1, <2>3
  <2> QED BY <2>4 DEF S
<1>2. /\ IsList(Overlays(fs))
      /\ ToSet(Overlays(fs)) = {f \in ToSet(fs) : f.scope = "interaction"}
  <2> DEFINE S == {f \in ToSet(fs) : f.scope = "interaction"}
  <2>1. Overlays(fs) = Among(fs, S)
    BY DEF Overlays
  <2>2. ToSet(fs) \cap S = S
    OBVIOUS
  <2> HIDE DEF S
  <2>3. IsList(Among(fs, S)) /\ ToSet(Among(fs, S)) = S
    BY <2>2, AmongIs
  <2>4. IsList(Overlays(fs)) /\ ToSet(Overlays(fs)) = S
    BY <2>1, <2>3
  <2> QED BY <2>4 DEF S
<1> QED BY <1>1, <1>2

LEMMA SlicerGroup ==
  ASSUME NEW fs, IsList(fs), NEW scope
  PROVE  ToSet(Group(fs, scope, TRUE)) =
           {f \in ToSet(fs) : f.scope = scope /\ f.source = "slicer"}
<1> DEFINE S == {f \in ToSet(fs) : f.scope = scope /\ f.source = "slicer"}
<1>1. Group(fs, scope, TRUE) = Among(fs, S)
  <2>1. Group(fs, scope, TRUE) = Among(fs, {f \in ToSet(fs) : f.scope = scope /\ (f.source = "slicer") = TRUE})
    BY DEF Group
  <2>2. {f \in ToSet(fs) : f.scope = scope /\ (f.source = "slicer") = TRUE} = S
    OBVIOUS
  <2> QED BY <2>1, <2>2
<1>2. ToSet(fs) \cap S = S
  OBVIOUS
<1> HIDE DEF S
<1>3. ToSet(Among(fs, S)) = S
  BY <1>2, AmongIs
<1>4. ToSet(Group(fs, scope, TRUE)) = S
  BY <1>1, <1>3
<1> QED BY <1>4 DEF S

LEMMA HeardIs ==
  ASSUME NEW fs, IsList(fs), NEW page, NEW visual
  PROVE  /\ IsList(Heard(fs, page, visual))
         /\ ToSet(Heard(fs, page, visual)) = {f \in ToSet(fs) : Applicable(f, page, visual)}
<1> DEFINE S == {f \in ToSet(fs) : Applicable(f, page, visual)}
<1>1. Heard(fs, page, visual) = Among(fs, S)
  BY DEF Heard
<1>2. ToSet(fs) \cap S = S
  OBVIOUS
<1> HIDE DEF S
<1>3. IsList(Among(fs, S)) /\ ToSet(Among(fs, S)) = S
  BY <1>2, AmongIs
<1>4. IsList(Heard(fs, page, visual)) /\ ToSet(Heard(fs, page, visual)) = S
  BY <1>1, <1>3
<1> QED BY <1>4 DEF S

\* The place of a slicer's item in the order, and what comes after it.
LEMMA SlicerPlace ==
  ASSUME NEW fs, IsList(fs), NEW x \in ToSet(fs), x.source = "slicer",
         x.scope \in {"report", "page", "interaction"}
  PROVE  /\ IsList(Ordered(fs))
         /\ \E k \in 1..Len(Ordered(fs)) :
              /\ Ordered(fs)[k] = x
              /\ \A n \in (k + 1)..Len(Ordered(fs)) :
                   \/ Ordered(fs)[n] \in ToSet(Overlays(fs)) \cup ToSet(Group(fs, "visual", FALSE))
                   \/ \E scope : Ordered(fs)[n] \in ToSet(Group(fs, scope, TRUE))
                   \/ x.scope = "report" /\ Ordered(fs)[n] \in ToSet(Group(fs, "page", FALSE))
<1> DEFINE g1 == Group(fs, "report", FALSE)
           g2 == Group(fs, "report", TRUE)
           g3 == Group(fs, "page", FALSE)
           g4 == Group(fs, "page", TRUE)
           g5 == Group(fs, "visual", FALSE)
           g6 == Overlays(fs)
           a2 == g1 \o g2
           a3 == a2 \o g3
           a4 == a3 \o g4
           a5 == a4 \o g5
           a6 == a5 \o g6
<1>1. Ordered(fs) = a6
  BY DEF Ordered
<1>2. IsList(g1) /\ IsList(g2) /\ IsList(g3) /\ IsList(g4) /\ IsList(g5) /\ IsList(g6)
  BY GroupsAre
<1>3. IsList(a2) /\ IsList(a3) /\ IsList(a4) /\ IsList(a5) /\ IsList(a6)
  <2>1. IsList(a2)
    BY <1>2, ConcatIs
  <2>2. IsList(a3)
    BY <1>2, <2>1, ConcatIs
  <2>3. IsList(a4)
    BY <1>2, <2>2, ConcatIs
  <2>4. IsList(a5)
    BY <1>2, <2>3, ConcatIs
  <2> QED BY <2>1, <2>2, <2>3, <2>4, <1>2, ConcatIs
<1> DEFINE T2 == ToSet(g2)
           T4 == ToSet(g4)
           S5 == ToSet(g5)
           S6 == ToSet(g6)
           S3 == ToSet(g3)
<1> DEFINE V3 == T2 \cup S3
           V4 == V3 \cup T4
           V5 == V4 \cup S5
           W5 == T4 \cup S5
<1>4. CASE x.scope = "report"
  <2>0. T2 = {f \in ToSet(fs) : f.scope = "report" /\ f.source = "slicer"}
    BY SlicerGroup
  <2>1. x \in T2
    BY <1>4, <2>0
  <2>7. \A y \in V5 \cup S6 :
          \/ y \in ToSet(Overlays(fs)) \cup ToSet(Group(fs, "visual", FALSE))
          \/ \E scope : y \in ToSet(Group(fs, scope, TRUE))
          \/ x.scope = "report" /\ y \in ToSet(Group(fs, "page", FALSE))
    BY <1>4 DEF g2, g3, g4, g5, g6
  <2> HIDE DEF g1, g2, g3, g4, g5, g6
  <2>2. PICK k \in 1..Len(a2) : a2[k] = x /\ \A n \in (k + 1)..Len(a2) : a2[n] \in T2
    BY <1>2, <2>1, Behind
  <2> HIDE DEF a2, T2
  <2>3. k \in 1..Len(a3) /\ a3[k] = x /\ \A n \in (k + 1)..Len(a3) : a3[n] \in V3
    BY <1>2, <1>3, <2>2, After
  <2> HIDE DEF a3, V3
  <2>4. k \in 1..Len(a4) /\ a4[k] = x /\ \A n \in (k + 1)..Len(a4) : a4[n] \in V4
    BY <1>2, <1>3, <2>3, After
  <2> HIDE DEF a4, V4
  <2>5. k \in 1..Len(a5) /\ a5[k] = x /\ \A n \in (k + 1)..Len(a5) : a5[n] \in V5
    BY <1>2, <1>3, <2>4, After
  <2> HIDE DEF a5, V5
  <2>6. k \in 1..Len(a6) /\ a6[k] = x /\ \A n \in (k + 1)..Len(a6) : a6[n] \in V5 \cup S6
    BY <1>2, <1>3, <2>5, After
  <2> HIDE DEF a6
  <2> QED BY <1>1, <1>3, <2>6, <2>7
<1>5. CASE x.scope = "page"
  <2>0. T4 = {f \in ToSet(fs) : f.scope = "page" /\ f.source = "slicer"}
    BY SlicerGroup
  <2>1. x \in T4
    BY <1>5, <2>0
  <2>7. \A y \in W5 \cup S6 :
          \/ y \in ToSet(Overlays(fs)) \cup ToSet(Group(fs, "visual", FALSE))
          \/ \E scope : y \in ToSet(Group(fs, scope, TRUE))
    BY DEF g4, g5, g6
  <2> HIDE DEF g1, g2, g3, g4, g5, g6, a2, a3
  <2>2. PICK k \in 1..Len(a4) : a4[k] = x /\ \A n \in (k + 1)..Len(a4) : a4[n] \in T4
    BY <1>2, <1>3, <2>1, Behind
  <2> HIDE DEF a4, T4
  <2>5. k \in 1..Len(a5) /\ a5[k] = x /\ \A n \in (k + 1)..Len(a5) : a5[n] \in W5
    BY <1>2, <1>3, <2>2, After
  <2> HIDE DEF a5, W5
  <2>6. k \in 1..Len(a6) /\ a6[k] = x /\ \A n \in (k + 1)..Len(a6) : a6[n] \in W5 \cup S6
    BY <1>2, <1>3, <2>5, After
  <2> HIDE DEF a6
  <2> QED BY <1>1, <1>3, <2>6, <2>7
<1>6. CASE x.scope = "interaction"
  <2>1. x \in S6
    BY <1>6, GroupsAre
  <2> HIDE DEF g1, g2, g3, g4, g5, g6, a2, a3, a4, a5
  <2>2. PICK k \in 1..Len(a6) : a6[k] = x /\ \A n \in (k + 1)..Len(a6) : a6[n] \in S6
    BY <1>2, <1>3, <2>1, Behind
  <2> HIDE DEF a6
  <2> QED BY <1>1, <1>3, <2>2 DEF g6
<1> QED BY <1>4, <1>5, <1>6

\* What a slicer selects lasts through the filters after it, but for those that
\* take its place.
LEMMA SlicerLasts ==
  ASSUME NEW fs, IsList(fs), NEW page, Applies(fs, page, VisualId), VisualId # Nobody,
         NEW c \in Columns, NEW x \in ToSet(Heard(fs, page, VisualId)),
         x.on = c, x.source = "slicer", x.scope \in Scopes \ {"drillthrough"},
         ~ \E f \in ToSet(Heard(fs, page, VisualId)) : Replaces(f, x)
  PROVE  Passing(fs, page, VisualId)[c] \subseteq LetsThrough(x.op, x.values)
<1> DEFINE heard == Heard(fs, page, VisualId)
           L == LetsThrough(x.op, x.values)
<1>1. IsList(heard) /\ ToSet(heard) = {f \in ToSet(fs) : Applicable(f, page, VisualId)}
  BY HeardIs
<1>2. x \in ToSet(fs) /\ Applicable(x, page, VisualId)
  BY <1>1
<1>3. x.scope \in {"report", "page", "interaction"}
  <2>1. x.scope # "visual"
    <3>1. PICK i \in DOMAIN fs : x = fs[i]
      BY <1>2 DEF ToSet
    <3>2. x.scope = "visual" => x.target # VisualId
      BY <3>1 DEF Applies
    <3>3. x.scope = "visual" => x.target = VisualId
      BY <1>2 DEF Applicable
    <3> QED BY <3>2, <3>3
  <2> QED BY <2>1 DEF Scopes
<1> DEFINE all == Ordered(heard)
<1>4. Passing(fs, page, VisualId) = Through(all)
  BY DEF Passing, Effective
<1>5. \A f \in ToSet(heard) : ~ Replaces(f, x)
  OBVIOUS
<1> HIDE DEF heard
<1>6. /\ IsList(all)
      /\ \E k \in 1..Len(all) :
           /\ all[k] = x
           /\ \A n \in (k + 1)..Len(all) :
                \/ all[n] \in ToSet(Overlays(heard)) \cup ToSet(Group(heard, "visual", FALSE))
                \/ \E scope : all[n] \in ToSet(Group(heard, scope, TRUE))
                \/ x.scope = "report" /\ all[n] \in ToSet(Group(heard, "page", FALSE))
  <2>1. x \in ToSet(heard)
    BY DEF heard
  <2> QED BY <1>1, <1>3, <2>1, SlicerPlace
<1>7. PICK k \in 1..Len(all) :
        /\ all[k] = x
        /\ \A n \in (k + 1)..Len(all) :
             \/ all[n] \in ToSet(Overlays(heard)) \cup ToSet(Group(heard, "visual", FALSE))
             \/ \E scope : all[n] \in ToSet(Group(heard, scope, TRUE))
             \/ x.scope = "report" /\ all[n] \in ToSet(Group(heard, "page", FALSE))
  BY <1>6
<1> HIDE DEF all
<1>8. ASSUME NEW n \in (k + 1)..Len(all), all[n].on = c PROVE all[n].keep
  <2> DEFINE y == all[n]
  <2>1. y \in ToSet(Overlays(heard)) => y \in ToSet(heard) /\ y.scope = "interaction"
    BY <1>1, GroupsAre
  <2>2. \A scope, b : y \in ToSet(Group(heard, scope, b)) =>
                        y \in ToSet(heard) /\ y.scope = scope /\ (y.source = "slicer") = b
    BY <1>1, GroupsAre
  <2>3. /\ y \in ToSet(heard)
        /\ \/ y.scope \in {"interaction", "visual"} \/ y.source = "slicer"
           \/ y.scope = "page" /\ x.scope = "report"
    BY <1>7, <1>8, <2>1, <2>2
  <2>4. ~ Replaces(y, x)
    BY <2>3, <1>5
  <2> QED BY <2>3, <2>4, <1>8 DEF Replaces
<1>9. LetsThrough(all[k].op, all[k].values) \subseteq L /\ all[k].on = c
  BY <1>7
<1> HIDE DEF L
<1>10. Through(all)[c] \subseteq L
  BY <1>6, <1>8, <1>9, ThroughHolds
<1> QED BY <1>4, <1>10 DEF L

LEMMA FunctionIsList ==
  ASSUME NEW n \in Nat, NEW f, f = [i \in 1..n |-> f[i]]
  PROVE  IsList(f) /\ Len(f) = n /\ DOMAIN f = 1..n
<1>1. f \in [1..n -> {f[i] : i \in 1..n}]
  OBVIOUS
<1>2. f \in Seq({f[i] : i \in 1..n}) /\ Len(f) = n /\ DOMAIN f = 1..n
  BY <1>1
<1> QED BY <1>2, ListIs

LEMMA SeqOfSet ==
  ASSUME NEW S, IsFiniteSet(S)
  PROVE  IsList(SetToSeq(S))
<1>1. Cardinality(S) \in Nat /\ ExistsBijection(1..Cardinality(S), S)
  BY FS_CardinalityType
<1> DEFINE n == Cardinality(S)
<1>2. PICK f : f \in Bijection(1..n, S)
  BY <1>1 DEF ExistsBijection
<1>3. f \in [1..n -> S] /\ \A a, b \in 1..n : f[a] = f[b] => a = b
  BY <1>2 DEF Bijection, Injection, IsInjective
<1>4. \E g \in [1..n -> S] : \A a, b \in DOMAIN g : g[a] = g[b] => a = b
  BY <1>3
<1>5. SetToSeq(S) \in [1..n -> S]
  BY <1>4 DEF SetToSeq, IsInjective
<1> HIDE DEF n
<1>6. SetToSeq(S) \in Seq(S)
  BY <1>1, <1>5 DEF n
<1> QED BY <1>6, ListIs

-----------------------------------------------------------------------------
(* What the slicers add.                                                      *)
FromSlicers(fs) ==
  /\ IsList(fs)
  /\ \A x \in ToSet(fs) : x.source = "slicer" /\ x.scope \in {"report", "page"}

SlicerIs(s) == s.scope \in {"report", "page"} /\ IsFiniteSet(s.sync)

LEMMA TargetsAre ==
  ASSUME NEW s, SlicerIs(s), NEW op, NEW values
  PROVE  FromSlicers(ToTargets(s, op, values))
<1> DEFINE targets == SetToSeq(TargetsOf(s))
           fs == ToTargets(s, op, values)
<1>1. IsFiniteSet(TargetsOf(s))
  <2>1. IsFiniteSet({Nobody}) /\ IsFiniteSet({s.target})
    BY FS_Singleton
  <2> QED BY <2>1 DEF TargetsOf, SlicerIs
<1>2. Len(targets) \in Nat /\ DOMAIN targets = 1..Len(targets)
  BY <1>1, SeqOfSet, ListFacts
<1> DEFINE n == Len(targets)
<1>3. fs = [i \in 1..n |-> SlicerItem(s, targets[i], op, values)]
  BY <1>2 DEF ToTargets
<1>4. \A i \in 1..n : fs[i].source = "slicer" /\ fs[i].scope = s.scope
  BY <1>3 DEF SlicerItem, Item
<1> HIDE DEF targets, fs, n
<1>5. n \in Nat /\ fs = [i \in 1..n |-> fs[i]]
  BY <1>2, <1>3 DEF n
<1>6. IsList(fs) /\ DOMAIN fs = 1..n
  BY <1>5, FunctionIsList
<1>7. \A x \in ToSet(fs) : x.source = "slicer" /\ x.scope = s.scope
  BY <1>4, <1>6 DEF ToSet
<1> QED BY <1>6, <1>7 DEF FromSlicers, SlicerIs, fs

LEMMA NoneFromSlicers == FromSlicers(<<>>)
BY NoneIs DEF FromSlicers

LEMMA BothFromSlicers ==
  ASSUME NEW fs, FromSlicers(fs), NEW gs, FromSlicers(gs)
  PROVE  FromSlicers(fs \o gs)
<1>1. IsList(fs) /\ IsList(gs)
  BY DEF FromSlicers
<1>2. IsList(fs \o gs) /\ ToSet(fs \o gs) = ToSet(fs) \cup ToSet(gs)
  BY <1>1, ConcatIs
<1> QED BY <1>2 DEF FromSlicers

LEMMA BoundsAre ==
  ASSUME NEW s, SlicerIs(s), NEW range
  PROVE  FromSlicers(Bounds(s, range))
<1>1. \A op, n : FromSlicers(Bound(s, op, n))
  BY TargetsAre, NoneFromSlicers DEF Bound
<1> QED BY <1>1, BothFromSlicers DEF Bounds

LEMMA StaticIs ==
  ASSUME NEW s, SlicerIs(s), NEW day
  PROVE  FromSlicers(Static(s, day))
BY BoundsAre, TargetsAre, NoneFromSlicers DEF Static

\* A list of lists of items of slicers.
LEMMA AllFromSlicers ==
  ASSUME NEW seqs, IsList(seqs), \A i \in 1..Len(seqs) : FromSlicers(seqs[i])
  PROVE  FromSlicers(FlattenSeq(seqs))
<1>1. \A i \in 1..Len(seqs) : IsList(seqs[i])
  BY DEF FromSlicers
<1>2. /\ IsList(FlattenSeq(seqs))
      /\ ToSet(FlattenSeq(seqs)) = UNION {ToSet(seqs[i]) : i \in 1..Len(seqs)}
  BY <1>1, FlattenIs
<1> HIDE DEF FlattenSeq
<1>3. ASSUME NEW x \in ToSet(FlattenSeq(seqs)) PROVE x.source = "slicer" /\ x.scope \in {"report", "page"}
  <2>1. PICK i \in 1..Len(seqs) : x \in ToSet(seqs[i])
    BY <1>2
  <2> QED BY <2>1 DEF FromSlicers
<1> QED BY <1>2, <1>3 DEF FromSlicers

LEMMA SlicersFacts ==
  ASSUME NEW list, SlicersAre(list)
  PROVE  /\ Len(list) \in Nat /\ DOMAIN list = 1..Len(list)
         /\ \A i \in 1..Len(list) : SlicerIs(list[i])
<1>1. /\ Len(list) \in Nat /\ DOMAIN list = 1..Len(list)
      /\ \A i \in 1..Len(list) : list[i] \in ToSet(list)
  BY ListFacts DEF SlicersAre
<1> QED BY <1>1 DEF SlicersAre, SlicerIs

LEMMA StaticsAre ==
  ASSUME NEW list, SlicersAre(list), NEW day
  PROVE  FromSlicers(StaticOf(list, day))
<1> DEFINE seqs == [i \in DOMAIN list |-> Static(list[i], day)]
           n == Len(list)
<1>1. /\ n \in Nat /\ DOMAIN list = 1..n
      /\ \A i \in 1..n : SlicerIs(list[i])
  BY SlicersFacts
<1>2. \A i \in 1..n : FromSlicers(seqs[i])
  BY <1>1, StaticIs
<1>3. seqs = [i \in 1..n |-> seqs[i]]
  BY <1>1
<1>4. StaticOf(list, day) = FlattenSeq(seqs)
  BY DEF StaticOf
<1> HIDE DEF seqs, n
<1>5. IsList(seqs) /\ Len(seqs) = n
  BY <1>1, <1>3, FunctionIsList
<1> QED BY <1>2, <1>4, <1>5, AllFromSlicers

LEMMA DefaultsAre ==
  ASSUME NEW s, SlicerIs(s), HasDefault(s), NEW values
  PROVE  FromSlicers(DefaultItems(s, values))
<1>1. s.default \in {"measure", "measure_set", "date_range"}
  BY DEF HasDefault, Defaults
<1>2. CASE s.default = "measure"
  BY <1>2, TargetsAre DEF DefaultItems
<1>3. CASE s.default = "measure_set"
  BY <1>3, TargetsAre, NoneFromSlicers DEF DefaultItems
<1>4. CASE s.default = "date_range"
  BY <1>4, BoundsAre DEF DefaultItems
<1> QED BY <1>1, <1>2, <1>3, <1>4

LEMMA MaterializedAre ==
  ASSUME NEW list, SlicersAre(list), NEW day, NEW fs, NEW page, NEW visual
  PROVE  FromSlicers(Materialized(list, day, fs, page, visual))
<1> DEFINE statics == StaticOf(list, day)
           seqs == [i \in DOMAIN list |-> IF HasDefault(list[i])
                      THEN Default(list[i], fs, statics, page, visual) ELSE <<>>]
           n == Len(list)
<1>1. /\ n \in Nat /\ DOMAIN list = 1..n
      /\ \A i \in 1..n : SlicerIs(list[i])
  BY SlicersFacts
<1>2. FromSlicers(statics)
  BY StaticsAre
<1>3. Materialized(list, day, fs, page, visual) = statics \o FlattenSeq(seqs)
  BY DEF Materialized, WithDefaults
<1> HIDE DEF statics
<1>4. ASSUME NEW i \in 1..n PROVE FromSlicers(seqs[i])
  <2>1. CASE HasDefault(list[i])
    BY <1>1, <2>1, DefaultsAre DEF Default
  <2>2. CASE ~ HasDefault(list[i])
    BY <1>1, <2>2, NoneFromSlicers
  <2> QED BY <2>1, <2>2
<1>5. seqs = [i \in 1..n |-> seqs[i]]
  BY <1>1
<1> HIDE DEF seqs, n
<1>6. IsList(seqs) /\ Len(seqs) = n
  BY <1>1, <1>5, FunctionIsList
<1>7. FromSlicers(FlattenSeq(seqs))
  BY <1>4, <1>6, AllFromSlicers
<1> QED BY <1>2, <1>3, <1>7, BothFromSlicers

LEMMA ParsedIs ==
  ASSUME NEW items, IsList(items)
  PROVE  IsList(Parsed(items))
<1> DEFINE S == {x \in ToSet(items) : x.on # "measure" /\ x.op \notin {"exists", "topn"}}
           kept == Among(items, S)
           n == Len(kept)
           fs == Parsed(items)
<1>1. n \in Nat /\ DOMAIN kept = 1..n
  BY AmongIs, ListFacts
<1>2. fs = [i \in 1..n |-> fs[i]]
  BY <1>1 DEF Parsed
<1> HIDE DEF n, fs
<1> QED BY <1>1, <1>2, FunctionIsList DEF fs

LEMMA ClicksAre ==
  ASSUME NEW list, IsList(list)
  PROVE  IsList(ParsedClicks(list))
<1> DEFINE n == Len(list)
           fs == ParsedClicks(list)
<1>1. n \in Nat /\ DOMAIN list = 1..n
  BY ListFacts
<1>2. fs = [i \in 1..n |-> fs[i]]
  BY <1>1 DEF ParsedClicks
<1> HIDE DEF n, fs
<1> QED BY <1>1, <1>2, FunctionIsList DEF fs

-----------------------------------------------------------------------------
LEMMA PayloadFacts ==
  ASSUME SlicersAre(slicers), NEW p \in Payloads
  PROVE  /\ SlicersAre(SlicersOf(p))
         /\ IsList(Parsed(p.filters)) /\ IsList(ParsedClicks(p.clicks))
         /\ IsList(RenderFilters(p)) /\ IsList(BatchFilters(p))
         /\ IsList(RenderFilters(p) \o ParsedClicks(p.clicks))
<1>1. /\ IsList(p.filters) /\ IsList(p.clicks) /\ SlicersAre(p.slicers)
  BY RequestsAssumption
<1>2. SlicersAre(SlicersOf(p))
  BY <1>1 DEF SlicersOf
<1>3. IsList(Parsed(p.filters)) /\ IsList(ParsedClicks(p.clicks))
  BY <1>1, ParsedIs, ClicksAre
<1>4. \A fs, page, visual : IsList(fs) => IsList(WithSlicers(p, fs, page, visual))
  <2> TAKE fs, page, visual
  <2> HAVE IsList(fs)
  <2> DEFINE added == Materialized(SlicersOf(p), today, fs, page, visual)
  <2>1. IsList(added)
    BY <1>2, MaterializedAre DEF FromSlicers
  <2> HIDE DEF added
  <2>2. IsList(Parsed(added))
    BY <2>1, ParsedIs
  <2>3. IsList(fs \o Parsed(added))
    BY <2>2, ConcatIs
  <2> QED BY <2>3 DEF WithSlicers, added
<1>5. IsList(RenderFilters(p)) /\ IsList(WithSlicers(p, Parsed(p.filters), Nobody, Nobody))
  BY <1>3, <1>4 DEF RenderFilters
<1>6. IsList(BatchFilters(p))
  BY <1>3, <1>5, ConcatIs DEF BatchFilters
<1>7. IsList(RenderFilters(p) \o ParsedClicks(p.clicks))
  BY <1>3, <1>5, ConcatIs
<1> QED BY <1>2, <1>3, <1>5, <1>6, <1>7

LEMMA DrillIs ==
  ASSUME NEW drill, IsList(drill.drilled)
  PROVE  IsList(DrillItems(drill))
<1> DEFINE n == Len(drill.drilled)
           fs == DrillItems(drill)
<1>1. n \in Nat /\ DOMAIN drill.drilled = 1..n
  BY ListFacts
<1>2. fs = [i \in 1..n |-> fs[i]]
  BY <1>1 DEF DrillItems
<1> HIDE DEF n, fs
<1> QED BY <1>1, <1>2, FunctionIsList DEF fs

\* The filters that the visual heeds.
Heeded(def, fs) ==
  IF def.affected THEN fs ELSE Among(fs, {f \in ToSet(fs) : f.scope # "interaction"})

LEMMA HeededIs ==
  ASSUME NEW def, NEW fs, IsList(fs)
  PROVE  /\ IsList(Heeded(def, fs))
         /\ ToSet(Heeded(def, fs)) = {f \in ToSet(fs) : def.affected \/ f.scope # "interaction"}
<1> DEFINE S == {f \in ToSet(fs) : f.scope # "interaction"}
<1>1. ToSet(fs) \cap S = S
  OBVIOUS
<1>2. Heeded(def, fs) = IF def.affected THEN fs ELSE Among(fs, S)
  BY DEF Heeded
<1> HIDE DEF S
<1>3. IsList(Among(fs, S)) /\ ToSet(Among(fs, S)) = S
  BY <1>1, AmongIs
<1>4. CASE def.affected
  BY <1>2, <1>4
<1>5. CASE ~ def.affected
  BY <1>2, <1>3, <1>5 DEF S
<1> QED BY <1>4, <1>5

LEMMA AskedIs ==
  ASSUME NEW def, NEW fs, IsList(fs), NEW drill, IsList(drill.drilled)
  PROVE  /\ IsList(Asked(def, fs, drill))
         /\ fs = <<>> => Asked(def, fs, drill) = <<>>
         /\ fs # <<>> => ToSet(Asked(def, fs, drill)) = ToSet(Heeded(def, fs)) \cup ToSet(DrillItems(drill))
<1>1. IsList(Heeded(def, fs)) /\ IsList(DrillItems(drill))
  BY HeededIs, DrillIs
<1>2. Asked(def, fs, drill) = IF fs = <<>> THEN <<>> ELSE Heeded(def, fs) \o DrillItems(drill)
  BY DEF Asked, Heeded
<1>3. /\ IsList(Heeded(def, fs) \o DrillItems(drill))
      /\ ToSet(Heeded(def, fs) \o DrillItems(drill)) = ToSet(Heeded(def, fs)) \cup ToSet(DrillItems(drill))
  BY <1>1, ConcatIs
<1> QED BY <1>2, <1>3, NoneIs

-----------------------------------------------------------------------------
(* The answers.                                                              *)
BatchSays ==
  answer.kind = "data" /\ answer.route = "batch" =>
    /\ answer.payload \in Payloads
    /\ answer.def = file /\ answer.filters = BatchFilters(answer.payload)
    /\ answer.drill = Undrilled

AskedSays ==
  answer.kind = "data" =>
    /\ IsList(answer.filters) /\ IsList(answer.drill.drilled)
    /\ Applies(Asked(answer.def, answer.filters, answer.drill), answer.def.page, VisualId)

AnswersInv == SlicersAre(slicers) /\ AskedSays /\ BatchSays

LEMMA NoDataSays ==
  ASSUME SlicersAre(slicers), slicers' = slicers, answer'.kind # "data"
  PROVE  AnswersInv'
BY DEF AnswersInv, AskedSays, BatchSays

LEMMA FiguresSay ==
  ASSUME SlicersAre(slicers), slicers' = slicers,
         NEW route, NEW p, NEW def, NEW fs, NEW drill, NEW e, NEW base,
         answer' = Figures(route, p, def, fs, drill, e, base),
         IsList(fs), IsList(drill.drilled), Answerable(def, fs, drill),
         route # "batch"
  PROVE  AnswersInv'
<1>1. /\ answer'.def = def /\ answer'.filters = fs /\ answer'.drill = drill /\ answer'.route = route
  BY DEF Figures
<1>2. Applies(Asked(def, fs, drill), def.page, VisualId)
  BY DEF Answerable
<1> QED BY <1>1, <1>2 DEF AnswersInv, AskedSays, BatchSays

LEMMA OneSays ==
  ASSUME SlicersAre(slicers), NEW route, NEW p, NEW def, NEW fs, NEW drill,
         AskOne(route, p, def, fs, drill), IsList(fs), IsList(drill.drilled),
         route # "batch"
  PROVE  AnswersInv'
<1>1. slicers' = slicers
  BY DEF AskOne, Answered, stores
<1>2. CASE ~ Answerable(def, fs, drill)
  BY <1>1, <1>2, NoDataSays DEF AskOne, Answered, Fails
<1>3. CASE Answerable(def, fs, drill)
  <2>1. \E e : answer' = Figures(route, p, def, fs, drill, e, e)
    BY <1>3 DEF AskOne, Answered
  <2> QED BY <1>1, <1>3, <2>1, FiguresSay
<1> QED BY <1>2, <1>3

LEMMA UndrilledIs == IsList(Undrilled.drilled)
BY NoneIs DEF Undrilled

LEMMA InitAnswers == RequestInit => AnswersInv
<1> SUFFICES ASSUME RequestInit PROVE AnswersInv
  OBVIOUS
<1>1. SlicersAre(slicers)
  BY RequestsAssumption DEF RequestInit
<1> QED BY <1>1 DEF RequestInit, AnswersInv, AskedSays, BatchSays, NoAnswer

LEMMA AnswersStep == AnswersInv /\ [RequestNext]_allVars => AnswersInv'
<1> SUFFICES ASSUME AnswersInv, [RequestNext]_allVars PROVE AnswersInv'
  OBVIOUS
<1>0. SlicersAre(slicers)
  BY DEF AnswersInv
<1>1. ASSUME NEW kind, NEW put, PutSelections(kind, put) PROVE AnswersInv'
  BY <1>0, <1>1, NoDataSays DEF PutSelections, Store, Changed, Idle, NoAnswer
<1>2. ASSUME NEW parameters, PutParameters(parameters) PROVE AnswersInv'
  BY <1>0, <1>2, NoDataSays DEF PutParameters, Idle, NoAnswer
<1>3. ASSUME NEW def, SaveVisual(def) PROVE AnswersInv'
  BY <1>0, <1>3, NoDataSays DEF SaveVisual, Changed, Idle, NoAnswer
<1>4. CASE DayPasses
  BY <1>0, <1>4, NoDataSays DEF DayPasses, Changed, Idle, NoAnswer
<1>5. CASE ForgetPlans
  BY <1>0, <1>5, NoDataSays DEF ForgetPlans, Idle, NoAnswer, stores
<1>6. ASSUME NEW p \in Payloads, Render(p) PROVE AnswersInv'
  <2>1. slicers' = slicers
    BY <1>6 DEF Render, AskOne, Answered, stores
  <2>2. CASE AskOne("render", p, Rendered(p), RenderFilters(p), DrillOf(p))
    <3>1. IsList(RenderFilters(p)) /\ IsList(DrillOf(p).drilled)
      BY <1>0, PayloadFacts, RequestsAssumption DEF DrillOf
    <3> QED BY <1>0, <2>2, <3>1, OneSays
  <2> QED BY <1>0, <1>6, <2>1, <2>2, NoDataSays DEF Render, Answered, Fails, Drawn
<1>7. ASSUME NEW p \in Payloads, Highlight(p) PROVE AnswersInv'
  <2> DEFINE base == RenderFilters(p)
             both == base \o ParsedClicks(p.clicks)
             def == Rendered(p)
  <2>1. IsList(base) /\ IsList(both)
    BY <1>0, PayloadFacts
  <2>2. slicers' = slicers
    BY <1>7 DEF Highlight, AskTwo, Answered, stores
  <2>3. CASE Answerable(def, base, Undrilled) /\ AskTwo(p, def, base, both)
    <3> HIDE DEF base, both, def
    <3>1. \/ \E e : answer' = Figures("highlight", p, def, base, Undrilled, e, e)
          \/ /\ \E e, f : answer' = Figures("highlight", p, def, both, Undrilled, e, f)
             /\ Answerable(def, both, Undrilled)
      BY <2>3 DEF AskTwo, Answered
    <3> QED BY <1>0, <2>1, <2>2, <2>3, <3>1, FiguresSay, UndrilledIs
  <2>4. CASE Answered(Fails("highlight", p))
    BY <1>0, <2>2, <2>4, NoDataSays DEF Answered, Fails
  <2> QED BY <1>7, <2>3, <2>4 DEF Highlight
<1>8. ASSUME NEW p \in Payloads, Batch(p) PROVE AnswersInv'
  <2>1. UNCHANGED <<file, slicers, today>>
    BY <1>8 DEF Batch, AskOne, Answered, stores
  <2>2. CASE AskOne("batch", p, file, BatchFilters(p), Undrilled)
    <3>1. IsList(BatchFilters(p))
      BY <1>0, PayloadFacts
    <3>2. CASE ~ Answerable(file, BatchFilters(p), Undrilled)
      BY <1>0, <2>1, <2>2, <3>2, NoDataSays DEF AskOne, Answered, Fails
    <3>3. CASE Answerable(file, BatchFilters(p), Undrilled)
      <4>1. PICK e : answer' = Figures("batch", p, file, BatchFilters(p), Undrilled, e, e)
        BY <2>2, <3>3 DEF AskOne, Answered
      <4>2. /\ answer'.def = file /\ answer'.filters = BatchFilters(p) /\ answer'.drill = Undrilled
            /\ answer'.payload = p
        BY <4>1 DEF Figures
      <4>3. Applies(Asked(file, BatchFilters(p), Undrilled), file.page, VisualId)
        BY <3>3 DEF Answerable
      <4>4. AskedSays'
        BY <3>1, <4>2, <4>3, UndrilledIs DEF AskedSays
      <4>5. BatchFilters(p)' = BatchFilters(p)
        BY <2>1 DEF BatchFilters, WithSlicers, SlicersOf
      <4>6. BatchSays'
        BY <2>1, <4>2, <4>5 DEF BatchSays
      <4> QED BY <1>0, <2>1, <4>4, <4>6 DEF AnswersInv
    <3> QED BY <3>2, <3>3
  <2> QED BY <1>0, <1>8, <2>1, <2>2, NoDataSays DEF Batch, Answered, Fails, Drawn
<1>9. ASSUME NEW p \in Payloads, Tooltip(p) PROVE AnswersInv'
  <2> DEFINE fs == (IF WellFormed(p.filters) THEN Parsed(p.filters) ELSE <<>>)
  <2>1. IsList(fs) /\ IsList(HoverItems(p))
    <3>1. IsList(HoverItems(p))
      <4> DEFINE n == Len(p.drilled)
                 hs == HoverItems(p)
      <4>1. n \in Nat /\ DOMAIN p.drilled = 1..n
        BY ListFacts, RequestsAssumption
      <4>2. hs = [i \in 1..n |-> hs[i]]
        BY <4>1 DEF HoverItems
      <4> HIDE DEF n, hs
      <4> QED BY <4>1, <4>2, FunctionIsList DEF hs
    <3> QED BY <1>0, <3>1, PayloadFacts, NoneIs
  <2>2. IsList(fs \o HoverItems(p))
    BY <2>1, ConcatIs
  <2>3. AskOne("tooltip", p, file, fs \o HoverItems(p), Undrilled)
    BY <1>9 DEF Tooltip
  <2> HIDE DEF fs
  <2> QED BY <1>0, <2>2, <2>3, OneSays, UndrilledIs
<1>10. ASSUME NEW p \in Payloads, Export(p) PROVE AnswersInv'
  BY <1>0, <1>10, OneSays, UndrilledIs, NoneIs DEF Export
<1>11. ASSUME NEW kind, GetSelections(kind) PROVE AnswersInv'
  BY <1>0, <1>11, NoDataSays DEF GetSelections, stores
<1>12. ASSUME NEW p, RenderMatrix(p) PROVE AnswersInv'
  <2>1. slicers' = slicers /\ answer'.kind = "matrix"
    BY <1>12 DEF RenderMatrix, stores
  <2> QED BY <1>0, <2>1, NoDataSays
<1>13. CASE Receive
  BY <1>0, <1>13, NoDataSays DEF Receive, NoAnswer, stores
<1>14. CASE FillMatrix \/ UNCHANGED allVars
  <2>1. UNCHANGED <<slicers, file, today, answer>>
    BY <1>14 DEF FillMatrix, requestVars, allVars
  <2>2. AskedSays'
    BY <2>1 DEF AnswersInv, AskedSays
  <2>3. BatchSays'
    BY <2>1 DEF AnswersInv, BatchSays, BatchFilters, WithSlicers, SlicersOf
  <2> QED BY <1>0, <2>1, <2>2, <2>3 DEF AnswersInv
<1> QED
  BY <1>1, <1>2, <1>3, <1>4, <1>5, <1>6, <1>7, <1>8, <1>9, <1>10, <1>11, <1>12, <1>13, <1>14
     DEF RequestNext, ChangeStep, RequestStep

LEMMA SlicersImply == AnswersInv /\ PlansFitTheirRequests => SlicersHold
<1> DEFINE asked == Asked(answer.def, answer.filters, answer.drill)
           page == answer.def.page
           heard == Heard(asked, page, VisualId)
           passing == answer.entry.question.passing
<1> SUFFICES ASSUME AnswersInv, PlansFitTheirRequests, answer.kind = "data",
                    NEW c \in Columns, NEW i \in DOMAIN heard,
                    heard[i].on = c, heard[i].source = "slicer",
                    heard[i].scope \in Scopes \ {"drillthrough"},
                    ~ \E j \in DOMAIN heard : Replaces(heard[j], heard[i])
             PROVE  passing[c] \subseteq LetsThrough(heard[i].op, heard[i].values)
  BY DEF SlicersHold
<1>1. IsList(asked) /\ Applies(asked, page, VisualId)
  BY AskedIs DEF AnswersInv, AskedSays
<1>2. passing = Passing(asked, page, VisualId)
  BY DEF PlansFitTheirRequests, Question
<1> DEFINE x == heard[i]
<1>3. x \in ToSet(heard) /\ ~ \E f \in ToSet(heard) : Replaces(f, x)
  <2> HIDE DEF heard
  <2> QED BY DEF ToSet
<1>4. x.on = c /\ x.source = "slicer" /\ x.scope \in Scopes \ {"drillthrough"}
  OBVIOUS
<1> HIDE DEF x, asked, page, passing
<1>5. Passing(asked, page, VisualId)[c] \subseteq LetsThrough(x.op, x.values)
  BY <1>1, <1>3, <1>4, RequestsAssumption, SlicerLasts
<1> QED BY <1>2, <1>5 DEF x

\* Without a default that waits, the slicers say the same for any page and visual.
LEMMA NoneWaits ==
  ASSUME NEW list, \A i \in DOMAIN list : ~ HasDefault(list[i]),
         NEW day, NEW fs, NEW page, NEW visual
  PROVE  Materialized(list, day, fs, page, visual) = Materialized(list, day, fs, Nobody, Nobody)
<1> DEFINE statics == StaticOf(list, day)
           saidTo(v, pg) == [i \in DOMAIN list |-> IF HasDefault(list[i])
                          THEN Default(list[i], fs, statics, pg, v) ELSE <<>>]
           nothing == [i \in DOMAIN list |-> <<>>]
<1>1. saidTo(visual, page) = nothing /\ saidTo(Nobody, Nobody) = nothing
  OBVIOUS
<1>2. /\ Materialized(list, day, fs, page, visual) = statics \o FlattenSeq(saidTo(visual, page))
      /\ Materialized(list, day, fs, Nobody, Nobody) = statics \o FlattenSeq(saidTo(Nobody, Nobody))
  BY DEF Materialized, WithDefaults
<1> HIDE DEF saidTo, nothing, statics
<1> QED BY <1>1, <1>2

\* Filters of which none is for the visual alone let through the same for nobody.
LEMMA NobodysFilters ==
  ASSUME NEW fs, IsList(fs), \A f \in ToSet(fs) : f.target # VisualId \/ f.scope \in {"report", "page"}
  PROVE  Passing(fs, Nobody, VisualId) = Passing(fs, Nobody, Nobody)
<1>1. ASSUME NEW f \in ToSet(fs)
      PROVE  Applicable(f, Nobody, VisualId) <=> Applicable(f, Nobody, Nobody)
  <2>1. f.target # VisualId \/ f.scope \in {"report", "page"}
    OBVIOUS
  <2>2. CASE f.scope = "report"
    BY <2>2 DEF Applicable
  <2>3. CASE f.scope = "interaction"
    BY <2>1, <2>3 DEF Applicable
  <2>4. CASE f.scope = "page"
    BY <2>4 DEF Applicable
  <2>5. CASE f.scope \notin {"report", "interaction", "page"}
    BY <2>1, <2>5 DEF Applicable
  <2> QED BY <2>2, <2>3, <2>4, <2>5
<1>2. {f \in ToSet(fs) : Applicable(f, Nobody, VisualId)} = {f \in ToSet(fs) : Applicable(f, Nobody, Nobody)}
  BY <1>1
<1>3. Heard(fs, Nobody, VisualId) = Heard(fs, Nobody, Nobody)
  BY <1>2 DEF Heard
<1> QED BY <1>3 DEF Passing, Effective

\* Nor do the defaults then differ.
LEMMA NoneApart ==
  ASSUME NEW list, SlicersAre(list), NEW day, NEW fs, IsList(fs),
         \A f \in ToSet(fs) : f.target # VisualId
  PROVE  Materialized(list, day, fs, Nobody, VisualId) = Materialized(list, day, fs, Nobody, Nobody)
<1> DEFINE statics == StaticOf(list, day)
           said(v) == [i \in DOMAIN list |-> IF HasDefault(list[i])
                          THEN Default(list[i], fs, statics, Nobody, v) ELSE <<>>]
<1>1. FromSlicers(statics)
  BY StaticsAre
<1>2. /\ Materialized(list, day, fs, Nobody, VisualId) = statics \o FlattenSeq(said(VisualId))
      /\ Materialized(list, day, fs, Nobody, Nobody) = statics \o FlattenSeq(said(Nobody))
  BY DEF Materialized, WithDefaults
<1> HIDE DEF statics
<1>3. \A s : Default(s, fs, statics, Nobody, VisualId) = Default(s, fs, statics, Nobody, Nobody)
  <2> TAKE s
  <2> DEFINE others == Others(statics, s)
             S == {x \in ToSet(statics) : x.slicer # s.id}
  <2>1. others = Among(statics, S)
    BY DEF Others
  <2> HIDE DEF S
  <2>2. IsList(others) /\ ToSet(others) \subseteq ToSet(statics)
    BY <1>1, <2>1, AmongIs DEF FromSlicers
  <2> HIDE DEF others
  <2>3. IsList(fs \o others) /\ ToSet(fs \o others) = ToSet(fs) \cup ToSet(others)
    BY <2>2, ConcatIs
  <2>4. \A f \in ToSet(fs \o others) : f.target # VisualId \/ f.scope \in {"report", "page"}
    BY <1>1, <2>2, <2>3 DEF FromSlicers
  <2>5. Passing(fs \o others, Nobody, VisualId) = Passing(fs \o others, Nobody, Nobody)
    BY <2>3, <2>4, NobodysFilters
  <2> QED BY <2>5 DEF Default, others
<1>4. said(VisualId) = said(Nobody)
  BY <1>3
<1> HIDE DEF said
<1> QED BY <1>2, <1>4

LEMMA RoutesImply == AnswersInv /\ PlansFitTheirRequests => RoutesAgree
<1> SUFFICES ASSUME AnswersInv, PlansFitTheirRequests,
                    answer.kind = "data", answer.route = "batch"
             PROVE  LET p == answer.payload
                        lets(fs) == Passing(Asked(file, fs, Undrilled), file.page, VisualId)
                        waiting == \E i \in DOMAIN SlicersOf(p) : HasDefault(SlicersOf(p)[i])
                        apart == \E f \in ToSet(Parsed(p.filters)) : f.target = VisualId
                    IN \/ answer.entry.question.passing = lets(RenderFilters(p) \o ParsedClicks(p.clicks))
                       \/ waiting /\ apart
  BY DEF RoutesAgree
<1> DEFINE p == answer.payload
           list == SlicersOf(p)
           fs == Parsed(p.filters)
           forVisual == Materialized(list, today, fs, Nobody, VisualId)
           forNobody == Materialized(list, today, fs, Nobody, Nobody)
<1>1. /\ p \in Payloads /\ answer.def = file /\ answer.filters = BatchFilters(p)
      /\ answer.drill = Undrilled
  BY DEF AnswersInv, BatchSays
<1>2. SlicersAre(list) /\ IsList(fs)
  BY <1>1, PayloadFacts DEF AnswersInv
<1>3. answer.entry.question.passing = Passing(Asked(file, BatchFilters(p), Undrilled), file.page, VisualId)
  BY <1>1 DEF PlansFitTheirRequests, Question
<1>4. /\ RenderFilters(p) = fs \o Parsed(forVisual)
      /\ BatchFilters(p) = (fs \o Parsed(forNobody)) \o ParsedClicks(p.clicks)
  BY DEF RenderFilters, BatchFilters, WithSlicers
<1>5. ASSUME forVisual = forNobody
      PROVE  BatchFilters(p) = RenderFilters(p) \o ParsedClicks(p.clicks)
  <2> HIDE DEF forVisual, forNobody, fs
  <2> QED BY <1>4, <1>5
<1>6. CASE ~ \E i \in DOMAIN list : HasDefault(list[i])
  <2>1. forVisual = forNobody
    <3> HIDE DEF list, fs
    <3> QED BY <1>6, NoneWaits
  <2> QED BY <1>3, <1>5, <2>1
<1>7. CASE ~ \E f \in ToSet(fs) : f.target = VisualId
  <2>1. forVisual = forNobody
    <3> HIDE DEF list, fs
    <3> QED BY <1>2, <1>7, NoneApart
  <2> QED BY <1>3, <1>5, <2>1
<1> QED BY <1>6, <1>7

-----------------------------------------------------------------------------
(* The stored selections.                                                     *)
LEMMA PairIn ==
  ASSUME NEW f, NEW x
  PROVE  x \in Pairs(f) <=> \E n \in DOMAIN f : x = <<n, f[n]>>
BY DEF Pairs

LEMMA PairOfAll ==
  ASSUME NEW sel, NEW x
  PROVE  x \in AllPairs(sel) <=>
           \/ x \in Pairs(sel.report)
           \/ \E t \in DOMAIN sel.page : x \in Pairs(sel.page[t])
           \/ \E t \in DOMAIN sel.visual : x \in Pairs(sel.visual[t])
BY DEF AllPairs

LEMMA OverPairs ==
  ASSUME NEW f, NEW g
  PROVE  Pairs(Over(f, g)) \subseteq Pairs(f) \cup Pairs(g)
BY DEF Over, Pairs

LEMMA NarrowestPairs ==
  ASSUME NEW sel, NEW page, NEW visual
  PROVE  Pairs(Narrowest(sel, page, visual)) \subseteq AllPairs(sel)
<1> DEFINE v == SelectedFor(sel.visual, visual)
           p == SelectedFor(sel.page, page)
<1>1. Pairs(<<>>) = {}
  BY DEF Pairs
<1>2. Pairs(v) \subseteq AllPairs(sel)
  BY <1>1, PairOfAll DEF SelectedFor
<1>3. Pairs(p) \subseteq AllPairs(sel)
  BY <1>1, PairOfAll DEF SelectedFor
<1>4. Pairs(sel.report) \subseteq AllPairs(sel)
  BY PairOfAll
<1>5. Narrowest(sel, page, visual) = Over(v, Over(p, sel.report))
  BY DEF Narrowest
<1> HIDE DEF v, p
<1>6. Pairs(Over(p, sel.report)) \subseteq Pairs(p) \cup Pairs(sel.report)
  BY OverPairs
<1>7. Pairs(Over(v, Over(p, sel.report))) \subseteq Pairs(v) \cup Pairs(Over(p, sel.report))
  BY OverPairs
<1> QED BY <1>2, <1>3, <1>4, <1>5, <1>6, <1>7

\* What is left of selections that are made canonical.
LEMMA CalcCanonical ==
  ASSUME NEW sel, NEW x \in AllPairs(Canonical(sel, CalcLeaf, IllItem))
  PROVE  x \in AllPairs(sel) /\ x[2] # IllItem
<1> DEFINE kept(f) == [n \in {m \in DOMAIN f : f[m] # IllItem} |-> f[n]]
           all(fs) == [t \in {u \in DOMAIN fs : DOMAIN kept(fs[u]) # {}} |-> kept(fs[t])]
           new == Canonical(sel, CalcLeaf, IllItem)
<1>1. new = [report |-> kept(sel.report), page |-> all(sel.page), visual |-> all(sel.visual)]
  BY DEF Canonical, CalcLeaf
<1>2. ASSUME NEW f, x \in Pairs(kept(f)) PROVE x \in Pairs(f) /\ x[2] # IllItem
  <2>1. PICK n \in DOMAIN kept(f) : x = <<n, kept(f)[n]>>
    BY <1>2, PairIn
  <2>2. n \in DOMAIN f /\ kept(f)[n] = f[n] /\ f[n] # IllItem
    OBVIOUS
  <2>3. x = <<n, f[n]>> /\ x[2] = f[n]
    BY <2>1, <2>2
  <2> QED BY <2>2, <2>3, PairIn
<1>3. ASSUME NEW fs, NEW t \in DOMAIN all(fs) PROVE t \in DOMAIN fs /\ all(fs)[t] = kept(fs[t])
  OBVIOUS
<1>4. /\ new.report = kept(sel.report) /\ new.page = all(sel.page) /\ new.visual = all(sel.visual)
  BY <1>1
<1> HIDE DEF new, kept, all
<1>5. \/ x \in Pairs(new.report)
      \/ \E t \in DOMAIN new.page : x \in Pairs(new.page[t])
      \/ \E t \in DOMAIN new.visual : x \in Pairs(new.visual[t])
  BY PairOfAll DEF new
<1>6. CASE x \in Pairs(new.report)
  BY <1>2, <1>4, <1>6, PairOfAll
<1>7. CASE \E t \in DOMAIN new.page : x \in Pairs(new.page[t])
  <2>1. PICK t \in DOMAIN new.page : x \in Pairs(new.page[t])
    BY <1>7
  <2>2. t \in DOMAIN sel.page /\ x \in Pairs(kept(sel.page[t]))
    BY <2>1, <1>3, <1>4
  <2> QED BY <2>2, <1>2, PairOfAll
<1>8. CASE \E t \in DOMAIN new.visual : x \in Pairs(new.visual[t])
  <2>1. PICK t \in DOMAIN new.visual : x \in Pairs(new.visual[t])
    BY <1>8
  <2>2. t \in DOMAIN sel.visual /\ x \in Pairs(kept(sel.visual[t]))
    BY <2>1, <1>3, <1>4
  <2> QED BY <2>2, <1>2, PairOfAll
<1> QED BY <1>5, <1>6, <1>7, <1>8

NoItems == Leaf("selected", <<>>)

LEMMA ParamCanonical ==
  ASSUME NEW sel, NEW x \in AllPairs(Canonical(sel, ParamLeaf, NoItems))
  PROVE  \E y \in AllPairs(sel) : x = <<y[1], ParamLeaf(y[2])>> /\ ParamLeaf(y[2]) # NoItems
<1> DEFINE kept(f) == [n \in {m \in DOMAIN f : ParamLeaf(f[m]) # NoItems} |-> ParamLeaf(f[n])]
           all(fs) == [t \in {u \in DOMAIN fs : DOMAIN kept(fs[u]) # {}} |-> kept(fs[t])]
           new == Canonical(sel, ParamLeaf, NoItems)
           Goal == \E y \in AllPairs(sel) : x = <<y[1], ParamLeaf(y[2])>> /\ ParamLeaf(y[2]) # NoItems
<1>1. new = [report |-> kept(sel.report), page |-> all(sel.page), visual |-> all(sel.visual)]
  BY DEF Canonical
<1>2. ASSUME NEW f, x \in Pairs(kept(f))
      PROVE  \E y \in Pairs(f) : x = <<y[1], ParamLeaf(y[2])>> /\ ParamLeaf(y[2]) # NoItems
  <2>1. PICK n \in DOMAIN kept(f) : x = <<n, kept(f)[n]>>
    BY <1>2, PairIn
  <2>2. n \in DOMAIN f /\ kept(f)[n] = ParamLeaf(f[n]) /\ ParamLeaf(f[n]) # NoItems
    OBVIOUS
  <2>3. PICK y : y = <<n, f[n]>>
    OBVIOUS
  <2>4. y \in Pairs(f) /\ y[1] = n /\ y[2] = f[n]
    BY <2>2, <2>3, PairIn
  <2> QED BY <2>1, <2>2, <2>4
<1>3. ASSUME NEW fs, NEW t \in DOMAIN all(fs) PROVE t \in DOMAIN fs /\ all(fs)[t] = kept(fs[t])
  OBVIOUS
<1>4. /\ new.report = kept(sel.report) /\ new.page = all(sel.page) /\ new.visual = all(sel.visual)
  BY <1>1
<1> HIDE DEF new, kept, all
<1>5. \/ x \in Pairs(new.report)
      \/ \E t \in DOMAIN new.page : x \in Pairs(new.page[t])
      \/ \E t \in DOMAIN new.visual : x \in Pairs(new.visual[t])
  BY PairOfAll DEF new
<1>6. CASE x \in Pairs(new.report)
  <2>1. Pairs(sel.report) \subseteq AllPairs(sel)
    BY PairOfAll
  <2> QED BY <1>2, <1>4, <1>6, <2>1
<1>7. CASE \E t \in DOMAIN new.page : x \in Pairs(new.page[t])
  <2>1. PICK t \in DOMAIN new.page : x \in Pairs(new.page[t])
    BY <1>7
  <2>2. t \in DOMAIN sel.page /\ x \in Pairs(kept(sel.page[t]))
    BY <2>1, <1>3, <1>4
  <2>3. Pairs(sel.page[t]) \subseteq AllPairs(sel)
    BY <2>2, PairOfAll
  <2> QED BY <2>2, <2>3, <1>2
<1>8. CASE \E t \in DOMAIN new.visual : x \in Pairs(new.visual[t])
  <2>1. PICK t \in DOMAIN new.visual : x \in Pairs(new.visual[t])
    BY <1>8
  <2>2. t \in DOMAIN sel.visual /\ x \in Pairs(kept(sel.visual[t]))
    BY <2>1, <1>3, <1>4
  <2>3. Pairs(sel.visual[t]) \subseteq AllPairs(sel)
    BY <2>2, PairOfAll
  <2> QED BY <2>2, <2>3, <1>2
<1> QED BY <1>5, <1>6, <1>7, <1>8

\* A leaf that is valid is the same when it is canonical, and so is what it selects.
LEMMA OneItem ==
  ASSUME NEW leaf, IsList(leaf.items), Len(Items(leaf)) = 1
  PROVE  LET saved == ParamLeaf(leaf)
         IN /\ Items(saved) = Items(leaf) /\ IsList(saved.items)
            /\ ParamLeaf(saved) = saved
<1> DEFINE S == ToSet(leaf.items) \ {IllItem}
           it == Items(leaf)
           saved == ParamLeaf(leaf)
<1>1. it = Among(leaf.items, S)
  BY DEF Items
<1>2. IsList(it) /\ ToSet(it) \subseteq S
  <2> HIDE DEF S
  <2> QED BY <1>1, AmongIs
<1>3. it[1] \in ToSet(it)
  BY <1>2, ListFacts
<1> HIDE DEF it
<1>4. Len(it) = 1
  BY DEF it
<1>5. Once(it) = it
  BY <1>2, <1>4, OnceIs
<1>6. saved = Leaf("selected", it) /\ saved.items = it
  BY <1>5 DEF ParamLeaf, it, Leaf
<1> HIDE DEF saved
<1>7. it[1] \in ToSet(it) \ {IllItem}
  BY <1>2, <1>3 DEF S
<1>8. Among(it, ToSet(it) \ {IllItem}) = it
  BY <1>2, <1>4, <1>7, AmongOne
<1>9. Items(saved) = it
  BY <1>6, <1>8 DEF Items
<1>10. ParamLeaf(saved) = saved
  BY <1>5, <1>6, <1>9 DEF ParamLeaf
<1> QED BY <1>2, <1>6, <1>9, <1>10 DEF saved, it

LEMMA NoItemLeft ==
  ASSUME NEW leaf, Items(leaf) = <<>>
  PROVE  ParamLeaf(leaf) = NoItems
<1>1. IsList(<<>>) /\ ToSet(<<>>) = {}
  BY NoneIs
<1>2. IsList(Once(<<>>)) /\ ToSet(Once(<<>>)) = {}
  BY <1>1, OnceIs
<1>3. Once(<<>>) = <<>>
  <2>1. Once(<<>>) \in Seq({})
    BY <1>2 DEF IsList
  <2>2. Len(Once(<<>>)) = 0
    <3>1. Len(Once(<<>>)) \in Nat /\ \A i \in 1..Len(Once(<<>>)) : Once(<<>>)[i] \in {}
      BY <1>2, ListFacts
    <3> HIDE DEF Once
    <3> QED BY <3>1
  <2> HIDE DEF Once
  <2> QED BY <2>1, <2>2
<1> QED BY <1>3 DEF ParamLeaf, NoItems

\* What the server reads of the selections is what the model allows.
Sound ==
  /\ CalcValid(AllPairs(Loaded("calc")))
  /\ ParamValid({<<x[1], Items(x[2])>> : x \in AllPairs(Loaded("param"))})
  /\ WhatIfValid(Pairs(Loaded("whatIf").report), known)

PickedInv ==
  /\ DOMAIN selected = Kinds /\ unchecked \in BOOLEAN
  /\ \A x \in Pairs(selected["whatIf"].report) : x[2] # IllNumber
  /\ ~ unchecked => Sound

LEMMA SentAs ==
  ASSUME NEW put, ~ put.listed
  PROVE  Sent(put) = put.selections
BY DEF Sent

LEMMA CalcSaves ==
  ASSUME NEW put, ~ put.listed, CalcValid(CalcFlat(put.selections))
  PROVE  CalcValid(AllPairs(CalcLoaded(CalcSaved(put))))
<1> DEFINE sel == put.selections
           saved == Canonical(sel, CalcLeaf, IllItem)
           loaded == Canonical(saved, CalcLeaf, IllItem)
<1>1. CalcLoaded(CalcSaved(put)) = loaded
  BY SentAs DEF CalcLoaded, CalcSaved
<1>2. ASSUME NEW x \in AllPairs(loaded) PROVE x \in CalcFlat(sel)
  <2> HIDE DEF sel
  <2>1. x \in AllPairs(saved)
    <3> HIDE DEF saved
    <3> QED BY CalcCanonical
  <2>2. x \in AllPairs(sel) /\ x[2] # IllItem
    BY <2>1, CalcCanonical
  <2> QED BY <2>2 DEF CalcFlat
<1> HIDE DEF loaded, saved
<1> QED BY <1>1, <1>2 DEF CalcValid

LEMMA ParamSaves ==
  ASSUME NEW put, ~ put.listed, ParamValid(ParamFlat(put.selections)),
         \A x \in AllPairs(put.selections) : IsList(x[2].items) /\ x[2].key = "selected"
  PROVE  ParamValid({<<x[1], Items(x[2])>> : x \in AllPairs(ParamLoaded(ParamSaved(put)))})
<1> DEFINE sel == put.selections
           saved == Canonical(sel, ParamLeaf, NoItems)
           loaded == Canonical(saved, ParamLeaf, NoItems)
<1>1. ParamLoaded(ParamSaved(put)) = loaded
  BY SentAs DEF ParamLoaded, ParamSaved, NoItems
<1>2. ASSUME NEW x \in AllPairs(loaded) PROVE <<x[1], Items(x[2])>> \in ParamFlat(sel)
  <2> HIDE DEF sel
  <2>1. PICK y \in AllPairs(saved) : x = <<y[1], ParamLeaf(y[2])>>
    <3> HIDE DEF saved
    <3> QED BY ParamCanonical
  <2>2. PICK z \in AllPairs(sel) : y = <<z[1], ParamLeaf(z[2])>> /\ ParamLeaf(z[2]) # NoItems
    BY <2>1, ParamCanonical
  <2>3. IsList(z[2].items) /\ z[2].key = "selected"
    BY DEF sel
  <2>4. <<z[1], Items(z[2])>> \in ParamFlat(sel)
    <3>1. Items(z[2]) # <<>>
      BY <2>2, NoItemLeft
    <3>2. PICK p : p = <<z[1], Items(z[2])>>
      OBVIOUS
    <3>3. p[2] # <<>>
      BY <3>1, <3>2
    <3> QED BY <2>3, <3>2, <3>3 DEF ParamFlat
  <2>5. Len(Items(z[2])) = 1
    <3>1. PICK p : p = <<z[1], Items(z[2])>>
      OBVIOUS
    <3>2. p[2] = Items(z[2]) /\ p \in ParamFlat(sel)
      BY <2>4, <3>1
    <3> QED BY <3>2 DEF ParamValid, sel
  <2>6. ParamLeaf(ParamLeaf(z[2])) = ParamLeaf(z[2]) /\ Items(ParamLeaf(z[2])) = Items(z[2])
    BY <2>3, <2>5, OneItem
  <2>7. y[1] = z[1] /\ y[2] = ParamLeaf(z[2])
    BY <2>2
  <2>8. x[1] = z[1] /\ x[2] = ParamLeaf(z[2])
    BY <2>1, <2>6, <2>7
  <2> QED BY <2>4, <2>6, <2>8
<1> HIDE DEF loaded, saved
<1>3. {<<x[1], Items(x[2])>> : x \in AllPairs(loaded)} \subseteq ParamFlat(sel)
  BY <1>2
<1> QED BY <1>1, <1>3 DEF ParamValid

LEMMA NoPairs == AllPairs(NoSelections) = {} /\ Pairs(NoSelections.report) = {}
<1>1. DOMAIN NoSelections.report = {} /\ DOMAIN NoSelections.page = {} /\ DOMAIN NoSelections.visual = {}
  BY DEF NoSelections
<1> HIDE DEF NoSelections
<1> QED BY <1>1 DEF AllPairs, Pairs

LEMMA InitPicked == RequestInit => PickedInv
<1> SUFFICES ASSUME RequestInit PROVE PickedInv
  OBVIOUS
<1>1. selected = [kind \in Kinds |-> NoSelections] /\ unchecked = FALSE
  BY DEF RequestInit
<1>2. /\ selected["calc"] = NoSelections /\ selected["param"] = NoSelections
      /\ selected["whatIf"] = NoSelections
  BY <1>1 DEF Kinds
<1>3. AllPairs(Loaded("calc")) = {}
  <2>1. Loaded("calc") = Canonical(NoSelections, CalcLeaf, IllItem)
    BY <1>2 DEF Loaded, CalcLoaded
  <2> QED BY <2>1, NoPairs, CalcCanonical
<1>4. AllPairs(Loaded("param")) = {}
  <2>1. Loaded("param") = Canonical(NoSelections, ParamLeaf, NoItems)
    BY <1>2 DEF Loaded, ParamLoaded, NoItems
  <2> QED BY <2>1, NoPairs, ParamCanonical
<1>5. Pairs(Loaded("whatIf").report) = {}
  BY <1>2, NoPairs DEF Loaded, WhatIfLoaded
<1>6. Sound
  BY <1>3, <1>4, <1>5 DEF Sound, CalcValid, ParamValid, WhatIfValid
<1> QED BY <1>1, <1>2, <1>6, NoPairs DEF PickedInv

LEMMA PickedStays ==
  ASSUME PickedInv, UNCHANGED <<selected, known, unchecked>>
  PROVE  PickedInv'
BY DEF PickedInv, Sound, Loaded, CalcLoaded, ParamLoaded, WhatIfLoaded

LEMMA PutPicked ==
  ASSUME PickedInv, NEW kind \in Kinds, NEW put \in Puts[kind], PutSelections(kind, put)
  PROVE  PickedInv'
<1>1. /\ selected' = [selected EXCEPT ![kind] = Saved(kind, put)]
      /\ unchecked' = (unchecked \/ Unseen(kind, put)) /\ known' = known
      /\ Valid(kind, Flat(kind, put.selections))
      /\ kind = "whatIf" => WhatIfSaves(put)
  BY DEF PutSelections, Store
<1>2. DOMAIN selected = Kinds /\ unchecked \in BOOLEAN
  BY DEF PickedInv
<1>3. DOMAIN selected' = Kinds /\ unchecked' \in BOOLEAN
  BY <1>1, <1>2 DEF Unseen
<1>4. selected'[kind] = Saved(kind, put) /\ \A k \in Kinds \ {kind} : selected'[k] = selected[k]
  BY <1>1, <1>2
<1>5. kind \in {"calc", "param", "whatIf"} /\ {"calc", "param", "whatIf"} \subseteq Kinds
  BY DEF Kinds
<1>6. \A x \in Pairs(selected'["whatIf"].report) : x[2] # IllNumber
  <2>1. CASE kind = "whatIf"
    <3>1. selected'["whatIf"] = put.selections
      BY <1>4, <2>1 DEF Saved, WhatIfSaved
    <3>2. Pairs(put.selections.report) \subseteq AllPairs(put.selections)
      BY PairOfAll
    <3> QED BY <1>1, <2>1, <3>1, <3>2 DEF WhatIfSaves
  <2>2. CASE kind # "whatIf"
    BY <1>4, <1>5, <2>2 DEF PickedInv
  <2> QED BY <2>1, <2>2
<1>7. ASSUME ~ unchecked' PROVE Sound'
  <2>1. ~ unchecked /\ ~ Unseen(kind, put)
    BY <1>1, <1>7
  <2>2. Sound /\ ~ put.listed
    BY <2>1 DEF PickedInv, Unseen
  <2>3. CalcValid(AllPairs(CalcLoaded(selected'["calc"])))
    <3>1. CASE kind = "calc"
      <4>1. CalcValid(CalcFlat(put.selections))
        BY <1>1, <3>1 DEF Valid, Flat
      <4>2. selected'["calc"] = CalcSaved(put)
        BY <1>4, <3>1 DEF Saved
      <4> QED BY <2>2, <4>1, <4>2, CalcSaves
    <3>2. CASE kind # "calc"
      <4>1. selected'["calc"] = selected["calc"]
        BY <1>4, <1>5, <3>2
      <4>2. CalcValid(AllPairs(CalcLoaded(selected["calc"])))
        BY <2>2 DEF Sound, Loaded
      <4> QED BY <4>1, <4>2
    <3> QED BY <3>1, <3>2
  <2>4. ParamValid({<<x[1], Items(x[2])>> : x \in AllPairs(ParamLoaded(selected'["param"]))})
    <3>1. CASE kind = "param"
      <4>1. ParamValid(ParamFlat(put.selections))
        BY <1>1, <3>1 DEF Valid, Flat
      <4>2. selected'["param"] = ParamSaved(put)
        BY <1>4, <3>1 DEF Saved
      <4>3. \A x \in AllPairs(put.selections) : IsList(x[2].items) /\ x[2].key = "selected"
        BY <2>1, <3>1, RequestsAssumption DEF Unseen
      <4> QED BY <2>2, <4>1, <4>2, <4>3, ParamSaves
    <3>2. CASE kind # "param"
      <4>1. selected'["param"] = selected["param"]
        BY <1>4, <1>5, <3>2
      <4>2. ParamValid({<<x[1], Items(x[2])>> : x \in AllPairs(ParamLoaded(selected["param"]))})
        BY <2>2 DEF Sound, Loaded
      <4> QED BY <4>1, <4>2
    <3> QED BY <3>1, <3>2
  <2>5. WhatIfValid(Pairs(selected'["whatIf"].report), known)
    <3>1. CASE kind = "whatIf"
      <4>1. WhatIfValid(WhatIfFlat(put.selections), known)
        BY <1>1, <3>1 DEF Valid, Flat
      <4>2. selected'["whatIf"] = put.selections
        BY <1>4, <3>1 DEF Saved, WhatIfSaved
      <4>3. Pairs(selected'["whatIf"].report) = WhatIfFlat(put.selections)
        BY <1>6, <4>2 DEF WhatIfFlat
      <4> QED BY <4>1, <4>3
    <3>2. CASE kind # "whatIf"
      <4>1. selected'["whatIf"] = selected["whatIf"]
        BY <1>4, <1>5, <3>2
      <4>2. WhatIfValid(Pairs(selected["whatIf"].report), known)
        BY <2>2 DEF Sound, Loaded, WhatIfLoaded
      <4> QED BY <4>1, <4>2
    <3> QED BY <3>1, <3>2
  <2> QED BY <1>1, <2>3, <2>4, <2>5 DEF Sound, Loaded, WhatIfLoaded
<1> QED BY <1>3, <1>6, <1>7 DEF PickedInv

LEMMA ParametersPicked ==
  ASSUME PickedInv, NEW parameters, PutParameters(parameters)
  PROVE  PickedInv'
<1>1. /\ selected' = selected /\ known' = parameters
      /\ unchecked' = (unchecked \/ ~ WhatIfValid(WhatIfFlat(selected["whatIf"]), parameters))
  BY DEF PutParameters
<1>2. /\ DOMAIN selected = Kinds /\ unchecked \in BOOLEAN
      /\ \A x \in Pairs(selected["whatIf"].report) : x[2] # IllNumber
  BY DEF PickedInv
<1>3. unchecked' \in BOOLEAN
  BY <1>1, <1>2 DEF WhatIfValid
<1>4. ASSUME ~ unchecked' PROVE Sound'
  <2>1. Sound /\ WhatIfValid(WhatIfFlat(selected["whatIf"]), parameters)
    BY <1>1, <1>4 DEF PickedInv
  <2>2. WhatIfFlat(selected["whatIf"]) = Pairs(selected["whatIf"].report)
    BY <1>2 DEF WhatIfFlat
  <2> QED BY <1>1, <2>1, <2>2 DEF Sound, Loaded, WhatIfLoaded, CalcLoaded, ParamLoaded
<1> QED BY <1>1, <1>2, <1>3, <1>4 DEF PickedInv

LEMMA PickedStep == PickedInv /\ [RequestNext]_allVars => PickedInv'
<1> SUFFICES ASSUME PickedInv, [RequestNext]_allVars PROVE PickedInv'
  OBVIOUS
<1>1. ASSUME NEW kind \in Kinds, NEW put \in Puts[kind], PutSelections(kind, put) PROVE PickedInv'
  BY <1>1, PutPicked
<1>2. ASSUME NEW parameters, PutParameters(parameters) PROVE PickedInv'
  BY <1>2, ParametersPicked
<1>3. CASE \/ \E def \in Definitions : SaveVisual(def)
           \/ DayPasses \/ ForgetPlans
  BY <1>3, PickedStays DEF SaveVisual, DayPasses, ForgetPlans, stores
<1>4. CASE RequestStep
  <2>1. UNCHANGED <<selected, known, unchecked>>
    <3>1. ASSUME NEW p, Render(p) PROVE UNCHANGED <<selected, known, unchecked>>
      BY <3>1 DEF Render, AskOne, Answered, stores
    <3>2. ASSUME NEW p, Highlight(p) PROVE UNCHANGED <<selected, known, unchecked>>
      BY <3>2 DEF Highlight, AskTwo, Answered, stores
    <3>3. ASSUME NEW p, Batch(p) PROVE UNCHANGED <<selected, known, unchecked>>
      BY <3>3 DEF Batch, AskOne, Answered, stores
    <3>4. ASSUME NEW p, Tooltip(p) PROVE UNCHANGED <<selected, known, unchecked>>
      BY <3>4 DEF Tooltip, AskOne, Answered, stores
    <3>5. ASSUME NEW p, Export(p) PROVE UNCHANGED <<selected, known, unchecked>>
      BY <3>5 DEF Export, AskOne, Answered, stores
    <3>6. ASSUME NEW kind, GetSelections(kind) PROVE UNCHANGED <<selected, known, unchecked>>
      BY <3>6 DEF GetSelections, stores
    <3>7. ASSUME NEW p, RenderMatrix(p) PROVE UNCHANGED <<selected, known, unchecked>>
      BY <3>7 DEF RenderMatrix, stores
    <3> QED BY <1>4, <3>1, <3>2, <3>3, <3>4, <3>5, <3>6, <3>7 DEF RequestStep
  <2> QED BY <2>1, PickedStays
<1>5. CASE Receive \/ FillMatrix \/ UNCHANGED allVars
  BY <1>5, PickedStays DEF Receive, FillMatrix, requestVars, allVars, stores
<1> QED
  BY <1>1, <1>2, <1>3, <1>4, <1>5 DEF RequestNext, ChangeStep

-----------------------------------------------------------------------------
(* Fewer filters fail no request.                                             *)
LEMMA PlainGroup ==
  ASSUME NEW fs, IsList(fs), NEW scope
  PROVE  ToSet(Group(fs, scope, FALSE)) =
           {f \in ToSet(fs) : f.scope = scope /\ f.source # "slicer"}
<1> DEFINE S == {f \in ToSet(fs) : f.scope = scope /\ f.source # "slicer"}
<1>1. Group(fs, scope, FALSE) = Among(fs, S)
  <2>1. Group(fs, scope, FALSE) = Among(fs, {f \in ToSet(fs) : f.scope = scope /\ (f.source = "slicer") = FALSE})
    BY DEF Group
  <2>2. {f \in ToSet(fs) : f.scope = scope /\ (f.source = "slicer") = FALSE} = S
    OBVIOUS
  <2> QED BY <2>1, <2>2
<1>2. ToSet(fs) \cap S = S
  OBVIOUS
<1> HIDE DEF S
<1>3. ToSet(Among(fs, S)) = S
  BY <1>2, AmongIs
<1>4. ToSet(Group(fs, scope, FALSE)) = S
  BY <1>1, <1>3
<1> QED BY <1>4 DEF S

\* The filters that are applied at all.
Grouped(f) ==
  f.scope \in {"report", "page", "interaction"} \/ (f.scope = "visual" /\ f.source # "slicer")

LEMMA OrderedIs ==
  ASSUME NEW fs, IsList(fs)
  PROVE  IsList(Ordered(fs)) /\ ToSet(Ordered(fs)) = {f \in ToSet(fs) : Grouped(f)}
<1> DEFINE g1 == Group(fs, "report", FALSE)
           g2 == Group(fs, "report", TRUE)
           g3 == Group(fs, "page", FALSE)
           g4 == Group(fs, "page", TRUE)
           g5 == Group(fs, "visual", FALSE)
           g6 == Overlays(fs)
           a2 == g1 \o g2
           a3 == a2 \o g3
           a4 == a3 \o g4
           a5 == a4 \o g5
           a6 == a5 \o g6
<1>1. Ordered(fs) = a6
  BY DEF Ordered
<1>2. IsList(g1) /\ IsList(g2) /\ IsList(g3) /\ IsList(g4) /\ IsList(g5) /\ IsList(g6)
  BY GroupsAre
<1>a. ToSet(g1) = {f \in ToSet(fs) : f.scope = "report" /\ f.source # "slicer"}
  BY PlainGroup
<1>b. ToSet(g2) = {f \in ToSet(fs) : f.scope = "report" /\ f.source = "slicer"}
  BY SlicerGroup
<1>c. ToSet(g3) = {f \in ToSet(fs) : f.scope = "page" /\ f.source # "slicer"}
  BY PlainGroup
<1>d. ToSet(g4) = {f \in ToSet(fs) : f.scope = "page" /\ f.source = "slicer"}
  BY SlicerGroup
<1>e. ToSet(g5) = {f \in ToSet(fs) : f.scope = "visual" /\ f.source # "slicer"}
  BY PlainGroup
<1>f. ToSet(g6) = {f \in ToSet(fs) : f.scope = "interaction"}
  BY GroupsAre
<1> HIDE DEF g1, g2, g3, g4, g5, g6
<1>4. IsList(a2) /\ ToSet(a2) = ToSet(g1) \cup ToSet(g2)
  BY <1>2, ConcatIs
<1> HIDE DEF a2
<1>5. IsList(a3) /\ ToSet(a3) = ToSet(a2) \cup ToSet(g3)
  BY <1>2, <1>4, ConcatIs
<1> HIDE DEF a3
<1>6. IsList(a4) /\ ToSet(a4) = ToSet(a3) \cup ToSet(g4)
  BY <1>2, <1>5, ConcatIs
<1> HIDE DEF a4
<1>7. IsList(a5) /\ ToSet(a5) = ToSet(a4) \cup ToSet(g5)
  BY <1>2, <1>6, ConcatIs
<1> HIDE DEF a5
<1>8. IsList(a6) /\ ToSet(a6) = ToSet(a5) \cup ToSet(g6)
  BY <1>2, <1>7, ConcatIs
<1> HIDE DEF a6
<1>9. ToSet(a6) = {f \in ToSet(fs) : Grouped(f)}
  <2> DEFINE all == ToSet(g1) \cup ToSet(g2) \cup ToSet(g3) \cup ToSet(g4) \cup ToSet(g5) \cup ToSet(g6)
  <2>1. ToSet(a6) = all
    BY <1>4, <1>5, <1>6, <1>7, <1>8
  <2>2. \A f : f \in all <=> f \in ToSet(fs) /\ Grouped(f)
    BY <1>a, <1>b, <1>c, <1>d, <1>e, <1>f DEF Grouped
  <2> QED BY <2>1, <2>2
<1> QED BY <1>1, <1>8, <1>9

LEMMA AppliesIs ==
  ASSUME NEW fs, IsList(fs), NEW page, NEW visual
  PROVE  Applies(fs, page, visual) <=>
           \A f \in ToSet(fs) :
             /\ f.scope = "visual" /\ f.source = "slicer" => f.target # visual
             /\ Applicable(f, page, visual) /\ Grouped(f) => Compiles(f.op, f.values)
<1> DEFINE heard == Heard(fs, page, visual)
           all == Effective(fs, page, visual)
<1>1. IsList(heard) /\ ToSet(heard) = {f \in ToSet(fs) : Applicable(f, page, visual)}
  BY HeardIs
<1>2. all = Ordered(heard)
  BY DEF Effective
<1> HIDE DEF heard, all
<1>3. IsList(all) /\ ToSet(all) = {f \in ToSet(heard) : Grouped(f)}
  BY <1>1, <1>2, OrderedIs
<1>4. (\A i \in DOMAIN fs : fs[i].scope = "visual" /\ fs[i].source = "slicer" => fs[i].target # visual)
      <=> \A f \in ToSet(fs) : f.scope = "visual" /\ f.source = "slicer" => f.target # visual
  BY DEF ToSet
<1>5. (\A i \in DOMAIN all : Compiles(all[i].op, all[i].values))
      <=> \A f \in ToSet(all) : Compiles(f.op, f.values)
  BY DEF ToSet
<1>6. Applies(fs, page, visual) <=>
        /\ \A i \in DOMAIN fs : fs[i].scope = "visual" /\ fs[i].source = "slicer" => fs[i].target # visual
        /\ \A i \in DOMAIN all : Compiles(all[i].op, all[i].values)
  BY DEF Applies, all
<1>7. \A f : f \in ToSet(all) <=> f \in ToSet(fs) /\ Applicable(f, page, visual) /\ Grouped(f)
  BY <1>1, <1>3
<1> QED BY <1>4, <1>5, <1>6, <1>7

\* What applies does so with fewer filters, and with filters that are for nobody.
LEMMA AppliesLess ==
  ASSUME NEW fs, IsList(fs), NEW gs, IsList(gs), NEW page, NEW visual, Applies(gs, page, visual),
         \A f \in ToSet(fs) : f \in ToSet(gs) \/ (~ Applicable(f, page, visual) /\ f.source # "slicer")
  PROVE  Applies(fs, page, visual)
<1>1. \A f \in ToSet(gs) :
             /\ f.scope = "visual" /\ f.source = "slicer" => f.target # visual
             /\ Applicable(f, page, visual) /\ Grouped(f) => Compiles(f.op, f.values)
  BY AppliesIs
<1>2. ASSUME NEW f \in ToSet(fs)
      PROVE  /\ f.scope = "visual" /\ f.source = "slicer" => f.target # visual
             /\ Applicable(f, page, visual) /\ Grouped(f) => Compiles(f.op, f.values)
  <2>1. CASE f \in ToSet(gs)
    BY <1>1, <2>1
  <2>2. CASE ~ Applicable(f, page, visual) /\ f.source # "slicer"
    BY <2>2
  <2> QED BY <2>1, <2>2
<1> QED BY <1>2, AppliesIs

LEMMA UndrilledItems == ToSet(DrillItems(Undrilled)) = {} /\ IsList(DrillItems(Undrilled))
<1>1. DOMAIN DrillItems(Undrilled) = {}
  BY DEF DrillItems, Undrilled
<1> QED BY <1>1, UndrilledIs, DrillIs DEF ToSet

\* Without the drill.
LEMMA UndrilledApplies ==
  ASSUME NEW def, NEW fs, IsList(fs), NEW drill, IsList(drill.drilled), NEW page,
         Applies(Asked(def, fs, drill), page, VisualId)
  PROVE  Applies(Asked(def, fs, Undrilled), page, VisualId)
<1> DEFINE more == Asked(def, fs, drill)
           less == Asked(def, fs, Undrilled)
<1>1. IsList(more) /\ IsList(less)
  BY AskedIs, UndrilledIs
<1>2. CASE fs = <<>>
  <2>1. more = <<>> /\ less = <<>>
    BY <1>2, AskedIs, UndrilledIs
  <2> QED BY <2>1
<1>3. CASE fs # <<>>
  <2>1. ToSet(less) \subseteq ToSet(more)
    <3>1. ToSet(less) = ToSet(Heeded(def, fs)) \cup ToSet(DrillItems(Undrilled))
      BY <1>3, AskedIs, UndrilledIs
    <3>2. ToSet(more) = ToSet(Heeded(def, fs)) \cup ToSet(DrillItems(drill))
      BY <1>3, AskedIs
    <3> QED BY <3>1, <3>2, UndrilledItems
  <2> HIDE DEF more, less
  <2>2. Applies(more, page, VisualId)
    BY DEF more
  <2>3. Applies(less, page, VisualId)
    BY <1>1, <2>1, <2>2, AppliesLess
  <2> QED BY <2>3 DEF less
<1> QED BY <1>2, <1>3

LEMMA HoverIs ==
  ASSUME NEW p, IsList(p.drilled)
  PROVE  /\ IsList(HoverItems(p))
         /\ \A page : \A f \in ToSet(HoverItems(p)) :
              ~ Applicable(f, page, VisualId) /\ f.source # "slicer"
<1> DEFINE n == Len(p.drilled)
           hs == HoverItems(p)
<1>1. n \in Nat /\ DOMAIN p.drilled = 1..n
  BY ListFacts
<1>2. hs = [i \in 1..n |-> Item("visual", Nobody, p.drilled[i].column, "in", {p.drilled[i].value}, FALSE, "tooltip")]
  BY <1>1 DEF HoverItems
<1>3. \A i \in 1..n : hs[i].scope = "visual" /\ hs[i].target = Nobody /\ hs[i].source = "tooltip"
  BY <1>2 DEF Item
<1> HIDE DEF n, hs
<1>4. hs = [i \in 1..n |-> hs[i]]
  BY <1>2
<1>5. IsList(hs) /\ DOMAIN hs = 1..n
  BY <1>1, <1>4, FunctionIsList
<1>6. ASSUME NEW f \in ToSet(hs), NEW page PROVE ~ Applicable(f, page, VisualId) /\ f.source # "slicer"
  <2>1. f.scope = "visual" /\ f.target = Nobody /\ f.source = "tooltip"
    BY <1>3, <1>5 DEF ToSet
  <2> QED BY <2>1, RequestsAssumption DEF Applicable
<1> QED BY <1>5, <1>6 DEF hs

\* What is hovered is for nobody, so it fails nothing.
LEMMA HoverApplies ==
  ASSUME NEW def, NEW fs, IsList(fs), NEW drill, IsList(drill.drilled), NEW page,
         Applies(Asked(def, fs, drill), page, VisualId), NEW p, IsList(p.drilled)
  PROVE  Applies(Asked(def, fs \o HoverItems(p), Undrilled), page, VisualId)
<1> DEFINE hs == HoverItems(p)
           all == fs \o hs
           more == Asked(def, fs, drill)
           new == Asked(def, all, Undrilled)
<1>1. IsList(hs) /\ \A f \in ToSet(hs) : ~ Applicable(f, page, VisualId) /\ f.source # "slicer"
  BY HoverIs
<1> HIDE DEF hs
<1>2. IsList(all) /\ ToSet(all) = ToSet(fs) \cup ToSet(hs)
  BY <1>1, ConcatIs
<1> HIDE DEF all
<1>3. IsList(more) /\ IsList(new)
  BY <1>2, AskedIs, UndrilledIs
<1>4. ToSet(new) \subseteq {f \in ToSet(all) : def.affected \/ f.scope # "interaction"}
  <2>1. all = <<>> => ToSet(new) = {}
    BY <1>2, AskedIs, UndrilledIs, NoneIs
  <2>2. all # <<>> => ToSet(new) = ToSet(Heeded(def, all)) \cup ToSet(DrillItems(Undrilled))
    BY <1>2, AskedIs, UndrilledIs
  <2>3. ToSet(Heeded(def, all)) = {f \in ToSet(all) : def.affected \/ f.scope # "interaction"}
    BY <1>2, HeededIs
  <2> QED BY <2>1, <2>2, <2>3, UndrilledItems
<1>5. {f \in ToSet(fs) : def.affected \/ f.scope # "interaction"} \subseteq ToSet(more)
  <2>1. fs = <<>> => ToSet(fs) = {}
    BY NoneIs
  <2>2. fs # <<>> => ToSet(more) = ToSet(Heeded(def, fs)) \cup ToSet(DrillItems(drill))
    BY AskedIs
  <2>3. ToSet(Heeded(def, fs)) = {f \in ToSet(fs) : def.affected \/ f.scope # "interaction"}
    BY HeededIs
  <2> QED BY <2>1, <2>2, <2>3
<1>6. Applies(more, page, VisualId)
  OBVIOUS
<1> HIDE DEF more, new
<1>7. \A f \in ToSet(new) : f \in ToSet(more) \/ (~ Applicable(f, page, VisualId) /\ f.source # "slicer")
  BY <1>1, <1>2, <1>4, <1>5
<1>8. Applies(new, page, VisualId)
  BY <1>3, <1>6, <1>7, AppliesLess
<1> QED BY <1>8 DEF new, all, hs

\* What the server reads back is valid.
LEMMA ReadsBack ==
  ASSUME PickedInv, ~ unchecked, NEW kind \in Kinds
  PROVE  Valid(kind, Flat(kind, Loaded(kind)))
<1>1. Sound
  BY DEF PickedInv
<1>2. CASE kind = "calc"
  <2>1. Flat(kind, Loaded(kind)) \subseteq AllPairs(Loaded("calc"))
    BY <1>2 DEF Flat, CalcFlat
  <2> QED BY <1>1, <1>2, <2>1 DEF Valid, Sound, CalcValid
<1>3. CASE kind = "param"
  <2>1. Flat(kind, Loaded(kind)) \subseteq {<<x[1], Items(x[2])>> : x \in AllPairs(Loaded("param"))}
    BY <1>3 DEF Flat, ParamFlat
  <2> QED BY <1>1, <1>3, <2>1 DEF Valid, Sound, ParamValid
<1>4. CASE kind = "whatIf"
  <2>1. Flat(kind, Loaded(kind)) \subseteq Pairs(Loaded("whatIf").report)
    BY <1>4 DEF Flat, WhatIfFlat
  <2> QED BY <1>1, <1>4, <2>1 DEF Valid, Sound, WhatIfValid
<1> QED BY <1>2, <1>3, <1>4 DEF Kinds

\* So is what a visual uses, if its own items are.
LEMMA UsesValid ==
  ASSUME PickedInv, ~ unchecked, NEW def,
         \A kind \in {"calc", "param"} : Valid(kind, Pairs(def.own[kind])),
         NEW kind \in Kinds
  PROVE  Valid(kind, Pairs(EffectiveOf(def, kind)))
<1>1. Sound
  BY DEF PickedInv
<1>2. CASE kind = "calc"
  <2> DEFINE loaded == Loaded("calc")
  <2>1. EffectiveOf(def, kind) = Over(def.own["calc"], Narrowest(loaded, def.page, VisualId))
    BY <1>2 DEF EffectiveOf, CalcEffective
  <2> HIDE DEF loaded
  <2>2. Pairs(EffectiveOf(def, kind)) \subseteq Pairs(def.own["calc"]) \cup AllPairs(loaded)
    BY <2>1, OverPairs, NarrowestPairs
  <2>3. CalcValid(Pairs(def.own["calc"]))
    BY DEF Valid
  <2>4. CalcValid(AllPairs(loaded))
    BY <1>1 DEF Sound, loaded
  <2>5. CalcValid(Pairs(EffectiveOf(def, kind)))
    BY <2>2, <2>3, <2>4 DEF CalcValid
  <2> QED BY <1>2, <2>5 DEF Valid
<1>3. CASE kind = "param"
  <2> DEFINE loaded == Loaded("param")
             items == ParamEffective(loaded, def.page, VisualId)
             read == {<<x[1], Items(x[2])>> : x \in AllPairs(loaded)}
  <2>1. EffectiveOf(def, kind) = Over(def.own["param"], items)
    BY <1>3 DEF EffectiveOf
  <2>2. Pairs(items) \subseteq read
    <3> DEFINE narrowest == Narrowest(loaded, def.page, VisualId)
    <3>1. items = [name \in DOMAIN narrowest |-> Items(narrowest[name])]
      BY DEF ParamEffective
    <3>2. Pairs(narrowest) \subseteq AllPairs(loaded)
      BY NarrowestPairs
    <3> HIDE DEF narrowest, items, loaded
    <3>3. ASSUME NEW x \in Pairs(items) PROVE x \in read
      <4>1. PICK n \in DOMAIN items : x = <<n, items[n]>>
        BY PairIn
      <4>2. n \in DOMAIN narrowest /\ items[n] = Items(narrowest[n])
        BY <3>1, <4>1
      <4>3. PICK y : y = <<n, narrowest[n]>>
        OBVIOUS
      <4>4. y \in AllPairs(loaded) /\ y[1] = n /\ y[2] = narrowest[n]
        BY <3>2, <4>2, <4>3, PairIn
      <4> QED BY <4>1, <4>2, <4>4
    <3> QED BY <3>3
  <2>3. ParamValid(Pairs(def.own["param"]))
    BY DEF Valid
  <2>4. ParamValid(read)
    BY <1>1 DEF Sound
  <2> HIDE DEF read, items
  <2>5. Pairs(EffectiveOf(def, kind)) \subseteq Pairs(def.own["param"]) \cup read
    BY <2>1, <2>2, OverPairs
  <2>6. ParamValid(Pairs(EffectiveOf(def, kind)))
    BY <2>3, <2>4, <2>5 DEF ParamValid
  <2> QED BY <1>3, <2>6 DEF Valid
<1>4. CASE kind = "whatIf"
  BY <1>1, <1>4 DEF Valid, EffectiveOf, WhatIfEffective, Sound
<1> QED BY <1>2, <1>3, <1>4 DEF Kinds

-----------------------------------------------------------------------------
(* Failures.                                                                  *)
Because(p) ==
  \/ file.type # "chart" \/ p.inline # NoDef \/ Bad(p)
  \/ \E kind \in {"calc", "param"} : ~ Valid(kind, Pairs(file.own[kind]))
  \/ \E fs \in {RenderFilters(p), BatchFilters(p), Parsed(p.filters)} :
       ~ Applies(Asked(file, fs, DrillOf(p)), file.page, VisualId)

LEMMA FailuresAre ==
  FailsOnlyBy <=>
    (answer.kind = "failed" =>
       unchecked \/ (answer.route # "selections" /\ Because(answer.payload)))
BY DEF FailsOnlyBy, Because

LEMMA BecauseStays ==
  ASSUME UNCHANGED <<file, slicers, known, today>>, NEW p
  PROVE  Because(p)' <=> Because(p)
<1>1. /\ RenderFilters(p)' = RenderFilters(p) /\ BatchFilters(p)' = BatchFilters(p)
      /\ Bad(p)' = Bad(p)
  BY DEF RenderFilters, BatchFilters, WithSlicers, SlicersOf, Bad
<1>2. \A kind, pairs : Valid(kind, pairs)' = Valid(kind, pairs)
  BY DEF Valid
<1>3. (\E kind \in {"calc", "param"} : ~ Valid(kind, Pairs(file.own[kind])))'
      <=> \E kind \in {"calc", "param"} : ~ Valid(kind, Pairs(file.own[kind]))
  BY DEF Valid
<1>4. (\E fs \in {RenderFilters(p), BatchFilters(p), Parsed(p.filters)} :
         ~ Applies(Asked(file, fs, DrillOf(p)), file.page, VisualId))'
      <=> \E fs \in {RenderFilters(p), BatchFilters(p), Parsed(p.filters)} :
            ~ Applies(Asked(file, fs, DrillOf(p)), file.page, VisualId)
  BY <1>1
<1>5. Bad(p)' <=> Bad(p)
  BY DEF Bad, SlicersOf
<1> QED BY <1>3, <1>4, <1>5 DEF Because

LEMMA NoFailure ==
  ASSUME answer'.kind # "failed"
  PROVE  FailsOnlyBy'
BY DEF FailsOnlyBy

LEMMA FailedBy ==
  ASSUME UNCHANGED <<file, slicers, known, today, unchecked>>, NEW route, NEW p,
         answer' = Fails(route, p), route # "selections", unchecked \/ Because(p)
  PROVE  FailsOnlyBy'
<1>1. answer'.payload = p /\ answer'.route = route
  BY DEF Fails
<1>2. unchecked' \/ Because(p)'
  BY BecauseStays
<1>3. (FailsOnlyBy <=>
        (answer.kind = "failed" =>
           unchecked \/ (answer.route # "selections" /\ Because(answer.payload))))'
  BY FailuresAre, PTL
<1>4. Because(p)' => Because(answer.payload)'
  BY <1>1 DEF Because, RenderFilters, BatchFilters, WithSlicers, SlicersOf, Bad, DrillOf
<1> QED BY <1>1, <1>2, <1>3, <1>4

\* A chart whose items are valid cannot be asked only under filters that do not
\* apply.
LEMMA CannotAsk ==
  ASSUME PickedInv, NEW p, p.inline = NoDef, NEW fs, NEW drill,
         ~ Answerable(file, fs, drill),
         ~ Because(p) => Applies(Asked(file, fs, drill), file.page, VisualId)
  PROVE  unchecked \/ Because(p)
<1> SUFFICES ASSUME ~ unchecked, ~ Because(p) PROVE FALSE
  OBVIOUS
<1>1. /\ file.type = "chart"
      /\ \A kind \in {"calc", "param"} : Valid(kind, Pairs(file.own[kind]))
  BY DEF Because
<1>2. \A kind \in Kinds : Valid(kind, Pairs(EffectiveOf(file, kind)))
  BY <1>1, UsesValid
<1> QED BY <1>1, <1>2 DEF Answerable

LEMMA OneFails ==
  ASSUME PickedInv, NEW route, route # "selections", NEW p, NEW fs, NEW drill,
         p.inline = NoDef, AskOne(route, p, file, fs, drill),
         ~ Because(p) => Applies(Asked(file, fs, drill), file.page, VisualId)
  PROVE  FailsOnlyBy'
<1>1. CASE Answerable(file, fs, drill)
  BY <1>1, NoFailure DEF AskOne, Answered, Figures
<1>2. CASE ~ Answerable(file, fs, drill)
  <2>1. answer' = Fails(route, p) /\ UNCHANGED <<file, slicers, known, today, unchecked>>
    BY <1>2 DEF AskOne, Answered, stores
  <2>2. unchecked \/ Because(p)
    BY <1>2, CannotAsk
  <2> QED BY <2>1, <2>2, FailedBy
<1> QED BY <1>1, <1>2

LEMMA RenderFails ==
  ASSUME PickedInv, NEW p \in Payloads, Render(p)
  PROVE  FailsOnlyBy'
<1>1. UNCHANGED <<file, slicers, known, today, unchecked>>
  BY DEF Render, AskOne, Answered, stores
<1>2. CASE p.inline # NoDef
  <2>1. Because(p)
    BY <1>2 DEF Because
  <2>2. answer'.kind # "failed" \/ answer' = Fails("render", p)
    BY DEF Render, AskOne, Answered, Drawn, Figures
  <2> QED BY <1>1, <2>1, <2>2, NoFailure, FailedBy
<1>3. CASE p.inline = NoDef
  <2>1. CASE file = NoDef
    <3>1. Because(p)
      BY <2>1 DEF Because, NoDef
    <3> QED BY <1>1, <1>3, <2>1, <3>1, FailedBy DEF Render, Answered
  <2>2. CASE answer' = Drawn("render")
    BY <2>2, NoFailure DEF Drawn
  <2>3. CASE Bad(p) /\ answer' = Fails("render", p)
    BY <1>1, <2>3, FailedBy DEF Because
  <2>4. CASE AskOne("render", p, file, RenderFilters(p), DrillOf(p))
    <3>1. ~ Because(p) => Applies(Asked(file, RenderFilters(p), DrillOf(p)), file.page, VisualId)
      BY DEF Because
    <3> QED BY <1>3, <2>4, <3>1, OneFails
  <2> QED BY <1>3, <2>1, <2>2, <2>3, <2>4 DEF Render, Rendered, Answered
<1> QED BY <1>2, <1>3

\* A list of filters of a request that is asked for without the drill.
LEMMA AsksUndrilled ==
  ASSUME SlicersAre(slicers), NEW p \in Payloads, ~ Because(p),
         NEW fs \in {RenderFilters(p), BatchFilters(p), Parsed(p.filters)}
  PROVE  Applies(Asked(file, fs, Undrilled), file.page, VisualId)
<1>1. Applies(Asked(file, fs, DrillOf(p)), file.page, VisualId)
  BY DEF Because
<1>2. IsList(fs) /\ IsList(DrillOf(p).drilled)
  BY PayloadFacts, RequestsAssumption DEF DrillOf
<1> QED BY <1>1, <1>2, UndrilledApplies

LEMMA HighlightFails ==
  ASSUME PickedInv, SlicersAre(slicers), NEW p \in Payloads, Highlight(p)
  PROVE  FailsOnlyBy'
<1> DEFINE base == RenderFilters(p)
           both == base \o ParsedClicks(p.clicks)
           def == Rendered(p)
<1>1. CASE Answerable(def, base, Undrilled) /\ ~ Bad(p)
  <2>1. AskTwo(p, def, base, both)
    BY <1>1 DEF Highlight
  <2> HIDE DEF base, both, def
  <2>2. answer'.kind = "data"
    BY <2>1 DEF AskTwo, Answered, Figures
  <2> QED BY <2>2, NoFailure
<1>2. CASE ~ (Answerable(def, base, Undrilled) /\ ~ Bad(p))
  <2>1. answer' = Fails("highlight", p) /\ UNCHANGED <<file, slicers, known, today, unchecked>>
    BY <1>2 DEF Highlight, Answered, stores
  <2>2. unchecked \/ Because(p)
    <3>1. CASE Bad(p) \/ p.inline # NoDef
      BY <3>1 DEF Because
    <3>2. CASE ~ Bad(p) /\ p.inline = NoDef
      <4>1. ~ Answerable(file, base, Undrilled)
        BY <1>2, <3>2 DEF Rendered
      <4>2. ~ Because(p) => Applies(Asked(file, base, Undrilled), file.page, VisualId)
        BY AsksUndrilled
      <4> QED BY <3>2, <4>1, <4>2, CannotAsk
    <3> QED BY <3>1, <3>2
  <2> QED BY <2>1, <2>2, FailedBy
<1> QED BY <1>1, <1>2

LEMMA BatchFails ==
  ASSUME PickedInv, SlicersAre(slicers), NEW p \in Payloads, Batch(p)
  PROVE  FailsOnlyBy'
<1>1. UNCHANGED <<file, slicers, known, today, unchecked>> /\ p.inline = NoDef
  BY DEF Batch, AskOne, Answered, stores
<1>2. CASE Bad(p) /\ answer' = Fails("batch", p)
  BY <1>1, <1>2, FailedBy DEF Because
<1>3. CASE answer' = Drawn("batch")
  BY <1>3, NoFailure DEF Drawn
<1>4. CASE AskOne("batch", p, file, BatchFilters(p), Undrilled)
  <2>1. ~ Because(p) => Applies(Asked(file, BatchFilters(p), Undrilled), file.page, VisualId)
    BY AsksUndrilled
  <2> QED BY <1>1, <1>4, <2>1, OneFails
<1> QED BY <1>2, <1>3, <1>4 DEF Batch, Answered

LEMMA TooltipFails ==
  ASSUME PickedInv, SlicersAre(slicers), NEW p \in Payloads, Tooltip(p)
  PROVE  FailsOnlyBy'
<1> DEFINE fs == Parsed(p.filters)
           asks == (IF WellFormed(p.filters) THEN Parsed(p.filters) ELSE <<>>) \o HoverItems(p)
<1>1. AskOne("tooltip", p, file, asks, Undrilled) /\ p.inline = NoDef
  BY DEF Tooltip
<1>2. ~ Because(p) => Applies(Asked(file, asks, Undrilled), file.page, VisualId)
  <2> SUFFICES ASSUME ~ Because(p) PROVE Applies(Asked(file, asks, Undrilled), file.page, VisualId)
    OBVIOUS
  <2>1. Applies(Asked(file, fs, DrillOf(p)), file.page, VisualId) /\ WellFormed(p.filters)
    BY DEF Because, Bad
  <2>2. IsList(fs) /\ IsList(DrillOf(p).drilled) /\ IsList(p.drilled)
    BY PayloadFacts, RequestsAssumption DEF DrillOf
  <2>3. asks = fs \o HoverItems(p)
    BY <2>1
  <2> HIDE DEF fs, asks
  <2>4. Applies(Asked(file, fs \o HoverItems(p), Undrilled), file.page, VisualId)
    BY <2>1, <2>2, HoverApplies
  <2> QED BY <2>3, <2>4
<1> HIDE DEF asks
<1> QED BY <1>1, <1>2, OneFails

LEMMA ExportFails ==
  ASSUME PickedInv, NEW p \in Payloads, Export(p)
  PROVE  FailsOnlyBy'
<1>1. Asked(file, <<>>, Undrilled) = <<>>
  BY DEF Asked
<1>2. Applies(<<>>, file.page, VisualId)
  BY NoneIs, AppliesIs
<1> QED BY <1>1, <1>2, OneFails DEF Export

LEMMA FailsStep ==
  PickedInv /\ AnswersInv /\ FailsOnlyBy /\ [RequestNext]_allVars => FailsOnlyBy'
<1> SUFFICES ASSUME PickedInv, AnswersInv, FailsOnlyBy, [RequestNext]_allVars PROVE FailsOnlyBy'
  OBVIOUS
<1>0. SlicersAre(slicers)
  BY DEF AnswersInv
<1>1. CASE ChangeStep \/ Receive
  <2>1. answer' = NoAnswer
    BY <1>1 DEF ChangeStep, Receive, PutSelections, PutParameters, SaveVisual, DayPasses,
                ForgetPlans, Changed, Idle
  <2> QED BY <2>1, NoFailure DEF NoAnswer
<1>2. ASSUME NEW p \in Payloads, Render(p) \/ Highlight(p) \/ Batch(p) \/ Tooltip(p) \/ Export(p)
      PROVE  FailsOnlyBy'
  BY <1>0, <1>2, RenderFails, HighlightFails, BatchFails, TooltipFails, ExportFails
<1>3. ASSUME NEW kind \in Kinds, GetSelections(kind) PROVE FailsOnlyBy'
  <2>1. CASE Valid(kind, Flat(kind, Loaded(kind)))
    BY <1>3, <2>1, NoFailure DEF GetSelections
  <2>2. CASE ~ Valid(kind, Flat(kind, Loaded(kind)))
    <3>1. unchecked /\ unchecked' = unchecked
      BY <1>3, <2>2, ReadsBack DEF GetSelections
    <3> QED BY <3>1 DEF FailsOnlyBy
  <2> QED BY <2>1, <2>2
<1>4. ASSUME NEW p, RenderMatrix(p) PROVE FailsOnlyBy'
  <2>1. answer'.kind = "matrix"
    BY <1>4 DEF RenderMatrix
  <2> QED BY <2>1, NoFailure
<1>5. CASE FillMatrix \/ UNCHANGED allVars
  <2>1. UNCHANGED <<file, slicers, known, today, unchecked, answer>>
    BY <1>5 DEF FillMatrix, requestVars, allVars
  <2>2. answer.kind = "failed" =>
          unchecked \/ (answer.route # "selections" /\ Because(answer.payload))
    BY FailuresAre
  <2>3. Because(answer.payload) => Because(answer.payload)'
    <3>1. \A p : Because(p)' <=> Because(p)
      BY <2>1, BecauseStays
    <3>2. PICK p : p = answer.payload
      OBVIOUS
    <3>3. Because(p)' => Because(answer.payload)'
      BY <2>1, <3>2 DEF Because, RenderFilters, BatchFilters, WithSlicers, SlicersOf, Bad, DrillOf
    <3> QED BY <3>1, <3>2, <3>3
  <2>4. (FailsOnlyBy <=>
        (answer.kind = "failed" =>
           unchecked \/ (answer.route # "selections" /\ Because(answer.payload))))'
    BY FailuresAre, PTL
  <2> QED BY <2>1, <2>2, <2>3, <2>4
<1> QED BY <1>1, <1>2, <1>3, <1>4, <1>5 DEF RequestNext, RequestStep

LEMMA InitFails == RequestInit => FailsOnlyBy
BY DEF RequestInit, FailsOnlyBy, NoAnswer

LEMMA RequestInvariant == RequestSpec => [](PlansInv /\ AnswersInv /\ PickedInv /\ FailsOnlyBy)
<1>1. RequestInit => PlansInv /\ AnswersInv /\ PickedInv /\ FailsOnlyBy
  BY InitPlans, InitAnswers, InitPicked, InitFails
<1>2. PlansInv /\ AnswersInv /\ PickedInv /\ FailsOnlyBy /\ [RequestNext]_allVars
      => (PlansInv /\ AnswersInv /\ PickedInv /\ FailsOnlyBy)'
  BY PlansStep, AnswersStep, PickedStep, FailsStep
<1> QED BY <1>1, <1>2, PTL DEF RequestSpec

(* In every answer that has slicers, what each of them selects for the page holds: the
   order of the filters and the cache of plans lose no slicer but to a filter that
   takes its place.                                                            *)
THEOREM SlicersLast == RequestSpec => []SlicersHold
<1>1. PlansInv /\ AnswersInv => SlicersHold
  BY PlansImply, SlicersImply
<1> QED BY <1>1, RequestInvariant, PTL

(* A batch asks for a visual what its render and its highlight ask for: the three
   routes gather filters on their own, and only a default of a slicer that looks at
   filters of the visual sets them apart.                                      *)
THEOREM RoutesAlwaysAgree == RequestSpec => []RoutesAgree
<1>1. PlansInv /\ AnswersInv => RoutesAgree
  BY PlansImply, RoutesImply
<1> QED BY <1>1, RequestInvariant, PTL

(* Selections that were validated when they were stored fail no request, and are read
   back: neither the canonical form nor the scopes they are merged from bring in what
   the model does not allow.                                                   *)
THEOREM FailuresHaveCauses == RequestSpec => []FailsOnlyBy
BY RequestInvariant, PTL

-----------------------------------------------------------------------------
(* Relative dates.  The months of the calendar follow each other (NextMonth), so a date
   that was after another is not before it when both are put the same number of
   months on (MonthsKeepOrder), although the day may be another.  The units of each
   kind are numbered: a range of whole units begins and ends at numbers that are as
   far from that of today's unit whatever today is (WholeUnits).                 *)
LEMMA YearLength ==
  ASSUME NEW y \in Nat
  PROVE  /\ DaysBeforeYear(y) \in Int
         /\ DaysBeforeYear(y + 1) = DaysBeforeYear(y) + (IF IsLeap(y) THEN 366 ELSE 365)
<1>1. y \div 4 = (y - 1) \div 4 + (IF y % 4 = 0 THEN 1 ELSE 0)
  OBVIOUS
<1>2. y \div 100 = (y - 1) \div 100 + (IF y % 100 = 0 THEN 1 ELSE 0)
  OBVIOUS
<1>3. y \div 400 = (y - 1) \div 400 + (IF y % 400 = 0 THEN 1 ELSE 0)
  OBVIOUS
<1>4. (y % 400 = 0 => y % 100 = 0) /\ (y % 100 = 0 => y % 4 = 0)
  OBVIOUS
<1>5. /\ y \div 4 \in Int /\ y \div 100 \in Int /\ y \div 400 \in Int
      /\ (y - 1) \div 4 \in Int /\ (y - 1) \div 100 \in Int /\ (y - 1) \div 400 \in Int
  OBVIOUS
<1>6. y + 1 - 1 = y
  OBVIOUS
<1> QED BY <1>1, <1>2, <1>3, <1>4, <1>5, <1>6 DEF DaysBeforeYear, IsLeap

LEMMA NextMonth ==
  ASSUME NEW m \in Nat
  PROVE  /\ StartOfMonth(m) \in Int /\ DaysIn(m) \in 28..31
         /\ StartOfMonth(m + 1) = StartOfMonth(m) + DaysIn(m)
<1> DEFINE r == m % 12
           year == FirstYear + m \div 12
           leap == IF IsLeap(year) THEN 1 ELSE 0
           before == DaysBeforeYear(year) - DaysBeforeYear(FirstYear)
<1>1. /\ r \in 0..11 /\ m \div 12 \in Nat /\ FirstYear \in Nat /\ year \in Nat
      /\ m = 12 * (m \div 12) + r
  BY CalendarAssumption
<1>2. before \in Int /\ leap \in 0..1
  BY <1>1, YearLength
<1>3. StartOfMonth(m) = before + DaysBeforeMonth[r + 1] + (IF r > 1 THEN leap ELSE 0)
  BY <1>1 DEF StartOfMonth
<1>4. DaysIn(m) = IF r = 1 THEN 28 + leap ELSE IF r \in {3, 5, 8, 10} THEN 30 ELSE 31
  BY <1>1 DEF DaysIn
<1> HIDE DEF r, leap, before
<1>5. CASE r = 11
  <2>1. (m + 1) \div 12 = m \div 12 + 1 /\ (m + 1) % 12 = 0
    BY <1>1, <1>5 DEF r
  <2>2. FirstYear + (m + 1) \div 12 = year + 1
    BY <1>1, <2>1
  <2>3. StartOfMonth(m + 1) = DaysBeforeYear(year + 1) - DaysBeforeYear(FirstYear) + DaysBeforeMonth[1] + 0
    BY <2>1, <2>2 DEF StartOfMonth
  <2>4. DaysBeforeYear(year + 1) - DaysBeforeYear(FirstYear) = before + 365 + leap
    BY <1>1, YearLength DEF before, leap
  <2>5. DaysBeforeMonth[1] = 0 /\ DaysBeforeMonth[12] = 334
    BY DEF DaysBeforeMonth
  <2> QED BY <1>2, <1>3, <1>4, <1>5, <2>3, <2>4, <2>5
<1>6. CASE r < 11
  <2>1. (m + 1) \div 12 = m \div 12 /\ (m + 1) % 12 = r + 1
    BY <1>1, <1>6 DEF r
  <2>2. StartOfMonth(m + 1) = before + DaysBeforeMonth[r + 2] + (IF r + 1 > 1 THEN leap ELSE 0)
    BY <1>1, <2>1 DEF StartOfMonth, leap, before
  <2>3. r \in 0..10
    BY <1>1, <1>6
  <2>4. DaysBeforeMonth[r + 1] \in Int /\ DaysBeforeMonth[r + 2] - DaysBeforeMonth[r + 1]
           = IF r = 1 THEN 28 ELSE IF r \in {3, 5, 8, 10} THEN 30 ELSE 31
    BY <2>3 DEF DaysBeforeMonth
  <2>5. DaysBeforeMonth[r + 2] \in Int
    BY <2>3 DEF DaysBeforeMonth
  <2> HIDE DEF DaysBeforeMonth
  <2> QED BY <1>2, <1>3, <1>4, <2>2, <2>3, <2>4, <2>5
<1> QED BY <1>1, <1>5, <1>6

LEMMA LaterMonths ==
  ASSUME NEW m \in Nat, NEW n \in Nat, m <= n
  PROVE  StartOfMonth(m) + 28 * (n - m) <= StartOfMonth(n)
<1> DEFINE S == {k \in Nat : StartOfMonth(m) + 28 * k <= StartOfMonth(m + k)}
<1>1. 0 \in S
  BY NextMonth
<1>2. ASSUME NEW k \in 1..(n - m), k - 1 \in S PROVE k \in S
  <2>1. m + (k - 1) \in Nat /\ m + (k - 1) + 1 = m + k /\ m + k \in Nat
    OBVIOUS
  <2>2. StartOfMonth(m + k) = StartOfMonth(m + (k - 1)) + DaysIn(m + (k - 1))
    BY <2>1, NextMonth
  <2>3. /\ DaysIn(m + (k - 1)) \in 28..31 /\ StartOfMonth(m + (k - 1)) \in Int
        /\ StartOfMonth(m) \in Int
    BY <2>1, NextMonth
  <2> QED BY <1>2, <2>2, <2>3
<1>3. n - m \in Nat
  OBVIOUS
<1> HIDE DEF S
<1>4. n - m \in S
  BY <1>1, <1>2, <1>3, UpTo
<1> QED BY <1>4 DEF S

\* The days that the calendar has, and the month that each is in.
Dates == 0 .. (StartOfMonth(12 * Years) - 1)
InMonth(d, m) == StartOfMonth(m) <= d /\ d < StartOfMonth(m + 1)

LEMMA Calendars ==
  /\ 12 * Years \in Nat /\ StartOfMonth(0) = 0
  /\ \A m \in Nat : StartOfMonth(m) \in Nat
<1>1. 12 * Years \in Nat
  BY CalendarAssumption
<1>2. StartOfMonth(0) = 0
  <2>1. 0 \div 12 = 0 /\ 0 % 12 = 0 /\ FirstYear + 0 = FirstYear /\ DaysBeforeMonth[0 + 1] = 0
    BY CalendarAssumption DEF DaysBeforeMonth
  <2>2. DaysBeforeYear(FirstYear) \in Int
    BY CalendarAssumption, YearLength
  <2> QED BY <2>1, <2>2 DEF StartOfMonth
<1>3. ASSUME NEW m \in Nat PROVE StartOfMonth(m) \in Nat
  <2>1. StartOfMonth(0) + 28 * (m - 0) <= StartOfMonth(m) /\ StartOfMonth(m) \in Int
    BY LaterMonths, NextMonth
  <2> QED BY <1>2, <2>1
<1> QED BY <1>1, <1>2, <1>3

LEMMA MonthIs ==
  ASSUME NEW d \in Int, NEW m \in 0..(12 * Years), InMonth(d, m)
  PROVE  MonthOf(d) = m
<1>1. {k \in DOMAIN Starts : Starts[k] <= d} = 1..m
  <2>1. ASSUME NEW k \in 1..(12 * Years) PROVE StartOfMonth(k) <= d <=> k <= m
    <3>1. /\ k \in Nat /\ m \in Nat /\ m + 1 \in Nat
          /\ StartOfMonth(k) \in Int /\ StartOfMonth(m) \in Int /\ StartOfMonth(m + 1) \in Int
      BY Calendars
    <3>2. CASE k <= m
      BY <3>1, <3>2, LaterMonths DEF InMonth
    <3>3. CASE m + 1 <= k
      <4>1. StartOfMonth(m + 1) + 28 * (k - (m + 1)) <= StartOfMonth(k)
        BY <3>1, <3>3, LaterMonths
      <4> QED BY <3>1, <3>3, <4>1 DEF InMonth
    <3> QED BY <3>1, <3>2, <3>3
  <2>2. /\ DOMAIN Starts = 1..(12 * Years)
        /\ \A k \in 1..(12 * Years) : Starts[k] = StartOfMonth(k)
    BY DEF Starts
  <2>3. \A k \in 1..m : k \in 1..(12 * Years)
    BY Calendars
  <2> QED BY <2>1, <2>2, <2>3
<1>2. m \in Nat /\ Cardinality(1..m) = m
  BY FS_Interval, Calendars
<1> QED BY <1>1, <1>2 DEF MonthOf

LEMMA EachDayHasAMonth ==
  ASSUME NEW d \in Dates
  PROVE  /\ MonthOf(d) \in 0..(12 * Years - 1) /\ InMonth(d, MonthOf(d))
         /\ DayInMonth(d) = d - StartOfMonth(MonthOf(d)) /\ DayInMonth(d) \in Nat
<1>1. d \in Nat /\ d < StartOfMonth(12 * Years) /\ 12 * Years \in Nat
  BY Calendars DEF Dates
<1> DEFINE S == {m \in Nat : StartOfMonth(m) <= d}
<1>2. \E m \in 0..(12 * Years - 1) : InMonth(d, m)
  <2> SUFFICES ASSUME \A m \in 0..(12 * Years - 1) : ~ InMonth(d, m) PROVE FALSE
    OBVIOUS
  <2>1. 0 \in S
    BY <1>1, Calendars
  <2>2. ASSUME NEW m \in 1..(12 * Years), m - 1 \in S PROVE m \in S
    <3>1. m - 1 \in 0..(12 * Years - 1) /\ m - 1 + 1 = m /\ m \in Nat
      BY <1>1
    <3>2. StartOfMonth(m) <= d
      BY <1>1, <2>2, <3>1, Calendars DEF InMonth
    <3> QED BY <3>1, <3>2
  <2> HIDE DEF S
  <2>3. 12 * Years \in S
    BY <1>1, <2>1, <2>2, UpTo
  <2> QED BY <1>1, <2>3, Calendars DEF S
<1>3. PICK m \in 0..(12 * Years - 1) : InMonth(d, m)
  BY <1>2
<1>4. MonthOf(d) = m
  BY <1>1, <1>3, MonthIs
<1>5. StartOfMonth(m) \in Nat /\ StartOfMonth(m) <= d
  BY <1>1, <1>3, Calendars DEF InMonth
<1> QED BY <1>1, <1>3, <1>4, <1>5 DEF DayInMonth

\* n months on, a date is in the month it is to be in, and never before one that it
\* was after.
LEMMA MonthsOn ==
  ASSUME NEW d \in Dates, NEW n \in Int, MonthOf(d) + n >= 0
  PROVE  /\ AddMonths(d, n) \in Nat /\ InMonth(AddMonths(d, n), MonthOf(d) + n)
         /\ d = StartOfMonth(MonthOf(d)) => AddMonths(d, n) = StartOfMonth(MonthOf(d) + n)
<1> DEFINE m == MonthOf(d) + n
<1>1. m \in Nat /\ DayInMonth(d) \in Nat
  BY EachDayHasAMonth
<1>2. /\ StartOfMonth(m) \in Nat /\ DaysIn(m) \in 28..31
      /\ StartOfMonth(m + 1) = StartOfMonth(m) + DaysIn(m)
  BY <1>1, NextMonth, Calendars
<1>3. d = StartOfMonth(MonthOf(d)) => DayInMonth(d) = 0
  BY EachDayHasAMonth, Calendars DEF Dates
<1>4. AddMonths(d, n) = StartOfMonth(m) + Least(DayInMonth(d), DaysIn(m) - 1)
  BY DEF AddMonths
<1> HIDE DEF m
<1>5. AddMonths(d, n) \in Nat /\ InMonth(AddMonths(d, n), m)
  BY <1>1, <1>2, <1>4 DEF InMonth, Least
<1>6. d = StartOfMonth(MonthOf(d)) => AddMonths(d, n) = StartOfMonth(m)
  BY <1>1, <1>2, <1>3, <1>4 DEF Least
<1> QED BY <1>5, <1>6 DEF m

LEMMA MonthsKeepOrder ==
  ASSUME NEW d \in Dates, NEW e \in Dates, d <= e, NEW n \in Int, MonthOf(d) + n >= 0
  PROVE  MonthOf(d) <= MonthOf(e) /\ AddMonths(d, n) <= AddMonths(e, n)
<1> DEFINE m == MonthOf(d)
           k == MonthOf(e)
<1>1. /\ m \in Nat /\ k \in Nat /\ InMonth(d, m) /\ InMonth(e, k)
      /\ DayInMonth(d) = d - StartOfMonth(m) /\ DayInMonth(e) = e - StartOfMonth(k)
  BY EachDayHasAMonth, Calendars
<1>2. \A i \in Nat : /\ StartOfMonth(i) \in Nat /\ DaysIn(i) \in 28..31
                     /\ StartOfMonth(i + 1) = StartOfMonth(i) + DaysIn(i)
  BY NextMonth, Calendars
<1>3. d \in Int /\ e \in Int
  BY Calendars DEF Dates
<1> HIDE DEF m, k
<1>4. m <= k
  <2> SUFFICES ASSUME k + 1 <= m PROVE FALSE
    BY <1>1
  <2>1. StartOfMonth(k + 1) + 28 * (m - (k + 1)) <= StartOfMonth(m)
    BY <1>1, LaterMonths
  <2> QED BY <1>1, <1>2, <1>3, <2>1 DEF InMonth
<1>5. AddMonths(d, n) <= AddMonths(e, n)
  <2>1. m + n \in Nat /\ k + n \in Nat
    BY <1>1, <1>4 DEF m
  <2>2. CASE m = k
    <3>1. DayInMonth(d) <= DayInMonth(e) /\ DayInMonth(d) \in Nat /\ DayInMonth(e) \in Nat
      BY <1>1, <1>2, <1>3, <2>2 DEF InMonth
    <3>2. /\ AddMonths(d, n) = StartOfMonth(m + n) + Least(DayInMonth(d), DaysIn(m + n) - 1)
          /\ AddMonths(e, n) = StartOfMonth(m + n) + Least(DayInMonth(e), DaysIn(m + n) - 1)
      BY <2>2 DEF AddMonths, m, k
    <3> QED BY <1>2, <2>1, <3>1, <3>2 DEF Least
  <2>3. CASE m + 1 <= k
    <3>1. /\ AddMonths(d, n) \in Nat /\ InMonth(AddMonths(d, n), m + n)
          /\ AddMonths(e, n) \in Nat /\ InMonth(AddMonths(e, n), k + n)
      BY <1>4, <2>1, MonthsOn DEF m, k
    <3> DEFINE i == m + n + 1
               j == k + n
    <3>2. /\ i \in Nat /\ j \in Nat /\ i <= j
          /\ AddMonths(d, n) < StartOfMonth(i) /\ StartOfMonth(j) <= AddMonths(e, n)
      BY <1>1, <2>1, <2>3, <3>1 DEF InMonth
    <3>3. StartOfMonth(i) \in Int /\ StartOfMonth(j) \in Int
      BY <1>2, <3>2
    <3> HIDE DEF i, j
    <3>4. StartOfMonth(i) + 28 * (j - i) <= StartOfMonth(j)
      BY <3>2, LaterMonths
    <3> QED BY <3>1, <3>2, <3>3, <3>4
  <2> QED BY <1>1, <1>4, <2>2, <2>3
<1> QED BY <1>4, <1>5 DEF m, k

\* The units of the calendar have numbers, and each begins on a day.
MonthUnits == {"month", "quarter", "year"}
NumberOf(d, unit) ==
  IF unit = "day" THEN d
  ELSE IF unit = "week" THEN (d + FirstWeekday) \div 7
  ELSE MonthOf(d) \div MonthsPer[unit]
FirstDay(unit, j) ==
  IF unit = "day" THEN j
  ELSE IF unit = "week" THEN 7 * j - FirstWeekday
  ELSE StartOfMonth(MonthsPer[unit] * j)
InCalendar(unit, j) ==
  j \in Int /\ (unit \in MonthUnits => 0 <= j /\ MonthsPer[unit] * j < 12 * Years)
Reached(unit, j) == j \in Int /\ (unit \in MonthUnits => 0 <= j)

LEMMA UnitLengths ==
  /\ MonthsPer["month"] = 1 /\ MonthsPer["quarter"] = 3 /\ MonthsPer["year"] = 12
  /\ DaysPer["day"] = 1 /\ DaysPer["week"] = 7
  /\ DOMAIN DaysPer = {"day", "week"}
  /\ DateUnits = {"day", "week"} \cup MonthUnits
BY DEF MonthsPer, DaysPer, DateUnits, MonthUnits

LEMMA FirstDays ==
  ASSUME NEW unit \in DateUnits, NEW j, Reached(unit, j)
  PROVE  /\ FirstDay(unit, j) \in Int
         /\ \A k : Reached(unit, k) /\ j <= k => FirstDay(unit, j) <= FirstDay(unit, k)
<1>1. CASE unit \in MonthUnits
  <2>1. PICK w \in {1, 3, 12} : w = MonthsPer[unit]
    BY <1>1, UnitLengths DEF MonthUnits
  <2>2. \A k : Reached(unit, k) => w * k \in Nat /\ FirstDay(unit, k) = StartOfMonth(w * k)
    BY <1>1, <2>1 DEF Reached, FirstDay, MonthUnits
  <2>3. ASSUME NEW k, Reached(unit, k), j <= k PROVE FirstDay(unit, j) <= FirstDay(unit, k)
    <3>1. w * j \in Nat /\ w * k \in Nat /\ w * j <= w * k
      BY <2>1, <2>2, <2>3 DEF Reached
    <3>2. StartOfMonth(w * j) + 28 * (w * k - w * j) <= StartOfMonth(w * k)
      BY <3>1, LaterMonths
    <3>3. StartOfMonth(w * j) \in Int /\ StartOfMonth(w * k) \in Int /\ 28 * (w * k - w * j) \in Nat
      BY <3>1, Calendars
    <3> HIDE DEF FirstDay
    <3>4. StartOfMonth(w * j) <= StartOfMonth(w * k)
      BY <3>2, <3>3
    <3> QED BY <2>2, <2>3, <3>4
  <2> QED BY <2>2, <2>3, Calendars
<1>2. CASE unit = "day"
  BY <1>2 DEF FirstDay, Reached
<1>3. CASE unit = "week"
  BY <1>3, CalendarAssumption DEF FirstDay, Reached
<1> QED BY <1>1, <1>2, <1>3, UnitLengths

LEMMA UnitOfADay ==
  ASSUME NEW unit \in DateUnits, NEW d \in Dates
  PROVE  /\ InCalendar(unit, NumberOf(d, unit))
         /\ StartOfUnit(d, unit) = FirstDay(unit, NumberOf(d, unit))
         /\ \A e \in Dates : d <= e => NumberOf(d, unit) <= NumberOf(e, unit)
<1>0. d \in Int
  BY Calendars DEF Dates
<1>1. CASE unit \in MonthUnits
  <2>1. PICK w \in {1, 3, 12} : w = MonthsPer[unit]
    BY <1>1, UnitLengths DEF MonthUnits
  <2>2. MonthOf(d) \in 0..(12 * Years - 1) /\ 12 * Years \in Nat
    BY EachDayHasAMonth, Calendars
  <2>3. unit # "day" /\ unit # "week"
    BY <1>1 DEF MonthUnits
  <2>4. w * (MonthOf(d) \div w) = MonthOf(d) - (MonthOf(d) % w) /\ MonthOf(d) \div w \in Nat
    BY <2>2, <2>1
  <2>5. InCalendar(unit, NumberOf(d, unit))
    BY <2>1, <2>2, <2>3, <2>4 DEF InCalendar, NumberOf
  <2>6. StartOfUnit(d, unit) = FirstDay(unit, NumberOf(d, unit))
    BY <2>1, <2>3, <2>4 DEF StartOfUnit, FirstDay, NumberOf
  <2>7. ASSUME NEW e \in Dates, d <= e PROVE NumberOf(d, unit) <= NumberOf(e, unit)
    <3>1. MonthOf(d) <= MonthOf(e) /\ MonthOf(e) \in Nat
      <4>1. MonthOf(d) + 0 >= 0
        BY <2>2
      <4> QED BY <2>7, <4>1, MonthsKeepOrder, EachDayHasAMonth, Calendars
    <3>2. MonthOf(d) \div w <= MonthOf(e) \div w
      BY <2>1, <2>2, <3>1
    <3> QED BY <2>1, <2>3, <3>2 DEF NumberOf
  <2> QED BY <2>5, <2>6, <2>7
<1>2. CASE unit = "day"
  BY <1>0, <1>2 DEF FirstDay, InCalendar, MonthUnits, NumberOf, StartOfUnit
<1>3. CASE unit = "week"
  <2>1. FirstWeekday \in 0..6
    BY CalendarAssumption
  <2>2. \A e \in Dates : e \in Int
    BY Calendars DEF Dates
  <2>3. \A e \in Int : /\ (e + FirstWeekday) \div 7 \in Int
                       /\ d <= e => (d + FirstWeekday) \div 7 <= (e + FirstWeekday) \div 7
    BY <1>0, <2>1
  <2>4. 7 * ((d + FirstWeekday) \div 7) - FirstWeekday = d - ((d + FirstWeekday) % 7)
    BY <1>0, <2>1
  <2> QED BY <1>0, <1>3, <2>2, <2>3, <2>4 DEF FirstDay, InCalendar, MonthUnits, NumberOf, StartOfUnit
<1> QED BY <1>1, <1>2, <1>3, UnitLengths

LEMMA UnitsOn ==
  ASSUME NEW unit \in DateUnits, NEW j, InCalendar(unit, j)
  PROVE  /\ StartOfUnit(FirstDay(unit, j), unit) = FirstDay(unit, j)
         /\ EndOfUnit(FirstDay(unit, j), unit) = FirstDay(unit, j + 1) - 1
         /\ \A n \in Int : Reached(unit, j + n) =>
              AddUnits(FirstDay(unit, j), unit, n) = FirstDay(unit, j + n)
<1>1. /\ StartOfUnit(FirstDay(unit, j), unit) = FirstDay(unit, j)
      /\ \A n \in Int : Reached(unit, j + n) =>
           AddUnits(FirstDay(unit, j), unit, n) = FirstDay(unit, j + n)
  <2>1. CASE unit \in MonthUnits
    <3>1. PICK w \in {1, 3, 12} : w = MonthsPer[unit]
      BY <2>1, UnitLengths DEF MonthUnits
    <3>2. unit \notin {"day", "week"} /\ j \in Nat /\ w * j \in 0..(12 * Years - 1)
      BY <2>1, <3>1, Calendars DEF MonthUnits, InCalendar
    <3> DEFINE d == StartOfMonth(w * j)
    <3>3. FirstDay(unit, j) = d
      BY <3>1, <3>2 DEF FirstDay
    <3>4. d \in Dates /\ MonthOf(d) = w * j
      <4>1. /\ w * j \in Nat /\ w * j + 1 \in Nat /\ 12 * Years \in Nat
            /\ w * j <= 12 * Years /\ w * j + 1 <= 12 * Years
        BY <3>2, Calendars
      <4>2. d \in Nat /\ StartOfMonth(w * j + 1) \in Nat /\ StartOfMonth(12 * Years) \in Nat
        BY <4>1, Calendars
      <4>3. d < StartOfMonth(w * j + 1)
        BY <4>1, <4>2, NextMonth
      <4>4. StartOfMonth(w * j + 1) <= StartOfMonth(12 * Years)
        <5>1. StartOfMonth(w * j + 1) + 28 * (12 * Years - (w * j + 1)) <= StartOfMonth(12 * Years)
          BY <4>1, LaterMonths
        <5>2. 28 * (12 * Years - (w * j + 1)) \in Nat
          BY <4>1
        <5> HIDE DEF d
        <5> QED BY <4>2, <5>1, <5>2
      <4>5. InMonth(d, w * j) /\ w * j \in 0..(12 * Years)
        BY <4>1, <4>2, <4>3 DEF InMonth
      <4> HIDE DEF d
      <4> QED BY <4>2, <4>3, <4>4, <4>5, MonthIs DEF Dates
    <3>5. (w * j) % w = 0
      BY <3>1, <3>2
    <3>6. StartOfUnit(d, unit) = d
      BY <3>1, <3>2, <3>4, <3>5 DEF StartOfUnit
    <3>7. ASSUME NEW n \in Int, Reached(unit, j + n)
          PROVE  AddUnits(d, unit, n) = FirstDay(unit, j + n)
      <4>1. AddUnits(d, unit, n) = AddMonths(d, n * w)
        BY <3>1, <3>2, UnitLengths DEF AddUnits
      <4>2. n * w \in Int /\ w * j + n * w = w * (j + n) /\ w * (j + n) >= 0
        BY <2>1, <3>1, <3>2, <3>7 DEF Reached
      <4>3. AddMonths(d, n * w) = StartOfMonth(w * (j + n))
        BY <3>4, <4>2, MonthsOn
      <4>4. FirstDay(unit, j + n) = StartOfMonth(w * (j + n))
        BY <3>1, <3>2 DEF FirstDay
      <4> QED BY <4>1, <4>3, <4>4
    <3> QED BY <3>3, <3>6, <3>7
  <2>2. CASE unit = "day"
    BY <2>2, UnitLengths DEF FirstDay, InCalendar, StartOfUnit, AddUnits
  <2>3. CASE unit = "week"
    <3>1. FirstWeekday \in Int /\ j \in Int /\ 7 * j - FirstWeekday + FirstWeekday = 7 * j
      BY CalendarAssumption DEF InCalendar
    <3>2. (7 * j) % 7 = 0
      BY <3>1
    <3>3. \A n \in Int : 7 * j - FirstWeekday + n * 7 = 7 * (j + n) - FirstWeekday
      BY <3>1
    <3> QED BY <2>3, <3>1, <3>2, <3>3, UnitLengths DEF FirstDay, StartOfUnit, AddUnits
  <2> QED BY <2>1, <2>2, <2>3, UnitLengths
<1>2. Reached(unit, j + 1)
  BY DEF Reached, InCalendar
<1>3. AddUnits(FirstDay(unit, j), unit, 1) = FirstDay(unit, j + 1)
  BY <1>1, <1>2
<1> QED BY <1>1, <1>3 DEF EndOfUnit

\* The range of a selection, in units from the one that today is in.
InSpan(d) == StartOfMonth(24) <= d /\ d < StartOfMonth(12 * Years - 24)
CountedFrom(sel) ==
  CASE sel.direction = "this" -> 0
    [] sel.direction = "last" -> IF sel.current THEN 1 - sel.count ELSE -sel.count
    [] sel.direction = "next" -> IF sel.current THEN 0 ELSE 1
CountedTo(sel) ==
  CASE sel.direction = "this" -> 1
    [] sel.direction = "last" -> IF sel.current THEN 1 ELSE 0
    [] sel.direction = "next" -> IF sel.current THEN sel.count ELSE sel.count + 1

LEMMA SpanFacts ==
  ASSUME NEW d \in Int, InSpan(d), 12 * Years - 24 \in Nat
  PROVE  /\ d \in Dates /\ d + 1 \in Dates
         /\ MonthOf(d) \in 24..(12 * Years - 25)
         /\ \A unit \in DateUnits, n \in -2..2 : InCalendar(unit, NumberOf(d, unit) + n)
<1>1. /\ StartOfMonth(24) \in Nat /\ StartOfMonth(12 * Years) \in Nat
      /\ StartOfMonth(12 * Years - 24) \in Nat
      /\ StartOfMonth(12 * Years - 24) < StartOfMonth(12 * Years)
  <2>1. 12 * Years \in Nat /\ 12 * Years - 24 <= 12 * Years
    BY Calendars
  <2>2. StartOfMonth(12 * Years - 24) + 28 * (12 * Years - (12 * Years - 24)) <= StartOfMonth(12 * Years)
    BY <2>1, LaterMonths
  <2> QED BY <2>1, <2>2, Calendars
<1>2. d \in Dates /\ d + 1 \in Dates
  BY <1>1 DEF InSpan, Dates
<1>3. MonthOf(d) \in 0..(12 * Years - 1) /\ InMonth(d, MonthOf(d)) /\ 12 * Years \in Nat
  BY <1>2, EachDayHasAMonth, Calendars
<1> DEFINE m == MonthOf(d)
<1>4. m >= 24
  <2> SUFFICES ASSUME m + 1 <= 24 PROVE FALSE
    BY <1>3
  <2>1. m + 1 \in Nat /\ 24 \in Nat
    BY <1>3
  <2> HIDE DEF m
  <2>2. StartOfMonth(m + 1) + 28 * (24 - (m + 1)) <= StartOfMonth(24)
    BY <2>1, LaterMonths
  <2>3. d < StartOfMonth(m + 1) /\ StartOfMonth(m + 1) \in Nat
    BY <1>3, <2>1, Calendars DEF InMonth, m
  <2> QED BY <1>1, <2>1, <2>2, <2>3 DEF InSpan
<1>5. m < 12 * Years - 24
  <2> SUFFICES ASSUME 12 * Years - 24 <= m PROVE FALSE
    BY <1>3
  <2>1. m \in Nat
    BY <1>3
  <2> DEFINE last == 12 * Years - 24
  <2>2. last \in Nat /\ last <= m
    OBVIOUS
  <2> HIDE DEF m, last
  <2>3. StartOfMonth(last) + 28 * (m - last) <= StartOfMonth(m)
    BY <2>1, <2>2, LaterMonths
  <2>4. StartOfMonth(m) <= d /\ StartOfMonth(m) \in Nat /\ StartOfMonth(last) \in Nat
    BY <1>3, <2>1, <2>2, Calendars DEF InMonth, m
  <2>5. d < StartOfMonth(last)
    BY DEF InSpan, last
  <2> QED BY <2>1, <2>2, <2>3, <2>4, <2>5
<1>6. ASSUME NEW unit \in DateUnits, NEW n \in -2..2
      PROVE  InCalendar(unit, NumberOf(d, unit) + n)
  <2>1. NumberOf(d, unit) \in Int
    BY <1>2, UnitOfADay DEF InCalendar
  <2>2. CASE unit \in MonthUnits
    <3>1. PICK w \in {1, 3, 12} : w = MonthsPer[unit]
      BY <2>2, UnitLengths DEF MonthUnits
    <3>2. NumberOf(d, unit) = m \div w
      BY <2>2, <3>1 DEF NumberOf, MonthUnits
    <3>3. m \div w + n \in Int /\ m \div w + n >= 0 /\ w * (m \div w + n) < 12 * Years
      BY <1>3, <1>4, <1>5, <3>1
    <3> QED BY <3>1, <3>2, <3>3 DEF InCalendar
  <2> QED BY <2>1, <2>2 DEF InCalendar
<1> QED BY <1>2, <1>3, <1>4, <1>5, <1>6

LEMMA WholeUnits ==
  ASSUME NEW d \in Int, InSpan(d), 12 * Years - 24 \in Nat,
         NEW sel, sel.unit \in DateUnits, sel.direction \in Directions, sel.count \in 1..2,
         sel.current \in BOOLEAN, sel.direction = "this" \/ sel.whole
  PROVE  DateRange(d, sel) =
           <<FirstDay(sel.unit, NumberOf(d, sel.unit) + CountedFrom(sel)),
             FirstDay(sel.unit, NumberOf(d, sel.unit) + CountedTo(sel)) - 1>>
<1> DEFINE u == sel.unit
           j == NumberOf(d, u)
           own == StartOfUnit(d, u)
<1>1. own = FirstDay(u, j) /\ u \in DateUnits /\ j \in Int
  BY SpanFacts, UnitOfADay DEF InCalendar
<1>2. \A n \in -2..2 : InCalendar(u, j + n)
  BY SpanFacts
<1>3. \A i : InCalendar(u, i) => Reached(u, i)
  BY DEF InCalendar, Reached
<1>4. \A n \in -2..2 :
        /\ StartOfUnit(FirstDay(u, j + n), u) = FirstDay(u, j + n)
        /\ EndOfUnit(FirstDay(u, j + n), u) = FirstDay(u, j + n + 1) - 1
  BY <1>1, <1>2, UnitsOn
<1>5. \A n, k \in -2..2 : AddUnits(FirstDay(u, j + n), u, k - n) = FirstDay(u, j + k)
  <2> TAKE n, k \in -2..2
  <2>1. InCalendar(u, j + n) /\ Reached(u, j + k) /\ k - n \in Int /\ j + n + (k - n) = j + k
    BY <1>1, <1>2, <1>3
  <2> QED BY <1>1, <2>1, UnitsOn
<1>6. j + 0 = j
  BY <1>1
<1>7. CASE sel.direction = "this"
  <2>1. EndOfUnit(d, u) = FirstDay(u, j + 1) - 1
    <3>1. EndOfUnit(d, u) = AddUnits(FirstDay(u, j + 0), u, 1 - 0) - 1
      BY <1>1, <1>6 DEF EndOfUnit
    <3> QED BY <1>5, <3>1
  <2> QED BY <1>1, <1>6, <1>7, <2>1 DEF DateRange, This, CountedFrom, CountedTo
<1>8. CASE sel.direction = "last" /\ sel.whole
  <2> DEFINE n == IF sel.current THEN 0 ELSE -1
             near == IF sel.current THEN own ELSE AddUnits(own, u, -1)
             far == AddUnits(near, u, 1 - sel.count)
  <2>1. n \in -2..2 /\ n + 1 - sel.count \in -2..2 /\ n + 1 - sel.count - n = 1 - sel.count
    OBVIOUS
  <2>2. near = FirstDay(u, j + n)
    <3>1. AddUnits(FirstDay(u, j + 0), u, (-1) - 0) = FirstDay(u, j + (-1))
      BY <1>5
    <3> QED BY <1>1, <1>6, <3>1
  <2> HIDE DEF n
  <2>3. far = FirstDay(u, j + (n + 1 - sel.count))
    <3>1. AddUnits(FirstDay(u, j + n), u, n + 1 - sel.count - n) = FirstDay(u, j + (n + 1 - sel.count))
      BY <1>5, <2>1
    <3> QED BY <2>1, <2>2, <3>1
  <2>4. DateRange(d, sel) = <<StartOfUnit(far, u), EndOfUnit(near, u)>>
    BY <1>8 DEF DateRange, Calendar
  <2> HIDE DEF near, far
  <2>5. DateRange(d, sel) = <<FirstDay(u, j + (n + 1 - sel.count)), FirstDay(u, j + n + 1) - 1>>
    BY <1>4, <2>1, <2>2, <2>3, <2>4
  <2>6. CountedFrom(sel) = n + 1 - sel.count /\ j + CountedTo(sel) = j + n + 1
    BY <1>1, <1>8 DEF CountedFrom, CountedTo, n
  <2> QED BY <2>5, <2>6
<1>9. CASE sel.direction = "next" /\ sel.whole
  <2> DEFINE n == IF sel.current THEN 0 ELSE 1
             near == IF sel.current THEN own ELSE AddUnits(own, u, 1)
             far == AddUnits(near, u, sel.count - 1)
  <2>1. n \in -2..2 /\ n + sel.count - 1 \in -2..2 /\ n + sel.count - 1 - n = sel.count - 1
    OBVIOUS
  <2>2. near = FirstDay(u, j + n)
    <3>1. AddUnits(FirstDay(u, j + 0), u, 1 - 0) = FirstDay(u, j + 1)
      BY <1>5
    <3> QED BY <1>1, <1>6, <3>1
  <2> HIDE DEF n
  <2>3. far = FirstDay(u, j + (n + sel.count - 1))
    <3>1. AddUnits(FirstDay(u, j + n), u, n + sel.count - 1 - n) = FirstDay(u, j + (n + sel.count - 1))
      BY <1>5, <2>1
    <3> QED BY <2>1, <2>2, <3>1
  <2>4. DateRange(d, sel) = <<StartOfUnit(near, u), EndOfUnit(far, u)>>
    BY <1>9 DEF DateRange, Calendar
  <2> HIDE DEF near, far
  <2>5. DateRange(d, sel) = <<FirstDay(u, j + n), FirstDay(u, j + (n + sel.count - 1) + 1) - 1>>
    BY <1>4, <2>1, <2>2, <2>3, <2>4
  <2>6. CountedFrom(sel) = n /\ j + CountedTo(sel) = j + (n + sel.count - 1) + 1
    BY <1>1, <1>9 DEF CountedFrom, CountedTo, n
  <2> QED BY <2>5, <2>6
<1> QED BY <1>7, <1>8, <1>9 DEF Directions

LEMMA UnitsKeepOrder ==
  ASSUME NEW d \in Dates, NEW e \in Dates, d <= e, NEW unit \in DateUnits,
         NEW n \in -2..2, MonthOf(d) >= 24
  PROVE  /\ AddUnits(d, unit, n) \in Int /\ AddUnits(e, unit, n) \in Int
         /\ AddUnits(d, unit, n) <= AddUnits(e, unit, n)
<1>1. d \in Int /\ e \in Int
  BY Calendars DEF Dates
<1>2. CASE unit \in MonthUnits
  <2>1. PICK w \in {1, 3, 12} : w = MonthsPer[unit]
    BY <1>2, UnitLengths DEF MonthUnits
  <2>2. \A f : AddUnits(f, unit, n) = AddMonths(f, n * w)
    BY <1>2, <2>1, UnitLengths DEF AddUnits, MonthUnits
  <2>3. MonthOf(d) \in Nat /\ MonthOf(e) \in Nat /\ MonthOf(d) <= MonthOf(e)
    <3>1. MonthOf(d) \in Nat /\ MonthOf(e) \in Nat /\ MonthOf(d) + 0 >= 0
      BY EachDayHasAMonth, Calendars
    <3> QED BY <3>1, MonthsKeepOrder
  <2>4. n * w \in Int /\ MonthOf(d) + n * w >= 0 /\ MonthOf(e) + n * w >= 0
    BY <2>1, <2>3
  <2>5. AddMonths(d, n * w) \in Nat /\ AddMonths(e, n * w) \in Nat
    BY <2>4, MonthsOn
  <2>6. AddMonths(d, n * w) <= AddMonths(e, n * w)
    BY <2>4, MonthsKeepOrder
  <2> QED BY <2>2, <2>5, <2>6
<1>3. CASE unit \in {"day", "week"}
  BY <1>1, <1>3, UnitLengths DEF AddUnits
<1> QED BY <1>2, <1>3, UnitLengths

\* As days pass, a range neither begins nor ends earlier.
LEMMA RangesKeepOrder ==
  ASSUME NEW d \in Int, NEW e \in Int, InSpan(d), InSpan(e), d <= e, 12 * Years - 24 \in Nat,
         NEW sel, sel.unit \in DateUnits, sel.direction \in Directions, sel.count \in 1..2,
         sel.current \in BOOLEAN, sel.whole \in BOOLEAN
  PROVE  DateRange(d, sel)[1] <= DateRange(e, sel)[1] /\ DateRange(d, sel)[2] <= DateRange(e, sel)[2]
<1>1. d \in Dates /\ e \in Dates /\ d + 1 \in Dates /\ e + 1 \in Dates /\ d + 1 <= e + 1
  BY SpanFacts
<1>2. CASE sel.direction = "this" \/ sel.whole
  <2> DEFINE u == sel.unit
             i == NumberOf(d, u)
             j == NumberOf(e, u)
  <2>1. /\ DateRange(d, sel) = <<FirstDay(u, i + CountedFrom(sel)), FirstDay(u, i + CountedTo(sel)) - 1>>
        /\ DateRange(e, sel) = <<FirstDay(u, j + CountedFrom(sel)), FirstDay(u, j + CountedTo(sel)) - 1>>
    BY <1>2, WholeUnits
  <2>2. i <= j /\ i \in Int /\ j \in Int
    BY <1>1, UnitOfADay DEF InCalendar
  <2>3. CountedFrom(sel) \in -2..2 /\ CountedTo(sel) \in 0..3
    BY DEF CountedFrom, CountedTo, Directions
  <2>4. \A n \in -2..3 : Reached(u, i + n) /\ Reached(u, j + n)
    <3> TAKE n \in -2..3
    <3>1. InCalendar(u, i + (-2)) /\ InCalendar(u, j + (-2))
      BY SpanFacts
    <3> HIDE DEF u, i, j
    <3> QED BY <2>2, <3>1 DEF InCalendar, Reached
  <2>5. \A n \in -2..3 : /\ FirstDay(u, i + n) \in Int /\ FirstDay(u, j + n) \in Int
                        /\ FirstDay(u, i + n) <= FirstDay(u, j + n)
    <3> TAKE n \in -2..3
    <3>1. i + n <= j + n
      BY <2>2
    <3> HIDE DEF u, i, j
    <3>2. u \in DateUnits
      BY DEF u
    <3> QED BY <2>4, <3>1, <3>2, FirstDays
  <2> HIDE DEF u, i, j
  <2> QED BY <2>1, <2>3, <2>5
<1>3. CASE sel.direction # "this" /\ ~ sel.whole
  <2> DEFINE skip == IF sel.current THEN 0 ELSE 1
  <2>1. skip \in 0..1 /\ sel.count \in -2..2 /\ -sel.count \in -2..2
    OBVIOUS
  <2>2. d + skip \in Dates /\ e + skip \in Dates /\ d + skip <= e + skip
    BY <1>1
  <2>3. MonthOf(d) >= 24 /\ MonthOf(d + skip) >= 24
    <3>1. MonthOf(d) \in Nat /\ MonthOf(d + skip) \in Nat /\ MonthOf(d) >= 24
      BY <1>1, <2>2, SpanFacts, EachDayHasAMonth, Calendars
    <3>2. MonthOf(d) + 0 >= 0 /\ d <= d + skip
      BY <3>1, <2>1
    <3>3. MonthOf(d) <= MonthOf(d + skip)
      BY <1>1, <2>2, <3>2, MonthsKeepOrder
    <3> QED BY <3>1, <3>3
  <2> HIDE DEF skip
  <2>4. CASE sel.direction = "last"
    <3>1. /\ DateRange(d, sel) = <<AddUnits(d, sel.unit, -sel.count) + 1 - skip, d - skip>>
          /\ DateRange(e, sel) = <<AddUnits(e, sel.unit, -sel.count) + 1 - skip, e - skip>>
      BY <1>3, <2>4 DEF DateRange, Rolling, skip
    <3>2. /\ AddUnits(d, sel.unit, -sel.count) \in Int /\ AddUnits(e, sel.unit, -sel.count) \in Int
          /\ AddUnits(d, sel.unit, -sel.count) <= AddUnits(e, sel.unit, -sel.count)
      BY <1>1, <2>1, <2>3, UnitsKeepOrder
    <3> QED BY <2>1, <3>1, <3>2
  <2>5. CASE sel.direction = "next"
    <3>1. /\ DateRange(d, sel) = <<d + skip, AddUnits(d + skip, sel.unit, sel.count) - 1>>
          /\ DateRange(e, sel) = <<e + skip, AddUnits(e + skip, sel.unit, sel.count) - 1>>
      BY <1>3, <2>5 DEF DateRange, Rolling, skip
    <3>2. /\ AddUnits(d + skip, sel.unit, sel.count) \in Int
          /\ AddUnits(e + skip, sel.unit, sel.count) \in Int
          /\ AddUnits(d + skip, sel.unit, sel.count) <= AddUnits(e + skip, sel.unit, sel.count)
      BY <2>1, <2>2, <2>3, UnitsKeepOrder
    <3> QED BY <2>1, <3>1, <3>2
  <2> QED BY <1>3, <2>4, <2>5 DEF Directions
<1> QED BY <1>2, <1>3

\* The last, this and the next unit leave no day between them.
LEMMA RangesAdjoin ==
  ASSUME NEW d \in Int, InSpan(d), 12 * Years - 24 \in Nat,
         NEW unit \in DateUnits, NEW whole \in BOOLEAN
  PROVE  Adjoin(d, unit, whole)
<1> DEFINE sel(direction) == [direction |-> direction, unit |-> unit, count |-> 1,
                              current |-> FALSE, whole |-> whole]
           j == NumberOf(d, unit)
           now == IF whole THEN DateRange(d, sel("this")) ELSE <<d, d>>
<1>1. Adjoin(d, unit, whole) <=>
        DateRange(d, sel("last"))[2] + 1 = now[1] /\ now[2] + 1 = DateRange(d, sel("next"))[1]
  BY DEF Adjoin
<1>2. \A direction \in Directions :
        /\ sel(direction).direction = direction /\ sel(direction).unit = unit
        /\ sel(direction).count = 1 /\ sel(direction).current = FALSE /\ sel(direction).whole = whole
  OBVIOUS
<1>3. j \in Int /\ FirstDay(unit, j) \in Int /\ FirstDay(unit, j + 1) \in Int
  <2>1. InCalendar(unit, j)
    BY SpanFacts, UnitOfADay
  <2>2. j \in Int /\ Reached(unit, j) /\ Reached(unit, j + 1)
    BY <2>1 DEF InCalendar, Reached
  <2> HIDE DEF j
  <2> QED BY <2>2, FirstDays
<1> HIDE DEF sel
<1>4. CASE whole
  <2>1. \A direction \in Directions :
          DateRange(d, sel(direction)) =
            <<FirstDay(unit, j + CountedFrom(sel(direction))),
              FirstDay(unit, j + CountedTo(sel(direction))) - 1>>
    <3> TAKE direction \in Directions
    <3> DEFINE s == sel(direction)
    <3>0. s.whole = TRUE
      BY <1>4 DEF sel
    <3>1. s.unit = unit /\ s.unit \in DateUnits /\ s.direction \in Directions /\ s.count \in 1..2
      BY DEF sel
    <3>2. s.current \in BOOLEAN
      BY DEF sel
    <3>3. s.whole
      BY <3>0
    <3> HIDE DEF s
    <3>4. DateRange(d, s) = <<FirstDay(s.unit, NumberOf(d, s.unit) + CountedFrom(s)),
                              FirstDay(s.unit, NumberOf(d, s.unit) + CountedTo(s)) - 1>>
      BY <3>1, <3>2, <3>3, WholeUnits
    <3> QED BY <3>1, <3>4 DEF s
  <2>2. /\ CountedFrom(sel("this")) = 0 /\ CountedTo(sel("this")) = 1
        /\ CountedTo(sel("last")) = 0 /\ CountedFrom(sel("next")) = 1
    BY <1>2 DEF CountedFrom, CountedTo, Directions
  <2> HIDE DEF j
  <2>3. j + 0 = j
    BY <1>3
  <2>4. /\ now = <<FirstDay(unit, j), FirstDay(unit, j + 1) - 1>>
        /\ DateRange(d, sel("last"))[2] = FirstDay(unit, j) - 1
        /\ DateRange(d, sel("next"))[1] = FirstDay(unit, j + 1)
    BY <1>4, <2>1, <2>2, <2>3 DEF Directions
  <2> HIDE DEF now
  <2> QED BY <1>1, <1>3, <2>4
<1>5. CASE ~ whole
  <2>1. DateRange(d, sel("last"))[2] = d - 1 /\ DateRange(d, sel("next"))[1] = d + 1
    BY <1>2, <1>5 DEF DateRange, Rolling, Directions
  <2> QED BY <1>1, <1>5, <2>1
<1> QED BY <1>4, <1>5

LEMMA TodayIsADay ==
  /\ RequestInit => today \in Days
  /\ today \in Days /\ [RequestNext]_allVars => today' \in Days /\ today <= today'
<1>1. Days \subseteq Nat /\ Days # {}
  <2>1. 12 * Years - 24 \in Nat /\ StartOfMonth(24) \in Nat
    BY DaysAssumption, CalendarAssumption, Calendars
  <2>2. StartOfMonth(12 * Years - 24) \in Nat
    BY <2>1, Calendars
  <2> QED BY <2>1, <2>2, DaysAssumption
<1>2. RequestInit => today \in Days
  <2>1. \E d \in Days : \A e \in Days : d <= e
    BY <1>1, LeastNumber
  <2> QED BY <2>1 DEF RequestInit
<1>3. ASSUME today \in Days, [RequestNext]_allVars PROVE today' \in Days /\ today <= today'
  <2>1. CASE DayPasses
    BY <1>1, <1>3, <2>1 DEF DayPasses
  <2>2. CASE UNCHANGED today
    BY <1>1, <1>3, <2>2
  <2>3. DayPasses \/ UNCHANGED today
    <3>1. ChangeStep => DayPasses \/ UNCHANGED today
      BY DEF ChangeStep, PutSelections, Store, PutParameters, SaveVisual, ForgetPlans, stores
    <3>2. RequestStep \/ Receive \/ FillMatrix \/ UNCHANGED allVars => UNCHANGED today
      BY DEF RequestStep, Render, Highlight, Batch, Tooltip, Export, AskOne, AskTwo, Answered,
             GetSelections, RenderMatrix, Receive, FillMatrix, requestVars, allVars, stores
    <3> QED BY <1>3, <3>1, <3>2 DEF RequestNext
  <2> QED BY <2>1, <2>2, <2>3
<1> QED BY <1>2, <1>3

(* From one day to the next, no relative range begins or ends earlier, for any days, and
   whole units adjoin, as rolling ones do: what _add_months makes of the last days of
   a month neither overtakes nor leaves a gap.                                   *)
THEOREM RangesAlwaysMoveOn == RequestSpec => RangesMoveOn
<1>1. 12 * Years - 24 \in Nat /\ \A d \in Days : d \in Int /\ InSpan(d)
  <2>1. 12 * Years - 24 \in Nat /\ StartOfMonth(24) \in Nat
    BY DaysAssumption, CalendarAssumption, Calendars
  <2>2. StartOfMonth(12 * Years - 24) \in Nat
    BY <2>1, Calendars
  <2> QED BY <2>1, <2>2, DaysAssumption DEF InSpan
<1>2. ASSUME today \in Days, [RequestNext]_allVars
      PROVE  /\ \A sel \in Relatives :
                   /\ DateRange(today, sel)[1] <= DateRange(today', sel)[1]
                   /\ DateRange(today, sel)[2] <= DateRange(today', sel)[2]
             /\ \A unit \in DateUnits, whole \in BOOLEAN : Adjoin(today', unit, whole)
  <2>1. today' \in Days /\ today <= today'
    BY <1>2, TodayIsADay
  <2>2. ASSUME NEW sel \in Relatives
        PROVE  /\ DateRange(today, sel)[1] <= DateRange(today', sel)[1]
               /\ DateRange(today, sel)[2] <= DateRange(today', sel)[2]
    <3>1. /\ sel.unit \in DateUnits /\ sel.direction \in Directions /\ sel.count \in 1..2
          /\ sel.current \in BOOLEAN /\ sel.whole \in BOOLEAN
      BY DEF Relatives
    <3> QED BY <1>1, <1>2, <2>1, <3>1, RangesKeepOrder
  <2>3. \A unit \in DateUnits, whole \in BOOLEAN : Adjoin(today', unit, whole)
    BY <1>1, <2>1, RangesAdjoin
  <2> QED BY <2>2, <2>3
<1>3. RequestSpec => [](today \in Days)
  <2>1. RequestInit => today \in Days
    BY TodayIsADay
  <2>2. today \in Days /\ [RequestNext]_allVars => (today \in Days)'
    BY TodayIsADay
  <2> QED BY <2>1, <2>2, PTL DEF RequestSpec
<1>4. today \in Days /\ [RequestNext]_allVars
      => [today' # today =>
            /\ \A sel \in Relatives :
                 /\ DateRange(today, sel)[1] <= DateRange(today', sel)[1]
                 /\ DateRange(today, sel)[2] <= DateRange(today', sel)[2]
            /\ \A unit \in DateUnits, whole \in BOOLEAN : Adjoin(today', unit, whole)]_today
  BY <1>2
<1> QED BY <1>3, <1>4, PTL DEF RequestSpec, RangesMoveOn

-----------------------------------------------------------------------------
(* The matrix.  Paths and their prefixes.                                     *)
LEMMA PrefixIs ==
  ASSUME NEW p \in Seq(Nat), NEW q \in Seq(Nat)
  PROVE  IsPrefix(p, q) <=> Len(p) <= Len(q) /\ \A i \in 1..Len(p) : p[i] = q[i]
<1>1. CASE Len(p) > Len(q)
  BY <1>1 DEF IsPrefix
<1>2. CASE Len(p) <= Len(q)
  <2>1. /\ SubSeq(p, 1, Len(p)) = [i \in 1..Len(p) |-> p[i]]
        /\ SubSeq(q, 1, Len(p)) = [i \in 1..Len(p) |-> q[i]]
    BY <1>2
  <2>2. SubSeq(p, 1, Len(p)) = SubSeq(q, 1, Len(p)) <=> \A i \in 1..Len(p) : p[i] = q[i]
    BY <2>1
  <2> QED BY <1>2, <2>2 DEF IsPrefix
<1> QED BY <1>1, <1>2

LEMMA PrefixSelf ==
  ASSUME NEW p \in Seq(Nat)
  PROVE  IsPrefix(p, p)
BY PrefixIs

LEMMA SameLength ==
  ASSUME NEW p \in Seq(Nat), NEW q \in Seq(Nat), IsPrefix(p, q), Len(p) = Len(q)
  PROVE  p = q
<1>1. p = [i \in 1..Len(p) |-> p[i]] /\ q = [i \in 1..Len(p) |-> q[i]]
  OBVIOUS
<1>2. \A i \in 1..Len(p) : p[i] = q[i]
  BY PrefixIs
<1> QED BY <1>1, <1>2

LEMMA SameMembers ==
  ASSUME NEW p \in Seq(Nat), NEW q \in Seq(Nat), Len(p) = Len(q),
         \A i \in 1..Len(p) : p[i] = q[i]
  PROVE  p = q
<1>1. p = [i \in 1..Len(p) |-> p[i]] /\ q = [i \in 1..Len(p) |-> q[i]]
  OBVIOUS
<1> QED BY <1>1

LEMMA PrefixesNest ==
  ASSUME NEW p \in Seq(Nat), NEW q \in Seq(Nat), NEW s \in Seq(Nat),
         IsPrefix(p, s), IsPrefix(q, s), Len(p) <= Len(q)
  PROVE  IsPrefix(p, q)
BY PrefixIs

LEMMA PrefixOfPrefix ==
  ASSUME NEW p \in Seq(Nat), NEW q \in Seq(Nat), NEW s \in Seq(Nat),
         IsPrefix(p, q), IsPrefix(q, s)
  PROVE  IsPrefix(p, s)
BY PrefixIs

\* The first n members of a path.
LEMMA FirstMembers ==
  ASSUME NEW p \in Seq(Nat), NEW n \in 0..Len(p)
  PROVE  /\ SubSeq(p, 1, n) \in Seq(Nat)
         /\ Len(SubSeq(p, 1, n)) = n
         /\ \A i \in 1..n : SubSeq(p, 1, n)[i] = p[i]
         /\ IsPrefix(SubSeq(p, 1, n), p)
<1>1. /\ SubSeq(p, 1, n) \in Seq(Nat)
      /\ Len(SubSeq(p, 1, n)) = n
      /\ \A i \in 1..n : SubSeq(p, 1, n)[i] = p[i]
  OBVIOUS
<1> DEFINE first == SubSeq(p, 1, n)
<1>2. IsPrefix(first, p) <=> Len(first) <= Len(p) /\ \A i \in 1..Len(first) : first[i] = p[i]
  BY <1>1, PrefixIs
<1> HIDE DEF first
<1>3. IsPrefix(first, p)
  BY <1>1, <1>2 DEF first
<1> QED BY <1>1, <1>3 DEF first

LEMMA PrefixIsFirst ==
  ASSUME NEW p \in Seq(Nat), NEW q \in Seq(Nat), IsPrefix(p, q)
  PROVE  Len(p) \in 0..Len(q) /\ p = SubSeq(q, 1, Len(p))
<1>1. Len(p) \in 0..Len(q)
  BY PrefixIs
<1>2. /\ SubSeq(q, 1, Len(p)) \in Seq(Nat) /\ Len(SubSeq(q, 1, Len(p))) = Len(p)
      /\ \A i \in 1..Len(p) : SubSeq(q, 1, Len(p))[i] = q[i]
  BY <1>1, FirstMembers
<1>3. \A i \in 1..Len(p) : p[i] = q[i]
  BY PrefixIs
<1> QED BY <1>1, <1>2, <1>3

LEMMA FactPaths ==
  ASSUME NEW f \in Facts
  PROVE  /\ RowPath(f) \in Seq(Nat) /\ Len(RowPath(f)) = RowDepth - RowFrom
         /\ f.col \in Seq(Nat) /\ Len(f.col) = ColDepth
         /\ RowDepth - RowFrom \in Nat
<1>1. f.row \in Seq(Nat) /\ Len(f.row) = RowDepth
  BY FactsAssumption
<1>2. f.col \in Seq(Nat) /\ Len(f.col) = ColDepth
  BY FactsAssumption
<1>3. RowFrom \in {0, 1} /\ RowDepth \in Nat \ {0}
  BY FactsAssumption DEF RowFrom
<1>4. RowPath(f) \in Seq(Nat) /\ Len(RowPath(f)) = RowDepth - RowFrom
  BY <1>1, <1>3 DEF RowPath
<1> QED BY <1>2, <1>3, <1>4

-----------------------------------------------------------------------------
(* Sums of cells no two of which count the same fact.                         *)
LEMMA SummedApart ==
  ASSUME NEW keys, NEW f, NEW n \in keys, Cell(n).counts[f] \in {0, 1},
         \A k \in keys : k # n => Cell(k).counts[f] = 0
  PROVE  Summed(keys, f) = Cell(n).counts[f]
<1> DEFINE union == UNION {{k} \X (1..Cell(k).counts[f]) : k \in keys}
<1>1. CASE Cell(n).counts[f] = 0
  <2>1. union = {}
    BY <1>1
  <2> QED BY <1>1, <2>1, FS_EmptySet DEF Summed
<1>2. CASE Cell(n).counts[f] = 1
  <2>1. union = {<<n, 1>>}
    BY <1>2
  <2>2. Cardinality({<<n, 1>>}) = 1
    BY FS_Singleton
  <2> QED BY <1>2, <2>1, <2>2 DEF Summed
<1> QED BY <1>1, <1>2

LEMMA SummedNone ==
  ASSUME NEW keys, NEW f, \A k \in keys : Cell(k).counts[f] = 0
  PROVE  Summed(keys, f) = 0
<1>1. UNION {{k} \X (1..Cell(k).counts[f]) : k \in keys} = {}
  OBVIOUS
<1> QED BY <1>1, FS_EmptySet DEF Summed

\* What such a sum counts.
LEMMA AddedIs ==
  ASSUME NEW keys, NEW X \in [keys -> SUBSET Facts],
         \A k \in keys : Cell(k).counts = Indicator(X[k]),
         \A j \in keys, k \in keys : j # k => X[j] \cap X[k] = {}
  PROVE  Added(keys).counts = Indicator(UNION {X[k] : k \in keys})
<1> DEFINE S == UNION {X[k] : k \in keys}
<1> SUFFICES ASSUME NEW f \in Facts
             PROVE  Summed(keys, f) = (IF f \in S THEN 1 ELSE 0)
  BY DEF Added, Indicator
<1>1. \A k \in keys : Cell(k).counts[f] = IF f \in X[k] THEN 1 ELSE 0
  BY DEF Indicator
<1>2. CASE f \notin S
  <2>1. \A k \in keys : Cell(k).counts[f] = 0
    BY <1>1, <1>2
  <2> QED BY <1>2, <2>1, SummedNone
<1>3. CASE f \in S
  <2>1. PICK n \in keys : f \in X[n]
    BY <1>3
  <2>2. \A k \in keys : k # n => Cell(k).counts[f] = 0
    BY <1>1, <2>1
  <2>3. Cell(n).counts[f] = 1
    BY <1>1, <2>1
  <2> QED BY <1>3, <2>2, <2>3, SummedApart
<1> QED BY <1>2, <1>3

LEMMA AddedNothing ==
  ASSUME NEW keys, \A k \in keys : Cell(k).counts = Indicator({})
  PROVE  ~IsValue(Added(keys)) /\ Added(keys).counts = Indicator({})
<1>1. \A f \in Facts : Summed(keys, f) = 0
  BY SummedNone DEF Indicator
<1> QED BY <1>1 DEF Added, IsValue, Indicator

LEMMA PutSays ==
  ASSUME NEW new, Put(new), NEW k
  PROVE  /\ k \in DOMAIN new => k \in DOMAIN cells' /\ Cell(k)' = new[k]
         /\ k \notin DOMAIN new => Cell(k)' = Cell(k) /\ (k \in DOMAIN cells' <=> k \in DOMAIN cells)
BY DEF Put, Cell, NoValue, Indicator

LEMMA PutSumsSays ==
  ASSUME NEW sources, PutSums(sources), NEW k
  PROVE  /\ k \notin DOMAIN sources \/ ~Missing(k) \/ ~IsValue(Added(sources[k])) =>
              Cell(k)' = Cell(k) /\ (k \in DOMAIN cells' <=> k \in DOMAIN cells)
         /\ \A X \in SUBSET Facts :
              k \in DOMAIN sources /\ Cell(k).counts = Indicator({})
                /\ Added(sources[k]).counts = Indicator(X)
              => Cell(k)'.counts = Indicator(X)
         /\ k \in DOMAIN sources /\ Missing(k) /\ IsValue(Added(sources[k])) =>
              Cell(k)' = Added(sources[k]) /\ k \in DOMAIN cells'
         /\ k \in DOMAIN cells' => k \in DOMAIN cells \/ k \in DOMAIN sources
<1> DEFINE new == [j \in {i \in DOMAIN sources : Missing(i) /\ IsValue(Added(sources[i]))} |->
                     Added(sources[j])]
<1>1. Put(new)
  BY DEF PutSums
<1>2. k \in DOMAIN new <=> k \in DOMAIN sources /\ Missing(k) /\ IsValue(Added(sources[k]))
  OBVIOUS
<1>3. k \in DOMAIN new => new[k] = Added(sources[k])
  OBVIOUS
<1>4. /\ k \in DOMAIN new => k \in DOMAIN cells' /\ Cell(k)' = new[k]
      /\ k \notin DOMAIN new => Cell(k)' = Cell(k) /\ (k \in DOMAIN cells' <=> k \in DOMAIN cells)
  <2> HIDE DEF new
  <2> QED BY <1>1, PutSays
<1> HIDE DEF new
<1>5. ASSUME NEW X \in SUBSET Facts, k \in DOMAIN sources, Cell(k).counts = Indicator({}),
             Added(sources[k]).counts = Indicator(X)
      PROVE  Cell(k)'.counts = Indicator(X)
  <2>1. Missing(k)
    BY <1>5 DEF Missing, IsValue, Indicator
  <2>2. CASE X = {}
    <3>1. ~IsValue(Added(sources[k]))
      BY <1>5, <2>2 DEF IsValue, Indicator
    <3> QED BY <1>2, <1>4, <1>5, <2>2, <3>1
  <2>3. CASE X # {}
    <3>1. PICK f \in Facts : f \in X
      BY <2>3
    <3>2. Added(sources[k]).counts[f] = 1
      BY <1>5, <3>1 DEF Indicator
    <3>3. IsValue(Added(sources[k]))
      BY <3>2 DEF IsValue
    <3> QED BY <1>2, <1>3, <1>4, <1>5, <2>1, <3>3
  <2> QED BY <2>2, <2>3
<1>6. k \in DOMAIN sources /\ Missing(k) /\ IsValue(Added(sources[k])) =>
        Cell(k)' = Added(sources[k]) /\ k \in DOMAIN cells'
  BY <1>2, <1>3, <1>4
<1>7. k \in DOMAIN cells' => k \in DOMAIN cells \/ k \in DOMAIN sources
  BY <1>2, <1>4
<1>8. k \notin DOMAIN sources \/ ~Missing(k) \/ ~IsValue(Added(sources[k])) =>
        Cell(k)' = Cell(k) /\ (k \in DOMAIN cells' <=> k \in DOMAIN cells)
  BY <1>2, <1>4
<1> QED BY <1>5, <1>6, <1>7, <1>8

-----------------------------------------------------------------------------
(* The axes: what is under a row and a column, within the drill.              *)
In(r, c) == {f \in fetched : Under(f, r, c)}
LeafRows == {Data(RowPath(f)) : f \in fetched}
LeafCols == {Data(f.col) : f \in fetched}
FullCols == LeafCols \cup {c \in Cols : c.kind = "data" /\ ColIsLeaf(c.path)}

LEMMA Keys ==
  /\ \A p : Data(p).path = p /\ Data(p).kind = "data"
  /\ \A p : Subtotal(p).path = p /\ Subtotal(p).kind = "subtotal"
  /\ GrandTotal.kind = "grand"
BY DEF Data, Subtotal, GrandTotal

LEMMA NodeFacts ==
  ASSUME fetched \subseteq Facts, NEW p \in RowNodes
  PROVE  /\ p \in Seq(Nat) /\ Len(p) \in 1..(RowDepth - RowFrom)
         /\ \E f \in fetched : p = SubSeq(RowPath(f), 1, Len(p)) /\ IsPrefix(p, RowPath(f))
<1>1. PICK f \in fetched : \E n \in 1..(RowDepth - RowFrom) : p = SubSeq(RowPath(f), 1, n)
  BY DEF RowNodes
<1>2. PICK n \in 1..(RowDepth - RowFrom) : p = SubSeq(RowPath(f), 1, n)
  BY <1>1
<1>3. RowPath(f) \in Seq(Nat) /\ Len(RowPath(f)) = RowDepth - RowFrom /\ RowDepth - RowFrom \in Nat
  BY FactPaths
<1>4. n \in 0..Len(RowPath(f))
  BY <1>3
<1> QED BY <1>2, <1>3, <1>4, FirstMembers

LEMMA NodesAre ==
  ASSUME fetched \subseteq Facts, NEW f \in fetched, NEW n \in 1..(RowDepth - RowFrom)
  PROVE  SubSeq(RowPath(f), 1, n) \in RowNodes
BY DEF RowNodes

LEMMA RowFacts ==
  ASSUME fetched \subseteq Facts, NEW r \in Rows
  PROVE  \/ r = Data(r.path) /\ r.kind = "data" /\ r.path \in RowNodes /\ RowShown(r.path)
         \/ /\ r = Subtotal(r.path) /\ r.kind = "subtotal" /\ r.path \in RowNodes
            /\ RowShown(r.path) /\ RowOpen(r.path) /\ ~RowIsLeaf(r.path) /\ spec.rowSubs
         \/ r = GrandTotal /\ r.kind = "grand"
BY Keys DEF Rows

LEMMA LeafRowFacts ==
  ASSUME fetched \subseteq Facts, NEW r \in LeafRows
  PROVE  /\ r = Data(r.path) /\ r.kind = "data" /\ r.path \in Seq(Nat)
         /\ Len(r.path) = RowDepth - RowFrom
         /\ \A f \in Facts : IsPrefix(r.path, RowPath(f)) <=> r.path = RowPath(f)
<1>1. PICK g \in fetched : r = Data(RowPath(g))
  BY DEF LeafRows
<1>2. r.path = RowPath(g) /\ r.path \in Seq(Nat) /\ Len(r.path) = RowDepth - RowFrom
  BY <1>1, Keys, FactPaths
<1>3. ASSUME NEW f \in Facts PROVE IsPrefix(r.path, RowPath(f)) <=> r.path = RowPath(f)
  <2>1. RowPath(f) \in Seq(Nat) /\ Len(RowPath(f)) = RowDepth - RowFrom
    BY FactPaths
  <2> QED BY <2>1, <1>2, SameLength, PrefixSelf
<1> QED BY <1>1, <1>2, <1>3, Keys

\* A row is a leaf by its length.
LEMMA LeafRowsAre ==
  ASSUME fetched \subseteq Facts, NEW p \in RowNodes
  PROVE  Data(p) \in LeafRows <=> RowIsLeaf(p)
<1>1. CASE RowIsLeaf(p)
  <2>1. PICK f \in fetched : IsPrefix(p, RowPath(f))
    BY NodeFacts
  <2>2. p \in Seq(Nat) /\ RowPath(f) \in Seq(Nat) /\ Len(p) = Len(RowPath(f))
    BY <1>1, NodeFacts, FactPaths DEF RowIsLeaf
  <2>3. p = RowPath(f)
    BY <2>1, <2>2, SameLength
  <2> QED BY <1>1, <2>3 DEF LeafRows
<1>2. CASE Data(p) \in LeafRows
  BY <1>2, LeafRowFacts, Keys DEF RowIsLeaf
<1> QED BY <1>1, <1>2

LEMMA LeavesBelowAre ==
  ASSUME NEW p
  PROVE  LeavesBelow(p) = {l \in LeafRows : IsPrefix(p, l.path)}
BY Keys DEF LeavesBelow, LeafRows

LEMMA ColPathFacts ==
  ASSUME fetched \subseteq Facts, NEW p \in ColPaths
  PROVE  /\ p \in Seq(Nat) /\ Len(p) \in 1..ColDepth
         /\ \A l \in 1..Len(p) : p[l] \in ColKept(l)
<1>1. PICK n \in 1..ColDepth : /\ p \in [1..n -> UNION {ColKept(l) : l \in 1..n}]
                              /\ \A l \in 1..n : p[l] \in ColKept(l)
  BY DEF ColPaths
<1>2. ASSUME NEW l \in 1..n PROVE ColKept(l) \subseteq Nat
  <2>1. l \in 1..ColDepth
    BY FactsAssumption
  <2>2. \A f \in fetched : f.col[l] \in Nat
    BY <2>1, FactsAssumption
  <2> QED BY <2>2 DEF ColKept, ColMembers
<1>3. n \in Nat /\ p \in [1..n -> Nat]
  BY <1>1, <1>2, FactsAssumption
<1>4. p \in Seq(Nat) /\ Len(p) = n
  BY <1>3
<1> QED BY <1>1, <1>4

LEMMA ColFacts ==
  ASSUME fetched \subseteq Facts, NEW c \in Cols
  PROVE  \/ /\ c = Data(c.path) /\ c.kind = "data" /\ c.path \in ColPaths /\ ColReached(c.path)
            /\ ColIsLeaf(c.path) \/ ~ColOpen(c.path)
         \/ /\ c = Subtotal(c.path) /\ c.kind = "subtotal" /\ c.path \in ColPaths
            /\ ColReached(c.path) /\ ColOpen(c.path) /\ ~ColIsLeaf(c.path)
         \/ c = GrandTotal /\ c.kind = "grand" /\ spec.colGrand
BY Keys DEF Cols

LEMMA LeafColFacts ==
  ASSUME fetched \subseteq Facts, NEW c \in LeafCols
  PROVE  /\ c = Data(c.path) /\ c.kind = "data" /\ c.path \in Seq(Nat) /\ Len(c.path) = ColDepth
         /\ \A f \in Facts : IsPrefix(c.path, f.col) <=> c.path = f.col
<1>1. PICK g \in fetched : c = Data(g.col)
  BY DEF LeafCols
<1>2. c.path = g.col /\ c.path \in Seq(Nat) /\ Len(c.path) = ColDepth
  BY <1>1, Keys, FactPaths
<1>3. ASSUME NEW f \in Facts PROVE IsPrefix(c.path, f.col) <=> c.path = f.col
  <2>1. f.col \in Seq(Nat) /\ Len(f.col) = ColDepth
    BY FactPaths
  <2> QED BY <2>1, <1>2, SameLength, PrefixSelf
<1> QED BY <1>1, <1>2, <1>3, Keys

LEMMA ReachedOpen ==
  ASSUME NEW p, ColReached(p), NEW n \in 1..(Len(p) - 1)
  PROVE  ColOpen(SubSeq(p, 1, n))
BY Zenon DEF ColReached

\* No shown column is below another one.
LEMMA ShownApart ==
  ASSUME fetched \subseteq Facts, NEW c \in Cols, NEW d \in Cols, c.kind = "data", d.kind = "data",
         NEW f \in Facts, IsPrefix(c.path, f.col), IsPrefix(d.path, f.col), Len(c.path) <= Len(d.path)
  PROVE  c = d
<1>1. /\ c.path \in Seq(Nat) /\ d.path \in Seq(Nat) /\ f.col \in Seq(Nat)
      /\ Len(d.path) \in 1..ColDepth /\ Len(c.path) \in 1..ColDepth
      /\ c = Data(c.path) /\ d = Data(d.path)
      /\ ColReached(d.path)
      /\ ColIsLeaf(c.path) \/ ~ColOpen(c.path)
  BY ColFacts, ColPathFacts, FactPaths, Keys
<1>2. IsPrefix(c.path, d.path)
  BY <1>1, PrefixesNest
<1>3. CASE Len(c.path) = Len(d.path)
  BY <1>1, <1>2, <1>3, SameLength
<1>4. CASE Len(c.path) < Len(d.path)
  <2>1. c.path = SubSeq(d.path, 1, Len(c.path))
    BY <1>1, <1>2, PrefixIsFirst
  <2>2. Len(c.path) \in 1..(Len(d.path) - 1)
    BY <1>1, <1>4
  <2>3. ColOpen(SubSeq(d.path, 1, Len(c.path)))
    BY <1>1, <2>2, ReachedOpen
  <2>4. ~ColIsLeaf(c.path)
    BY <1>1, <1>4, FactsAssumption DEF ColIsLeaf
  <2>5. ColOpen(c.path)
    BY <2>1, <2>3
  <2> QED BY <1>1, <2>4, <2>5
<1>5. Len(c.path) = Len(d.path) \/ Len(c.path) < Len(d.path)
  BY <1>1
<1> QED BY <1>3, <1>4, <1>5

\* When no column is lost, a fact under an open column is under a shown one below
\* it: the first on its path that is not open.
LEMMA ShownBelow ==
  ASSUME fetched \subseteq Facts, Whole, NEW c \in SubtotalCols, NEW f \in fetched,
         IsPrefix(c.path, f.col)
  PROVE  \E d \in ShownColsBelow(c) : IsPrefix(d.path, f.col)
<1> DEFINE first(n) == SubSeq(f.col, 1, n)
           N == {n \in Nat : Len(c.path) < n /\ n <= ColDepth /\ (n = ColDepth \/ ~ColOpen(first(n)))}
<1>1. /\ c \in Cols /\ c.path \in ColPaths /\ ColReached(c.path) /\ ColOpen(c.path) /\ ~ColIsLeaf(c.path)
  BY ColFacts, Keys DEF SubtotalCols
<1>2. /\ c.path \in Seq(Nat) /\ Len(c.path) \in 1..ColDepth /\ ColDepth \in Nat
      /\ f.col \in Seq(Nat) /\ Len(f.col) = ColDepth
  BY <1>1, ColPathFacts, FactPaths, FactsAssumption
<1>3. \A n \in 0..ColDepth : /\ first(n) \in Seq(Nat) /\ Len(first(n)) = n
                            /\ \A i \in 1..n : first(n)[i] = f.col[i]
                            /\ IsPrefix(first(n), f.col)
  BY <1>2, FirstMembers
<1>4. ColDepth \in N
  BY <1>1, <1>2 DEF ColIsLeaf
<1>5. PICK n \in N : \A m \in N : n <= m
  <2> HIDE DEF N
  <2>1. N \subseteq Nat
    BY DEF N
  <2> QED BY <1>4, <2>1, LeastNumber
<1>6. n \in 1..ColDepth /\ n \in 0..ColDepth /\ Len(c.path) < n /\ (n = ColDepth \/ ~ColOpen(first(n)))
  BY <1>2
<1> HIDE DEF first
<1>7. first(n) \in ColPaths
  <2>1. ASSUME NEW l \in 1..n PROVE first(n)[l] \in ColKept(l)
    <3>1. l \in 1..ColDepth
      BY <1>2, <1>6
    <3>2. f.col[l] \in ColKept(l)
      BY <3>1 DEF Whole
    <3> QED BY <1>3, <1>6, <3>2
  <2>2. first(n) \in [1..n -> UNION {ColKept(l) : l \in 1..n}]
    BY <1>3, <1>6, <2>1
  <2> QED BY <1>6, <2>1, <2>2 DEF ColPaths
<1>8. c.path = first(Len(c.path))
  BY <1>2, PrefixIsFirst DEF first
<1>9. ASSUME NEW m \in 1..(n - 1) PROVE SubSeq(first(n), 1, m) = first(m) /\ m \in 0..ColDepth
  <2>1. m \in 0..n /\ m \in 0..ColDepth /\ n \in Nat
    BY <1>2, <1>6
  <2>2. /\ SubSeq(first(n), 1, m) \in Seq(Nat) /\ Len(SubSeq(first(n), 1, m)) = m
        /\ \A i \in 1..m : SubSeq(first(n), 1, m)[i] = first(n)[i]
    BY <1>3, <1>6, <2>1, FirstMembers
  <2>3. \A i \in 1..m : first(n)[i] = first(m)[i]
    BY <1>3, <1>6, <2>1
  <2>4. first(m) \in Seq(Nat) /\ Len(first(m)) = m
    BY <1>3, <2>1
  <2> QED BY <2>1, <2>2, <2>3, <2>4
<1>10. ASSUME NEW m \in 1..(n - 1) PROVE ColOpen(first(m))
  <2>1. CASE Len(c.path) < m
    <3>1. m \in Nat /\ m <= ColDepth /\ m < n
      BY <1>2, <1>6
    <3>2. m \notin N
      BY <1>5, <1>6, <3>1
    <3> QED BY <2>1, <3>1, <3>2 DEF first
  <2>2. CASE m = Len(c.path)
    BY <1>1, <1>8, <2>2
  <2>3. CASE m < Len(c.path)
    <3>1. m \in 1..(Len(c.path) - 1) /\ m \in 0..Len(c.path)
      BY <1>2, <2>3
    <3>2. ColOpen(SubSeq(c.path, 1, m))
      BY <1>1, <3>1, ReachedOpen
    <3>3. /\ SubSeq(c.path, 1, m) \in Seq(Nat) /\ Len(SubSeq(c.path, 1, m)) = m
          /\ \A i \in 1..m : SubSeq(c.path, 1, m)[i] = c.path[i]
      BY <1>2, <3>1, FirstMembers
    <3>4. \A i \in 1..m : c.path[i] = f.col[i]
      <4>1. \A i \in 1..Len(c.path) : c.path[i] = f.col[i]
        BY <1>2, PrefixIs
      <4>2. \A i \in 1..m : i \in 1..Len(c.path)
        BY <1>2, <3>1
      <4> QED BY <4>1, <4>2
    <3>5. /\ first(m) \in Seq(Nat) /\ Len(first(m)) = m /\ \A i \in 1..m : first(m)[i] = f.col[i]
      BY <1>3, <1>9
    <3>6. SubSeq(c.path, 1, m) = first(m)
      BY <3>3, <3>4, <3>5, SameMembers
    <3> QED BY <3>2, <3>6
  <2> QED BY <1>2, <1>6, <2>1, <2>2, <2>3
<1>11. ColReached(first(n))
  BY <1>3, <1>6, <1>9, <1>10 DEF ColReached
<1>12. Data(first(n)) \in Cols
  BY <1>3, <1>6, <1>7, <1>11 DEF Cols, ColIsLeaf
<1>13. IsStrictPrefix(c.path, first(n))
  <2>1. IsPrefix(c.path, first(n))
    BY <1>2, <1>3, <1>6, PrefixesNest
  <2>2. c.path # first(n)
    BY <1>2, <1>3, <1>6
  <2> QED BY <2>1, <2>2 DEF IsStrictPrefix
<1> QED BY <1>3, <1>6, <1>12, <1>13, Keys DEF ShownColsBelow

-----------------------------------------------------------------------------
(* What a cell may count: nothing that is not in S, and all of it when no column
   is lost.                                                                   *)
Right(v, S) == \E X \in SUBSET S : v.counts = Indicator(X) /\ (Whole => X = S)

LEMMA Exact ==
  ASSUME NEW v, NEW S, v.counts = Indicator(S)
  PROVE  Right(v, S)
BY DEF Right

LEMMA SumRight ==
  ASSUME NEW keys, NEW S \in [keys -> SUBSET Facts], NEW T \in SUBSET Facts,
         \A k \in keys : Right(Cell(k), S[k]) /\ S[k] \subseteq T,
         \A j \in keys, k \in keys : j # k => S[j] \cap S[k] = {},
         Whole => \A f \in T : \E k \in keys : f \in S[k]
  PROVE  Right(Added(keys), T)
<1> DEFINE Is(k, X) == Cell(k).counts = Indicator(X) /\ (Whole => X = S[k])
           X == [k \in keys |-> CHOOSE Y \in SUBSET S[k] : Is(k, Y)]
<1>1. ASSUME NEW k \in keys PROVE X[k] \in SUBSET S[k] /\ Is(k, X[k])
  <2>1. \E Y \in SUBSET S[k] : Is(k, Y)
    BY DEF Right
  <2> QED BY <2>1
<1>2. X \in [keys -> SUBSET Facts]
  BY <1>1
<1>3. \A k \in keys : Cell(k).counts = Indicator(X[k])
  BY <1>1
<1>4. \A j \in keys, k \in keys : j # k => X[j] \cap X[k] = {}
  BY <1>1
<1>5. (\A k \in keys : X[k] \subseteq T) /\ (Whole => \A k \in keys : X[k] = S[k])
  BY <1>1
<1> HIDE DEF X
<1>6. Added(keys).counts = Indicator(UNION {X[k] : k \in keys})
  BY <1>2, <1>3, <1>4, AddedIs
<1>7. UNION {X[k] : k \in keys} \subseteq T
  BY <1>5
<1>8. Whole => UNION {X[k] : k \in keys} = T
  <2> SUFFICES ASSUME Whole, NEW f \in T PROVE \E k \in keys : f \in X[k]
    BY <1>7
  <2> QED BY <1>5
<1> QED BY <1>6, <1>7, <1>8 DEF Right

\* What a total counts where the measure is BLANK and cells were added.
AtMost(v, S) == \E X \in SUBSET S : v.counts = Indicator(X)

LEMMA AtMostNothing ==
  ASSUME NEW v, AtMost(v, {})
  PROVE  ~IsValue(v)
BY DEF AtMost, IsValue, Indicator

LEMMA SumAtMost ==
  ASSUME NEW keys, NEW S \in [keys -> SUBSET Facts], NEW T \in SUBSET Facts,
         \A k \in keys : AtMost(Cell(k), S[k]) /\ S[k] \subseteq T,
         \A j \in keys, k \in keys : j # k => S[j] \cap S[k] = {}
  PROVE  AtMost(Added(keys), T)
<1> DEFINE X == [k \in keys |-> CHOOSE Y \in SUBSET S[k] : Cell(k).counts = Indicator(Y)]
<1>1. ASSUME NEW k \in keys PROVE X[k] \in SUBSET S[k] /\ Cell(k).counts = Indicator(X[k])
  <2>1. \E Y \in SUBSET S[k] : Cell(k).counts = Indicator(Y)
    BY DEF AtMost
  <2> QED BY <2>1
<1>2. X \in [keys -> SUBSET Facts]
  BY <1>1
<1>3. \A k \in keys : Cell(k).counts = Indicator(X[k])
  BY <1>1
<1>4. \A j \in keys, k \in keys : j # k => X[j] \cap X[k] = {}
  BY <1>1
<1>5. \A k \in keys : X[k] \subseteq T
  BY <1>1
<1> HIDE DEF X
<1>6. Added(keys).counts = Indicator(UNION {X[k] : k \in keys})
  BY <1>2, <1>3, <1>4, AddedIs
<1>7. UNION {X[k] : k \in keys} \subseteq T
  BY <1>5
<1> QED BY <1>6, <1>7 DEF AtMost

\* The columns below a collapsed one: those with cells of facts, and itself.
LEMMA CollapsedSum ==
  ASSUME fetched \subseteq Facts, NEW r \in LeafRows, NEW c \in CollapsedCols,
         \A d \in LeafCols : Cell(<<r, d>>).counts = Indicator(In(r, d)),
         \A d \in ColsBelow(c) \ LeafCols : Cell(<<r, d>>).counts = Indicator({}),
         LeafCols \subseteq CellCols
  PROVE  Added({r} \X ColsBelow(c)).counts = Indicator(In(r, c))
<1> DEFINE keys == {r} \X ColsBelow(c)
           X == [k \in keys |-> IF k[2] \in LeafCols THEN In(r, k[2]) ELSE {}]
<1>1. X \in [keys -> SUBSET Facts]
  BY DEF In
<1>2. \A k \in keys : k = <<r, k[2]>> /\ k[2] \in ColsBelow(c)
  OBVIOUS
<1>3. \A k \in keys : Cell(k).counts = Indicator(X[k])
  BY <1>2
<1>4. ASSUME NEW f \in fetched, NEW d \in LeafCols
      PROVE  f \in In(r, d) <=> r.path = RowPath(f) /\ d.path = f.col
  BY LeafRowFacts, LeafColFacts DEF In, Under
<1>5. \A j \in keys, k \in keys : j # k => X[j] \cap X[k] = {}
  <2> SUFFICES ASSUME NEW j \in keys, NEW k \in keys, NEW f, f \in X[j], f \in X[k] PROVE j = k
    OBVIOUS
  <2>1. j[2] \in LeafCols /\ k[2] \in LeafCols /\ f \in In(r, j[2]) /\ f \in In(r, k[2]) /\ f \in fetched
    BY DEF In
  <2>2. j[2].path = f.col /\ k[2].path = f.col
    BY <1>4, <2>1
  <2>3. j[2] = k[2]
    BY <2>1, <2>2, LeafColFacts
  <2> QED BY <1>2, <2>3
<1>6. Added(keys).counts = Indicator(UNION {X[k] : k \in keys})
  <2> HIDE DEF X, keys
  <2> QED BY <1>1, <1>3, <1>5, AddedIs
<1>7. c.path \in Seq(Nat)
  BY ColFacts, ColPathFacts DEF CollapsedCols
<1>8. UNION {X[k] : k \in keys} \subseteq In(r, c)
  <2> SUFFICES ASSUME NEW k \in keys, NEW f \in X[k] PROVE f \in In(r, c)
    OBVIOUS
  <2>1. k[2] \in LeafCols /\ k[2] \in ColsBelow(c) /\ f \in In(r, k[2]) /\ f \in fetched
    BY <1>2 DEF In
  <2>2. k[2].path = f.col /\ IsPrefix(c.path, f.col)
    BY <1>4, <2>1 DEF ColsBelow
  <2> QED BY <2>1, <2>2 DEF In, Under
<1>9. In(r, c) \subseteq UNION {X[k] : k \in keys}
  <2> SUFFICES ASSUME NEW f \in In(r, c) PROVE \E k \in keys : f \in X[k]
    OBVIOUS
  <2>1. f \in fetched /\ IsPrefix(r.path, RowPath(f)) /\ IsPrefix(c.path, f.col)
    BY DEF In, Under
  <2> DEFINE d == Data(f.col)
  <2>2. d \in LeafCols /\ d.path = f.col /\ d.kind = "data"
    BY <2>1, Keys DEF LeafCols
  <2>3. d \in ColsBelow(c)
    BY <2>1, <2>2 DEF ColsBelow
  <2>4. f \in In(r, d)
    BY <1>4, <2>1, <2>2, LeafRowFacts
  <2>5. <<r, d>> \in keys /\ f \in X[<<r, d>>]
    BY <2>2, <2>3, <2>4
  <2> QED BY <2>5
<1> QED BY <1>6, <1>8, <1>9

\* The columns shown below an open one.
LEMMA SubtotalSum ==
  ASSUME fetched \subseteq Facts, NEW r \in LeafRows, NEW c \in SubtotalCols,
         \A d \in Cols : d.kind = "data" => Cell(<<r, d>>).counts = Indicator(In(r, d))
  PROVE  Right(Added({r} \X ShownColsBelow(c)), In(r, c))
<1> DEFINE keys == {r} \X ShownColsBelow(c)
           S == [k \in keys |-> In(r, k[2])]
<1>1. S \in [keys -> SUBSET Facts] /\ In(r, c) \in SUBSET Facts
  BY DEF In
<1>2. \A k \in keys : k = <<r, k[2]>> /\ k[2] \in ShownColsBelow(c)
  OBVIOUS
<1>3. c.path \in Seq(Nat)
  BY ColFacts, ColPathFacts DEF SubtotalCols
<1>4. \A k \in keys : k[2] \in Cols /\ k[2].kind = "data" /\ IsPrefix(c.path, k[2].path) /\ k[2].path \in Seq(Nat)
  BY <1>2, ColFacts, ColPathFacts DEF ShownColsBelow, IsStrictPrefix
<1>5. ASSUME NEW k \in keys PROVE Right(Cell(k), S[k]) /\ S[k] \subseteq In(r, c)
  <2>1. Right(Cell(k), S[k])
    BY <1>2, <1>4, Exact
  <2>2. ASSUME NEW f \in S[k] PROVE f \in In(r, c)
    <3>1. f \in fetched /\ IsPrefix(k[2].path, f.col) /\ IsPrefix(r.path, RowPath(f)) /\ f.col \in Seq(Nat)
      BY FactPaths DEF In, Under
    <3>2. IsPrefix(c.path, f.col)
      BY <1>3, <1>4, <3>1, PrefixOfPrefix
    <3> QED BY <3>1, <3>2 DEF In, Under
  <2> QED BY <2>1, <2>2
<1>6. \A j \in keys, k \in keys : j # k => S[j] \cap S[k] = {}
  <2> SUFFICES ASSUME NEW j \in keys, NEW k \in keys, NEW f, f \in S[j], f \in S[k] PROVE j = k
    OBVIOUS
  <2>1. f \in Facts /\ IsPrefix(j[2].path, f.col) /\ IsPrefix(k[2].path, f.col)
    BY DEF In, Under
  <2>2. Len(j[2].path) <= Len(k[2].path) \/ Len(k[2].path) <= Len(j[2].path)
    BY <1>4
  <2>3. j[2] = k[2]
    BY <1>4, <2>1, <2>2, ShownApart
  <2> QED BY <1>2, <2>3
<1>7. ASSUME Whole, NEW f \in In(r, c) PROVE \E k \in keys : f \in S[k]
  <2>1. f \in fetched /\ IsPrefix(c.path, f.col) /\ IsPrefix(r.path, RowPath(f))
    BY DEF In, Under
  <2>2. PICK d \in ShownColsBelow(c) : IsPrefix(d.path, f.col)
    BY <1>7, <2>1, ShownBelow
  <2>3. <<r, d>> \in keys /\ f \in S[<<r, d>>]
    BY <2>1, <2>2 DEF In, Under
  <2> QED BY <2>3
<1> HIDE DEF keys, S
<1>8. Right(Added(keys), In(r, c))
  BY <1>1, <1>5, <1>6, <1>7, SumRight
<1> QED BY <1>8 DEF keys

\* The leaf rows below a row.
LEMMA LeavesSum ==
  ASSUME fetched \subseteq Facts, NEW r, r.path \in Seq(Nat), NEW c,
         \A l \in LeafRows : Right(Cell(<<l, c>>), In(l, c))
  PROVE  Right(Added(LeavesBelow(r.path) \X {c}), In(r, c))
<1> DEFINE keys == LeavesBelow(r.path) \X {c}
           S == [k \in keys |-> In(k[1], c)]
<1>1. S \in [keys -> SUBSET Facts] /\ In(r, c) \in SUBSET Facts
  BY DEF In
<1>2. \A k \in keys : k = <<k[1], c>> /\ k[1] \in LeafRows /\ IsPrefix(r.path, k[1].path)
  BY LeavesBelowAre
<1>3. ASSUME NEW k \in keys PROVE Right(Cell(k), S[k]) /\ S[k] \subseteq In(r, c)
  <2>1. Right(Cell(k), S[k])
    BY <1>2
  <2>2. ASSUME NEW f \in S[k] PROVE f \in In(r, c)
    <3>1. f \in fetched /\ IsPrefix(c.path, f.col) /\ k[1].path = RowPath(f)
      BY <1>2, LeafRowFacts DEF In, Under
    <3> QED BY <1>2, <3>1 DEF In, Under
  <2> QED BY <2>1, <2>2
<1>4. \A j \in keys, k \in keys : j # k => S[j] \cap S[k] = {}
  <2> SUFFICES ASSUME NEW j \in keys, NEW k \in keys, NEW f, f \in S[j], f \in S[k] PROVE j = k
    OBVIOUS
  <2>1. f \in Facts /\ IsPrefix(j[1].path, RowPath(f)) /\ IsPrefix(k[1].path, RowPath(f))
    BY DEF In, Under
  <2>2. j[1] = k[1]
    BY <1>2, <2>1, LeafRowFacts
  <2> QED BY <1>2, <2>2
<1>5. ASSUME NEW f \in In(r, c) PROVE \E k \in keys : f \in S[k]
  <2>1. f \in fetched /\ IsPrefix(c.path, f.col) /\ IsPrefix(r.path, RowPath(f))
    BY DEF In, Under
  <2> DEFINE l == Data(RowPath(f))
  <2>2. l \in LeafRows /\ l.path = RowPath(f) /\ RowPath(f) \in Seq(Nat)
    BY <2>1, Keys, FactPaths DEF LeafRows
  <2>3. l \in LeavesBelow(r.path) /\ IsPrefix(l.path, RowPath(f))
    BY <2>1, <2>2, LeavesBelowAre, PrefixSelf
  <2>4. <<l, c>> \in keys /\ f \in S[<<l, c>>]
    BY <2>1, <2>3 DEF In, Under
  <2> QED BY <2>4
<1> HIDE DEF keys, S
<1>6. Right(Added(keys), In(r, c))
  BY <1>1, <1>3, <1>4, <1>5, SumRight
<1> QED BY <1>6 DEF keys

-----------------------------------------------------------------------------
(* The invariant, pass by pass.                                               *)
Filled == {"rowSubtotals", "copy", "done"}
Summing == {"colParents", "colSubtotals", "rowParents"} \cup Filled

LeafKeys == {<<Data(RowPath(f)), Data(f.col)>> : f \in fetched}
Headers == {Data(r.path) : r \in SubtotalRows}

SoFar ==
  /\ table \subseteq Facts /\ fetched \subseteq table
  /\ pass \in {"idle", "query", "leaves", "totals"} \cup Summing
  /\ pass \in {"idle", "query"} => fetched = {}
  /\ pass \in {"idle", "query", "leaves"} => DOMAIN cells = {}
  /\ pass \notin {"idle", "query"} => fetched = {f \in table : InDrill(f)}
  /\ pass = "totals" => /\ DOMAIN cells = LeafKeys
                       /\ \A k \in LeafKeys : Cell(k).counts = Indicator(In(k[1], k[2]))

\* The totals stay what they were evaluated to.  Those that failed are nothing,
\* until the cells of the leaves below are added for the subtotals of rows.  Those at
\* which the measure is BLANK are nothing, or cells that were added: for a subtotal,
\* and in the end for the header that repeats one.
MayAdd(k) == k[1].kind = "subtotal" \/ k[2].kind = "subtotal" \/ (pass = "done" /\ HasSubtotal(k[1]))
BlankSays(k) == /\ AtMost(Cell(k), FactsUnder(k[1], k[2]))
                /\ IsValue(Cell(k)) => Cell(k).by = "sum" /\ MayAdd(k)
TotalSays(k) ==
  /\ k \in DOMAIN cells
  /\ ~failed /\ ~BlankAt(k[1], k[2]) =>
       /\ Cell(k).counts = Indicator(FactsUnder(k[1], k[2]))
       /\ FactsUnder(k[1], k[2]) # {} => Cell(k) = EvaluatedTotal(FactsUnder(k[1], k[2]))
  /\ ~failed /\ BlankAt(k[1], k[2]) => BlankSays(k)
  /\ failed => IF pass \in {"copy", "done"} /\ k[1].kind = "subtotal" /\ k[2] # GrandTotal
               THEN Right(Cell(k), In(k[1], k[2])) ELSE Cell(k).counts = Indicator({})
TotalsInv == pass \in Summing => \A k \in TotalKeys : TotalSays(k)

\* The cells of the leaves, and of the rows below which nothing is shown.
LeavesInv ==
  /\ pass \in {"colParents", "colSubtotals", "rowParents"} =>
       \A r \in LeafRows, c \in FullCols : Cell(<<r, c>>).counts = Indicator(In(r, c))
  /\ pass \in {"colSubtotals", "rowParents"} =>
       \A r \in LeafRows, c \in CollapsedCols : Cell(<<r, c>>).counts = Indicator(In(r, c))
  /\ pass = "rowParents" =>
       \A r \in LeafRows, c \in SubtotalCols : Right(Cell(<<r, c>>), In(r, c))
  /\ pass \in Filled =>
       \A r \in LeafRows \cup ClosedRows, c \in Cols \ {GrandTotal} :
         Right(Cell(<<r, c>>), In(r, c))

\* Which cells there are when a pass begins.
PlacedInv ==
  /\ pass \in Summing => LeafKeys \subseteq DOMAIN cells
  /\ pass = "colParents" =>
       \A k \in DOMAIN cells : k \in TotalKeys \/ (k[1] \in LeafRows /\ k[2] \in LeafCols)
  /\ pass = "colSubtotals" =>
       \A k \in DOMAIN cells : k \in TotalKeys \/ (k[1] \in LeafRows /\ k[2] \in LeafCols \cup CollapsedCols)
  /\ pass = "rowParents" => \A k \in DOMAIN cells : k \in TotalKeys \/ k[1] \in LeafRows
  /\ pass \in {"rowSubtotals", "copy"} =>
       \A k \in DOMAIN cells : k \in TotalKeys \/ k[1] \in LeafRows \cup ClosedRows
  /\ pass = "done" =>
       \A k \in DOMAIN cells : k \in TotalKeys \/ k[1] \in LeafRows \cup ClosedRows \cup Headers

\* The header of an open row repeats its subtotal.
HeadersInv ==
  pass = "done" => \A r \in SubtotalRows, c \in Cols :
                     Cell(<<Data(r.path), c>>).counts = Cell(<<r, c>>).counts

MatrixInv == SoFar /\ TotalsInv /\ LeavesInv /\ PlacedInv /\ HeadersInv

-----------------------------------------------------------------------------
(* The keys of totals.                                                        *)
LEMMA TotalKeysAre ==
  ASSUME fetched \subseteq Facts
  PROVE  /\ \A k \in TotalKeys :
              /\ k = <<k[1], k[2]>> /\ k[2] \in Cols
              /\ k[1] \in Rows \/ k[1] \in {Data(p) : p \in RowNodes}
              /\ k[1].kind # "data" \/ k[2] = GrandTotal
         /\ \A r \in Rows, c \in Cols : r.kind # "data" \/ c = GrandTotal => <<r, c>> \in TotalKeys
         /\ \A p \in RowNodes : GrandTotal \in Cols => <<Data(p), GrandTotal>> \in TotalKeys
<1> DEFINE totalRows == Rows \ {Data(p) : p \in RowNodes}
           dataRows == {Data(p) : p \in RowNodes}
<1>1. TotalKeys = {k \in totalRows \X Cols : k[2] # GrandTotal}
                  \cup (IF spec.colGrand THEN (totalRows \cup dataRows) \X {GrandTotal} ELSE {})
  BY DEF TotalKeys
<1>2. GrandTotal \in Cols <=> spec.colGrand
  <2>1. \A p : Data(p) # GrandTotal /\ Subtotal(p) # GrandTotal
    BY Keys
  <2> QED BY <2>1 DEF Cols
<1>3. \A r \in Rows : r.kind = "data" <=> r \in dataRows
  BY RowFacts, Keys
<1>4. \A r \in totalRows : r \in Rows /\ r.kind # "data"
  BY <1>3
<1> QED BY <1>1, <1>2, <1>3, <1>4

LEMMA TotalAtMost ==
  ASSUME fetched \subseteq table, NEW k, TotalSays(k)
  PROVE  AtMost(Cell(k), FactsUnder(k[1], k[2]))
<1>1. In(k[1], k[2]) \subseteq FactsUnder(k[1], k[2])
  BY DEF In, FactsUnder
<1>2. CASE ~failed
  BY <1>2 DEF TotalSays, BlankSays, AtMost
<1>3. CASE failed
  BY <1>1, <1>3 DEF TotalSays, Right, AtMost
<1> QED BY <1>2, <1>3

LEMMA LeafIsNoTotal ==
  ASSUME fetched \subseteq Facts, NEW r \in LeafRows, NEW c, c.kind # "grand"
  PROVE  <<r, c>> \notin TotalKeys
BY TotalKeysAre, LeafRowFacts, Keys

LEMMA NothingThere ==
  ASSUME NEW k, k \notin DOMAIN cells
  PROVE  Cell(k).counts = Indicator({}) /\ Missing(k)
BY DEF Cell, NoValue, Missing, IsValue, Indicator

LEMMA NothingIn ==
  ASSUME NEW k, NEW S \in SUBSET Facts, Cell(k).counts = Indicator(S), Missing(k)
  PROVE  S = {}
BY DEF Missing, IsValue, Indicator

LEMMA SameShape ==
  ASSUME UNCHANGED <<table, spec, fetched>>
  PROVE  /\ Rows' = Rows /\ Cols' = Cols /\ RowNodes' = RowNodes /\ TotalKeys' = TotalKeys
         /\ LeafRows' = LeafRows /\ LeafCols' = LeafCols /\ FullCols' = FullCols /\ LeafKeys' = LeafKeys
         /\ ClosedRows' = ClosedRows /\ CollapsedCols' = CollapsedCols
         /\ SubtotalRows' = SubtotalRows /\ SubtotalCols' = SubtotalCols /\ Headers' = Headers
         /\ \A r, c : In(r, c)' = In(r, c) /\ FactsUnder(r, c)' = FactsUnder(r, c)
         /\ \A v, S : Right(v, S)' <=> Right(v, S)
         /\ Whole' <=> Whole
         /\ \A f : InDrill(f)' <=> InDrill(f)
<1>1. (\A f : RowPath(f)' = RowPath(f)) /\ RowFrom' = RowFrom
  BY DEF RowPath, RowFrom
<1>2. RowNodes' = RowNodes
  BY <1>1 DEF RowNodes
<1>3. \A p : (RowOpen(p)' <=> RowOpen(p)) /\ (RowIsLeaf(p)' <=> RowIsLeaf(p))
  BY <1>1 DEF RowOpen, RowIsLeaf
<1>4. \A p : RowShown(p)' <=> RowShown(p)
  BY <1>2, <1>3 DEF RowShown
<1>5. Rows' = Rows
  BY <1>2, <1>3, <1>4 DEF Rows
<1>6. \A l : ColKept(l)' = ColKept(l)
  BY DEF ColKept, ColMembers
<1>7. ColPaths' = ColPaths /\ (Whole' <=> Whole)
  <2>1. \A n : UNION {ColKept(l)' : l \in 1..n} = UNION {ColKept(l) : l \in 1..n}
    BY <1>6
  <2> DEFINE paths(n) == {p \in [1..n -> UNION {ColKept(l) : l \in 1..n}] :
                            \A l \in 1..n : p[l] \in ColKept(l)}
  <2>2. ColPaths' = ColPaths
    <3>1. ASSUME NEW n PROVE paths(n)' = paths(n)
      BY <1>6, <2>1
    <3>2. ColPaths = UNION {paths(n) : n \in 1..ColDepth}
      BY DEF ColPaths
    <3>3. ColPaths' = UNION {paths(n)' : n \in 1..ColDepth}
      BY DEF ColPaths
    <3> HIDE DEF paths
    <3> QED BY <3>1, <3>2, <3>3
  <2>3. Whole' <=> Whole
    BY <1>6 DEF Whole
  <2> QED BY <2>2, <2>3
<1>8. \A p : (ColOpen(p)' <=> ColOpen(p)) /\ (ColReached(p)' <=> ColReached(p))
  BY DEF ColOpen, ColReached
<1>9. Cols' = Cols
  BY <1>7, <1>8 DEF Cols
<1>10. TotalKeys' = TotalKeys
  BY <1>2, <1>5, <1>9 DEF TotalKeys
<1>11. /\ LeafRows' = LeafRows /\ LeafCols' = LeafCols /\ LeafKeys' = LeafKeys
       /\ FullCols' = FullCols
  BY <1>1, <1>9 DEF LeafRows, LeafCols, LeafKeys, FullCols
<1>12. /\ ClosedRows' = ClosedRows /\ CollapsedCols' = CollapsedCols
       /\ SubtotalRows' = SubtotalRows /\ SubtotalCols' = SubtotalCols
  BY <1>5, <1>9 DEF ClosedRows, CollapsedCols, SubtotalRows, SubtotalCols
<1>13. Headers' = Headers
  BY <1>12 DEF Headers
<1>14. \A f, r, c : Under(f, r, c)' <=> Under(f, r, c)
  BY <1>1 DEF Under
<1>15. \A r, c : In(r, c)' = In(r, c) /\ FactsUnder(r, c)' = FactsUnder(r, c)
  BY <1>14 DEF In, FactsUnder
<1>16. \A v, S : Right(v, S)' <=> Right(v, S)
  BY <1>7 DEF Right
<1>17. \A f : InDrill(f)' <=> InDrill(f)
  BY DEF InDrill
<1> QED BY <1>2, <1>5, <1>7, <1>9, <1>10, <1>11, <1>12, <1>13, <1>15, <1>16, <1>17

-----------------------------------------------------------------------------
(* The pass over collapsed columns leaves the rows alone that are no leaves: their
   cells are totals, and none is shown below a column that is shown.           *)
LEMMA CollapsedQuiet ==
  ASSUME MatrixInv, pass = "colParents",
         NEW r, r \notin LeafRows, NEW c \in CollapsedCols, Missing(<<r, c>>)
  PROVE  ~IsValue(Added({r} \X ColsBelow(c)))
<1>1. /\ fetched \subseteq Facts /\ table \subseteq Facts /\ fetched \subseteq table
      /\ pass \in Summing /\ c \in Cols /\ c.kind = "data"
  BY DEF MatrixInv, SoFar, Summing, CollapsedCols
<1>2. c.path \in Seq(Nat)
  BY <1>1, ColFacts, ColPathFacts, Keys
<1>3. ASSUME NEW d \in ColsBelow(c) PROVE Cell(<<r, d>>).counts = Indicator({})
  <2>1. CASE <<r, d>> \notin DOMAIN cells
    BY <2>1, NothingThere
  <2>2. CASE <<r, d>> \in DOMAIN cells
    <3>1. <<r, d>> \in TotalKeys /\ d.kind = "data" /\ IsPrefix(c.path, d.path)
      BY <1>1, <2>2 DEF MatrixInv, PlacedInv, ColsBelow
    <3>2. d \in Cols
      <4>1. <<r, d>>[2] \in Cols
        BY <1>1, <3>1, TotalKeysAre
      <4> QED BY <4>1
    <3>3. d.path \in Seq(Nat)
      BY <1>1, <3>1, <3>2, ColFacts, ColPathFacts, Keys
    <3>4. AtMost(Cell(<<r, d>>), FactsUnder(r, d))
      <4> DEFINE k == <<r, d>>
      <4>1. TotalSays(k) /\ k[1] = r /\ k[2] = d
        BY <1>1, <3>1 DEF MatrixInv, TotalsInv
      <4> HIDE DEF k
      <4>2. AtMost(Cell(k), FactsUnder(r, d))
        BY <1>1, <4>1, TotalAtMost
      <4> QED BY <4>2 DEF k
    <3>5. PICK X \in SUBSET FactsUnder(r, d) : Cell(<<r, d>>).counts = Indicator(X)
      BY <3>4 DEF AtMost
    <3>6. CASE d = c
      <4>1. X \in SUBSET Facts
        BY <1>1 DEF FactsUnder
      <4> QED BY <3>5, <3>6, <4>1, NothingIn
    <3>7. CASE d # c
      <4>1. ASSUME NEW f \in FactsUnder(r, d) PROVE FALSE
        <5>1. f \in Facts /\ IsPrefix(d.path, f.col) /\ f.col \in Seq(Nat)
          BY <1>1, FactPaths DEF FactsUnder, Under
        <5>2. IsPrefix(c.path, f.col) /\ Len(c.path) <= Len(d.path)
          BY <1>2, <3>1, <3>3, <5>1, PrefixOfPrefix, PrefixIs
        <5> QED BY <1>1, <3>1, <3>2, <3>7, <5>1, <5>2, ShownApart
      <4>2. X = {}
        BY <4>1
      <4> QED BY <3>5, <4>2
    <3> QED BY <3>6, <3>7
  <2> QED BY <2>1, <2>2
<1>4. \A k \in {r} \X ColsBelow(c) : Cell(k).counts = Indicator({})
  BY <1>3
<1> QED BY <1>4, AddedNothing

\* The pass over column subtotals adds up totals only where the measure is BLANK, and
\* the totals of the columns shown below count different facts.
LEMMA SubtotalQuiet ==
  ASSUME MatrixInv, pass = "colSubtotals",
         NEW r, r \notin LeafRows, NEW c \in SubtotalCols, Missing(<<r, c>>),
         IsValue(Added({r} \X ShownColsBelow(c)))
  PROVE  /\ <<r, c>> \in TotalKeys /\ ~failed /\ BlankAt(r, c)
         /\ AtMost(Added({r} \X ShownColsBelow(c)), FactsUnder(r, c))
<1> DEFINE keys == {r} \X ShownColsBelow(c)
           S == [k \in keys |-> FactsUnder(r, k[2])]
<1>1. /\ fetched \subseteq Facts /\ table \subseteq Facts /\ fetched \subseteq table
      /\ pass \in Summing /\ pass \notin {"copy", "done"} /\ c \in Cols /\ c.kind = "subtotal"
  BY DEF MatrixInv, SoFar, Summing, SubtotalCols
<1>2. c.path \in Seq(Nat)
  BY <1>1, ColFacts, ColPathFacts, Keys
<1>3. \A k \in keys : /\ k = <<r, k[2]>> /\ k[1] = r /\ k[2] \in Cols /\ k[2].kind = "data"
                      /\ IsPrefix(c.path, k[2].path) /\ k[2].path \in Seq(Nat)
  BY <1>1, ColFacts, ColPathFacts, Keys DEF ShownColsBelow, IsStrictPrefix
<1>4. r \in Rows /\ r.kind # "data"
  <2>1. PICK k \in keys : k \in DOMAIN cells
    BY NothingThere, AddedNothing
  <2>2. k \in TotalKeys
    BY <1>1, <1>3, <2>1 DEF MatrixInv, PlacedInv
  <2>3. k[1] \in Rows \/ k[1] \in {Data(p) : p \in RowNodes}
    BY <1>1, <2>2, TotalKeysAre
  <2>4. k[1].kind # "data" \/ k[2] = GrandTotal
    BY <1>1, <2>2, TotalKeysAre
  <2> QED BY <1>3, <2>3, <2>4, Keys
<1>5. <<r, c>> \in TotalKeys /\ \A k \in keys : k \in TotalKeys
  BY <1>1, <1>3, <1>4, TotalKeysAre
<1>6. \A k \in keys : TotalSays(k)
  BY <1>1, <1>5 DEF MatrixInv, TotalsInv
<1>7. ASSUME NEW k \in keys PROVE AtMost(Cell(k), S[k]) /\ S[k] \subseteq FactsUnder(r, c)
  <2>1. AtMost(Cell(k), FactsUnder(k[1], k[2]))
    BY <1>1, <1>6, TotalAtMost
  <2>2. ASSUME NEW f \in FactsUnder(r, k[2]) PROVE f \in FactsUnder(r, c)
    <3>1. f \in table /\ IsPrefix(k[2].path, f.col) /\ IsPrefix(r.path, RowPath(f)) /\ f.col \in Seq(Nat)
      BY <1>1, FactPaths DEF FactsUnder, Under
    <3>2. IsPrefix(c.path, f.col)
      BY <1>2, <1>3, <3>1, PrefixOfPrefix
    <3> QED BY <3>1, <3>2 DEF FactsUnder, Under
  <2> QED BY <1>3, <2>1, <2>2
<1>8. \A j \in keys, k \in keys : j # k => S[j] \cap S[k] = {}
  <2> SUFFICES ASSUME NEW j \in keys, NEW k \in keys, NEW f, f \in S[j], f \in S[k] PROVE j = k
    OBVIOUS
  <2>1. f \in Facts /\ IsPrefix(j[2].path, f.col) /\ IsPrefix(k[2].path, f.col)
    BY <1>1 DEF FactsUnder, Under
  <2>2. Len(j[2].path) <= Len(k[2].path) \/ Len(k[2].path) <= Len(j[2].path)
    BY <1>3
  <2>3. j[2] = k[2]
    BY <1>1, <1>3, <2>1, <2>2, ShownApart
  <2> QED BY <1>3, <2>3
<1>9. S \in [keys -> SUBSET Facts] /\ FactsUnder(r, c) \in SUBSET Facts
  BY <1>1 DEF FactsUnder
<1>10. IsValue(Added(keys))
  OBVIOUS
<1> HIDE DEF S
<1>11. AtMost(Added(keys), FactsUnder(r, c))
  <2> HIDE DEF keys
  <2> QED BY <1>7, <1>8, <1>9, SumAtMost
<1>12. ~failed
  <2> SUFFICES ASSUME failed PROVE FALSE
    OBVIOUS
  <2>1. \A k \in keys : Cell(k).counts = Indicator({})
    BY <1>1, <1>6 DEF TotalSays
  <2> HIDE DEF keys
  <2> QED BY <1>10, <2>1, AddedNothing
<1> HIDE DEF keys
<1>13. BlankAt(r, c)
  <2> SUFFICES ASSUME ~BlankAt(r, c) PROVE FALSE
    OBVIOUS
  <2> DEFINE k == <<r, c>>
  <2>1. TotalSays(k) /\ k[1] = r /\ k[2] = c /\ Missing(k)
    BY <1>1, <1>5 DEF MatrixInv, TotalsInv
  <2> HIDE DEF k
  <2>2. Cell(k).counts = Indicator(FactsUnder(r, c))
    BY <1>12, <2>1 DEF TotalSays
  <2>3. FactsUnder(r, c) = {}
    BY <1>9, <2>1, <2>2, NothingIn
  <2> QED BY <1>10, <1>11, <2>3, AtMostNothing
<1> QED BY <1>5, <1>11, <1>12, <1>13 DEF keys

LEMMA LeavesHaveCells ==
  ASSUME LeafKeys \subseteq DOMAIN cells
  PROVE  LeafRows \subseteq CellRows /\ LeafCols \subseteq CellCols
<1>1. ASSUME NEW f \in fetched
      PROVE  Data(RowPath(f)) \in CellRows /\ Data(f.col) \in CellCols
  <2> DEFINE k == <<Data(RowPath(f)), Data(f.col)>>
  <2>1. k \in DOMAIN cells
    BY DEF LeafKeys
  <2>2. k[1] \in CellRows /\ k[2] \in CellCols
    BY <2>1 DEF CellRows, CellCols
  <2> QED BY <2>2
<1> QED BY <1>1 DEF LeafRows, LeafCols

LEMMA ColParentsSays ==
  ASSUME MatrixInv, ColParents, NEW k
  PROVE  /\ k \in LeafRows \X CollapsedCols => Cell(k)'.counts = Indicator(In(k[1], k[2]))
         /\ k \notin LeafRows \X CollapsedCols =>
              Cell(k)' = Cell(k) /\ (k \in DOMAIN cells' <=> k \in DOMAIN cells)
         /\ k \in DOMAIN cells => k \in DOMAIN cells'
<1> DEFINE sources == [j \in CellRows \X CollapsedCols |-> {j[1]} \X ColsBelow(j[2])]
<1>1. /\ fetched \subseteq Facts /\ pass = "colParents" /\ pass \in Summing
      /\ \A c \in CollapsedCols : /\ c \in Cols /\ c.kind = "data" /\ c # GrandTotal
                                  /\ c.path \in ColPaths /\ ~ColIsLeaf(c.path)
  BY ColFacts, Keys DEF MatrixInv, SoFar, Summing, ColParents, CollapsedCols
<1>2. PutSums(sources)
  BY DEF ColParents
<1>3. k \in DOMAIN cells => k \in DOMAIN cells'
  BY DEF ColParents, PutSums, Put
<1>4. k \in DOMAIN sources <=> k \in CellRows \X CollapsedCols
  OBVIOUS
<1>5. k \in DOMAIN sources => sources[k] = {k[1]} \X ColsBelow(k[2])
  OBVIOUS
<1> HIDE DEF sources
<1>6. CASE k \in LeafRows \X CollapsedCols
  <2>1. k = <<k[1], k[2]>> /\ k[1] \in LeafRows /\ k[2] \in CollapsedCols
    BY <1>6
  <2>2. LeafRows \subseteq CellRows /\ LeafCols \subseteq CellCols
    <3>1. LeafKeys \subseteq DOMAIN cells
      BY <1>1 DEF MatrixInv, PlacedInv
    <3> QED BY <3>1, LeavesHaveCells
  <2>3. k \in DOMAIN sources
    BY <1>4, <2>1, <2>2
  <2>4. \A d : d.kind = "data" /\ d \notin LeafCols => <<k[1], d>> \notin DOMAIN cells
    BY <1>1, <2>1, LeafIsNoTotal DEF MatrixInv, PlacedInv
  <2>5. k \notin DOMAIN cells
    <3>1. k[2] \notin LeafCols
      BY <1>1, <2>1, LeafColFacts DEF ColIsLeaf
    <3> QED BY <1>1, <2>1, <2>4, <3>1
  <2>6. Added({k[1]} \X ColsBelow(k[2])).counts = Indicator(In(k[1], k[2]))
    <3>1. \A d \in LeafCols : Cell(<<k[1], d>>).counts = Indicator(In(k[1], d))
      BY <1>1, <2>1 DEF MatrixInv, LeavesInv, FullCols
    <3>2. \A d \in ColsBelow(k[2]) \ LeafCols : Cell(<<k[1], d>>).counts = Indicator({})
      BY <2>4, NothingThere DEF ColsBelow
    <3> QED BY <1>1, <2>1, <2>2, <3>1, <3>2, CollapsedSum
  <2>7. In(k[1], k[2]) \in SUBSET Facts /\ Cell(k).counts = Indicator({})
    BY <1>1, <2>5, NothingThere DEF In
  <2>8. Cell(k)'.counts = Indicator(In(k[1], k[2]))
    BY <1>2, <1>5, <2>3, <2>6, <2>7, PutSumsSays
  <2> QED BY <1>3, <1>6, <2>8
<1>7. CASE k \notin LeafRows \X CollapsedCols
  <2>1. k \notin DOMAIN sources \/ ~Missing(k) \/ ~IsValue(Added(sources[k]))
    <3> SUFFICES ASSUME k \in DOMAIN sources, Missing(k) PROVE ~IsValue(Added({k[1]} \X ColsBelow(k[2])))
      BY <1>5
    <3>1. k = <<k[1], k[2]>> /\ k[2] \in CollapsedCols /\ k[1] \notin LeafRows
      BY <1>4, <1>7
    <3> QED BY <1>1, <3>1, CollapsedQuiet
  <2> QED BY <1>2, <1>3, <1>7, <2>1, PutSumsSays
<1> QED BY <1>6, <1>7

LEMMA ColSubtotalsSays ==
  ASSUME MatrixInv, ColSubtotals, NEW k
  PROVE  /\ k \in LeafRows \X SubtotalCols => Right(Cell(k)', In(k[1], k[2]))
         /\ k \notin LeafRows \X SubtotalCols =>
              \/ Cell(k)' = Cell(k) /\ (k \in DOMAIN cells' <=> k \in DOMAIN cells)
              \/ /\ k \in TotalKeys /\ ~failed /\ BlankAt(k[1], k[2]) /\ k[2].kind = "subtotal"
                 /\ Cell(k)'.by = "sum" /\ AtMost(Cell(k)', FactsUnder(k[1], k[2]))
         /\ k \in DOMAIN cells => k \in DOMAIN cells'
<1> DEFINE sources == [j \in CellRows \X SubtotalCols |-> {j[1]} \X ShownColsBelow(j[2])]
<1>1. /\ fetched \subseteq Facts /\ pass = "colSubtotals" /\ pass \in Summing
      /\ \A c \in SubtotalCols : /\ c \in Cols /\ c.kind = "subtotal" /\ c # GrandTotal
                                 /\ c.path \in ColPaths
  BY ColFacts, Keys DEF MatrixInv, SoFar, Summing, ColSubtotals, SubtotalCols
<1>2. PutSums(sources)
  BY DEF ColSubtotals
<1>3. k \in DOMAIN cells => k \in DOMAIN cells'
  BY DEF ColSubtotals, PutSums, Put
<1>4. k \in DOMAIN sources <=> k \in CellRows \X SubtotalCols
  OBVIOUS
<1>5. k \in DOMAIN sources => sources[k] = {k[1]} \X ShownColsBelow(k[2])
  OBVIOUS
<1> HIDE DEF sources
<1>6. CASE k \in LeafRows \X SubtotalCols
  <2>1. k = <<k[1], k[2]>> /\ k[1] \in LeafRows /\ k[2] \in SubtotalCols
    BY <1>6
  <2>2. LeafRows \subseteq CellRows
    <3>1. LeafKeys \subseteq DOMAIN cells
      BY <1>1 DEF MatrixInv, PlacedInv
    <3> QED BY <3>1, LeavesHaveCells
  <2>3. k \in DOMAIN sources
    BY <1>4, <2>1, <2>2
  <2>4. k \notin DOMAIN cells
    <3>1. k \notin TotalKeys
      BY <1>1, <2>1, LeafIsNoTotal
    <3>2. k[2] \notin LeafCols \cup CollapsedCols
      BY <1>1, <2>1, LeafColFacts DEF CollapsedCols
    <3> QED BY <1>1, <3>1, <3>2 DEF MatrixInv, PlacedInv
  <2>5. \A d \in Cols : d.kind = "data" => Cell(<<k[1], d>>).counts = Indicator(In(k[1], d))
    <3> SUFFICES ASSUME NEW d \in Cols, d.kind = "data" PROVE Cell(<<k[1], d>>).counts = Indicator(In(k[1], d))
      OBVIOUS
    <3>1. d \in FullCols \/ d \in CollapsedCols
      BY DEF FullCols, CollapsedCols
    <3> QED BY <1>1, <2>1, <3>1 DEF MatrixInv, LeavesInv
  <2>6. Right(Added({k[1]} \X ShownColsBelow(k[2])), In(k[1], k[2]))
    BY <1>1, <2>1, <2>5, SubtotalSum
  <2>7. PICK X \in SUBSET In(k[1], k[2]) :
          Added(sources[k]).counts = Indicator(X) /\ (Whole => X = In(k[1], k[2]))
    BY <1>5, <2>3, <2>6 DEF Right
  <2>8. X \in SUBSET Facts /\ Cell(k).counts = Indicator({})
    BY <1>1, <2>4, NothingThere DEF In
  <2>9. Cell(k)'.counts = Indicator(X)
    BY <1>2, <2>3, <2>7, <2>8, PutSumsSays
  <2> QED BY <1>3, <1>6, <2>7, <2>9 DEF Right
<1>7. CASE k \notin LeafRows \X SubtotalCols
  <2>1. CASE k \notin DOMAIN sources \/ ~Missing(k) \/ ~IsValue(Added(sources[k]))
    BY <1>2, <1>3, <1>7, <2>1, PutSumsSays
  <2>2. CASE k \in DOMAIN sources /\ Missing(k) /\ IsValue(Added(sources[k]))
    <3>1. k = <<k[1], k[2]>> /\ k[2] \in SubtotalCols /\ k[1] \notin LeafRows
      BY <1>4, <1>7, <2>2
    <3>2. sources[k] = {k[1]} \X ShownColsBelow(k[2])
      BY <1>5, <2>2
    <3>3. /\ k \in TotalKeys /\ ~failed /\ BlankAt(k[1], k[2])
          /\ AtMost(Added(sources[k]), FactsUnder(k[1], k[2]))
      BY <1>1, <2>2, <3>1, <3>2, SubtotalQuiet
    <3>4. Cell(k)' = Added(sources[k])
      BY <1>2, <2>2, PutSumsSays
    <3>5. Added(sources[k]).by = "sum"
      BY DEF Added
    <3> QED BY <1>1, <1>3, <1>7, <3>1, <3>3, <3>4, <3>5
  <2> QED BY <2>1, <2>2
<1> QED BY <1>6, <1>7

\* A cell of a leaf row in a column that is shown, once the columns are done.
LEMMA LeafRight ==
  ASSUME MatrixInv, pass \in {"rowParents"} \cup Filled, NEW l \in LeafRows,
         NEW c \in Cols, c # GrandTotal
  PROVE  Right(Cell(<<l, c>>), In(l, c))
<1>1. fetched \subseteq Facts
  BY DEF MatrixInv, SoFar
<1>2. CASE pass = "rowParents"
  <2>1. c \in FullCols \/ c \in CollapsedCols \/ c \in SubtotalCols
    BY <1>1, ColFacts DEF FullCols, CollapsedCols, SubtotalCols
  <2> QED BY <1>2, <2>1, Exact DEF MatrixInv, LeavesInv
<1>3. CASE pass \in Filled
  BY <1>3 DEF MatrixInv, LeavesInv
<1> QED BY <1>2, <1>3

LEMMA ClosedAre ==
  ASSUME fetched \subseteq Facts, NEW r \in ClosedRows
  PROVE  r \in Rows /\ r.kind = "data" /\ r = Data(r.path) /\ r.path \in RowNodes /\ r.path \in Seq(Nat)
BY RowFacts, NodeFacts, Keys DEF ClosedRows

LEMMA RowParentsSays ==
  ASSUME MatrixInv, RowParents, NEW k
  PROVE  /\ k \in (ClosedRows \X Cols) \ DOMAIN cells =>
              k[2] # GrandTotal /\ Right(Cell(k)', In(k[1], k[2]))
         /\ k \notin (ClosedRows \X Cols) \ DOMAIN cells =>
              Cell(k)' = Cell(k) /\ (k \in DOMAIN cells' <=> k \in DOMAIN cells)
<1> DEFINE new == [j \in (ClosedRows \X Cols) \ DOMAIN cells |-> Added(LeavesBelow(j[1].path) \X {j[2]})]
<1>1. fetched \subseteq Facts /\ pass = "rowParents" /\ pass \in Summing
  BY DEF MatrixInv, SoFar, Summing, RowParents
<1>2. Put(new)
  BY DEF RowParents
<1>3. k \in DOMAIN new <=> k \in (ClosedRows \X Cols) \ DOMAIN cells
  OBVIOUS
<1>4. k \in DOMAIN new => new[k] = Added(LeavesBelow(k[1].path) \X {k[2]})
  OBVIOUS
<1> HIDE DEF new
<1>5. CASE k \in (ClosedRows \X Cols) \ DOMAIN cells
  <2>1. k = <<k[1], k[2]>> /\ k[1] \in ClosedRows /\ k[2] \in Cols /\ k \notin DOMAIN cells
    BY <1>5
  <2>2. k[1].path \in Seq(Nat) /\ k[1] = Data(k[1].path) /\ k[1].path \in RowNodes
    BY <1>1, <2>1, ClosedAre
  <2>3. k[2] # GrandTotal
    <3>1. k \notin TotalKeys
      BY <1>1, <2>1 DEF MatrixInv, TotalsInv, TotalSays
    <3> QED BY <1>1, <2>1, <2>2, <3>1, TotalKeysAre
  <2>4. Right(Added(LeavesBelow(k[1].path) \X {k[2]}), In(k[1], k[2]))
    BY <1>1, <2>1, <2>2, <2>3, LeafRight, LeavesSum
  <2>5. Cell(k)' = Added(LeavesBelow(k[1].path) \X {k[2]})
    BY <1>2, <1>3, <1>4, <1>5, PutSays
  <2> QED BY <1>5, <2>3, <2>4, <2>5
<1>6. CASE k \notin (ClosedRows \X Cols) \ DOMAIN cells
  BY <1>2, <1>3, <1>6, PutSays
<1> QED BY <1>5, <1>6

LEMMA SubtotalsAre ==
  ASSUME fetched \subseteq Facts, NEW r \in SubtotalRows
  PROVE  /\ r \in Rows /\ r.kind = "subtotal" /\ r = Subtotal(r.path)
         /\ r.path \in RowNodes /\ r.path \in Seq(Nat)
         /\ RowShown(r.path) /\ RowOpen(r.path) /\ ~RowIsLeaf(r.path)
BY RowFacts, NodeFacts, Keys DEF SubtotalRows

\* The cells of the leaves below a subtotal in the grand total column are totals.
LEMMA GrandsBelow ==
  ASSUME MatrixInv, pass = "rowSubtotals", NEW r \in SubtotalRows, GrandTotal \in Cols
  PROVE  /\ AtMost(Added(LeavesBelow(r.path) \X {GrandTotal}), FactsUnder(r, GrandTotal))
         /\ failed => ~IsValue(Added(LeavesBelow(r.path) \X {GrandTotal}))
<1> DEFINE keys == LeavesBelow(r.path) \X {GrandTotal}
           S == [k \in keys |-> FactsUnder(k[1], GrandTotal)]
<1>1. /\ fetched \subseteq Facts /\ table \subseteq Facts /\ fetched \subseteq table
      /\ pass \in Summing /\ pass \notin {"copy", "done"} /\ r.path \in Seq(Nat)
  BY SubtotalsAre DEF MatrixInv, SoFar, Summing, Filled
<1>2. \A k \in keys : /\ k = <<k[1], GrandTotal>> /\ k[1] \in LeafRows /\ IsPrefix(r.path, k[1].path)
                      /\ k[2] = GrandTotal
  BY LeavesBelowAre
<1>3. ASSUME NEW k \in keys PROVE k[1] = Data(k[1].path) /\ k[1].kind = "data" /\ k \in TotalKeys
  <2> DEFINE l == k[1]
  <2>1. l \in LeafRows /\ l.path \in Seq(Nat) /\ l = Data(l.path) /\ l.kind = "data"
    BY <1>1, <1>2, LeafRowFacts
  <2>2. PICK f \in fetched : l = Data(RowPath(f)) /\ l.path = RowPath(f)
    BY <2>1, Keys DEF LeafRows
  <2> HIDE DEF l
  <2>3. RowPath(f) \in Seq(Nat) /\ Len(RowPath(f)) = RowDepth - RowFrom /\ RowDepth - RowFrom \in Nat
    BY <1>1, <2>2, FactPaths
  <2>4. l.path \in RowNodes
    <3>1. RowDepth - RowFrom \in 1..(RowDepth - RowFrom)
      BY <1>1, <2>3, SubtotalsAre, NodeFacts
    <3>2. SubSeq(RowPath(f), 1, RowDepth - RowFrom) = RowPath(f)
      BY <2>3
    <3> QED BY <1>1, <2>2, <3>1, <3>2, NodesAre
  <2>5. <<Data(l.path), GrandTotal>> \in TotalKeys
    BY <1>1, <2>4, TotalKeysAre
  <2>6. k = <<l, GrandTotal>>
    BY <1>2 DEF l
  <2> QED BY <2>1, <2>5, <2>6 DEF l
<1>4. \A k \in keys : TotalSays(k)
  BY <1>1, <1>3 DEF MatrixInv, TotalsInv
<1>5. ASSUME NEW k \in keys PROVE AtMost(Cell(k), S[k]) /\ S[k] \subseteq FactsUnder(r, GrandTotal)
  <2>1. AtMost(Cell(k), FactsUnder(k[1], k[2]))
    BY <1>1, <1>4, TotalAtMost
  <2>2. ASSUME NEW g \in FactsUnder(k[1], GrandTotal) PROVE g \in FactsUnder(r, GrandTotal)
    <3>1. /\ g \in table /\ g \in Facts /\ IsPrefix(k[1].path, RowPath(g))
          /\ IsPrefix(GrandTotal.path, g.col)
      BY <1>1 DEF FactsUnder, Under
    <3>2. k[1].path = RowPath(g)
      BY <1>1, <1>2, <3>1, LeafRowFacts
    <3>3. IsPrefix(r.path, RowPath(g))
      BY <1>2, <3>2
    <3> QED BY <3>1, <3>3 DEF FactsUnder, Under
  <2> QED BY <1>2, <2>1, <2>2
<1>6. \A j \in keys, k \in keys : j # k => S[j] \cap S[k] = {}
  <2> SUFFICES ASSUME NEW j \in keys, NEW k \in keys, NEW f, f \in S[j], f \in S[k] PROVE j = k
    OBVIOUS
  <2>1. f \in Facts /\ IsPrefix(j[1].path, RowPath(f)) /\ IsPrefix(k[1].path, RowPath(f))
    BY <1>1 DEF FactsUnder, Under
  <2>2. j[1] = k[1]
    BY <1>1, <1>2, <2>1, LeafRowFacts
  <2> QED BY <1>2, <2>2
<1>7. S \in [keys -> SUBSET Facts] /\ FactsUnder(r, GrandTotal) \in SUBSET Facts
  BY <1>1 DEF FactsUnder
<1> HIDE DEF S, keys
<1>8. AtMost(Added(keys), FactsUnder(r, GrandTotal))
  BY <1>5, <1>6, <1>7, SumAtMost
<1>9. failed => ~IsValue(Added(keys))
  <2> SUFFICES ASSUME failed PROVE ~IsValue(Added(keys))
    OBVIOUS
  <2>1. \A k \in keys : Cell(k).counts = Indicator({})
    BY <1>1, <1>2, <1>3, <1>4 DEF TotalSays
  <2> QED BY <2>1, AddedNothing
<1> QED BY <1>8, <1>9 DEF keys

LEMMA RowSubtotalsSays ==
  ASSUME MatrixInv, RowSubtotals, NEW k
  PROVE  /\ k \in SubtotalRows \X Cols /\ failed /\ k[2] # GrandTotal => Right(Cell(k)', In(k[1], k[2]))
         /\ ~(k \in SubtotalRows \X Cols /\ failed /\ k[2] # GrandTotal) =>
              \/ Cell(k)' = Cell(k)
              \/ /\ k \in SubtotalRows \X Cols /\ ~failed /\ BlankAt(k[1], k[2])
                 /\ Cell(k)'.by = "sum" /\ AtMost(Cell(k)', FactsUnder(k[1], k[2]))
         /\ k \in DOMAIN cells' <=> k \in DOMAIN cells
<1> DEFINE sources == [j \in SubtotalRows \X Cols |-> LeavesBelow(j[1].path) \X {j[2]}]
<1>1. /\ fetched \subseteq Facts /\ fetched \subseteq table /\ table \subseteq Facts
      /\ pass = "rowSubtotals" /\ pass \in Summing /\ pass \in Filled
  BY DEF MatrixInv, SoFar, Summing, Filled, RowSubtotals
<1>2. PutSums(sources)
  BY DEF RowSubtotals
<1>3. k \in DOMAIN cells => k \in DOMAIN cells'
  BY DEF RowSubtotals, PutSums, Put
<1>4. k \in DOMAIN sources <=> k \in SubtotalRows \X Cols
  OBVIOUS
<1>5. k \in DOMAIN sources => sources[k] = LeavesBelow(k[1].path) \X {k[2]}
  OBVIOUS
<1> HIDE DEF sources
<1>6. CASE k \notin SubtotalRows \X Cols
  BY <1>2, <1>4, <1>6, PutSumsSays
<1>7. CASE k \in SubtotalRows \X Cols
  <2>1. k = <<k[1], k[2]>> /\ k[1] \in SubtotalRows /\ k[2] \in Cols
    BY <1>7
  <2>2. k[1] \in Rows /\ k[1].kind = "subtotal" /\ k[1].path \in RowNodes /\ k[1].path \in Seq(Nat)
    BY <1>1, <2>1, SubtotalsAre
  <2>3. k \in TotalKeys /\ TotalSays(k)
    <3>1. k \in TotalKeys
      BY <1>1, <2>1, <2>2, TotalKeysAre
    <3> QED BY <1>1, <3>1 DEF MatrixInv, TotalsInv
  <2>4. k \in DOMAIN cells
    BY <2>3 DEF TotalSays
  <2>5. k[2] # GrandTotal => Right(Added(sources[k]), In(k[1], k[2]))
    BY <1>1, <1>4, <1>5, <1>7, <2>1, <2>2, LeafRight, LeavesSum
  <2>6. CASE failed /\ k[2] # GrandTotal
    <3>1. PICK X \in SUBSET In(k[1], k[2]) :
            Added(sources[k]).counts = Indicator(X) /\ (Whole => X = In(k[1], k[2]))
      BY <2>5, <2>6 DEF Right
    <3>2. X \in SUBSET Facts /\ Cell(k).counts = Indicator({})
      BY <1>1, <2>3, <2>6 DEF TotalSays, In
    <3>3. Cell(k)'.counts = Indicator(X)
      BY <1>2, <1>4, <1>7, <3>1, <3>2, PutSumsSays
    <3>4. Right(Cell(k)', In(k[1], k[2]))
      BY <3>1, <3>3 DEF Right
    <3> QED BY <1>3, <1>7, <2>4, <2>6, <3>4
  <2>7. CASE ~failed /\ k[2] # GrandTotal
    <3>1. AtMost(Added(sources[k]), FactsUnder(k[1], k[2]))
      BY <1>1, <2>5, <2>7 DEF Right, AtMost, In, FactsUnder
    <3>2. CASE ~IsValue(Added(sources[k])) \/ ~Missing(k)
      BY <1>2, <2>7, <3>2, PutSumsSays
    <3>3. CASE IsValue(Added(sources[k])) /\ Missing(k)
      <4>1. BlankAt(k[1], k[2])
        <5> SUFFICES ASSUME ~BlankAt(k[1], k[2]) PROVE FALSE
          OBVIOUS
        <5>1. Cell(k).counts = Indicator(FactsUnder(k[1], k[2])) /\ FactsUnder(k[1], k[2]) \in SUBSET Facts
          BY <1>1, <2>3, <2>7 DEF TotalSays, FactsUnder
        <5>2. FactsUnder(k[1], k[2]) = {}
          BY <3>3, <5>1, NothingIn
        <5> QED BY <3>1, <3>3, <5>2, AtMostNothing
      <4> QED BY <1>2, <1>4, <1>7, <2>4, <2>7, <3>1, <3>3, <4>1, PutSumsSays DEF Added
    <3> QED BY <3>2, <3>3
  <2>8. CASE k[2] = GrandTotal
    <3>1. sources[k] = LeavesBelow(k[1].path) \X {GrandTotal} /\ GrandTotal \in Cols
      BY <1>4, <1>5, <1>7, <2>1, <2>8
    <3>2. /\ AtMost(Added(sources[k]), FactsUnder(k[1], k[2]))
          /\ failed => ~IsValue(Added(sources[k]))
      BY <1>1, <2>1, <2>8, <3>1, GrandsBelow
    <3>3. CASE ~IsValue(Added(sources[k])) \/ ~Missing(k)
      BY <1>2, <2>8, <3>3, PutSumsSays
    <3>4. CASE IsValue(Added(sources[k])) /\ Missing(k)
      <4>1. BlankAt(k[1], k[2])
        <5> SUFFICES ASSUME ~BlankAt(k[1], k[2]) PROVE FALSE
          OBVIOUS
        <5>1. Cell(k).counts = Indicator(FactsUnder(k[1], k[2])) /\ FactsUnder(k[1], k[2]) \in SUBSET Facts
          BY <1>1, <2>3, <3>2, <3>4 DEF TotalSays, FactsUnder
        <5>2. FactsUnder(k[1], k[2]) = {}
          BY <3>4, <5>1, NothingIn
        <5> QED BY <3>2, <3>4, <5>2, AtMostNothing
      <4> QED BY <1>2, <1>4, <1>7, <2>4, <2>8, <3>2, <3>4, <4>1, PutSumsSays DEF Added
    <3> QED BY <3>3, <3>4
  <2> QED BY <1>7, <2>4, <2>6, <2>7, <2>8
<1> QED BY <1>6, <1>7


-----------------------------------------------------------------------------
(* The header of an open row is no closed row: the member after it on the path of
   a fact is shown below it.                                                  *)
LEMMA OpenHasChild ==
  ASSUME fetched \subseteq Facts, NEW p \in RowNodes, RowShown(p), RowOpen(p), ~RowIsLeaf(p)
  PROVE  \E q \in Rows : q.kind = "data" /\ IsStrictPrefix(p, q.path)
<1>1. PICK f \in fetched : p = SubSeq(RowPath(f), 1, Len(p)) /\ IsPrefix(p, RowPath(f))
  BY NodeFacts
<1>2. /\ p \in Seq(Nat) /\ Len(p) \in 1..(RowDepth - RowFrom)
      /\ RowPath(f) \in Seq(Nat) /\ Len(RowPath(f)) = RowDepth - RowFrom
      /\ RowDepth - RowFrom \in Nat /\ Len(p) # RowDepth - RowFrom
  BY NodeFacts, FactPaths DEF RowIsLeaf
<1> DEFINE n == Len(p) + 1
           q == SubSeq(RowPath(f), 1, n)
<1>3. n \in 1..(RowDepth - RowFrom) /\ n \in 0..Len(RowPath(f)) /\ n \in Nat /\ Len(p) < n
  BY <1>2
<1>4. q \in RowNodes /\ q \in Seq(Nat) /\ Len(q) = n /\ IsPrefix(q, RowPath(f))
  <2> HIDE DEF n
  <2> QED BY <1>2, <1>3, NodesAre, FirstMembers
<1> HIDE DEF q
<1>5. IsStrictPrefix(p, q)
  BY <1>1, <1>2, <1>3, <1>4, PrefixesNest DEF IsStrictPrefix
<1>6. ASSUME NEW s \in RowNodes, IsStrictPrefix(s, q) PROVE RowOpen(s)
  <2>1. s \in Seq(Nat) /\ IsPrefix(s, q) /\ s # q
    BY <1>6, NodeFacts DEF IsStrictPrefix
  <2>2. Len(s) <= Len(q) /\ Len(s) # Len(q) /\ Len(s) \in Nat
    BY <1>4, <2>1, PrefixIs, SameLength
  <2>3. IsPrefix(s, RowPath(f)) /\ Len(s) <= Len(p)
    BY <1>2, <1>4, <2>1, <2>2, PrefixOfPrefix
  <2>4. IsPrefix(s, p)
    BY <1>1, <1>2, <2>1, <2>3, PrefixesNest
  <2> QED BY <2>4 DEF RowShown, IsStrictPrefix
<1>7. Data(q) \in Rows
  BY <1>4, <1>6 DEF Rows, RowShown
<1> QED BY <1>5, <1>7, Keys

LEMMA HeadersApart ==
  ASSUME fetched \subseteq Facts, NEW h \in Headers
  PROVE  /\ h = Data(h.path) /\ h.kind = "data" /\ h.path \in RowNodes
         /\ Subtotal(h.path) \in SubtotalRows
         /\ h \notin LeafRows \cup ClosedRows
<1>1. PICK r \in SubtotalRows : h = Data(r.path)
  BY DEF Headers
<1>2. /\ r = Subtotal(r.path) /\ r.path \in RowNodes
      /\ RowShown(r.path) /\ RowOpen(r.path) /\ ~RowIsLeaf(r.path)
  BY SubtotalsAre
<1>3. h.path = r.path /\ h = Data(h.path) /\ h.kind = "data"
  BY <1>1, Keys
<1>4. h \notin LeafRows
  BY <1>1, <1>2, LeafRowsAre
<1>5. h \notin ClosedRows
  <2>1. \E q \in Rows : q.kind = "data" /\ IsStrictPrefix(r.path, q.path)
    BY <1>2, OpenHasChild
  <2> QED BY <1>3, <2>1 DEF ClosedRows
<1> QED BY <1>2, <1>3, <1>4, <1>5

LEMMA CopySays ==
  ASSUME MatrixInv, CopySubtotals, NEW k
  PROVE  /\ k \in Headers \X Cols => Cell(k)'.counts = Cell(<<Subtotal(k[1].path), k[2]>>).counts
         /\ k \notin Headers \X Cols =>
              Cell(k)' = Cell(k) /\ (k \in DOMAIN cells' <=> k \in DOMAIN cells)
         /\ k \in Headers \X Cols /\ k[2] = GrandTotal =>
              \/ Cell(k)' = Cell(k)
              \/ /\ ~failed /\ BlankAt(k[1], k[2]) /\ HasSubtotal(k[1])
                 /\ Cell(k)'.by = "sum" /\ AtMost(Cell(k)', FactsUnder(k[1], k[2]))
         /\ k \in DOMAIN cells => k \in DOMAIN cells'
<1> DEFINE keys == {Data(r.path) : r \in SubtotalRows} \X Cols
           from(j) == <<Subtotal(j[1].path), j[2]>>
           new == [j \in {i \in keys : Missing(i) /\ ~Missing(from(i))} |-> Cell(from(j))]
<1>1. /\ fetched \subseteq Facts /\ table \subseteq Facts /\ fetched \subseteq table
      /\ pass = "copy" /\ pass \in Summing
  BY DEF MatrixInv, SoFar, Summing, Filled, CopySubtotals
<1>2. Put(new)
  BY DEF CopySubtotals
<1>3. k \in DOMAIN new <=> k \in Headers \X Cols /\ Missing(k) /\ ~Missing(from(k))
  BY DEF Headers
<1>4. k \in DOMAIN new => new[k] = Cell(from(k))
  OBVIOUS
<1>5. k \in DOMAIN cells => k \in DOMAIN cells'
  BY DEF CopySubtotals, Put
<1>6. /\ k \in DOMAIN new => Cell(k)' = new[k]
      /\ k \notin DOMAIN new => Cell(k)' = Cell(k) /\ (k \in DOMAIN cells' <=> k \in DOMAIN cells)
  <2> HIDE DEF new
  <2> QED BY <1>2, PutSays
<1> HIDE DEF new, from
<1>7. CASE k \notin Headers \X Cols
  BY <1>3, <1>5, <1>6, <1>7
<1>8. CASE k \in Headers \X Cols
  <2>1. k = <<k[1], k[2]>> /\ k[1] \in Headers /\ k[2] \in Cols
    BY <1>8
  <2> DEFINE r == Subtotal(k[1].path)
  <2>2. /\ k[1].kind = "data" /\ k[1] = Data(k[1].path) /\ k[1].path \in RowNodes
        /\ k[1] \notin LeafRows \cup ClosedRows
        /\ r \in SubtotalRows
    BY <1>1, <2>1, HeadersApart
  <2>3. r \in Rows /\ r.kind = "subtotal" /\ r.path = k[1].path
    BY <1>1, <2>2, SubtotalsAre, Keys
  <2>4. from(k) = <<r, k[2]>> /\ from(k)[1] = r /\ from(k)[2] = k[2]
    BY DEF from
  <2> HIDE DEF r
  <2>5. from(k) \in TotalKeys /\ TotalSays(from(k))
    <3>1. <<r, k[2]>> \in TotalKeys
      BY <1>1, <2>1, <2>3, TotalKeysAre
    <3> QED BY <1>1, <2>4, <3>1 DEF MatrixInv, TotalsInv
  <2>6. PICK S \in SUBSET Facts : Cell(from(k)).counts = Indicator(S)
    <3>1. FactsUnder(r, k[2]) \in SUBSET Facts /\ In(r, k[2]) \in SUBSET Facts /\ {} \in SUBSET Facts
      BY <1>1 DEF FactsUnder, In
    <3>2. AtMost(Cell(from(k)), FactsUnder(r, k[2]))
      <4> DEFINE j == from(k)
      <4>1. TotalSays(j) /\ j[1] = r /\ j[2] = k[2]
        BY <2>4, <2>5
      <4> HIDE DEF j
      <4>2. AtMost(Cell(j), FactsUnder(r, k[2]))
        BY <1>1, <4>1, TotalAtMost
      <4> QED BY <4>2 DEF j
    <3> QED BY <3>1, <3>2 DEF AtMost
  <2>7. CASE k[2] = GrandTotal
    <3>1. k \in TotalKeys
      <4>1. <<Data(k[1].path), GrandTotal>> \in TotalKeys
        BY <1>1, <2>1, <2>2, <2>7, TotalKeysAre
      <4> QED BY <2>1, <2>2, <2>7, <4>1
    <3>2. TotalSays(k)
      BY <1>1, <3>1 DEF MatrixInv, TotalsInv
    <3>3. FactsUnder(k[1], k[2]) = FactsUnder(r, k[2])
      BY <2>3 DEF FactsUnder, Under
    <3>4. CASE failed \/ ~BlankAt(k[1], k[2])
      <4>1. BlankAt(k[1], k[2]) <=> BlankAt(r, k[2])
        BY <2>3 DEF BlankAt
      <4>2. Cell(k).counts = Cell(from(k)).counts
        BY <2>2, <2>3, <2>4, <2>5, <2>7, <3>2, <3>3, <3>4, <4>1 DEF TotalSays
      <4>3. k \notin DOMAIN new
        BY <1>3, <4>2 DEF Missing, IsValue
      <4> QED BY <1>5, <1>6, <1>8, <2>4, <4>2, <4>3 DEF r
    <3>5. CASE ~failed /\ BlankAt(k[1], k[2])
      <4>1. BlankSays(k) /\ BlankSays(from(k))
        BY <2>3, <2>4, <2>5, <3>2, <3>5 DEF TotalSays, BlankAt
      <4>2. Missing(k) /\ AtMost(Cell(k), FactsUnder(k[1], k[2]))
        BY <1>1, <2>2, <2>7, <4>1, Keys DEF BlankSays, MayAdd, Missing
      <4>3. PICK X \in SUBSET Facts : Cell(k).counts = Indicator(X)
        BY <1>1, <4>2 DEF AtMost, FactsUnder
      <4>4. Cell(k).counts = Indicator({})
        BY <4>2, <4>3, NothingIn
      <4>5. CASE Missing(from(k))
        <5>1. S = {}
          BY <2>6, <4>5, NothingIn
        <5> QED BY <1>3, <1>5, <1>6, <1>8, <2>4, <2>6, <4>4, <4>5, <5>1 DEF r
      <4>6. CASE ~Missing(from(k))
        <5>1. Cell(k)' = Cell(from(k))
          BY <1>3, <1>4, <1>6, <1>8, <4>2, <4>6
        <5>2. Cell(from(k)).by = "sum"
          BY <4>1, <4>6 DEF BlankSays, Missing
        <5>3. AtMost(Cell(from(k)), FactsUnder(k[1], k[2]))
          BY <2>4, <3>3, <4>1 DEF BlankSays
        <5>4. HasSubtotal(k[1])
          BY <2>2, <2>3 DEF HasSubtotal, r
        <5> QED BY <1>5, <1>8, <2>4, <3>5, <5>1, <5>2, <5>3, <5>4 DEF r
      <4> QED BY <4>5, <4>6
    <3> QED BY <3>4, <3>5
  <2>8. CASE k[2] # GrandTotal
    <3>1. k \notin DOMAIN cells
      <4>1. k \notin TotalKeys
        BY <1>1, <2>2, <2>8, TotalKeysAre
      <4> QED BY <1>1, <2>2, <4>1 DEF MatrixInv, PlacedInv
    <3>2. Cell(k).counts = Indicator({}) /\ Missing(k)
      BY <3>1, NothingThere
    <3>3. CASE Missing(from(k))
      <4>1. S = {}
        BY <2>6, <3>3, NothingIn
      <4> QED BY <1>3, <1>5, <1>6, <1>8, <2>4, <2>6, <2>8, <3>2, <3>3, <4>1 DEF r
    <3>4. CASE ~Missing(from(k))
      <4>1. Cell(k)' = Cell(from(k))
        BY <1>3, <1>4, <1>6, <1>8, <3>2, <3>4
      <4> QED BY <1>5, <1>8, <2>4, <2>8, <4>1 DEF r
    <3> QED BY <3>3, <3>4
  <2> QED BY <2>7, <2>8
<1> QED BY <1>7, <1>8

-----------------------------------------------------------------------------
(* Each pass keeps the invariant.                                             *)
LEMMA TotalStays ==
  ASSUME UNCHANGED <<table, spec, fetched, failed, blank>>, NEW k, TotalSays(k), Cell(k)' = Cell(k),
         k \in DOMAIN cells',
         pass \in {"copy", "done"} \/ pass' \notin {"copy", "done"}
           \/ ~(failed /\ k[1].kind = "subtotal" /\ k[2] # GrandTotal),
         pass \in {"copy", "done"} => pass' \in {"copy", "done"},
         pass = "done" => pass' = "done"
  PROVE  TotalSays(k)'
<1>1. (\A r, c : FactsUnder(r, c)' = FactsUnder(r, c) /\ In(r, c)' = In(r, c)) /\ (Whole' <=> Whole)
  BY SameShape
<1>2. FactsUnder(k[1], k[2])' = FactsUnder(k[1], k[2]) /\ In(k[1], k[2])' = In(k[1], k[2])
  BY <1>1
<1>3. Right(Cell(k), In(k[1], k[2]))' <=> Right(Cell(k), In(k[1], k[2]))
  BY <1>1, <1>2 DEF Right, Indicator
<1>4. BlankAt(k[1], k[2])' <=> BlankAt(k[1], k[2])
  BY DEF BlankAt
<1>5. BlankSays(k) => BlankSays(k)'
  <2>1. HasSubtotal(k[1])' <=> HasSubtotal(k[1])
    BY SameShape DEF HasSubtotal, Subtotal
  <2>2. AtMost(Cell(k), FactsUnder(k[1], k[2]))' <=> AtMost(Cell(k), FactsUnder(k[1], k[2]))
    BY <1>2 DEF AtMost, Indicator
  <2>3. IsValue(Cell(k))' <=> IsValue(Cell(k))
    BY DEF IsValue
  <2>4. MayAdd(k) => MayAdd(k)'
    BY <2>1 DEF MayAdd
  <2> QED BY <2>2, <2>3, <2>4 DEF BlankSays
<1> QED BY <1>2, <1>3, <1>4, <1>5 DEF TotalSays, EvaluatedTotal, Indicator

LEMMA BlankAdds ==
  ASSUME UNCHANGED <<table, spec, fetched, failed, blank>>, NEW k, k \in DOMAIN cells',
         ~failed, BlankAt(k[1], k[2]), Cell(k)'.by = "sum", MayAdd(k)',
         AtMost(Cell(k)', FactsUnder(k[1], k[2]))
  PROVE  TotalSays(k)'
<1>1. BlankAt(k[1], k[2])'
  BY DEF BlankAt
<1>2. \A r, c : FactsUnder(r, c)' = FactsUnder(r, c)
  BY SameShape
<1>3. AtMost(Cell(k), FactsUnder(k[1], k[2]))'
  BY <1>2 DEF AtMost, Indicator
<1> QED BY <1>1, <1>3 DEF TotalSays, BlankSays

LEMMA QuietMatrix ==
  ASSUME MatrixInv, UNCHANGED vars
  PROVE  MatrixInv'
<1>1. UNCHANGED <<table, spec, pass, fetched, failed, blank, cells>>
  BY DEF vars
<1>2. \A k : Cell(k)' = Cell(k)
  BY <1>1 DEF Cell, NoValue, Indicator
<1>3. SoFar'
  BY <1>1, <1>2, SameShape DEF MatrixInv, SoFar
<1>4. TotalsInv'
  BY <1>1, <1>2, SameShape, TotalStays DEF MatrixInv, TotalsInv, TotalSays
<1>5. LeavesInv'
  BY <1>1, <1>2, SameShape DEF MatrixInv, LeavesInv
<1>6. PlacedInv'
  BY <1>1, <1>2, SameShape DEF MatrixInv, PlacedInv
<1>7. HeadersInv'
  BY <1>1, <1>2, SameShape DEF MatrixInv, HeadersInv
<1> QED BY <1>3, <1>4, <1>5, <1>6, <1>7 DEF MatrixInv

LEMMA QueryFills ==
  ASSUME MatrixInv, Query
  PROVE  MatrixInv'
<1>1. /\ pass' = "leaves" /\ UNCHANGED <<table, spec, cells>>
      /\ fetched' = {f \in table : InDrill(f)} /\ table \subseteq Facts /\ DOMAIN cells = {}
  BY DEF MatrixInv, SoFar, Query
<1>2. \A f : InDrill(f)' <=> InDrill(f)
  BY <1>1 DEF InDrill
<1>3. SoFar'
  BY <1>1, <1>2 DEF SoFar
<1> QED BY <1>1, <1>3 DEF MatrixInv, TotalsInv, LeavesInv, PlacedInv, HeadersInv, Summing, Filled

LEMMA LeavesFill ==
  ASSUME MatrixInv, Leaves
  PROVE  MatrixInv'
<1> DEFINE at(f) == <<Data(RowPath(f)), Data(f.col)>>
           new == [k \in {at(f) : f \in fetched} |-> Evaluated({f \in fetched : at(f) = k})]
<1>1. /\ pass' = "totals" /\ UNCHANGED <<table, spec, fetched, failed, blank>> /\ Put(new)
      /\ table \subseteq Facts /\ fetched \subseteq table /\ DOMAIN cells = {}
      /\ fetched = {f \in table : InDrill(f)}
  BY DEF MatrixInv, SoFar, Leaves
<1>2. DOMAIN new = LeafKeys
  BY DEF LeafKeys
<1>3. ASSUME NEW k \in LeafKeys PROVE new[k].counts = Indicator(In(k[1], k[2]))
  <2>1. PICK g \in fetched : k = at(g)
    BY DEF LeafKeys
  <2>2. k[1] \in LeafRows /\ k[2] \in LeafCols /\ k[1].path = RowPath(g) /\ k[2].path = g.col
    BY <2>1, Keys DEF LeafRows, LeafCols
  <2>3. ASSUME NEW f \in fetched PROVE at(f) = k <=> f \in In(k[1], k[2])
    <3>1. f \in In(k[1], k[2]) <=> RowPath(f) = RowPath(g) /\ f.col = g.col
      BY <1>1, <2>2, LeafRowFacts, LeafColFacts DEF In, Under
    <3>2. at(f) = at(g) <=> RowPath(f) = RowPath(g) /\ f.col = g.col
      <4>1. Data(RowPath(f)) = Data(RowPath(g)) => RowPath(f) = RowPath(g)
        BY Keys
      <4>2. Data(f.col) = Data(g.col) => f.col = g.col
        BY Keys
      <4> QED BY <4>1, <4>2
    <3> QED BY <2>1, <3>1, <3>2
  <2>4. {f \in fetched : at(f) = k} = In(k[1], k[2])
    BY <2>3 DEF In
  <2> QED BY <2>4, <1>2 DEF Evaluated
<1> HIDE DEF new
<1>4. \A k \in LeafKeys : Cell(k)'.counts = Indicator(In(k[1], k[2]))
  BY <1>1, <1>2, <1>3, PutSays
<1>5. DOMAIN cells' = LeafKeys
  BY <1>1, <1>2 DEF Put
<1>6. SoFar'
  <2>1. /\ LeafKeys' = LeafKeys /\ (\A r, c : In(r, c)' = In(r, c))
        /\ \A f : InDrill(f)' <=> InDrill(f)
    BY <1>1, SameShape
  <2>2. \A k \in LeafKeys : Cell(k)'.counts = Indicator(In(k[1], k[2])')
    BY <1>4, <2>1
  <2> QED BY <1>1, <1>5, <2>1, <2>2 DEF SoFar, Indicator
<1> QED BY <1>1, <1>6 DEF MatrixInv, TotalsInv, LeavesInv, PlacedInv, HeadersInv, Summing, Filled

\* A row and a column of full length have the facts of one cell.
LEMMA FullCells ==
  ASSUME fetched \subseteq Facts, NEW r \in LeafRows, NEW c \in FullCols, <<r, c>> \notin LeafKeys
  PROVE  In(r, c) = {}
<1>1. c.kind = "data" /\ c = Data(c.path) /\ c.path \in Seq(Nat) /\ Len(c.path) = ColDepth
  BY ColFacts, ColPathFacts, LeafColFacts, Keys DEF FullCols, ColIsLeaf
<1>2. ASSUME NEW f \in In(r, c) PROVE FALSE
  <2>1. f \in fetched /\ IsPrefix(r.path, RowPath(f)) /\ IsPrefix(c.path, f.col)
    BY DEF In, Under
  <2>2. r = Data(RowPath(f))
    BY <2>1, LeafRowFacts
  <2>3. c.path = f.col
    BY <1>1, <2>1, FactPaths, SameLength
  <2> QED BY <1>1, <2>1, <2>2, <2>3 DEF LeafKeys
<1> QED BY <1>2

LEMMA TotalsFill ==
  ASSUME MatrixInv, Totals
  PROVE  MatrixInv'
<1> DEFINE new == [k \in TotalKeys |->
                     IF failed' \/ BlankAt(k[1], k[2])' THEN NoValue
                     ELSE EvaluatedTotal(FactsUnder(k[1], k[2]))]
<1>1. /\ pass = "totals" /\ pass' = "colParents" /\ UNCHANGED <<table, spec, fetched>> /\ Put(new)
      /\ table \subseteq Facts /\ fetched \subseteq table /\ fetched \subseteq Facts
      /\ fetched = {f \in table : InDrill(f)} /\ DOMAIN cells = LeafKeys
      /\ \A k \in LeafKeys : Cell(k).counts = Indicator(In(k[1], k[2]))
  BY DEF MatrixInv, SoFar, Totals
<1>2. /\ TotalKeys' = TotalKeys /\ LeafKeys' = LeafKeys /\ LeafRows' = LeafRows
      /\ LeafCols' = LeafCols /\ FullCols' = FullCols
      /\ \A r, c : In(r, c)' = In(r, c) /\ FactsUnder(r, c)' = FactsUnder(r, c)
      /\ \A f : InDrill(f)' <=> InDrill(f)
  BY <1>1, SameShape
<1>3. DOMAIN new = TotalKeys
  OBVIOUS
<1>4. \A k \in TotalKeys : new[k] = IF failed' \/ BlankAt(k[1], k[2])' THEN NoValue
                                    ELSE EvaluatedTotal(FactsUnder(k[1], k[2]))
  OBVIOUS
<1> HIDE DEF new
<1>5. ASSUME NEW k \in TotalKeys PROVE TotalSays(k)'
  <2>1. k \in DOMAIN cells' /\ Cell(k)' = IF failed' \/ BlankAt(k[1], k[2])' THEN NoValue
                                         ELSE EvaluatedTotal(FactsUnder(k[1], k[2]))
    BY <1>1, <1>3, <1>4, PutSays
  <2>2. FactsUnder(k[1], k[2])' = FactsUnder(k[1], k[2])
    BY <1>2
  <2>3. CASE failed'
    <3>1. Cell(k)'.counts = Indicator({})
      BY <2>1, <2>3 DEF NoValue
    <3> QED BY <1>1, <2>1, <2>3, <3>1 DEF TotalSays, Indicator
  <2>4. CASE ~failed' /\ ~BlankAt(k[1], k[2])'
    <3>1. Cell(k)' = EvaluatedTotal(FactsUnder(k[1], k[2]))
      BY <2>1, <2>4
    <3>2. Cell(k)'.counts = Indicator(FactsUnder(k[1], k[2]))
      BY <3>1 DEF EvaluatedTotal
    <3> QED BY <1>1, <2>1, <2>2, <2>4, <3>1, <3>2 DEF TotalSays, EvaluatedTotal, Indicator
  <2>5. CASE ~failed' /\ BlankAt(k[1], k[2])'
    <3>1. Cell(k)'.counts = Indicator({})
      BY <2>1, <2>5 DEF NoValue
    <3>2. AtMost(Cell(k), FactsUnder(k[1], k[2]))'
      <4>1. Cell(k)'.counts = Indicator({})'
        BY <3>1 DEF Indicator
      <4> QED BY <4>1 DEF AtMost
    <3>3. ~IsValue(Cell(k))'
      BY <3>1 DEF IsValue, Indicator
    <3> QED BY <2>1, <2>5, <3>2, <3>3 DEF TotalSays, BlankSays
  <2> QED BY <2>3, <2>4, <2>5
<1>6. ASSUME NEW r \in LeafRows, NEW c \in FullCols
      PROVE  Cell(<<r, c>>)'.counts = Indicator(In(r, c))
  <2>1. c.kind # "grand"
    BY <1>1, LeafColFacts DEF FullCols
  <2>2. Cell(<<r, c>>)' = Cell(<<r, c>>)
    BY <1>1, <1>3, <2>1, LeafIsNoTotal, PutSays
  <2>3. CASE <<r, c>> \in LeafKeys
    BY <1>1, <2>2, <2>3
  <2>4. CASE <<r, c>> \notin LeafKeys
    BY <1>1, <2>2, <2>4, FullCells, NothingThere
  <2> QED BY <2>3, <2>4
<1>7. LeavesInv'
  <2>1. \A r \in LeafRows', c \in FullCols' : Cell(<<r, c>>)'.counts = Indicator(In(r, c)')
    BY <1>2, <1>6
  <2> QED BY <1>1, <2>1 DEF LeavesInv, Filled, Indicator
<1>8. PlacedInv'
  <2>1. DOMAIN cells' = LeafKeys \cup TotalKeys
    BY <1>1, <1>3 DEF Put
  <2>2. \A k \in LeafKeys : k[1] \in LeafRows /\ k[2] \in LeafCols
    BY DEF LeafKeys, LeafRows, LeafCols
  <2> QED BY <1>1, <1>2, <2>1, <2>2 DEF PlacedInv, Summing, Filled
<1>9. SoFar'
  BY <1>1, <1>2 DEF SoFar, Summing, Filled
<1>10. TotalsInv'
  BY <1>2, <1>5 DEF TotalsInv
<1>11. HeadersInv'
  BY <1>1 DEF HeadersInv
<1> QED BY <1>7, <1>8, <1>9, <1>10, <1>11 DEF MatrixInv

LEMMA ColParentsFill ==
  ASSUME MatrixInv, ColParents
  PROVE  MatrixInv'
<1>1. /\ pass = "colParents" /\ pass' = "colSubtotals" /\ UNCHANGED <<table, spec, fetched, failed, blank>>
      /\ pass \in Summing /\ fetched \subseteq Facts
      /\ table \subseteq Facts /\ fetched \subseteq table /\ fetched = {f \in table : InDrill(f)}
  BY DEF MatrixInv, SoFar, ColParents, Summing
<1>2. /\ TotalKeys' = TotalKeys /\ LeafKeys' = LeafKeys /\ LeafRows' = LeafRows
      /\ LeafCols' = LeafCols /\ FullCols' = FullCols /\ CollapsedCols' = CollapsedCols
      /\ \A r, c : In(r, c)' = In(r, c)
      /\ \A f : InDrill(f)' <=> InDrill(f)
  BY <1>1, SameShape
<1>3. \A c \in CollapsedCols \cup FullCols : c.kind # "grand"
  BY <1>1, LeafColFacts DEF CollapsedCols, FullCols
<1>4. ASSUME NEW k \in TotalKeys PROVE TotalSays(k)'
  <2>1. TotalSays(k) /\ k \in DOMAIN cells
    BY <1>1 DEF MatrixInv, TotalsInv, TotalSays
  <2>2. k \notin LeafRows \X CollapsedCols
    BY <1>1, <1>3, LeafIsNoTotal
  <2>3. Cell(k)' = Cell(k) /\ k \in DOMAIN cells'
    BY <2>1, <2>2, ColParentsSays
  <2> QED BY <1>1, <2>1, <2>3, TotalStays
<1>5. ASSUME NEW r \in LeafRows, NEW c \in FullCols \cup CollapsedCols
      PROVE  Cell(<<r, c>>)'.counts = Indicator(In(r, c))
  <2>1. CASE c \in CollapsedCols
    BY <2>1, ColParentsSays
  <2>2. CASE c \notin CollapsedCols
    <3>1. Cell(<<r, c>>)' = Cell(<<r, c>>)
      BY <2>2, ColParentsSays
    <3> QED BY <1>1, <2>2, <3>1 DEF MatrixInv, LeavesInv
  <2> QED BY <2>1, <2>2
<1>6. LeavesInv'
  <2>1. \A r \in LeafRows', c \in FullCols' \cup CollapsedCols' :
          Cell(<<r, c>>)'.counts = Indicator(In(r, c)')
    BY <1>2, <1>5
  <2> QED BY <1>1, <2>1 DEF LeavesInv, Filled, Indicator
<1>7. PlacedInv'
  <2>1. \A k \in DOMAIN cells : k \in DOMAIN cells'
    BY ColParentsSays
  <2>2. \A k \in DOMAIN cells' : k \in DOMAIN cells \/ k \in LeafRows \X CollapsedCols
    BY ColParentsSays
  <2>3. \A k \in DOMAIN cells' :
          k \in TotalKeys \/ (k[1] \in LeafRows /\ k[2] \in LeafCols \cup CollapsedCols)
    BY <1>1, <2>2 DEF MatrixInv, PlacedInv
  <2>4. LeafKeys \subseteq DOMAIN cells'
    BY <1>1, <2>1 DEF MatrixInv, PlacedInv
  <2> QED BY <1>1, <1>2, <2>3, <2>4 DEF PlacedInv, Summing, Filled
<1>8. SoFar'
  BY <1>1, <1>2 DEF SoFar, Summing, Filled
<1>9. TotalsInv'
  BY <1>2, <1>4 DEF TotalsInv
<1>10. HeadersInv'
  BY <1>1 DEF HeadersInv
<1> QED BY <1>6, <1>7, <1>8, <1>9, <1>10 DEF MatrixInv

LEMMA ColSubtotalsFill ==
  ASSUME MatrixInv, ColSubtotals
  PROVE  MatrixInv'
<1>1. /\ pass = "colSubtotals" /\ pass' = "rowParents" /\ UNCHANGED <<table, spec, fetched, failed, blank>>
      /\ pass \in Summing /\ fetched \subseteq Facts
      /\ table \subseteq Facts /\ fetched \subseteq table /\ fetched = {f \in table : InDrill(f)}
  BY DEF MatrixInv, SoFar, ColSubtotals, Summing
<1>2. /\ TotalKeys' = TotalKeys /\ LeafKeys' = LeafKeys /\ LeafRows' = LeafRows
      /\ FullCols' = FullCols /\ CollapsedCols' = CollapsedCols /\ SubtotalCols' = SubtotalCols
      /\ \A r, c : In(r, c)' = In(r, c)
      /\ \A v, S : Right(v, S)' <=> Right(v, S)
      /\ \A f : InDrill(f)' <=> InDrill(f)
      /\ (Whole' <=> Whole)
  BY <1>1, SameShape
<1>3. /\ \A c \in SubtotalCols : c.kind = "subtotal"
      /\ \A c \in CollapsedCols \cup FullCols : c.kind = "data"
  BY <1>1, LeafColFacts DEF CollapsedCols, FullCols, SubtotalCols
<1>4. ASSUME NEW k \in TotalKeys PROVE TotalSays(k)'
  <2>1. TotalSays(k) /\ k \in DOMAIN cells
    BY <1>1 DEF MatrixInv, TotalsInv, TotalSays
  <2>2. k \notin LeafRows \X SubtotalCols /\ k \in DOMAIN cells'
    <3>1. k \notin LeafRows \X SubtotalCols
      BY <1>1, <1>3, LeafIsNoTotal
    <3> QED BY <2>1, <3>1, ColSubtotalsSays
  <2>3. CASE Cell(k)' = Cell(k)
    BY <1>1, <2>1, <2>2, <2>3, TotalStays
  <2>4. CASE Cell(k)' # Cell(k)
    <3>1. /\ ~failed /\ BlankAt(k[1], k[2]) /\ k[2].kind = "subtotal"
          /\ Cell(k)'.by = "sum" /\ AtMost(Cell(k)', FactsUnder(k[1], k[2]))
      BY <2>2, <2>4, ColSubtotalsSays
    <3> QED BY <1>1, <2>2, <3>1, BlankAdds DEF MayAdd
  <2> QED BY <2>3, <2>4
<1>5. ASSUME NEW r \in LeafRows, NEW c \in FullCols \cup CollapsedCols
      PROVE  Cell(<<r, c>>)'.counts = Indicator(In(r, c))
  <2>1. Cell(<<r, c>>)' = Cell(<<r, c>>)
    BY <1>3, ColSubtotalsSays
  <2> QED BY <1>1, <2>1 DEF MatrixInv, LeavesInv
<1>6. ASSUME NEW r \in LeafRows, NEW c \in SubtotalCols PROVE Right(Cell(<<r, c>>)', In(r, c))
  BY ColSubtotalsSays
<1>7. LeavesInv'
  <2>1. \A r \in LeafRows', c \in FullCols' \cup CollapsedCols' :
          Cell(<<r, c>>)'.counts = Indicator(In(r, c)')
    BY <1>2, <1>5
  <2>2. ASSUME NEW r \in LeafRows', NEW c \in SubtotalCols' PROVE Right(Cell(<<r, c>>), In(r, c))'
    <3>1. Right(Cell(<<r, c>>)', In(r, c)) /\ In(r, c)' = In(r, c)
      BY <1>2, <1>6
    <3> QED BY <1>2, <3>1 DEF Right, Indicator
  <2> QED BY <1>1, <2>1, <2>2 DEF LeavesInv, Filled, Indicator
<1>8. PlacedInv'
  <2>1. \A k \in DOMAIN cells : k \in DOMAIN cells'
    BY ColSubtotalsSays
  <2>2. \A k \in DOMAIN cells' : k \in DOMAIN cells \/ k \in LeafRows \X SubtotalCols \/ k \in TotalKeys
    BY ColSubtotalsSays
  <2>3. \A k \in DOMAIN cells' : k \in TotalKeys \/ k[1] \in LeafRows
    BY <1>1, <2>2 DEF MatrixInv, PlacedInv
  <2>4. LeafKeys \subseteq DOMAIN cells'
    BY <1>1, <2>1 DEF MatrixInv, PlacedInv
  <2> QED BY <1>1, <1>2, <2>3, <2>4 DEF PlacedInv, Summing, Filled
<1>9. SoFar'
  BY <1>1, <1>2 DEF SoFar, Summing, Filled
<1>10. TotalsInv'
  BY <1>2, <1>4 DEF TotalsInv
<1>11. HeadersInv'
  BY <1>1 DEF HeadersInv
<1> QED BY <1>7, <1>8, <1>9, <1>10, <1>11 DEF MatrixInv

LEMMA DataRowFacts ==
  ASSUME fetched \subseteq Facts, NEW r \in LeafRows \cup ClosedRows
  PROVE  r.kind = "data" /\ r \notin SubtotalRows /\ r \notin Headers
BY LeafRowFacts, ClosedAre, HeadersApart DEF SubtotalRows

LEMMA RowParentsFill ==
  ASSUME MatrixInv, RowParents
  PROVE  MatrixInv'
<1>1. /\ pass = "rowParents" /\ pass' = "rowSubtotals" /\ UNCHANGED <<table, spec, fetched, failed, blank>>
      /\ pass \in Summing /\ fetched \subseteq Facts
      /\ table \subseteq Facts /\ fetched \subseteq table /\ fetched = {f \in table : InDrill(f)}
  BY DEF MatrixInv, SoFar, RowParents, Summing
<1>2. /\ TotalKeys' = TotalKeys /\ LeafKeys' = LeafKeys /\ LeafRows' = LeafRows
      /\ ClosedRows' = ClosedRows /\ Cols' = Cols
      /\ \A r, c : In(r, c)' = In(r, c)
      /\ \A f : InDrill(f)' <=> InDrill(f)
      /\ (Whole' <=> Whole)
  BY <1>1, SameShape
<1>3. ASSUME NEW k \in TotalKeys PROVE TotalSays(k)'
  <2>1. TotalSays(k) /\ k \in DOMAIN cells
    BY <1>1 DEF MatrixInv, TotalsInv, TotalSays
  <2>2. Cell(k)' = Cell(k) /\ k \in DOMAIN cells'
    BY <2>1, RowParentsSays
  <2> QED BY <1>1, <2>1, <2>2, TotalStays
<1>4. ASSUME NEW r \in LeafRows \cup ClosedRows, NEW c \in Cols, c # GrandTotal
      PROVE  Right(Cell(<<r, c>>)', In(r, c))
  <2> DEFINE k == <<r, c>>
  <2>1. CASE k \in (ClosedRows \X Cols) \ DOMAIN cells
    BY <2>1, RowParentsSays
  <2>2. CASE k \notin (ClosedRows \X Cols) \ DOMAIN cells
    <3>1. Cell(k)' = Cell(k)
      BY <2>2, RowParentsSays
    <3>2. r \in LeafRows
      <4> SUFFICES ASSUME r \in ClosedRows, k \in DOMAIN cells PROVE r \in LeafRows
        BY <2>2
      <4>1. k \notin TotalKeys
        BY <1>1, <1>4, TotalKeysAre, DataRowFacts
      <4> QED BY <1>1, <4>1 DEF MatrixInv, PlacedInv
    <3> QED BY <1>1, <1>4, <3>1, <3>2, LeafRight
  <2> QED BY <2>1, <2>2
<1>5. LeavesInv'
  <2>1. ASSUME NEW r \in LeafRows' \cup ClosedRows', NEW c \in Cols' \ {GrandTotal}
        PROVE  Right(Cell(<<r, c>>), In(r, c))'
    <3>1. Right(Cell(<<r, c>>)', In(r, c)) /\ In(r, c)' = In(r, c)
      BY <1>2, <1>4
    <3> QED BY <1>2, <3>1 DEF Right, Indicator
  <2> QED BY <1>1, <2>1 DEF LeavesInv, GrandTotal
<1>6. PlacedInv'
  <2>1. \A k \in DOMAIN cells : k \in DOMAIN cells'
    BY DEF RowParents, Put
  <2>2. \A k \in DOMAIN cells' : k \in DOMAIN cells \/ k[1] \in ClosedRows
    BY RowParentsSays
  <2>3. \A k \in DOMAIN cells' : k \in TotalKeys \/ k[1] \in LeafRows \cup ClosedRows
    BY <1>1, <2>2 DEF MatrixInv, PlacedInv
  <2>4. LeafKeys \subseteq DOMAIN cells'
    BY <1>1, <2>1 DEF MatrixInv, PlacedInv
  <2> QED BY <1>1, <1>2, <2>3, <2>4 DEF PlacedInv, Summing, Filled
<1>7. SoFar'
  BY <1>1, <1>2 DEF SoFar, Summing, Filled
<1>8. TotalsInv'
  BY <1>2, <1>3 DEF TotalsInv
<1>9. HeadersInv'
  BY <1>1 DEF HeadersInv
<1> QED BY <1>5, <1>6, <1>7, <1>8, <1>9 DEF MatrixInv

LEMMA RowSubtotalsFill ==
  ASSUME MatrixInv, RowSubtotals
  PROVE  MatrixInv'
<1>1. /\ pass = "rowSubtotals" /\ pass' = "copy" /\ UNCHANGED <<table, spec, fetched, failed, blank>>
      /\ pass \in Summing /\ pass \in Filled /\ fetched \subseteq Facts
      /\ table \subseteq Facts /\ fetched \subseteq table /\ fetched = {f \in table : InDrill(f)}
  BY DEF MatrixInv, SoFar, RowSubtotals, Summing, Filled
<1>2. /\ TotalKeys' = TotalKeys /\ LeafKeys' = LeafKeys /\ LeafRows' = LeafRows
      /\ ClosedRows' = ClosedRows /\ Cols' = Cols
      /\ \A r, c : In(r, c)' = In(r, c)
      /\ \A f : InDrill(f)' <=> InDrill(f)
      /\ (Whole' <=> Whole)
  BY <1>1, SameShape
<1>3. ASSUME NEW k \in TotalKeys PROVE TotalSays(k)'
  <2>1. TotalSays(k) /\ k \in DOMAIN cells
    BY <1>1 DEF MatrixInv, TotalsInv, TotalSays
  <2>2. k \in DOMAIN cells'
    BY <2>1, RowSubtotalsSays
  <2>3. CASE failed /\ k[1].kind = "subtotal" /\ k[2] # GrandTotal
    <3>1. k = <<k[1], k[2]>> /\ k[2] \in Cols
          /\ (k[1] \in Rows \/ k[1] \in {Data(p) : p \in RowNodes})
      BY <1>1, TotalKeysAre
    <3>2. k[1] \in SubtotalRows
      BY <2>3, <3>1, Keys DEF SubtotalRows
    <3>3. k \in SubtotalRows \X Cols
      BY <3>1, <3>2
    <3>4. Right(Cell(k)', In(k[1], k[2]))
      BY <2>3, <3>3, RowSubtotalsSays
    <3>5. In(k[1], k[2])' = In(k[1], k[2])
      BY <1>2
    <3>6. Right(Cell(k), In(k[1], k[2]))'
      BY <1>2, <3>4, <3>5 DEF Right, Indicator
    <3> QED BY <1>1, <2>2, <2>3, <3>6 DEF TotalSays, GrandTotal
  <2>4. CASE ~(failed /\ k[1].kind = "subtotal" /\ k[2] # GrandTotal)
    <3>1. ~(k \in SubtotalRows \X Cols /\ failed /\ k[2] # GrandTotal)
      BY <2>4 DEF SubtotalRows
    <3>2. CASE Cell(k)' = Cell(k)
      BY <1>1, <2>1, <2>2, <2>4, <3>2, TotalStays
    <3>3. CASE Cell(k)' # Cell(k)
      <4>1. /\ k \in SubtotalRows \X Cols /\ ~failed /\ BlankAt(k[1], k[2])
            /\ Cell(k)'.by = "sum" /\ AtMost(Cell(k)', FactsUnder(k[1], k[2]))
        BY <3>1, <3>3, RowSubtotalsSays
      <4>2. k[1].kind = "subtotal"
        BY <4>1 DEF SubtotalRows
      <4> QED BY <1>1, <2>2, <4>1, <4>2, BlankAdds DEF MayAdd
    <3> QED BY <3>2, <3>3
  <2> QED BY <2>3, <2>4
<1>4. ASSUME NEW r \in LeafRows \cup ClosedRows, NEW c
      PROVE  Cell(<<r, c>>)' = Cell(<<r, c>>)
  <2>1. <<r, c>> \notin SubtotalRows \X Cols
    BY <1>1, DataRowFacts
  <2> QED BY <2>1, RowSubtotalsSays
<1>5. LeavesInv'
  <2>1. ASSUME NEW r \in LeafRows' \cup ClosedRows', NEW c \in Cols' \ {GrandTotal}
        PROVE  Right(Cell(<<r, c>>), In(r, c))'
    <3>1. r \in LeafRows \cup ClosedRows /\ c \in Cols \ {GrandTotal}
      BY <1>2 DEF GrandTotal
    <3>2. Right(Cell(<<r, c>>), In(r, c)) /\ Cell(<<r, c>>)' = Cell(<<r, c>>) /\ In(r, c)' = In(r, c)
      BY <1>1, <1>2, <1>4, <3>1 DEF MatrixInv, LeavesInv
    <3> QED BY <1>2, <3>2 DEF Right, Indicator
  <2> QED BY <1>1, <2>1 DEF LeavesInv, GrandTotal
<1>6. PlacedInv'
  <2>1. \A k : k \in DOMAIN cells' <=> k \in DOMAIN cells
    BY RowSubtotalsSays
  <2> QED BY <1>1, <1>2, <2>1 DEF MatrixInv, PlacedInv, Summing, Filled
<1>7. SoFar'
  BY <1>1, <1>2 DEF SoFar, Summing, Filled
<1>8. TotalsInv'
  BY <1>2, <1>3 DEF TotalsInv
<1>9. HeadersInv'
  BY <1>1 DEF HeadersInv
<1> QED BY <1>5, <1>6, <1>7, <1>8, <1>9 DEF MatrixInv

LEMMA CopyFills ==
  ASSUME MatrixInv, CopySubtotals
  PROVE  MatrixInv'
<1>1. /\ pass = "copy" /\ pass' = "done" /\ UNCHANGED <<table, spec, fetched, failed, blank>>
      /\ pass \in Summing /\ pass \in Filled /\ fetched \subseteq Facts
      /\ table \subseteq Facts /\ fetched \subseteq table /\ fetched = {f \in table : InDrill(f)}
  BY DEF MatrixInv, SoFar, CopySubtotals, Summing, Filled
<1>2. /\ TotalKeys' = TotalKeys /\ LeafKeys' = LeafKeys /\ LeafRows' = LeafRows
      /\ ClosedRows' = ClosedRows /\ SubtotalRows' = SubtotalRows /\ Headers' = Headers
      /\ Cols' = Cols
      /\ \A r, c : In(r, c)' = In(r, c)
      /\ \A f : InDrill(f)' <=> InDrill(f)
      /\ (Whole' <=> Whole)
  BY <1>1, SameShape
<1>3. ASSUME NEW k \in TotalKeys PROVE TotalSays(k)'
  <2>1. TotalSays(k) /\ k \in DOMAIN cells
    BY <1>1 DEF MatrixInv, TotalsInv, TotalSays
  <2>2. k \notin Headers \X Cols \/ k[2] = GrandTotal
    BY <1>1, TotalKeysAre, HeadersApart
  <2>3. k \in DOMAIN cells'
    BY <2>1, CopySays
  <2>4. CASE Cell(k)' = Cell(k)
    BY <1>1, <2>1, <2>3, <2>4, TotalStays
  <2>5. CASE Cell(k)' # Cell(k)
    <3>1. /\ ~failed /\ BlankAt(k[1], k[2]) /\ HasSubtotal(k[1])
          /\ Cell(k)'.by = "sum" /\ AtMost(Cell(k)', FactsUnder(k[1], k[2]))
      BY <2>2, <2>5, CopySays
    <3>2. HasSubtotal(k[1])'
      BY <1>1, <3>1, SameShape DEF HasSubtotal, Subtotal
    <3> QED BY <1>1, <2>3, <3>1, <3>2, BlankAdds DEF MayAdd
  <2> QED BY <2>4, <2>5
<1>4. ASSUME NEW r, NEW c, r \notin Headers PROVE Cell(<<r, c>>)' = Cell(<<r, c>>)
  <2>1. <<r, c>> \notin Headers \X Cols
    BY <1>4
  <2> QED BY <2>1, CopySays
<1>5. LeavesInv'
  <2>1. ASSUME NEW r \in LeafRows' \cup ClosedRows', NEW c \in Cols' \ {GrandTotal}
        PROVE  Right(Cell(<<r, c>>), In(r, c))'
    <3>1. r \in LeafRows \cup ClosedRows /\ c \in Cols \ {GrandTotal}
      BY <1>2 DEF GrandTotal
    <3>2. r \notin Headers
      BY <1>1, <3>1, DataRowFacts
    <3>3. Right(Cell(<<r, c>>), In(r, c)) /\ Cell(<<r, c>>)' = Cell(<<r, c>>) /\ In(r, c)' = In(r, c)
      BY <1>1, <1>2, <1>4, <3>1, <3>2 DEF MatrixInv, LeavesInv
    <3> QED BY <1>2, <3>3 DEF Right, Indicator
  <2> QED BY <1>1, <2>1 DEF LeavesInv, GrandTotal
<1>6. PlacedInv'
  <2>1. \A k \in DOMAIN cells : k \in DOMAIN cells'
    BY CopySays
  <2>2. \A k \in DOMAIN cells' : k \in DOMAIN cells \/ k[1] \in Headers
    BY CopySays
  <2>3. \A k \in DOMAIN cells' : k \in TotalKeys \/ k[1] \in LeafRows \cup ClosedRows \cup Headers
    BY <1>1, <2>2 DEF MatrixInv, PlacedInv
  <2>4. LeafKeys \subseteq DOMAIN cells'
    BY <1>1, <2>1 DEF MatrixInv, PlacedInv
  <2> QED BY <1>1, <1>2, <2>3, <2>4 DEF PlacedInv, Summing, Filled
<1>7. HeadersInv'
  <2>1. ASSUME NEW r \in SubtotalRows', NEW c \in Cols'
        PROVE  Cell(<<Data(r.path), c>>)'.counts = Cell(<<r, c>>)'.counts
    <3>1. r \in SubtotalRows /\ c \in Cols
      BY <1>2
    <3>2. r = Subtotal(r.path) /\ r.kind = "subtotal"
      BY <1>1, <3>1, SubtotalsAre
    <3>3. r \notin Headers
      BY <1>1, <3>2, HeadersApart
    <3>4. Cell(<<r, c>>)' = Cell(<<r, c>>)
      BY <1>4, <3>3
    <3> DEFINE k == <<Data(r.path), c>>
    <3>5. k \in Headers \X Cols /\ <<Subtotal(k[1].path), k[2]>> = <<r, c>>
      BY <3>1, <3>2, Keys DEF Headers
    <3>6. Cell(k)'.counts = Cell(<<Subtotal(k[1].path), k[2]>>).counts
      BY <3>5, CopySays
    <3> QED BY <3>4, <3>5, <3>6
  <2> QED BY <2>1 DEF HeadersInv, Data
<1>8. SoFar'
  BY <1>1, <1>2 DEF SoFar, Summing, Filled
<1>9. TotalsInv'
  BY <1>2, <1>3 DEF TotalsInv
<1> QED BY <1>5, <1>6, <1>7, <1>8, <1>9 DEF MatrixInv

LEMMA InitMatrix == RequestInit => MatrixInv
BY DEF RequestInit, MatrixInv, SoFar, TotalsInv, LeavesInv, PlacedInv, HeadersInv, Summing, Filled

LEMMA MatrixStep == MatrixInv /\ [RequestNext]_allVars => MatrixInv'
<1> SUFFICES ASSUME MatrixInv, [RequestNext]_allVars PROVE MatrixInv'
  OBVIOUS
<1>1. CASE FillMatrix
  <2>1. CASE Done
    BY <2>1, QuietMatrix DEF Done
  <2> QED
    BY <1>1, <2>1, QueryFills, LeavesFill, TotalsFill, ColParentsFill, ColSubtotalsFill,
       RowParentsFill, RowSubtotalsFill, CopyFills DEF FillMatrix, Next
<1>2. ASSUME NEW p, RenderMatrix(p) PROVE MatrixInv'
  <2>1. CASE UNCHANGED vars
    BY <2>1, QuietMatrix
  <2>2. CASE ~ UNCHANGED vars
    <3>1. /\ pass = "idle" /\ pass' = "query" /\ table' \in SUBSET Facts
          /\ fetched' = {} /\ cells' = cells /\ DOMAIN cells = {}
      BY <1>2, <2>2 DEF RenderMatrix, Idle, MatrixInv, SoFar
    <3> QED BY <3>1 DEF MatrixInv, SoFar, TotalsInv, LeavesInv, PlacedInv, HeadersInv, Summing, Filled
  <2> QED BY <2>1, <2>2
<1>3. CASE ChangeStep \/ Receive \/ UNCHANGED allVars
  <2>1. UNCHANGED vars
    BY <1>3 DEF ChangeStep, PutSelections, Store, PutParameters, SaveVisual, DayPasses, ForgetPlans,
                Changed, Receive, allVars
  <2> QED BY <2>1, QuietMatrix
<1>4. ASSUME NEW p, Render(p) \/ Highlight(p) \/ Batch(p) \/ Tooltip(p) \/ Export(p) PROVE MatrixInv'
  <2>1. UNCHANGED vars
    BY <1>4 DEF Render, Highlight, Batch, Tooltip, Export, AskOne, AskTwo, Answered
  <2> QED BY <2>1, QuietMatrix
<1>5. ASSUME NEW kind, GetSelections(kind) PROVE MatrixInv'
  BY <1>5, QuietMatrix DEF GetSelections
<1> QED BY <1>1, <1>2, <1>3, <1>4, <1>5 DEF RequestNext, RequestStep

-----------------------------------------------------------------------------
(* The finished matrix.                                                       *)
LEMMA TotalIsDone ==
  ASSUME MatrixInv, pass = "done", NEW r \in Rows, NEW c \in Cols, r.kind # "data" \/ c = GrandTotal
  PROVE  /\ ~failed /\ ~BlankAt(r, c) =>
              /\ Cell(<<r, c>>).counts = Indicator(FactsUnder(r, c))
              /\ FactsUnder(r, c) # {} => Cell(<<r, c>>) = EvaluatedTotal(FactsUnder(r, c))
         /\ ~failed /\ BlankAt(r, c) =>
              /\ AtMost(Cell(<<r, c>>), FactsUnder(r, c))
              /\ IsValue(Cell(<<r, c>>)) =>
                   /\ Cell(<<r, c>>).by = "sum"
                   /\ r.kind = "subtotal" \/ c.kind = "subtotal" \/ HasSubtotal(r)
         /\ failed => IF r.kind = "subtotal" /\ c # GrandTotal THEN Right(Cell(<<r, c>>), In(r, c))
                      ELSE Cell(<<r, c>>).counts = Indicator({})
<1>1. fetched \subseteq Facts /\ pass \in Summing
  BY DEF MatrixInv, SoFar, Summing, Filled
<1> DEFINE k == <<r, c>>
<1>2. k \in TotalKeys /\ k[1] = r /\ k[2] = c
  BY <1>1, TotalKeysAre
<1>3. TotalSays(k)
  BY <1>1, <1>2 DEF MatrixInv, TotalsInv
<1> HIDE DEF k
<1>4. /\ ~failed /\ ~BlankAt(r, c) =>
           /\ Cell(k).counts = Indicator(FactsUnder(r, c))
           /\ FactsUnder(r, c) # {} => Cell(k) = EvaluatedTotal(FactsUnder(r, c))
      /\ ~failed /\ BlankAt(r, c) =>
           /\ AtMost(Cell(k), FactsUnder(r, c))
           /\ IsValue(Cell(k)) => /\ Cell(k).by = "sum"
                                  /\ r.kind = "subtotal" \/ c.kind = "subtotal" \/ HasSubtotal(r)
      /\ failed => IF r.kind = "subtotal" /\ c # GrandTotal THEN Right(Cell(k), In(r, c))
                   ELSE Cell(k).counts = Indicator({})
  BY <1>2, <1>3 DEF TotalSays, BlankSays, MayAdd
<1> QED BY <1>4 DEF k

Excused(r, c) == BareHeader(r, c) \/ (failed /\ (r = GrandTotal \/ c = GrandTotal)) \/ BlankTotal(r, c)

\* A total, of all facts or, failed, of those drilled into, or BLANK.
LEMMA TotalCounts ==
  ASSUME MatrixInv, pass = "done", NEW r \in Rows, NEW c \in Cols, r.kind # "data" \/ c = GrandTotal
  PROVE  \E X \in SUBSET Scope(r, c) : /\ Cell(<<r, c>>).counts = Indicator(X)
                                       /\ Whole => X = Scope(r, c) \/ Excused(r, c)
<1>1. fetched \subseteq Facts /\ fetched = {f \in table : InDrill(f)}
  BY DEF MatrixInv, SoFar
<1>2. IsTotal(r, c)
  BY Keys DEF IsTotal
<1>3. CASE ~failed
  <2>1. Scope(r, c) = FactsUnder(r, c)
    BY <1>2, <1>3 DEF Scope, FactsUnder
  <2>2. CASE BlankAt(r, c)
    BY <1>2, <1>3, <2>1, <2>2, TotalIsDone DEF AtMost, Excused, BlankTotal
  <2>3. CASE ~BlankAt(r, c)
    BY <1>3, <2>1, <2>3, TotalIsDone
  <2> QED BY <2>2, <2>3
<1>4. CASE failed
  <2>1. Scope(r, c) = In(r, c)
    BY <1>1, <1>4 DEF Scope, FactsUnder, In
  <2>2. CASE r.kind = "subtotal" /\ c # GrandTotal
    BY <1>4, <2>1, <2>2, TotalIsDone DEF Right
  <2>3. CASE ~(r.kind = "subtotal" /\ c # GrandTotal)
    <3>1. Cell(<<r, c>>).counts = Indicator({})
      BY <1>4, <2>3, TotalIsDone
    <3>2. r = GrandTotal \/ c = GrandTotal
      BY <1>1, <2>3, RowFacts
    <3> QED BY <1>4, <3>1, <3>2 DEF Excused
  <2> QED BY <2>2, <2>3
<1> QED BY <1>3, <1>4

LEMMA DoneCounts ==
  ASSUME MatrixInv, pass = "done", NEW r \in Rows, NEW c \in Cols
  PROVE  \E X \in SUBSET Scope(r, c) : /\ Cell(<<r, c>>).counts = Indicator(X)
                                       /\ Whole => X = Scope(r, c) \/ Excused(r, c)
<1>1. fetched \subseteq Facts /\ fetched = {f \in table : InDrill(f)}
  BY DEF MatrixInv, SoFar
<1>2. CASE r.kind # "data" \/ c = GrandTotal
  BY <1>2, TotalCounts
<1>3. CASE r.kind = "data" /\ c # GrandTotal
  <2>1. r = Data(r.path) /\ r.path \in RowNodes /\ c.kind # "grand"
    BY <1>1, <1>3, RowFacts, ColFacts
  <2>2. CASE r \in LeafRows \cup ClosedRows
    <3>1. Right(Cell(<<r, c>>), In(r, c))
      BY <1>3, <2>2 DEF MatrixInv, LeavesInv, Filled
    <3>2. ~ HasSubtotal(r)
      <4> SUFFICES ASSUME Subtotal(r.path) \in Rows PROVE FALSE
        BY DEF HasSubtotal
      <4>1. Subtotal(r.path) \in SubtotalRows
        BY Keys DEF SubtotalRows
      <4>2. Data(Subtotal(r.path).path) \in Headers
        BY <4>1 DEF Headers
      <4> QED BY <1>1, <2>1, <2>2, <4>2, DataRowFacts, Keys
    <3>3. Scope(r, c) = In(r, c)
      BY <1>1, <1>3, <2>1, <3>2 DEF Scope, FactsUnder, In, IsTotal
    <3> QED BY <3>1, <3>3 DEF Right
  <2>3. CASE r \in Headers
    <3> DEFINE s == Subtotal(r.path)
    <3>1. s \in SubtotalRows /\ s \in Rows /\ s.kind = "subtotal" /\ s.path = r.path
      BY <1>1, <2>3, HeadersApart, SubtotalsAre, Keys
    <3>2. Cell(<<r, c>>).counts = Cell(<<s, c>>).counts
      BY <2>1, <3>1 DEF MatrixInv, HeadersInv
    <3>3. HasSubtotal(r) /\ IsTotal(s, c)
      BY <1>3, <3>1 DEF HasSubtotal, IsTotal
    <3>4. Scope(r, c) = Scope(s, c)
      BY <3>1, <3>3 DEF Scope, FactsUnder, Under
    <3>5. Excused(s, c) => Excused(r, c)
      BY <1>3, <3>1, <3>3, Keys DEF Excused, BareHeader, BlankTotal, BlankAt
    <3>6. \E X \in SUBSET Scope(s, c) : /\ Cell(<<s, c>>).counts = Indicator(X)
                                        /\ Whole => X = Scope(s, c) \/ Excused(s, c)
      BY <3>1, TotalCounts
    <3> HIDE DEF s
    <3> QED BY <3>2, <3>4, <3>5, <3>6
  <2>4. CASE r \notin LeafRows \cup ClosedRows \cup Headers
    <3>1. <<r, c>> \notin DOMAIN cells
      <4>1. <<r, c>> \notin TotalKeys
        BY <1>1, <1>3, TotalKeysAre
      <4> QED BY <2>4, <4>1 DEF MatrixInv, PlacedInv
    <3>2. Cell(<<r, c>>).counts = Indicator({})
      BY <3>1, NothingThere
    <3>3. ~ RowIsLeaf(r.path)
      BY <1>1, <2>1, <2>4, LeafRowsAre
    <3>4. RowOpen(r.path)
      <4>1. PICK q \in Rows : q.kind = "data" /\ IsStrictPrefix(r.path, q.path)
        BY <1>3, <2>4 DEF ClosedRows
      <4>2. RowShown(q.path)
        BY <1>1, <4>1, RowFacts
      <4> QED BY <2>1, <4>1, <4>2 DEF RowShown
    <3>5. ~ spec.rowSubs
      <4> SUFFICES ASSUME spec.rowSubs PROVE FALSE
        OBVIOUS
      <4>1. RowShown(r.path)
        BY <1>1, <1>3, RowFacts
      <4>2. Subtotal(r.path) \in Rows
        BY <2>1, <3>3, <3>4, <4>1 DEF Rows
      <4>3. Subtotal(r.path) \in SubtotalRows
        BY <4>2, Keys DEF SubtotalRows
      <4>4. Data(Subtotal(r.path).path) \in Headers
        BY <4>3 DEF Headers
      <4> QED BY <2>1, <2>4, <4>4, Keys
    <3>6. Excused(r, c)
      BY <1>3, <3>3, <3>4, <3>5 DEF Excused, BareHeader
    <3> QED BY <3>2, <3>6
  <2> QED BY <2>2, <2>3, <2>4
<1> QED BY <1>2, <1>3

LEMMA MatrixImplies ==
  MatrixInv => CountsEachFactOnce /\ CompleteWhenWhole /\ TotalsAreEvaluated
<1> SUFFICES ASSUME MatrixInv PROVE CountsEachFactOnce /\ CompleteWhenWhole /\ TotalsAreEvaluated
  OBVIOUS
<1>1. CountsEachFactOnce
  <2> SUFFICES ASSUME pass = "done", NEW r \in Rows, NEW c \in Cols, NEW f \in Facts
               PROVE  Cell(<<r, c>>).counts[f] <= IF f \in Scope(r, c) THEN 1 ELSE 0
    BY DEF CountsEachFactOnce
  <2>1. PICK X \in SUBSET Scope(r, c) : Cell(<<r, c>>).counts = Indicator(X)
    BY DoneCounts
  <2>2. Cell(<<r, c>>).counts[f] = IF f \in X THEN 1 ELSE 0
    BY <2>1 DEF Indicator
  <2> QED BY <2>2
<1>2. CompleteWhenWhole
  BY DoneCounts DEF CompleteWhenWhole, Excused
<1>3. TotalsAreEvaluated
  <2> SUFFICES ASSUME pass = "done", ~failed, NEW r \in Rows, NEW c \in Cols,
                      IsTotal(r, c), FactsUnder(r, c) # {}
               PROVE  IF ~BlankAt(r, c) THEN Cell(<<r, c>>) = EvaluatedTotal(FactsUnder(r, c))
                      ELSE IsValue(Cell(<<r, c>>)) =>
                             /\ Cell(<<r, c>>).by = "sum"
                             /\ r.kind = "subtotal" \/ c.kind = "subtotal" \/ HasSubtotal(r)
    BY DEF TotalsAreEvaluated
  <2>1. fetched \subseteq Facts
    BY DEF MatrixInv, SoFar
  <2>2. r.kind # "data" \/ c = GrandTotal
    BY <2>1, ColFacts DEF IsTotal
  <2> QED BY <2>2, TotalIsDone
<1> QED BY <1>1, <1>2, <1>3

(* The passes of execute_matrix_query add no cell twice, and none to a key that does
   not cover it: a parent and what is below it are never in one sum, although each
   pass finds its sources among all the cells that the passes before it left.   *)
THEOREM FactsCountOnce == RequestSpec => []CountsEachFactOnce
BY InitMatrix, MatrixStep, MatrixImplies, PTL DEF RequestSpec

(* Opening and closing rows and columns never changes what a total says: when no
   column was cut and none is blank, each pass finds below a key all the cells of
   its facts, also when the totals could not be evaluated.                      *)
THEOREM WholeIsComplete == RequestSpec => []CompleteWhenWhole
BY InitMatrix, MatrixStep, MatrixImplies, PTL DEF RequestSpec

(* The totals that the database evaluated are what is shown: the later passes fill
   only what has no value.  They put sums where the measure is BLANK, in subtotals
   and in the headers that repeat them alone.                                   *)
THEOREM EvaluatedTotalsStay == RequestSpec => []TotalsAreEvaluated
BY InitMatrix, MatrixStep, MatrixImplies, PTL DEF RequestSpec

================================================================================
