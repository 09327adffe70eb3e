----------------------------- MODULE VisualRender -----------------------------
(* How the browser keeps the visuals of a page up to date: useVisualRender and
   the effects of Canvas that drive it.

   Canvas answers a change of filters, selections, role or visuals with a pass
   (renderAll) over the visuals of the page: one batch request for many of them,
   or one request each, MaxConcurrent at a time.  A pass keeps the filters that
   were in the store when it began; several passes can be under way at once, and
   tokens, aborts and fingerprints are to keep them apart.  A card that is
   drilled renders itself through a hook of its own, whose tokens are its own.

   Filters are versions: Version 0 is a request without any filters.  A visual
   that is affected by interactions takes the selections of all the others.   *)
EXTENDS Naturals, FiniteSets

CONSTANTS
  Visuals,        \* numbers, in the order of the report store
  Affected,       \* visuals with is_affected
  Matrices,       \* visuals that a batch cannot hold
  AtFirst,        \* visuals on the page when it is opened
  BatchFrom,      \* least number of visuals for a batch (4 in the code)
  MaxConcurrent,  \* requests a pass has under way (MAX_CONCURRENT_RENDERS)
  Passes,         \* numbers; bound: passes under way
  MaxEvents       \* bound: things the user does, and errors

ASSUME VisualsAssumption == Visuals \subseteq Nat /\ IsFiniteSet(Visuals)
ASSUME PassesAssumption  == Passes \subseteq Nat \ {0} /\ IsFiniteSet(Passes)
\* The page is opened with the first of them.
ASSUME FirstAssumption   == \E p \in Passes : \A q \in Passes : p <= q
ASSUME KindsAssumption   == Affected \subseteq Visuals /\ Matrices \subseteq Visuals
ASSUME PageAssumption    == AtFirst \subseteq Visuals
ASSUME NumbersAssumption == BatchFrom \in Nat /\ MaxConcurrent \in Nat \ {0} /\ MaxEvents \in Nat

VARIABLES
  \* what the visuals are to show
  present,   \* visuals of the page
  version,   \* version of role and report, page and visual filters
  clicks,    \* visuals with a selection that filters the others
  deep,      \* visuals that are drilled down
  loads,     \* loads of state and filters that are under way
  \* what they show: renderStates
  shown, loading, erred,
  \* the hook of Canvas
  timer,     \* an interaction pass is debounced
  owner,     \* the pass whose token for a visual is the latest, or NoOwner
  pending,   \* what pendingFingerprints has for a visual
  stamp,     \* what filterFingerprints has for a visual
  passes,
  \* the hooks of the cards
  cards,     \* visuals whose card waits for an answer
  events,    \* number of events
  excused    \* history: visuals left to themselves in one of the known ways

wanted == <<present, version, clicks, deep, loads>>
states == <<shown, loading, erred>>
hook   == <<timer, owner, pending, stamp, passes>>
pageVars == <<wanted, states, hook, cards, events, excused>>

NoOwner == 0
None   == [version |-> 0, clicks |-> Visuals]  \* no fingerprint, no answer
Filters == [version : Nat, clicks : SUBSET Visuals]
Answers == [of : Filters, deep : BOOLEAN]
Nothing == [of |-> None, deep |-> FALSE]

-----------------------------------------------------------------------------
(* buildManualFilters and buildFiltersForVisual, which the fingerprint is of.  *)
FiltersFor(v, ver, sources) ==
  [version |-> ver, clicks |-> IF v \in Affected THEN sources \ {v} ELSE {}]

WantedBy(v) == [of |-> FiltersFor(v, version, clicks), deep |-> v \in deep]

(* A pass: the arguments of renderAll, what it read from the stores, and how far
   it is.  What a batch cannot hold stays to do, after the batch; a single visual
   that it could hold comes last.                                             *)
Stages == {"idle", "begun", "batch", "single"}
Pass == [stage : Stages, version : Nat, clicks : SUBSET Visuals, force : BOOLEAN,
         only : BOOLEAN, todo : SUBSET Visuals, last : SUBSET Visuals,
         batch : SUBSET Visuals, aborted : BOOLEAN,
         running : SUBSET Visuals, drilled : SUBSET Visuals]
NoPass == [stage |-> "idle", version |-> 0, clicks |-> {}, force |-> FALSE,
           only |-> FALSE, todo |-> {}, last |-> {}, batch |-> {}, aborted |-> FALSE,
           running |-> {}, drilled |-> {}]

Asks(r, v) == FiltersFor(v, r.version, r.clicks)

\* A pass with nothing left to do and nothing to wait for has ended.
Ended(r) == IF r.stage = "single" /\ r.todo \cup r.last \cup r.running = {} THEN NoPass ELSE r

\* What the request with the latest token asks for.
InFlight(v) == Asks(passes[owner[v]], v)

\* What is on its way for a visual, or else what it shows, is something else.
Astray(v, f) == IF owner[v] # NoOwner THEN InFlight(v) # f ELSE stamp[v] # f

-----------------------------------------------------------------------------
(* The beginning of a pass.  renderAllCoalesced merges all calls of one commit,
   and the debounced call whose timer it clears: if one of them is for
   interactions only, so is the pass.                                         *)
CancelAll ==
  /\ owner'   = [v \in Visuals |-> NoOwner]
  /\ pending' = [v \in Visuals |-> None]
  /\ stamp'   = [v \in Visuals |-> None]

\* What renderAll goes over: an interaction pass leaves out what is not affected
\* and the sources.
ToRender(pres, sources, only) ==
  IF only THEN (pres \cap Affected) \ sources ELSE pres

First(p) == passes[p] = NoPass /\ \A q \in Passes : q < p => passes[q] # NoPass

\* "merged": a call that was not for interactions alone is among them.
Begin(force, only, merged) ==
  /\ \E p \in Passes :
       /\ First(p)
       /\ passes' = [passes EXCEPT ![p] =
            [NoPass EXCEPT !.stage = "begun", !.version = version', !.clicks = clicks',
                           !.force = force, !.only = only,
                           !.todo = ToRender(present', clicks', only)]]
  /\ timer' = FALSE
  /\ excused' = excused \cup
       {v \in present' \ ToRender(present', clicks', only) :
          Astray(v, WantedBy(v).of)' /\ (merged \/ v \in clicks')}

-----------------------------------------------------------------------------
(* A pass decides between a batch and requests one by one.                    *)
\* The batches that are aborted when the visuals of S get new tokens: their
\* requests share one AbortController.
AbortedBy(S) == {owner[v] : v \in {w \in S : owner[w] # NoOwner /\ w \in passes[owner[w]].batch}}

\* The passes when p becomes r and asks for the visuals of S.
PassesAfter(p, r, S) ==
  [q \in Passes |-> IF q = p THEN r
                    ELSE IF q \in AbortedBy(S) THEN [passes[q] EXCEPT !.aborted = TRUE]
                    ELSE passes[q]]

Batchable(r) == r.clicks = {} /\ ~r.only /\ Cardinality(r.todo) >= BatchFrom
Candidates(r) == r.todo \ (Matrices \cup deep)
BatchIds(r) == {v \in Candidates(r) : r.force \/ stamp[v] # Asks(r, v)}

\* Skipped while something else is on its way.
SkippedAstray(r, S) == {v \in S : Astray(v, Asks(r, v))}
\* Asked for with filters that are no longer the wanted ones.
AskedLate(r, S) == {v \in S : Asks(r, v) # WantedBy(v).of}

LaunchBatch(p) ==
  LET r == passes[p]
      ids == BatchIds(r)
  IN /\ r.stage = "begun"
     /\ Batchable(r) /\ Cardinality(ids) > 1
     /\ passes' = PassesAfter(p, [r EXCEPT !.stage = "batch", !.batch = ids,
                                           !.todo = @ \ Candidates(r)], ids)
     /\ owner' = [v \in Visuals |-> IF v \in ids THEN p ELSE owner[v]]
     /\ loading' = [v \in Visuals |-> v \in ids \/ loading[v]]
     /\ erred' = [v \in Visuals |-> v \notin ids /\ erred[v]]
     /\ excused' = excused \cup AskedLate(r, ids) \cup SkippedAstray(r, Candidates(r) \ ids)
     /\ UNCHANGED <<wanted, shown, timer, pending, stamp, cards, events>>

LaunchSingles(p) ==
  LET r == passes[p]
      ids == BatchIds(r)
  IN /\ r.stage = "begun"
     /\ \/ /\ ~Batchable(r)
           /\ passes' = [passes EXCEPT ![p] = Ended([r EXCEPT !.stage = "single"])]
           /\ UNCHANGED excused
        \/ /\ Batchable(r) /\ Cardinality(ids) <= 1
           /\ passes' = [passes EXCEPT ![p] =
                Ended([r EXCEPT !.stage = "single", !.todo = @ \ Candidates(r), !.last = ids])]
           /\ excused' = excused \cup SkippedAstray(r, Candidates(r) \ ids)
     /\ UNCHANGED <<wanted, states, timer, owner, pending, stamp, cards, events>>

(* The next visual of a pass that goes one by one: skipped if its fingerprint is
   that of the last answer, or of the request under way; else asked for.      *)
Turn(r, v) ==
  /\ r.stage = "single"
  /\ Cardinality(r.running) < MaxConcurrent
  /\ IF r.todo # {} THEN v \in r.todo /\ \A w \in r.todo : v <= w
                    ELSE v \in r.last
Without(r, v) == [r EXCEPT !.todo = @ \ {v}, !.last = @ \ {v}]

Known(r, v) == ~r.force /\ (stamp[v] = Asks(r, v) \/ pending[v] = Asks(r, v))

Skip(p, v) ==
  LET r == passes[p]
  IN /\ Turn(r, v) /\ Known(r, v)
     /\ passes' = [passes EXCEPT ![p] = Ended(Without(r, v))]
     /\ excused' = excused \cup SkippedAstray(r, {v})
     /\ UNCHANGED <<wanted, states, timer, owner, pending, stamp, cards, events>>

Ask(p, v) ==
  LET r == passes[p]
  IN /\ Turn(r, v) /\ ~Known(r, v)
     /\ passes' = PassesAfter(p, [Without(r, v) EXCEPT !.running = @ \cup {v},
                                    !.drilled = @ \cup (deep \cap {v})], {v})
     /\ owner' = [owner EXCEPT ![v] = p]
     /\ pending' = [pending EXCEPT ![v] = Asks(r, v)]
     /\ loading' = [loading EXCEPT ![v] = TRUE]
     /\ erred' = [erred EXCEPT ![v] = FALSE]
     /\ excused' = excused \cup AskedLate(r, {v})
     /\ UNCHANGED <<wanted, shown, timer, stamp, cards, events>>

-----------------------------------------------------------------------------
(* Answers.  An aborted request comes back as an error, too: apiRequest turns
   the exception into one.  Only the token decides whether it is heeded.      *)
Current(p, S) == {v \in S : owner[v] = p}

Event == events < MaxEvents /\ events' = events + 1

\* The server answers for S, and with an error, or that it is blocked, for bad.
ServerSays(bad) == IF bad = {} THEN UNCHANGED events ELSE Event

\* The answers of S with the latest tokens arrive; those of bad are errors, which
\* keep the data of before.
Answer(p, S, bad, drilled) ==
  LET answer(v) == [of |-> Asks(passes[p], v), deep |-> v \in drilled]
      good == S \ bad
  IN /\ shown' = [v \in Visuals |-> IF v \in good THEN answer(v) ELSE shown[v]]
     /\ stamp' = [v \in Visuals |-> IF v \in good THEN Asks(passes[p], v) ELSE stamp[v]]
     /\ loading' = [v \in Visuals |-> v \notin S /\ loading[v]]
     /\ erred' = [v \in Visuals |-> v \in bad \/ (v \notin S /\ erred[v])]
     /\ owner' = [v \in Visuals |-> IF v \in S THEN NoOwner ELSE owner[v]]
     /\ excused' = excused \ {v \in good : answer(v) = WantedBy(v)}

\* Mutant of BatchAnswered: an aborted batch ends without a word.
BatchAnsweredSilently(p) ==
  LET r == passes[p]
      S == Current(p, r.batch)
  IN /\ r.stage = "batch"
     /\ IF r.aborted THEN UNCHANGED <<states, owner, stamp, excused, events>>
                     ELSE \E bad \in SUBSET S : Answer(p, S, bad, {}) /\ ServerSays(bad)
     /\ passes' = [passes EXCEPT ![p] =
          Ended([r EXCEPT !.stage = "single", !.batch = {}, !.aborted = FALSE])]
     /\ UNCHANGED <<wanted, timer, pending, cards>>

BatchAnswered(p) ==
  LET r == passes[p]
      S == Current(p, r.batch)
  IN /\ r.stage = "batch"
     /\ IF r.aborted THEN Answer(p, S, S, {}) /\ UNCHANGED events
                     ELSE \E bad \in SUBSET S : Answer(p, S, bad, {}) /\ ServerSays(bad)
     /\ passes' = [passes EXCEPT ![p] =
          Ended([r EXCEPT !.stage = "single", !.batch = {}, !.aborted = FALSE])]
     /\ UNCHANGED <<wanted, timer, pending, cards>>

\* Mutant of RequestAnswered: an answer is heeded whatever its token.
AnsweredAnyhow(p, v) ==
  LET r == passes[p]
  IN /\ v \in r.running
     /\ \E bad \in SUBSET {v} : Answer(p, {v}, bad, r.drilled) /\ ServerSays(bad)
     /\ pending' = [pending EXCEPT ![v] = None]
     /\ passes' = [passes EXCEPT ![p] =
          Ended([r EXCEPT !.running = @ \ {v}, !.drilled = @ \ {v}])]
     /\ UNCHANGED <<wanted, timer, cards>>

\* Mutant of RequestAnswered: the promise of a superseded request is never settled.
AnsweredIfCurrent(p, v) ==
  LET r == passes[p]
  IN /\ v \in r.running /\ owner[v] = p
     /\ \E bad \in SUBSET {v} : Answer(p, {v}, bad, r.drilled) /\ ServerSays(bad)
     /\ pending' = [pending EXCEPT ![v] = None]
     /\ passes' = [passes EXCEPT ![p] =
          Ended([r EXCEPT !.running = @ \ {v}, !.drilled = @ \ {v}])]
     /\ UNCHANGED <<wanted, timer, cards>>

RequestAnswered(p, v) ==
  LET r == passes[p]
      S == Current(p, {v})
  IN /\ v \in r.running
     /\ \E bad \in SUBSET S : Answer(p, S, bad, r.drilled) /\ ServerSays(bad)
     /\ pending' = [w \in Visuals |-> IF w \in S THEN None ELSE pending[w]]
     /\ passes' = [passes EXCEPT ![p] =
          Ended([r EXCEPT !.running = @ \ {v}, !.drilled = @ \ {v}])]
     /\ UNCHANGED <<wanted, timer, cards>>

-----------------------------------------------------------------------------
(* What the user does, and the loads that follow.                             *)
\* Interaction filters change: the pass is debounced.
Debounced(sources) ==
  /\ clicks' = sources
  /\ timer' = TRUE
  /\ UNCHANGED <<present, version, deep, loads, states, owner, pending, stamp, passes,
                 cards, excused>>

ClickOn(v) ==
  /\ Event
  /\ v \in present /\ shown[v] # Nothing
  /\ Debounced(IF v \in clicks THEN clicks \ {v} ELSE clicks \cup {v})

ClearClicks == Event /\ clicks # {} /\ Debounced({})

TimerFires ==
  /\ timer
  /\ UNCHANGED <<wanted, states, owner, pending, stamp, cards, events>>
  /\ Begin(FALSE, TRUE, FALSE)

\* The set of visuals changes: everything under way is cancelled.
AddVisual(v) ==
  /\ Event
  /\ v \notin present
  /\ present' = present \cup {v}
  /\ UNCHANGED <<version, clicks, deep, loads, states, cards>>
  /\ CancelAll
  /\ Begin(FALSE, timer, timer)

RemoveVisual(v) ==
  /\ Event
  /\ v \in present /\ present # {v}
  /\ present' = present \ {v}
  /\ shown' = [shown EXCEPT ![v] = Nothing]
  /\ loading' = [loading EXCEPT ![v] = FALSE]
  /\ erred' = [erred EXCEPT ![v] = FALSE]
  /\ UNCHANGED <<version, clicks, deep, loads, cards>>
  /\ CancelAll
  /\ Begin(FALSE, timer, timer)

\* loadState begins with clearRenderStates and renders nothing until it ends.
Cleared ==
  /\ shown' = [v \in Visuals |-> Nothing]
  /\ loading' = [v \in Visuals |-> FALSE]
  /\ erred' = [v \in Visuals |-> FALSE]

Reload ==
  /\ Event
  /\ loads' = loads + 1
  /\ Cleared
  /\ excused' = excused \cup present
  /\ UNCHANGED <<present, version, clicks, deep, hook, cards>>

\* A change of role gives renderAllCoalesced a new identity, which runs all three
\* effects of Canvas at once, the one for interactions among them.
ChangeRole ==
  /\ Event
  /\ loads' = loads + 1
  /\ version' = version + 1
  /\ clicks' = {}
  /\ Cleared
  /\ UNCHANGED <<present, deep, cards>>
  /\ CancelAll
  /\ Begin(TRUE, TRUE, TRUE)

\* The filters arrive and filtersVersion is raised; without an answer it is not.
LoadEnds ==
  /\ loads > 0
  /\ loads' = loads - 1
  /\ UNCHANGED <<present, clicks, deep, states, cards, events>>
  /\ \/ /\ version' = version + 1
        /\ UNCHANGED <<owner, pending, stamp>>
        /\ Begin(TRUE, timer, timer)
     \/ UNCHANGED <<version, hook, excused>>

\* A chart with an answer is drilled, expanded, or brought back; or it just gets
\* another look.
Drill(v) ==
  \/ UNCHANGED deep
  \/ v \in deep /\ deep' = deep \ {v}
  \/ v \notin deep \cup Matrices /\ shown[v] # Nothing /\ deep' = deep \cup {v}

(* The card of a visual renders it then: by force, with a token of its own, and
   without filters.                                                           *)
CardRenders(v) ==
  /\ Event
  /\ v \in present
  /\ Drill(v)
  /\ cards' = cards \cup {v}
  /\ loading' = [loading EXCEPT ![v] = TRUE]
  /\ erred' = [erred EXCEPT ![v] = FALSE]
  /\ excused' = IF deep' = deep THEN excused ELSE excused \cup {v}
  /\ UNCHANGED <<present, version, clicks, loads, shown, hook>>

CardAnswered(v) ==
  /\ v \in cards
  /\ cards' = cards \ {v}
  /\ loading' = [loading EXCEPT ![v] = FALSE]
  /\ \/ /\ shown' = [shown EXCEPT ![v] = [of |-> [version |-> 0, clicks |-> {}], deep |-> v \in deep]]
        /\ erred' = [erred EXCEPT ![v] = FALSE]
        /\ excused' = excused \cup {v}
        /\ UNCHANGED events
     \/ Event /\ erred' = [erred EXCEPT ![v] = TRUE] /\ UNCHANGED <<shown, excused>>
  /\ UNCHANGED <<wanted, hook>>

-----------------------------------------------------------------------------
PageInit ==
  /\ present = AtFirst
  /\ version = 1
  /\ clicks = {} /\ deep = {} /\ cards = {} /\ excused = {}
  /\ loads = 0 /\ events = 0
  /\ shown = [v \in Visuals |-> Nothing]
  /\ loading = [v \in Visuals |-> FALSE]
  /\ erred = [v \in Visuals |-> FALSE]
  /\ timer = FALSE
  /\ owner = [v \in Visuals |-> NoOwner]
  /\ pending = [v \in Visuals |-> None]
  /\ stamp = [v \in Visuals |-> None]
  /\ passes = [p \in Passes |->
                 IF \A q \in Passes : p <= q
                 THEN [NoPass EXCEPT !.stage = "begun", !.version = 1, !.todo = AtFirst]
                 ELSE NoPass]

User ==
  \/ \E v \in Visuals : ClickOn(v) \/ AddVisual(v) \/ RemoveVisual(v) \/ CardRenders(v)
  \/ ClearClicks \/ Reload \/ ChangeRole

Browser ==
  \/ TimerFires
  \/ \E p \in Passes :
       \/ LaunchBatch(p) \/ LaunchSingles(p)
       \/ \E v \in Visuals : Skip(p, v) \/ Ask(p, v)

Server ==
  \/ LoadEnds
  \/ \E v \in Visuals : CardAnswered(v)
  \/ \E p \in Passes : BatchAnswered(p) \/ \E v \in Visuals : RequestAnswered(p, v)

PageNext == User \/ Browser \/ Server
PageSpec == PageInit /\ [][PageNext]_pageVars

(* Timers fire, promises continue, and the server answers every request.      *)
Fairness ==
  /\ WF_pageVars(TimerFires) /\ WF_pageVars(LoadEnds)
  /\ \A v \in Visuals : WF_pageVars(CardAnswered(v))
  /\ \A p \in Passes :
       /\ WF_pageVars(LaunchBatch(p)) /\ WF_pageVars(LaunchSingles(p)) /\ WF_pageVars(BatchAnswered(p))
       /\ \A v \in Visuals :
            WF_pageVars(Skip(p, v)) /\ WF_pageVars(Ask(p, v)) /\ WF_pageVars(RequestAnswered(p, v))

FairSpec == PageSpec /\ Fairness

-----------------------------------------------------------------------------
TypeOK ==
  /\ present \subseteq Visuals /\ clicks \subseteq Visuals /\ deep \subseteq Visuals
  /\ cards \subseteq Visuals /\ excused \subseteq Visuals
  /\ version \in Nat /\ loads \in Nat /\ events \in Nat
  /\ shown \in [Visuals -> Answers]
  /\ loading \in [Visuals -> BOOLEAN] /\ erred \in [Visuals -> BOOLEAN]
  /\ timer \in BOOLEAN
  /\ owner \in [Visuals -> Passes \cup {NoOwner}]
  /\ pending \in [Visuals -> Filters] /\ stamp \in [Visuals -> Filters]
  /\ passes \in [Passes -> Pass]

AtRest == ~timer /\ loads = 0 /\ cards = {} /\ \A p \in Passes : passes[p] = NoPass

(* When everything has been answered, each visual shows an error or what the
   filters, the selections and its drill level ask for, unless one of these left
   it to itself since (excused): its card rendered it; a load cleared it; a pass
   left it out, as a source or because an interaction call was merged into it; a
   pass skipped it while another request was on its way, or because pending kept
   what a batch had superseded; a pass asked for it with filters that were old by
   then.                                                                      *)
StaleOnlyBy ==
  AtRest => \A v \in present : v \in excused \/ erred[v] \/ shown[v] = WantedBy(v)

(* A visual that shows a spinner has a request with its latest token, or a card
   or a pass that is still to ask for it, unless it is excused.               *)
Requested(v) == owner[v] # NoOwner /\ v \in passes[owner[v]].batch \cup passes[owner[v]].running
Queued(v)    == \E p \in Passes : v \in passes[p].todo \cup passes[p].last

SpinsOnlyBy ==
  \A v \in present : loading[v] => Requested(v) \/ Queued(v) \/ v \in cards \cup excused

(* Passes end, whatever is aborted or superseded: once the user pauses, nothing
   is under way.                                                              *)
Settles == []<>AtRest
================================================================================
