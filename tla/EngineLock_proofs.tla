--------------------------- MODULE EngineLock_proofs ---------------------------
(* Proofs about EngineLock, for every set of threads, slicers, defaults, visuals
   and kinds of request: the selection states that block on their own lock are
   among them.                                                                *)
EXTENDS EngineLock, TLAPS

USE DEF Threads, HttpKinds, Checked, Series

(* Where a request can be, by its kind.  A thread that waits does so in front
   of a section; a selection state never gets past the front of the section of
   a default, because it holds the lock it asks for.                          *)
PlaceInv ==
  \A t \in Threads :
    /\ t \in waiting => pc[t] \in Sections
    /\ pc[t] = "idle" => req[t].kind = "none"
    /\ pc[t] \in {"nextField", "field", "fieldPlan", "fieldQuery"} => Selecting(t)
    /\ Selecting(t) => pc[t] \notin {"defaultConnect", "defaultQuery", "query"}
    /\ Selecting(t) /\ pc[t] = "default" => t \in waiting

\* Where a matrix or a playbook is between its connection and its answer.
Parted == {"connected", "main", "mainQuery", "nextPart", "part", "partQuery"}

(* The selection state keeps one connection open from its first field on, a
   matrix or a playbook from its main query on.                               *)
ConnectionInv ==
  \A t \in Threads :
    /\ pc[t] \in {"query", "defaultQuery"} \cup Parted => con[t] = "open"
    /\ Selecting(t) /\ pc[t] \notin {"security", "connect"} => con[t] = "open"

IInv == TypeOK /\ PlaceInv /\ ConnectionInv /\ LockHeldExactlyInside

-----------------------------------------------------------------------------
(* What a thread keeps about its request. *)
LEMMA NoRequestType == NoRequest \in Requests /\ NoRequest.kind = "none"
  BY DEF NoRequest, Requests

LEMMA CandidatesType ==
  ASSUME NEW r
  PROVE  Candidates(r) \in SUBSET Slicers
  BY SlicersAssumption DEF Candidates

LEMMA AskedType ==
  ASSUME NEW k \in HttpKinds \cup {"batch"}, NEW n \in Nat
  PROVE  /\ Asked(k) \in Requests /\ Asked(k).kind = k
         /\ AskedFor(k, n) \in Requests /\ AskedFor(k, n).kind = k
  BY DEF Asked, AskedFor, NoRequest, Requests

(* Keeping a request r: the thread serves a request of r's kind, the others
   serve what they served.                                                    *)
Serves(t, k) == /\ req' \in [Threads -> Requests]
                /\ req'[t].kind = k
                /\ \A u \in Threads \ {t} : req'[u] = req[u]

LEMMA KeepServes ==
  ASSUME TypeOK, NEW t \in Threads, NEW r \in Requests, Keep(t, r)
  PROVE  Serves(t, r.kind)
  BY DEF TypeOK, Keep, Serves

LEMMA KeepDefs ==
  ASSUME NEW t \in Threads, req[t] \in Requests, NEW x \in SUBSET Slicers,
         Keep(t, [req[t] EXCEPT !.defs = x])
  PROVE  \E r \in Requests : r.kind = req[t].kind /\ Keep(t, r)
<1>1. /\ [req[t] EXCEPT !.defs = x] \in Requests
      /\ [req[t] EXCEPT !.defs = x].kind = req[t].kind
  BY DEF Requests
<1> QED
  BY <1>1

LEMMA KeepField ==
  ASSUME NEW t \in Threads, req[t] \in Requests,
         NEW f \in Slicers, NEW x \in SUBSET Slicers,
         Keep(t, [req[t] EXCEPT !.own = f, !.fields = x])
  PROVE  \E r \in Requests : r.kind = req[t].kind /\ Keep(t, r)
<1>1. /\ [req[t] EXCEPT !.own = f, !.fields = x] \in Requests
      /\ [req[t] EXCEPT !.own = f, !.fields = x].kind = req[t].kind
  BY DEF Requests
<1> QED
  BY <1>1

LEMMA KeepLeft ==
  ASSUME NEW t \in Threads, req[t] \in Requests, req[t].left > 0,
         Keep(t, [req[t] EXCEPT !.left = @ - 1])
  PROVE  \E r \in Requests : r.kind = req[t].kind /\ Keep(t, r)
<1>1. req[t].left \in Nat /\ req[t].left - 1 \in Nat
  BY DEF Requests
<1>2. /\ [req[t] EXCEPT !.left = @ - 1] \in Requests
      /\ [req[t] EXCEPT !.left = @ - 1].kind = req[t].kind
  BY <1>1 DEF Requests
<1> QED
  BY <1>2

(* A step of a thread, seen from outside: where it goes, what becomes of its
   connection, the kind of its request, and nothing of another thread.        *)
Moves(t, to, k, c) ==
  /\ pc' \in [Threads -> Labels] /\ pc'[t] = to
  /\ \A u \in Threads \ {t} : pc'[u] = pc[u]
  /\ Serves(t, k)
  /\ con' \in [Threads -> {"none", "open", "closed"}] /\ con'[t] = c
  /\ \A u \in Threads \ {t} : con'[u] = con[u]
(* If what is said of the moving thread holds after the step, the invariant
   does: nobody else has moved, and the lock went from or to the mover only.  *)
LEMMA OneMoves ==
  ASSUME IInv, NEW t \in Threads, NEW to \in Labels, NEW k, NEW c,
         Moves(t, to, k, c),
         batch' \in [Visuals -> {"none", "queued", "rendering", "done"}],
         waiting' \in {waiting, waiting \cup {t}, waiting \ {t}},
         lock' = lock \/ (lock' = Nobody /\ lock = t) \/ (lock' = t /\ lock = Nobody),
         t \in waiting' => to \in Sections,
         to = "idle" => k = "none",
         to \in {"nextField", "field", "fieldPlan", "fieldQuery"} => k = "selection",
         k = "selection" => to \notin {"defaultConnect", "defaultQuery", "query"},
         k = "selection" /\ to = "default" => t \in waiting',
         to \in {"query", "defaultQuery"} \cup Parted => c = "open",
         k = "selection" /\ to \notin {"security", "connect"} => c = "open",
         lock' = t <=> \/ to \in Sections /\ t \notin waiting'
                       \/ k = "selection" /\ to \in {"defaults", "default", "fieldPlan"}
  PROVE  IInv'
<1>1. /\ Nobody \notin Threads
      /\ lock \in Threads \cup {Nobody} /\ waiting \subseteq Threads
  BY ThreadsAssumption DEF IInv, TypeOK
<1>2. TypeOK'
  BY <1>1 DEF TypeOK, Moves, Serves
<1>3. PlaceInv'
  BY <1>1 DEF IInv, PlaceInv, Moves, Serves, Selecting
<1>4. ConnectionInv'
  BY <1>1 DEF IInv, ConnectionInv, Moves, Serves, Selecting
<1>5. LockHeldExactlyInside'
  <2> SUFFICES ASSUME NEW u \in Threads PROVE lock' = u <=> Inside(u)'
    BY DEF LockHeldExactlyInside
  <2>1. CASE u = t
    BY <2>1 DEF Inside, Moves, Serves, Selecting
  <2>2. CASE u # t
    <3>1. lock' = u <=> lock = u
      BY <1>1, <2>2
    <3>2. Inside(u)' <=> Inside(u)
      BY <2>2 DEF Inside, Moves, Serves, Selecting
    <3> QED
      BY <3>1, <3>2 DEF IInv, LockHeldExactlyInside
  <2> QED
    BY <2>1, <2>2
<1> QED
  BY <1>2, <1>3, <1>4, <1>5 DEF IInv

(* How the pieces of an action make a move. *)
LEMMA MoveKeeping ==
  ASSUME TypeOK, NEW t \in Threads, NEW to \in Labels, NEW r \in Requests,
         Go(t, to), Keep(t, r), con' = con
  PROVE  Moves(t, to, r.kind, con[t])
  BY KeepServes DEF TypeOK, Go, Moves

LEMMA MoveServing ==
  ASSUME TypeOK, NEW t \in Threads, NEW to \in Labels,
         Go(t, to), UNCHANGED <<req, con>>
  PROVE  Moves(t, to, req[t].kind, con[t])
  BY DEF TypeOK, Go, Moves, Serves

LEMMA MoveConnecting ==
  ASSUME TypeOK, NEW t \in Threads, NEW to \in Labels,
         NEW c \in {"none", "open", "closed"},
         Go(t, to), Cached(t, c), UNCHANGED req
  PROVE  Moves(t, to, req[t].kind, c)
  BY DEF TypeOK, Go, Cached, Moves, Serves

LEMMA MoveFinishing ==
  ASSUME TypeOK, NEW t \in Threads, NEW c \in {"none", "open", "closed"},
         Finish(t), Cached(t, c) \/ (con' = con /\ c = con[t])
  PROVE  Moves(t, "idle", "none", c)
<1>1. Serves(t, "none")
  BY NoRequestType, KeepServes DEF Finish
<1> QED
  BY <1>1 DEF TypeOK, Finish, Go, Cached, Moves, Labels

LEMMA MoveLeaving ==
  ASSUME TypeOK, NEW t \in Threads, Leave(t)
  PROVE  \E c \in {"none", "open", "closed"} : Moves(t, "idle", "none", c)
<1>1. PICK c \in {"none", "open", "closed"} : Cached(t, c)
  BY DEF Leave, TypeOK
<1>2. Finish(t)
  BY DEF Leave
<1> QED
  BY <1>1, <1>2, MoveFinishing

\* The answer to one statement ends the request or is one of a series.
LEMMA MoveAnswering ==
  ASSUME TypeOK, NEW t \in Threads, NEW c \in {"none", "open", "closed"},
         Answer(t), Cached(t, c) \/ (con' = con /\ c = con[t])
  PROVE  \/ Moves(t, "idle", "none", c)
         \/ Moves(t, "nextItem", req[t].kind, c) /\ req[t].kind \in Series
<1>1. CASE req[t].kind \in Series
  <2>1. Go(t, "nextItem") /\ UNCHANGED req
    BY <1>1 DEF Answer
  <2>2. CASE Cached(t, c)
    BY <1>1, <2>1, <2>2, MoveConnecting DEF Labels
  <2>3. CASE con' = con /\ c = con[t]
    BY <1>1, <2>1, <2>3, MoveServing DEF Labels
  <2> QED
    BY <2>2, <2>3
<1>2. CASE req[t].kind \notin Series
  BY <1>2, MoveFinishing DEF Answer
<1> QED
  BY <1>1, <1>2

(* What the invariant says of the thread that is about to move. *)
LEMMA Mover ==
  ASSUME IInv, NEW t \in Threads
  PROVE  /\ TypeOK /\ req[t] \in Requests /\ con[t] \in {"none", "open", "closed"}
         /\ batch \in [Visuals -> {"none", "queued", "rendering", "done"}]
         /\ t \in waiting => pc[t] \in Sections
         /\ pc[t] = "idle" => req[t].kind = "none"
         /\ pc[t] \in {"nextField", "field", "fieldPlan", "fieldQuery"} =>
              req[t].kind = "selection"
         /\ req[t].kind = "selection" =>
              /\ pc[t] \notin {"defaultConnect", "defaultQuery", "query"}
              /\ pc[t] = "default" => t \in waiting
              /\ pc[t] \notin {"security", "connect"} => con[t] = "open"
         /\ pc[t] \in {"query", "defaultQuery"} \cup Parted => con[t] = "open"
         /\ lock = t <=> \/ pc[t] \in Sections /\ t \notin waiting
                         \/ /\ req[t].kind = "selection"
                            /\ pc[t] \in {"defaults", "default", "fieldPlan"}
         /\ lock # Nobody \/ lock # t
  BY ThreadsAssumption DEF IInv, TypeOK, PlaceInv, ConnectionInv,
     LockHeldExactlyInside, Inside, Selecting

LEMMA DefaultPreserves ==
  ASSUME IInv, NEW t \in Threads, DefaultStep(t)
  PROVE  IInv'
<1> USE Mover DEF Labels, Sections, At, Ask, Release, Selecting, Parted
<1>1. CASE NextDefault(t)
  <2>1. PICK d \in req[t].defs : Keep(t, [req[t] EXCEPT !.defs = @ \ {d}])
    BY <1>1 DEF NextDefault
  <2>2. req[t].defs \ {d} \in SUBSET Slicers
    BY DEF Requests
  <2>4. PICK r \in Requests : r.kind = req[t].kind /\ Keep(t, r)
    BY <2>1, <2>2, KeepDefs
  <2>5. Moves(t, "default", req[t].kind, con[t])
    BY <1>1, <2>4, MoveKeeping DEF NextDefault
  <2> QED
    BY <1>1, <2>5, OneMoves DEF NextDefault
<1>2. CASE SlicersInvalid(t)
  <2>1. CASE Selecting(t)
    <3>1. Moves(t, "fieldPlan", req[t].kind, con[t])
      BY <1>2, <2>1, MoveServing DEF SlicersInvalid
    <3> QED
      BY <1>2, <2>1, <3>1, OneMoves DEF SlicersInvalid
  <2>2. CASE ~ Selecting(t)
    <3>1. Moves(t, "idle", "none", con[t])
      BY <1>2, <2>2, MoveFinishing DEF SlicersInvalid
    <3> QED
      BY <1>2, <2>2, <3>1, OneMoves DEF SlicersInvalid
  <2> QED
    BY <2>1, <2>2
<1>3. CASE PlanDefault(t)
  <2>1. Moves(t, "defaultConnect", req[t].kind, con[t])
    BY <1>3, MoveServing DEF PlanDefault
  <2> QED
    BY <1>3, <2>1, OneMoves DEF PlanDefault
<1>4. CASE PlanDefaultFails(t)
  <2>1. CASE Selecting(t)
    <3>1. Moves(t, "fieldPlan", req[t].kind, con[t])
      BY <1>4, <2>1, MoveServing DEF PlanDefaultFails
    <3> QED
      BY <1>4, <2>1, <3>1, OneMoves DEF PlanDefaultFails
  <2>2. CASE ~ Selecting(t)
    <3>1. Moves(t, "idle", "none", con[t])
      BY <1>4, <2>2, MoveFinishing DEF PlanDefaultFails
    <3> QED
      BY <1>4, <2>2, <3>1, OneMoves DEF PlanDefaultFails
  <2> QED
    BY <2>1, <2>2
<1>5. CASE ConnectDefault(t)
  <2>1. Moves(t, "defaultQuery", req[t].kind, "open")
    BY <1>5, MoveConnecting DEF ConnectDefault, Connect
  <2> QED
    BY <1>5, <2>1, OneMoves DEF ConnectDefault, Connect
<1>6. CASE QueryDefault(t)
  <2>1. Moves(t, "defaults", req[t].kind, "closed")
    BY <1>6, MoveConnecting DEF QueryDefault
  <2> QED
    BY <1>6, <2>1, OneMoves DEF QueryDefault
<1>7. CASE QueryDefaultFails(t)
  <2>1. CASE Selecting(t)
    <3>1. Moves(t, "fieldPlan", req[t].kind, "closed")
      BY <1>7, <2>1, MoveConnecting DEF QueryDefaultFails
    <3> QED
      BY <1>7, <2>1, <3>1, OneMoves DEF QueryDefaultFails
  <2>2. CASE ~ Selecting(t)
    <3>1. Moves(t, "idle", "none", "closed")
      BY <1>7, <2>2, MoveFinishing DEF QueryDefaultFails
    <3> QED
      BY <1>7, <2>2, <3>1, OneMoves DEF QueryDefaultFails
  <2> QED
    BY <2>1, <2>2
<1>8. CASE ConnectDefaultFails(t)
  <2>1. CASE Selecting(t)
    <3>1. Moves(t, "fieldPlan", req[t].kind, con[t])
      BY <1>8, <2>1, MoveServing DEF ConnectDefaultFails
    <3> QED
      BY <1>8, <2>1, <3>1, OneMoves DEF ConnectDefaultFails
  <2>2. CASE ~ Selecting(t)
    <3>1. Moves(t, "idle", "none", con[t])
      BY <1>8, <2>2, MoveFinishing DEF ConnectDefaultFails
    <3> QED
      BY <1>8, <2>2, <3>1, OneMoves DEF ConnectDefaultFails
  <2> QED
    BY <2>1, <2>2
<1> QED
  BY <1>1, <1>2, <1>3, <1>4, <1>5, <1>6, <1>7, <1>8 DEF DefaultStep

LEMMA PlanPreserves ==
  ASSUME IInv, NEW t \in Threads, PlanStep(t)
  PROVE  IInv'
<1> USE Mover DEF Labels, Sections, At, Ask, Release, Selecting, Parted
<1>1. CASE AskPlan(t)
  <2>1. Moves(t, "plan", req[t].kind, con[t])
    BY <1>1, MoveServing DEF AskPlan
  <2> QED
    BY <1>1, <2>1, OneMoves DEF AskPlan
<1>2. CASE PlanCached(t)
  <2>1. Moves(t, "connect", req[t].kind, con[t])
    BY <1>2, MoveServing DEF PlanCached
  <2> QED
    BY <1>2, <2>1, OneMoves DEF PlanCached
<1>3. CASE Submit(t)
  <2>1. Moves(t, "idle", "none", con[t])
    BY <1>3, MoveFinishing DEF Submit
  <2> QED
    BY <1>3, <2>1, OneMoves DEF Submit
<1>4. CASE Plan(t)
  <2>1. Moves(t, "connect", req[t].kind, con[t])
    BY <1>4, MoveServing DEF Plan
  <2> QED
    BY <1>4, <2>1, OneMoves DEF Plan
<1>5. CASE PlanFails(t)
  <2>1. \/ Moves(t, "idle", "none", con[t])
        \/ Moves(t, "nextItem", req[t].kind, con[t]) /\ req[t].kind \in Series
    BY <1>5, MoveAnswering DEF PlanFails
  <2>2. CASE Moves(t, "idle", "none", con[t])
    BY <1>5, <2>2, OneMoves DEF PlanFails, Delivered
  <2>3. CASE Moves(t, "nextItem", req[t].kind, con[t]) /\ req[t].kind \in Series
    BY <1>5, <2>3, OneMoves DEF PlanFails, Delivered, Parted
  <2> QED
    BY <2>1, <2>2, <2>3
<1>6. CASE ConnectRequest(t)
  <2>1. CASE Selecting(t)
    <3>1. Moves(t, "nextField", req[t].kind, "open")
      BY <1>6, <2>1, MoveConnecting DEF ConnectRequest, Connect, AfterConnect
    <3> QED
      BY <1>6, <2>1, <3>1, OneMoves DEF ConnectRequest, Connect
  <2>2. CASE req[t].kind \in {"matrix", "playbook"}
    <3>1. Moves(t, "connected", req[t].kind, "open")
      BY <1>6, <2>2, MoveConnecting DEF ConnectRequest, Connect, AfterConnect
    <3> QED
      BY <1>6, <2>2, <3>1, OneMoves DEF ConnectRequest, Connect
  <2>3. CASE ~ Selecting(t) /\ req[t].kind \notin {"matrix", "playbook"}
    <3>1. Moves(t, "query", req[t].kind, "open")
      BY <1>6, <2>3, MoveConnecting DEF ConnectRequest, Connect, AfterConnect
    <3> QED
      BY <1>6, <2>3, <3>1, OneMoves DEF ConnectRequest, Connect
  <2> QED
    BY <2>1, <2>2, <2>3
<1>7. CASE Query(t)
  <2>1. PICK c \in {"none", "open", "closed"} : Cached(t, c)
    BY <1>7 DEF Query
  <2>2. \/ Moves(t, "idle", "none", c)
        \/ Moves(t, "nextItem", req[t].kind, c) /\ req[t].kind \in Series
    BY <1>7, <2>1, MoveAnswering DEF Query
  <2>3. CASE Moves(t, "idle", "none", c)
    BY <1>7, <2>3, OneMoves DEF Query, Delivered
  <2>4. CASE Moves(t, "nextItem", req[t].kind, c) /\ req[t].kind \in Series
    BY <1>7, <2>4, OneMoves DEF Query, Delivered, Parted
  <2> QED
    BY <2>2, <2>3, <2>4
<1>8. CASE ConnectRequestFails(t)
  <2>1. \/ Moves(t, "idle", "none", con[t])
        \/ Moves(t, "nextItem", req[t].kind, con[t]) /\ req[t].kind \in Series
    BY <1>8, MoveAnswering DEF ConnectRequestFails
  <2>2. CASE Moves(t, "idle", "none", con[t])
    BY <1>8, <2>2, OneMoves DEF ConnectRequestFails, Delivered
  <2>3. CASE Moves(t, "nextItem", req[t].kind, con[t]) /\ req[t].kind \in Series
    BY <1>8, <2>3, OneMoves DEF ConnectRequestFails, Delivered, Parted
  <2> QED
    BY <2>1, <2>2, <2>3
<1> QED
  BY <1>1, <1>2, <1>3, <1>4, <1>5, <1>6, <1>7, <1>8 DEF PlanStep

LEMMA FieldPreserves ==
  ASSUME IInv, NEW t \in Threads, FieldStep(t)
  PROVE  IInv'
<1> USE Mover DEF Labels, Sections, At, Ask, Release, Selecting, Parted
<1>1. CASE NextField(t)
  <2>1. PICK f \in req[t].fields :
          Keep(t, [req[t] EXCEPT !.own = f, !.fields = @ \ {f}])
    BY <1>1 DEF NextField
  <2>2. f \in Slicers /\ req[t].fields \ {f} \in SUBSET Slicers
    BY DEF Requests
  <2>4. PICK r \in Requests : r.kind = req[t].kind /\ Keep(t, r)
    BY <2>1, <2>2, KeepField
  <2>5. Moves(t, "field", req[t].kind, con[t])
    BY <1>1, <2>4, MoveKeeping DEF NextField
  <2> QED
    BY <1>1, <2>5, OneMoves DEF NextField
<1>2. CASE AnswerSelection(t)
  <2>1. Moves(t, "idle", "none", "closed")
    BY <1>2, MoveFinishing DEF AnswerSelection
  <2> QED
    BY <1>2, <2>1, OneMoves DEF AnswerSelection
<1>3. CASE PrepareField(t)
  <2>1. Candidates(req[t]) \in SUBSET Slicers
    BY CandidatesType
  <2>3. PICK r \in Requests : r.kind = req[t].kind /\ Keep(t, r)
    BY <1>3, <2>1, KeepDefs DEF PrepareField
  <2>4. Moves(t, "defaults", req[t].kind, con[t])
    BY <1>3, <2>3, MoveKeeping DEF PrepareField
  <2> QED
    BY <1>3, <2>4, OneMoves DEF PrepareField
<1>4. CASE PrepareFieldFails(t)
  <2>1. Moves(t, "nextField", req[t].kind, con[t])
    BY <1>4, MoveServing DEF PrepareFieldFails
  <2> QED
    BY <1>4, <2>1, OneMoves DEF PrepareFieldFails
<1>5. CASE DefaultsDone(t)
  <2>1. Moves(t, "fieldPlan", req[t].kind, con[t])
    BY <1>5, MoveServing DEF DefaultsDone
  <2> QED
    BY <1>5, <2>1, OneMoves DEF DefaultsDone
<1>6. CASE PlanField(t)
  <2>1. Moves(t, "fieldQuery", req[t].kind, con[t])
    BY <1>6, MoveServing DEF PlanField
  <2> QED
    BY <1>6, <2>1, OneMoves DEF PlanField
<1>7. CASE PlanFieldFails(t)
  <2>1. Moves(t, "nextField", req[t].kind, con[t])
    BY <1>7, MoveServing DEF PlanFieldFails
  <2> QED
    BY <1>7, <2>1, OneMoves DEF PlanFieldFails
<1>8. CASE QueryField(t)
  <2>1. Moves(t, "nextField", req[t].kind, con[t])
    BY <1>8, MoveServing DEF QueryField
  <2> QED
    BY <1>8, <2>1, OneMoves DEF QueryField
<1> QED
  BY <1>1, <1>2, <1>3, <1>4, <1>5, <1>6, <1>7, <1>8 DEF FieldStep

LEMMA CheckedPreserves ==
  ASSUME IInv, NEW t \in Threads, CheckedStep(t)
  PROVE  IInv'
<1> USE Mover DEF Labels, Sections, At, Ask, Release, Selecting, Parted
<1>1. CASE CheckAnswers(t)
  <2>1. Moves(t, "idle", "none", con[t])
    BY <1>1, MoveFinishing DEF CheckAnswers
  <2> QED
    BY <1>1, <2>1, OneMoves DEF CheckAnswers
<1>2. CASE Evaluate(t)
  <2>1. Moves(t, "default", req[t].kind, con[t])
    BY <1>2, MoveServing DEF Evaluate
  <2> QED
    BY <1>2, <2>1, OneMoves DEF Evaluate
<1>3. CASE AnswerEvaluation(t)
  <2>1. Moves(t, "idle", "none", con[t])
    BY <1>3, MoveFinishing DEF AnswerEvaluation
  <2> QED
    BY <1>3, <2>1, OneMoves DEF AnswerEvaluation
<1>4. CASE CompileTable(t)
  <2>1. Moves(t, "plan", req[t].kind, con[t])
    BY <1>4, MoveServing DEF CompileTable
  <2> QED
    BY <1>4, <2>1, OneMoves DEF CompileTable
<1>5. CASE SaveTable(t)
  <2>1. Moves(t, "invalidate", req[t].kind, con[t])
    BY <1>5, MoveServing DEF SaveTable
  <2> QED
    BY <1>5, <2>1, OneMoves DEF SaveTable
<1>6. CASE ReadRows(t)
  <2>1. Moves(t, "connect", req[t].kind, con[t])
    BY <1>6, MoveServing DEF ReadRows
  <2> QED
    BY <1>6, <2>1, OneMoves DEF ReadRows
<1>7. CASE ExportMatrix(t)
  <2>1. Moves(t, "connect", req[t].kind, con[t])
    BY <1>7, MoveServing DEF ExportMatrix
  <2> QED
    BY <1>7, <2>1, OneMoves DEF ExportMatrix
<1>8. CASE PlanItem(t)
  <2>1. PICK r \in Requests : r.kind = req[t].kind /\ Keep(t, r)
    BY <1>8, KeepLeft DEF PlanItem, TakeItem
  <2>2. Moves(t, "plan", req[t].kind, con[t])
    BY <1>8, <2>1, MoveKeeping DEF PlanItem
  <2> QED
    BY <1>8, <2>2, OneMoves DEF PlanItem, TakeItem
<1>9. CASE ItemCached(t)
  <2>1. PICK r \in Requests : r.kind = req[t].kind /\ Keep(t, r)
    BY <1>9, KeepLeft DEF ItemCached, TakeItem
  <2>2. Moves(t, "connect", req[t].kind, con[t])
    BY <1>9, <2>1, MoveKeeping DEF ItemCached
  <2> QED
    BY <1>9, <2>2, OneMoves DEF ItemCached, TakeItem
<1>10. CASE AnswerSeries(t)
  <2>1. Moves(t, "idle", "none", con[t])
    BY <1>10, MoveFinishing DEF AnswerSeries
  <2> QED
    BY <1>10, <2>1, OneMoves DEF AnswerSeries
<1> QED
  BY <1>1, <1>2, <1>3, <1>4, <1>5, <1>6, <1>7, <1>8, <1>9, <1>10 DEF CheckedStep

LEMMA PartPreserves ==
  ASSUME IInv, NEW t \in Threads, PartStep(t)
  PROVE  IInv'
<1> USE Mover DEF Labels, Sections, At, Ask, Release, Selecting, Parted
<1>1. CASE ConnectMatrix(t)
  <2>1. Moves(t, "connect", req[t].kind, con[t])
    BY <1>1, MoveServing DEF ConnectMatrix
  <2> QED
    BY <1>1, <2>1, OneMoves DEF ConnectMatrix
<1>2. CASE NothingToShow(t)
  <2>1. Moves(t, "idle", "none", con[t])
    BY <1>2, MoveFinishing DEF NothingToShow
  <2> QED
    BY <1>2, <2>1, OneMoves DEF NothingToShow
<1>3. CASE AskMain(t)
  <2>1. Moves(t, "main", req[t].kind, con[t])
    BY <1>3, MoveServing DEF AskMain
  <2> QED
    BY <1>3, <2>1, OneMoves DEF AskMain
<1>4. CASE PlanMain(t)
  <2>1. PICK to \in {"mainQuery", "nextPart"} : Go(t, to)
    BY <1>4 DEF PlanMain
  <2>2. Moves(t, to, req[t].kind, con[t])
    BY <1>4, <2>1, MoveServing DEF PlanMain
  <2> QED
    BY <1>4, <2>2, OneMoves DEF PlanMain
<1>5. CASE PlanMainFails(t)
  <2>1. PICK c \in {"none", "open", "closed"} : Moves(t, "idle", "none", c)
    BY <1>5, MoveLeaving DEF PlanMainFails
  <2> QED
    BY <1>5, <2>1, OneMoves DEF PlanMainFails
<1>6. CASE QueryMain(t)
  <2>1. Moves(t, "nextPart", req[t].kind, con[t])
    BY <1>6, MoveServing DEF QueryMain
  <2> QED
    BY <1>6, <2>1, OneMoves DEF QueryMain
<1>7. CASE QueryMainFails(t)
  <2>1. PICK c \in {"none", "open", "closed"} : Moves(t, "idle", "none", c)
    BY <1>7, MoveLeaving DEF QueryMainFails
  <2> QED
    BY <1>7, <2>1, OneMoves DEF QueryMainFails
<1>8. CASE NextPart(t)
  <2>1. PICK r \in Requests : r.kind = req[t].kind /\ Keep(t, r)
    BY <1>8, KeepLeft DEF NextPart, TakeItem
  <2>2. Moves(t, "part", req[t].kind, con[t])
    BY <1>8, <2>1, MoveKeeping DEF NextPart
  <2> QED
    BY <1>8, <2>2, OneMoves DEF NextPart, TakeItem
<1>9. CASE PlanPart(t)
  <2>1. Moves(t, "partQuery", req[t].kind, con[t])
    BY <1>9, MoveServing DEF PlanPart
  <2> QED
    BY <1>9, <2>1, OneMoves DEF PlanPart
<1>10. CASE PartIsLeftOut(t)
  <2>1. Moves(t, "nextPart", req[t].kind, con[t])
    BY <1>10, MoveServing DEF PartIsLeftOut
  <2> QED
    BY <1>10, <2>1, OneMoves DEF PartIsLeftOut
<1>11. CASE PartFails(t)
  <2>1. PICK c \in {"none", "open", "closed"} : Moves(t, "idle", "none", c)
    BY <1>11, MoveLeaving DEF PartFails
  <2> QED
    BY <1>11, <2>1, OneMoves DEF PartFails
<1>12. CASE QueryPart(t)
  <2>1. Moves(t, "nextPart", req[t].kind, con[t])
    BY <1>12, MoveServing DEF QueryPart
  <2> QED
    BY <1>12, <2>1, OneMoves DEF QueryPart
<1>13. CASE QueryPartFails(t)
  <2>1. PICK c \in {"none", "open", "closed"} : Moves(t, "idle", "none", c)
    BY <1>13, MoveLeaving DEF QueryPartFails
  <2> QED
    BY <1>13, <2>1, OneMoves DEF QueryPartFails
<1>14. CASE AnswerParts(t)
  <2>1. PICK c \in {"none", "open", "closed"} : Moves(t, "idle", "none", c)
    BY <1>14, MoveLeaving DEF AnswerParts
  <2> QED
    BY <1>14, <2>1, OneMoves DEF AnswerParts
<1> QED
  BY <1>1, <1>2, <1>3, <1>4, <1>5, <1>6, <1>7, <1>8, <1>9, <1>10, <1>11, <1>12, <1>13, <1>14 DEF PartStep

LEMMA ServePreserves ==
  ASSUME IInv, NEW t \in Threads, ServeStep(t)
  PROVE  IInv'
<1> USE Mover DEF Labels, Sections, At, Ask, Release, Selecting, Parted
<1>1. CASE Secured(t)
  <2>1. Candidates(req[t]) \in SUBSET Slicers /\ {} \in SUBSET Slicers
    BY CandidatesType
  <2>2. PICK x \in SUBSET Slicers : Keep(t, [req[t] EXCEPT !.defs = x])
    BY <1>1, <2>1 DEF Secured
  <2>3. PICK r \in Requests : r.kind = req[t].kind /\ Keep(t, r)
    BY <2>2, KeepDefs
  <2>4. CASE Selecting(t)
    <3>1. Moves(t, "connect", req[t].kind, con[t])
      BY <1>1, <2>3, <2>4, MoveKeeping DEF Secured, AfterSecurity
    <3> QED
      BY <1>1, <2>4, <3>1, OneMoves DEF Secured
  <2>5. CASE req[t].kind \in Checked
    <3>1. Moves(t, "checked", req[t].kind, con[t])
      BY <1>1, <2>3, <2>5, MoveKeeping DEF Secured, AfterSecurity
    <3> QED
      BY <1>1, <2>5, <3>1, OneMoves DEF Secured, Parted
  <2>6. CASE ~ Selecting(t) /\ req[t].kind \notin Checked
    <3>1. Moves(t, "defaults", req[t].kind, con[t])
      BY <1>1, <2>3, <2>6, MoveKeeping DEF Secured, AfterSecurity
    <3> QED
      BY <1>1, <2>6, <3>1, OneMoves DEF Secured, Parted
  <2> QED
    BY <2>4, <2>5, <2>6
<1>2. CASE SecurityFails(t)
  <2>1. Moves(t, "idle", "none", con[t])
    BY <1>2, MoveFinishing DEF SecurityFails
  <2> QED
    BY <1>2, <2>1, OneMoves DEF SecurityFails
<1>3. CASE Invalidate(t)
  <2>1. Moves(t, "idle", "none", "none")
    BY <1>3, MoveFinishing DEF Invalidate
  <2> QED
    BY <1>3, <2>1, OneMoves DEF Invalidate
<1> QED
  BY <1>1, <1>2, <1>3, DefaultPreserves, PlanPreserves, FieldPreserves,
     CheckedPreserves, PartPreserves DEF ServeStep

LEMMA BeginPreserves ==
  ASSUME IInv, NEW t \in Threads,
         BeginStep(t) \/ BeginVisual(t) \/ Acquire(t) \/ AnswerBatch(t)
  PROVE  IInv'
<1> USE Mover DEF Labels, Sections, At, Ask, Parted
<1>1. CASE Begin(t)
  <2>1. PICK r \in Requests : /\ r.kind \in HttpKinds \cup {"batch"}
                              /\ Keep(t, r)
    <3>1. \/ \E k \in HttpKinds \cup {"batch"} : Keep(t, [NoRequest EXCEPT !.kind = k])
          \/ \E s \in Slicers : Keep(t, [NoRequest EXCEPT !.kind = "values", !.own = s])
          \/ \E f \in SUBSET Slicers :
               Keep(t, [NoRequest EXCEPT !.kind = "selection", !.fields = f])
      <4>1. \/ Keep(t, [NoRequest EXCEPT !.kind = "visual"])
            \/ Keep(t, [NoRequest EXCEPT !.kind = "batch"])
            \/ \E s \in Slicers : Keep(t, [NoRequest EXCEPT !.kind = "values", !.own = s])
            \/ \E affected \in (SUBSET Slicers) \ {{}} :
                 Keep(t, [NoRequest EXCEPT !.kind = "selection", !.fields = affected])
        BY <1>1, Zenon DEF Begin
      <4>2. CASE Keep(t, [NoRequest EXCEPT !.kind = "visual"])
        BY <4>2
      <4>3. CASE Keep(t, [NoRequest EXCEPT !.kind = "batch"])
        BY <4>3
      <4>4. CASE \E affected \in (SUBSET Slicers) \ {{}} :
                   Keep(t, [NoRequest EXCEPT !.kind = "selection", !.fields = affected])
        BY <4>4
      <4> QED
        BY <4>1, <4>2, <4>3, <4>4, Zenon
    <3>2. CASE \E k \in HttpKinds \cup {"batch"} : Keep(t, [NoRequest EXCEPT !.kind = k])
      <4>1. PICK k \in HttpKinds \cup {"batch"} : Keep(t, [NoRequest EXCEPT !.kind = k])
        BY <3>2
      <4>2. /\ [NoRequest EXCEPT !.kind = k] \in Requests
            /\ [NoRequest EXCEPT !.kind = k].kind = k
        BY DEF NoRequest, Requests, HttpKinds
      <4> QED
        BY <4>1, <4>2
    <3>3. CASE \E s \in Slicers : Keep(t, [NoRequest EXCEPT !.kind = "values", !.own = s])
      <4>1. PICK s \in Slicers : Keep(t, [NoRequest EXCEPT !.kind = "values", !.own = s])
        BY <3>3
      <4>2. "values" \in HttpKinds
        BY DEF HttpKinds
      <4>3. /\ [NoRequest EXCEPT !.kind = "values", !.own = s] \in Requests
            /\ [NoRequest EXCEPT !.kind = "values", !.own = s].kind = "values"
        BY <4>2 DEF NoRequest, Requests
      <4> QED
        BY <4>1, <4>2, <4>3
    <3>4. CASE \E f \in SUBSET Slicers :
                 Keep(t, [NoRequest EXCEPT !.kind = "selection", !.fields = f])
      <4>1. PICK f \in SUBSET Slicers :
              Keep(t, [NoRequest EXCEPT !.kind = "selection", !.fields = f])
        BY <3>4
      <4>2. "selection" \in HttpKinds
        BY DEF HttpKinds
      <4>3. /\ [NoRequest EXCEPT !.kind = "selection", !.fields = f] \in Requests
            /\ [NoRequest EXCEPT !.kind = "selection", !.fields = f].kind = "selection"
        BY <4>2 DEF NoRequest, Requests
      <4> QED
        BY <4>1, <4>2, <4>3
    <3> QED
      BY <3>1, <3>2, <3>3, <3>4
  <2>2. Moves(t, "security", r.kind, con[t])
    BY <1>1, <2>1, MoveKeeping DEF Begin
  <2> QED
    BY <1>1, <2>1, <2>2, OneMoves DEF Begin
<1>2. CASE BeginEdit(t)
  <2>1. PICK r \in Requests : r.kind = "edit" /\ Keep(t, r)
    <3>1. "edit" \in HttpKinds \cup {"batch"}
      OBVIOUS
    <3> QED
      <4>1. Keep(t, [NoRequest EXCEPT !.kind = "edit"])
        BY <1>2 DEF BeginEdit
      <4>2. /\ [NoRequest EXCEPT !.kind = "edit"] \in Requests
            /\ [NoRequest EXCEPT !.kind = "edit"].kind = "edit"
        BY <3>1 DEF NoRequest, Requests
      <4> QED
        BY <4>1, <4>2
  <2>2. Moves(t, "invalidate", "edit", con[t])
    BY <1>2, <2>1, MoveKeeping DEF BeginEdit
  <2> QED
    BY <1>2, <2>2, OneMoves DEF BeginEdit
<1>3. CASE BeginVisual(t)
  <2>1. PICK r \in Requests : r.kind = "part" /\ Keep(t, r)
    <3>1. PICK v \in Visuals : Keep(t, [NoRequest EXCEPT !.kind = "part", !.visual = v])
      BY <1>3 DEF BeginVisual
    <3>2. /\ [NoRequest EXCEPT !.kind = "part", !.visual = v] \in Requests
          /\ [NoRequest EXCEPT !.kind = "part", !.visual = v].kind = "part"
      BY DEF NoRequest, Requests
    <3> QED
      BY <3>1, <3>2
  <2>2. Moves(t, "plan", "part", con[t])
    <3>1. Go(t, "plan") /\ con' = con
      BY <1>3 DEF BeginVisual
    <3> QED
      BY <2>1, <3>1, MoveKeeping
  <2>3. batch' \in [Visuals -> {"none", "queued", "rendering", "done"}]
    BY <1>3 DEF BeginVisual
  <2> QED
    BY <1>3, <2>2, <2>3, OneMoves DEF BeginVisual
<1>4. CASE Acquire(t)
  <2>1. Moves(t, pc[t], req[t].kind, con[t])
    BY <1>4 DEF Acquire, Moves, Serves, IInv, TypeOK
  <2>2. pc[t] \in Labels /\ t \in waiting /\ lock = Nobody /\ lock' = t
        /\ waiting' = waiting \ {t} /\ batch' = batch
    BY <1>4 DEF Acquire, IInv, TypeOK
  <2>3. ~ (req[t].kind = "selection" /\ pc[t] \in {"defaults", "default", "fieldPlan"})
    BY <2>2
  <2> QED
    BY <2>1, <2>2, <2>3, OneMoves
<1>5. CASE AnswerBatch(t)
  BY <1>5 DEF AnswerBatch, IInv, TypeOK, PlaceInv, ConnectionInv,
     LockHeldExactlyInside, Inside, Selecting
<1> QED
  BY <1>1, <1>2, <1>3, <1>4, <1>5 DEF BeginStep

LEMMA ComesPreserves ==
  ASSUME IInv, NEW t \in Threads, NEW r \in Requests,
         NEW section \in {"security", "plan"}, r.kind # "selection", Comes(t, r, section)
  PROVE  IInv'
<1> USE Mover DEF Labels, Sections, Ask, Parted
<1>1. Moves(t, section, r.kind, con[t])
  BY MoveKeeping DEF Comes
<1> QED
  BY <1>1, OneMoves DEF Comes

LEMMA StartsPreserves ==
  ASSUME IInv, NEW t \in Threads, NEW r \in Requests,
         NEW to \in {"nextItem", "connect"}, r.kind # "selection", Starts(t, r, to)
  PROVE  IInv'
<1> USE Mover DEF Labels, Sections, Parted
<1>1. Moves(t, to, r.kind, con[t])
  BY MoveKeeping DEF Starts
<1> QED
  BY <1>1, OneMoves DEF Starts

LEMMA OtherPreserves ==
  ASSUME IInv, NEW t \in Threads, BeginOther(t)
  PROVE  IInv'
<1>1. CASE \E k \in {"evaluate", "table", "tableEdit", "rows", "matrixExport"} :
             Comes(t, Asked(k), "security")
  BY <1>1, AskedType, ComesPreserves
<1>2. CASE Comes(t, Asked("check"), "plan")
  <2>1. Asked("check") \in Requests /\ Asked("check").kind = "check"
    BY AskedType, 0 \in Nat
  <2> QED
    BY <1>2, <2>1, ComesPreserves
<1>3. CASE \E n \in 0 .. Parts : Comes(t, AskedFor("matrix", n), "security")
  <2>1. PICK n \in Nat : Comes(t, AskedFor("matrix", n), "security")
    BY <1>3
  <2>2. AskedFor("matrix", n) \in Requests /\ AskedFor("matrix", n).kind = "matrix"
    BY AskedType
  <2> QED
    BY <2>1, <2>2, ComesPreserves
<1>4. CASE \E n \in 0 .. Parts, k \in Series : Starts(t, AskedFor(k, n), "nextItem")
  BY <1>4, AskedType, StartsPreserves, PartsAssumption
<1>5. CASE \E n \in 0 .. Parts : Starts(t, AskedFor("playbook", n), "connect")
  BY <1>5, AskedType, StartsPreserves, PartsAssumption
<1>6. \/ \E k \in {"evaluate", "table", "tableEdit", "rows", "matrixExport"} :
           Comes(t, Asked(k), "security")
      \/ Comes(t, Asked("check"), "plan")
      \/ \E n \in 0 .. Parts : Comes(t, AskedFor("matrix", n), "security")
      \/ \E n \in 0 .. Parts, k \in Series : Starts(t, AskedFor(k, n), "nextItem")
      \/ \E n \in 0 .. Parts : Starts(t, AskedFor("playbook", n), "connect")
  BY Zenon DEF BeginOther, BeginEvaluate, BeginTable, BeginRows, BeginMatrixExport,
     BeginMatrix, BeginCheck, BeginExport, BeginAnalyze, BeginPlaybook
<1> QED
  BY <1>1, <1>2, <1>3, <1>4, <1>5, <1>6

LEMMA InitIInv == Init => IInv
<1> SUFFICES ASSUME Init PROVE IInv
  OBVIOUS
<1>1. TypeOK
  BY NoRequestType DEF Init, TypeOK, Labels
<1>2. \A t \in Threads : pc[t] = "idle" /\ req[t].kind = "none" /\ waiting = {}
  BY NoRequestType DEF Init
<1>3. PlaceInv /\ ConnectionInv
  BY <1>2 DEF PlaceInv, ConnectionInv, Selecting, Parted
<1>4. LockHeldExactlyInside
  BY <1>2, ThreadsAssumption DEF Init, LockHeldExactlyInside, Inside, Selecting, Sections
<1> QED
  BY <1>1, <1>3, <1>4 DEF IInv

LEMMA Invariant == Spec => []IInv
<1>1. IInv /\ [Next]_vars => IInv'
  <2> SUFFICES ASSUME IInv, [Next]_vars PROVE IInv'
    OBVIOUS
  <2>1. CASE UNCHANGED vars
    BY <2>1 DEF vars, IInv, TypeOK, PlaceInv, ConnectionInv,
       LockHeldExactlyInside, Inside, Selecting
  <2>2. CASE Next
    BY <2>2, ServePreserves, BeginPreserves, OtherPreserves DEF Next
  <2> QED
    BY <2>1, <2>2
<1> QED
  BY <1>1, InitIInv, PTL DEF Spec

(* The state of every thread, request, connection and visual has its type. *)
THEOREM EngineLockTypes == Spec => []TypeOK
  BY Invariant, PTL DEF IInv

(* However many threads contend, and also when one of them blocks on the lock it
   holds: the lock is held by the one thread inside a section, and every way out
   of a section, success or error, gives it back.                             *)
THEOREM EngineLockExclusive == Spec => []LockHeldExactlyInside
  BY Invariant, PTL DEF IInv

(* Connections that are closed while they stay cached never reach a query. *)
THEOREM ConnectionsOpen == Spec => []QueriesRunOnOpenConnections
<1>1. IInv => QueriesRunOnOpenConnections
  BY DEF IInv, ConnectionInv, PlaceInv, Parted, QueriesRunOnOpenConnections
<1> QED
  BY <1>1, Invariant, PTL
===============================================================================
