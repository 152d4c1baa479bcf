-------------------------- MODULE RenderJobsProofs --------------------------
(***************************************************************************)
(* Proofs about RenderJobs, for any number of pages and of jobs.           *)
(*                                                                         *)
(* First the jobs alone (JobInv): who holds a job, on which list it is,    *)
(* and that a request has at most one live job.  Then, from JobInv, the    *)
(* reference counts (RefInv), whose type correctness needs the counting    *)
(* argument: a count never drops below zero because it equals the number   *)
(* of things that point to the object.  Last, by an instance of PoolQueue, *)
(* the order in which the jobs wait.                                       *)
(***************************************************************************)
EXTENDS RenderJobs, FiniteSetTheorems, SequenceTheorems, WellFoundedInduction, TLAPS

\* The queue that these jobs wait in, with the jobs there that have been aborted.
CONSTANT MaxAhead
VARIABLES queue, dropped, viewTime, working

Pool == INSTANCE PoolQueue WITH aborted <- dropped

JobTypes ==
  /\ stage \in [Jobs -> {"free", "queued", "worker", "posted"}]
  /\ jobRequest \in [Jobs -> Requests \union {NoRequest}]
  /\ aborted \in [Jobs -> BOOLEAN]
  /\ active \in [Requests -> SUBSET Jobs]
  /\ pc \in WorkerPCs

\* A job in use belongs to a request, a free one to none.
JobInUse == \A j \in Jobs : stage[j] = "free" <=> jobRequest[j] = NoRequest

\* The worker holds at most one job, and none exactly when idle or waiting.
WorkerHolds ==
  /\ \A i, j \in Jobs : stage[i] = "worker" /\ stage[j] = "worker" => i = j
  /\ pc \in {"idle", "selfwait"} <=> \A j \in Jobs : stage[j] # "worker"

JobCore == JobTypes /\ JobInUse /\ WorkerHolds /\ JobsListed /\ SingleLiveJob

\* While the document is being opened only requests that main holds have jobs.
OpeningIsQuiet ==
  phase = "opening" =>
    \A j \in Jobs : jobRequest[j] # NoRequest => jobRequest[j] \in owned

JobInv == JobCore /\ OpeningIsQuiet

\* A request is never the "no request" of a free job.
LEMMA NoRequestIsNone == NoRequest \notin Requests
  BY RequestsAssumption DEF Requests

\* The jobs are in order when the renderer is created.
LEMMA JobInit == Init => JobInv
  BY NoRequestIsNone
  DEF Init, JobInv, JobTypes, JobInUse, WorkerHolds, JobsListed, SingleLiveJob,
      Live, WorkerPCs, JobCore, OpeningIsQuiet

\* Queueing a job on a request without a live one keeps the jobs in order,
\* whatever else the step does.
LEMMA QueueJobInv ==
  ASSUME JobCore, NEW r \in Requests, NEW j \in Jobs,
         QueueJob(r, j), Live(r) = {}, UNCHANGED pc
  PROVE  JobCore'
<1> USE DEF JobCore
<1>1. JobTypes'
  BY DEF JobTypes, QueueJob
<1>2. JobInUse'
  BY NoRequestIsNone DEF JobTypes, JobInUse, QueueJob
<1>3. WorkerHolds'
  BY DEF JobTypes, WorkerHolds, QueueJob
<1>4. \A s \in Requests : j \notin active[s]
  BY DEF JobsListed, QueueJob
<1>5. JobsListed'
  <2>1. SUFFICES ASSUME NEW i \in Jobs, NEW s \in Requests
                 PROVE  i \in active'[s] <=> /\ stage'[i] # "free"
                                             /\ jobRequest'[i] = s
                                             /\ ~(stage'[i] = "worker" /\ pc' = "unref")
    BY DEF JobsListed
  <2>2. CASE i = j
    BY <1>4, <2>2 DEF JobTypes, QueueJob
  <2>3. CASE i # j
    <3>1. i \in active'[s] <=> i \in active[s]
      BY <2>3 DEF JobTypes, QueueJob
    <3>2. stage'[i] = stage[i] /\ jobRequest'[i] = jobRequest[i]
      BY <2>3 DEF JobTypes, QueueJob
    <3>. QED  BY <3>1, <3>2 DEF JobsListed
  <2>. QED  BY <2>2, <2>3
<1>6. SingleLiveJob'
  <2>1. SUFFICES ASSUME NEW s \in Requests, NEW i \in Live(s)', NEW k \in Live(s)'
                 PROVE  i = k
    BY DEF SingleLiveJob
  <2>2. i \in Jobs /\ k \in Jobs /\ i \in active'[s] /\ k \in active'[s]
        /\ ~aborted'[i] /\ ~aborted'[k]
    BY <1>1 DEF JobTypes, Live
  <2>3. CASE s = r
    <3>1. \A x \in active'[s] : x # j => aborted'[x]
      BY <2>3 DEF JobTypes, QueueJob, Live
    <3>. QED  BY <2>2, <3>1
  <2>4. CASE s # r
    <3>1. \A x \in active'[s] : x \in active[s] /\ x # j /\ x \in Jobs
      BY <1>4, <2>4 DEF JobTypes, QueueJob
    <3>2. \A x \in active'[s] : aborted'[x] = aborted[x]
      BY <3>1 DEF JobTypes, QueueJob
    <3>. QED  BY <2>2, <3>1, <3>2 DEF SingleLiveJob, Live
  <2>. QED  BY <2>3, <2>4
<1>. QED  BY <1>1, <1>2, <1>3, <1>5, <1>6

\* Giving a job back, by removal on the main thread (Dispatch) or after the
\* removal on the worker (Unref), keeps the jobs in order.
LEMMA GiveBackInv ==
  ASSUME JobCore, NEW j \in Jobs, FreeJob(j), aborted' = aborted,
         \/ /\ stage[j] = "posted" /\ UNCHANGED pc
            /\ active' = [active EXCEPT ![jobRequest[j]] = @ \ {j}]
         \/ /\ stage[j] = "worker" /\ pc = "unref" /\ UNCHANGED active
            /\ pc' \in {"idle", "selfwait"}
  PROVE  JobCore'
<1> USE DEF JobCore
<1>0. jobRequest[j] \in Requests /\ stage[j] # "free"
  BY DEF JobTypes, JobInUse
<1>1. JobTypes'
  BY DEF JobTypes, FreeJob, WorkerPCs
<1>2. JobInUse'
  BY NoRequestIsNone DEF JobTypes, JobInUse, FreeJob
<1>3. WorkerHolds'
  BY DEF JobTypes, WorkerHolds, FreeJob
<1>4. \A s \in Requests : active'[s] = active[s] \ {j}
  BY <1>0 DEF JobTypes, JobsListed
<1>5. JobsListed'
  <2>1. SUFFICES ASSUME NEW i \in Jobs, NEW s \in Requests
                 PROVE  i \in active'[s] <=> /\ stage'[i] # "free"
                                             /\ jobRequest'[i] = s
                                             /\ ~(stage'[i] = "worker" /\ pc' = "unref")
    BY DEF JobsListed
  <2>2. CASE i = j
    BY <1>4, <2>2 DEF JobTypes, FreeJob
  <2>3. CASE i # j
    <3>1. stage'[i] = stage[i] /\ jobRequest'[i] = jobRequest[i]
      BY <2>3 DEF JobTypes, FreeJob
    <3>2. (stage[i] = "worker" /\ pc = "unref") <=> (stage'[i] = "worker" /\ pc' = "unref")
      BY <2>3, <3>1 DEF WorkerHolds
    <3>. QED  BY <1>4, <2>3, <3>1, <3>2 DEF JobsListed
  <2>. QED  BY <2>2, <2>3
<1>6. SingleLiveJob'
  <2>1. \A s \in Requests : Live(s)' \subseteq Live(s)
    BY <1>4 DEF Live
  <2>. QED  BY <2>1 DEF SingleLiveJob
<1>. QED  BY <1>1, <1>2, <1>3, <1>5, <1>6

\* A step that leaves the jobs and the worker alone keeps the jobs in order.
LEMMA JobFrame ==
  ASSUME JobCore, UNCHANGED <<jobVars, pc>>
  PROVE  JobCore'
  BY DEF JobCore, JobTypes, JobInUse, WorkerHolds, JobsListed, SingleLiveJob,
         Live, jobVars

\* A step of the worker between taking a job and giving it up.
LEMMA WorkerMovesInv ==
  ASSUME JobCore, NEW j \in Jobs, NEW from, from # "unref",
         NEW to \in WorkerPCs \ {"idle", "selfwait", "unref"},
         WorkerMoves(j, from, to)
  PROVE  JobCore'
  BY DEF JobCore, JobTypes, JobInUse, WorkerHolds, JobsListed, SingleLiveJob,
         Live, jobVars, WorkerMoves

\* Every step keeps the jobs in order.
LEMMA JobCoreNext == JobInv /\ [Next]_vars => JobCore'
<1> SUFFICES ASSUME JobCore, OpeningIsQuiet, [Next]_vars  PROVE JobCore'
  BY DEF JobInv
<1>1. CASE OpenStep
  <2>1. ASSUME NEW r \in Icons, NEW j \in Jobs, OpenIcon(r, j)  PROVE JobCore'
    <3>1. r \in Requests
      BY DEF Requests
    <3>2. Live(r) = {}
      BY <2>1, <3>1, NoRequestIsNone DEF OpenIcon, OpeningIsQuiet, JobCore, JobTypes, JobsListed, Live
    <3>. QED  BY <2>1, <3>1, <3>2, QueueJobInv DEF OpenIcon
  <2>2. ASSUME NEW r \in Pages, OpenPage(r)  PROVE JobCore'
    BY <2>2, JobFrame DEF OpenPage
  <2>3. CASE Opened
    BY <2>3, JobFrame DEF Opened
  <2>. QED  BY <1>1, <2>1, <2>2, <2>3 DEF OpenStep
<1>2. ASSUME NEW r \in Requests, NEW j \in Jobs, RequestRender(r, j)  PROVE JobCore'
  BY <1>2, QueueJobInv DEF RequestRender
<1>3. ASSUME NEW r \in Requests, Abort(r)  PROVE JobCore'
  <2>1. Live(r)' = {} /\ \A s \in Requests : Live(s)' \subseteq Live(s)
    BY <1>3 DEF Abort, Live, JobCore, JobTypes
  <2>. QED
    BY <1>3, <2>1 DEF Abort, JobCore, JobTypes, JobInUse, WorkerHolds, JobsListed, SingleLiveJob
<1>4. ASSUME NEW j \in Jobs, Dispatch(j)  PROVE JobCore'
  BY <1>4, GiveBackInv DEF Dispatch
<1>5. CASE Stop
  BY <1>5, JobFrame DEF Stop
<1>6. CASE CloseStep
  BY <1>6, JobFrame
  DEF CloseStep, ClearIcon, ReleaseRenderer, KeepAsPredecessor, StartDropping, DropPage, FreeDocument
<1>7. CASE StartDropping
  BY <1>7, JobFrame DEF StartDropping
<1>8. ASSUME NEW j \in Jobs, Take(j)  PROVE JobCore'
  BY <1>8 DEF Take, JobCore, JobTypes, JobInUse, WorkerHolds, JobsListed, SingleLiveJob, Live, WorkerPCs
<1>9. ASSUME NEW j \in Jobs, WorkerStep(j)  PROVE JobCore'
  <2>1. CASE BackOut(j) \/ StartRender(j) \/ RenderFails(j) \/ RenderIsCutShort(j)
             \/ Recolor(j) \/ PostFails(j)
    BY <2>1, WorkerMovesInv
    DEF BackOut, StartRender, RenderFails, RenderIsCutShort, Recolor, PostFails, WorkerPCs
  <2>2. CASE Post(j)
    BY <2>2 DEF Post, JobCore, JobTypes, JobInUse, WorkerHolds, JobsListed, SingleLiveJob,
                Live, WorkerPCs
  <2>3. CASE Remove(j)
    <3>1. jobRequest[j] \in Requests
      BY <2>3 DEF Remove, JobCore, JobTypes, JobInUse
    <3>2. \A s \in Requests : active'[s] = active[s] \ {j}
      BY <2>3, <3>1 DEF Remove, JobCore, JobTypes, JobsListed
    <3>3. JobTypes' /\ JobInUse' /\ WorkerHolds'
      BY <2>3 DEF Remove, JobCore, JobTypes, JobInUse, WorkerHolds, WorkerPCs
    <3>4. JobsListed'
      BY <2>3, <3>2 DEF Remove, JobCore, JobTypes, JobsListed, WorkerHolds
    <3>5. SingleLiveJob'
      BY <2>3, <3>2 DEF Remove, JobCore, SingleLiveJob, Live
    <3>. QED  BY <3>3, <3>4, <3>5 DEF JobCore
  <2>4. CASE Unref(j)
    BY <2>4, GiveBackInv DEF Unref
  <2>. QED  BY <1>9, <2>1, <2>2, <2>3, <2>4 DEF WorkerStep
<1>10. CASE UNCHANGED vars
  BY <1>10, JobFrame DEF vars, jobVars
<1>. QED
  BY <1>1, <1>2, <1>3, <1>4, <1>5, <1>6, <1>7, <1>8, <1>9, <1>10 DEF Next

\* While the document is being opened, only requests that main holds get jobs.
LEMMA OpeningIsQuietNext == JobInv /\ [Next]_vars => OpeningIsQuiet'
<1> SUFFICES ASSUME JobCore, OpeningIsQuiet, [Next]_vars, phase' = "opening"
             PROVE  \A i \in Jobs : jobRequest'[i] # NoRequest => jobRequest'[i] \in owned'
  BY DEF JobInv, OpeningIsQuiet
<1> USE DEF JobCore, JobTypes, OpeningIsQuiet
<1>1. CASE OpenStep
  BY <1>1 DEF OpenStep, OpenIcon, OpenPage, Opened, QueueJob, NewRequest, jobVars
<1>2. ASSUME NEW j \in Jobs, Take(j) \/ WorkerStep(j)
      PROVE  phase = "opening" /\ owned' = owned
             /\ \A i \in Jobs : jobRequest'[i] \in {jobRequest[i], NoRequest}
  BY <1>2 DEF Take, WorkerStep, BackOut, StartRender, RenderFails, RenderIsCutShort, Recolor,
              Post, PostFails, Remove, Unref, WorkerMoves, FreeJob, jobVars, mainVars
<1>3. ASSUME NEW r \in Requests, NEW j \in Jobs, RequestRender(r, j)
      PROVE  FALSE
  BY <1>3 DEF RequestRender, mainVars
<1>4. CASE Stop \/ CloseStep \/ StartDropping
  BY <1>4 DEF Stop, CloseStep, ClearIcon, ReleaseRenderer, KeepAsPredecessor, StartDropping,
              DropPage, FreeDocument
<1>5. CASE UNCHANGED vars
  BY <1>5 DEF vars
<1>6. ASSUME NEW r \in Requests, Abort(r)  PROVE FALSE
  BY <1>6 DEF Abort, mainVars
<1>7. ASSUME NEW j \in Jobs, Dispatch(j)  PROVE FALSE
  BY <1>7 DEF Dispatch, InMainLoop
<1>. QED
  BY <1>1, <1>2, <1>3, <1>4, <1>5, <1>6, <1>7 DEF Next

\* The job layer of the invariant holds in every behaviour, by the inductive step
\* of its core together with opening being quiet.
LEMMA JobInvariant == Spec => []JobInv
<1>1. JobInv /\ [Next]_vars => JobInv'
  BY JobCoreNext, OpeningIsQuietNext DEF JobInv
<1>. QED  BY JobInit, <1>1, PTL DEF Spec

\* However draws, aborts, the worker and the completions interleave, a request
\* never has two jobs that are not aborted.
THEOREM OneLiveJobPerRequest == Spec => []SingleLiveJob
  BY JobInvariant, PTL DEF JobInv, JobCore

\* active_jobs holds exactly the jobs that are still to be removed from it.
THEOREM ListsAreExact == Spec => []JobsListed
  BY JobInvariant, PTL DEF JobInv, JobCore

-----------------------------------------------------------------------------
(* Reference counts *)

PointersTo(r) == Cardinality(JobsOf(r)) + (IF r \in owned THEN 1 ELSE 0)

RendererPointers ==
  Cardinality(registered) + (IF MainHoldsRenderer THEN 1 ELSE 0)

\* The counts are what they count.
Counted ==
  /\ refs \in [Requests -> Nat]
  /\ registered \subseteq Requests
  /\ rendererRefs \in Nat
  /\ owned \subseteq Requests
  /\ RequestRefs
  /\ rendererRefs = RendererPointers

PhaseInv ==
  /\ phase \in Phases
  /\ aboutToClose = (phase \notin {"opening", "open"})
  /\ completed \in [Requests -> BOOLEAN]
  /\ pc = "selfwait" => rendererRefs = 0

RefInv == JobInv /\ Counted /\ PhaseInv

\* Sets of jobs and of requests are finite, so their cardinalities are numbers.
LEMMA CountsAreNumbers ==
  /\ IsFiniteSet(Requests)
  /\ \A S : S \subseteq Requests => IsFiniteSet(S) /\ Cardinality(S) \in Nat
  /\ \A S : S \subseteq Jobs => IsFiniteSet(S) /\ Cardinality(S) \in Nat
<1>1. IsFiniteSet(Requests)
  BY FiniteAssumption, FS_Union DEF Requests
<1>2. \A S : S \subseteq Requests => IsFiniteSet(S) /\ Cardinality(S) \in Nat
  BY <1>1, FS_Subset, FS_CardinalityType
<1>3. \A S : S \subseteq Jobs => IsFiniteSet(S) /\ Cardinality(S) \in Nat
  BY FiniteAssumption, FS_Subset, FS_CardinalityType
<1>. QED  BY <1>1, <1>2, <1>3

\* Queueing a job adds one pointer to its request and to no other.
LEMMA QueueJobCount ==
  ASSUME JobCore, NEW r \in Requests, NEW j \in Jobs, QueueJob(r, j)
  PROVE  /\ Cardinality(JobsOf(r))' = Cardinality(JobsOf(r)) + 1
         /\ \A s \in Requests \ {r} : JobsOf(s)' = JobsOf(s)
<1> USE DEF JobCore, JobTypes, JobInUse, QueueJob
<1>1. jobRequest[j] = NoRequest
  OBVIOUS
<1>2. JobsOf(r)' = JobsOf(r) \union {j} /\ j \notin JobsOf(r)
  BY <1>1, NoRequestIsNone DEF JobsOf
<1>3. Cardinality(JobsOf(r) \union {j}) = Cardinality(JobsOf(r)) + 1
  BY <1>2, CountsAreNumbers, FS_AddElement DEF JobsOf
<1>4. \A s \in Requests \ {r} : JobsOf(s)' = JobsOf(s)
  BY <1>1, NoRequestIsNone DEF JobsOf
<1>. QED  BY <1>2, <1>3, <1>4

\* Giving a job back removes one pointer from its request and from no other.
LEMMA FreeJobCount ==
  ASSUME JobCore, NEW j \in Jobs, NEW r \in Requests, jobRequest[j] = r, FreeJob(j)
  PROVE  /\ Cardinality(JobsOf(r))' = Cardinality(JobsOf(r)) - 1
         /\ Cardinality(JobsOf(r)) > 0
         /\ \A s \in Requests \ {r} : JobsOf(s)' = JobsOf(s)
<1> USE DEF JobCore, JobTypes, FreeJob
<1>1. \A s \in Requests \ {r} : JobsOf(s)' = JobsOf(s)
  BY NoRequestIsNone DEF JobsOf
<1>2. JobsOf(r)' = JobsOf(r) \ {j} /\ j \in JobsOf(r)
  BY NoRequestIsNone DEF JobsOf
<1>3. Cardinality(JobsOf(r) \ {j}) = Cardinality(JobsOf(r)) - 1
  BY <1>2, CountsAreNumbers, FS_RemoveElement DEF JobsOf
<1>4. Cardinality(JobsOf(r)) > 0
  <2>1. JobsOf(r) \subseteq Jobs /\ JobsOf(r) # {}
    BY <1>2 DEF JobsOf
  <2>. QED  BY <2>1, CountsAreNumbers, FS_EmptySet
<1>. QED  BY <1>1, <1>2, <1>3, <1>4

\* Dropping one of the pointers to a request, by a job given back or by main
\* letting go of it, keeps the counts right; the renderer's follows.
LEMMA UnrefCount ==
  ASSUME Counted, NEW r \in Requests, UnrefRequest(r),
         PointersTo(r) > 0, PointersTo(r)' = PointersTo(r) - 1,
         \A s \in Requests \ {r} : PointersTo(s)' = PointersTo(s),
         owned' \subseteq owned, MainHoldsRenderer' = MainHoldsRenderer
  PROVE  Counted' /\ refs[r] > 0
<1> USE DEF Counted, UnrefRequest
<1>1. refs[r] = PointersTo(r) /\ refs[r] > 0 /\ r \in registered
  BY DEF RequestRefs, PointersTo
<1>2. refs' \in [Requests -> Nat] /\ refs'[r] = refs[r] - 1
      /\ \A s \in Requests \ {r} : refs'[s] = refs[s]
  BY <1>1
<1>3. \A s \in Requests : refs'[s] = PointersTo(s)'
  BY <1>1, <1>2 DEF RequestRefs, PointersTo
<1>4. \A s \in Requests : s \in registered' <=> refs'[s] > 0
  BY <1>1, <1>2 DEF RequestRefs
<1>5. RequestRefs'
  BY <1>3, <1>4 DEF RequestRefs, PointersTo
<1>6. registered' \subseteq Requests /\ owned' \subseteq Requests
  OBVIOUS
<1>7. rendererRefs' = RendererPointers' /\ rendererRefs' \in Nat
  <2>1. CASE refs[r] = 1
    <3>1. Cardinality(registered \ {r}) = Cardinality(registered) - 1
      BY <1>1, CountsAreNumbers, FS_RemoveElement
    <3>2. Cardinality(registered') \in Nat /\ Cardinality(registered) \in Nat
      BY <1>6, CountsAreNumbers
    <3>3. registered' = registered \ {r} /\ rendererRefs' = rendererRefs - 1
      BY <2>1
    <3>4. Cardinality(registered') = Cardinality(registered) - 1
      BY <3>1, <3>3
    <3>. QED
      BY <3>2, <3>3, <3>4 DEF RendererPointers
  <2>2. CASE refs[r] # 1
    BY <2>2 DEF RendererPointers
  <2>. QED  BY <2>1, <2>2
<1>. QED  BY <1>1, <1>2, <1>5, <1>6, <1>7

\* A new request is pointed to by main, and points to the renderer.
LEMMA NewRequestCount ==
  ASSUME Counted, NEW r \in Requests, r \notin owned, Cardinality(JobsOf(r)) = 0,
         NEW n \in Nat, n > 0,
         refs' = [refs EXCEPT ![r] = n], n = PointersTo(r)',
         \A s \in Requests \ {r} : PointersTo(s)' = PointersTo(s),
         rendererRefs' = rendererRefs + 1, registered' = registered \union {r},
         owned' = owned \union {r}, MainHoldsRenderer' = MainHoldsRenderer
  PROVE  Counted'
<1> USE DEF Counted
<1>1. r \notin registered
  BY DEF RequestRefs
<1>2. RequestRefs'
  BY DEF RequestRefs, PointersTo
<1>3. Cardinality(registered') = Cardinality(registered) + 1
  BY <1>1, CountsAreNumbers, FS_AddElement
<1>4. rendererRefs' = RendererPointers'
  BY <1>3, CountsAreNumbers DEF RendererPointers
<1>. QED  BY <1>2, <1>4

\* A step that touches neither references nor pointers keeps the counts.
LEMMA CountFrame ==
  ASSUME Counted, UNCHANGED <<refVars, owned, jobRequest>>,
         MainHoldsRenderer' = MainHoldsRenderer
  PROVE  Counted'
  BY DEF Counted, RequestRefs, RendererPointers, JobsOf, refVars

\* A renderer without references has no requests, and so no jobs, left.
LEMMA NothingLeft ==
  ASSUME JobCore, Counted, rendererRefs = 0
  PROVE  /\ ~MainHoldsRenderer /\ registered = {} /\ owned = {}
         /\ \A j \in Jobs : stage[j] = "free"
<1> USE DEF Counted
<1>1. Cardinality(registered) \in Nat /\ IsFiniteSet(registered)
  BY CountsAreNumbers
<1>2. Cardinality(registered) = 0 /\ ~MainHoldsRenderer
  BY <1>1 DEF RendererPointers
<1>3. registered = {}
  BY <1>1, <1>2, FS_EmptySet
<1>4. \A r \in Requests : refs[r] = 0
  BY <1>3 DEF RequestRefs
<1>5. \A r \in Requests : JobsOf(r) = {} /\ r \notin owned
  <2>1. SUFFICES ASSUME NEW r \in Requests  PROVE JobsOf(r) = {} /\ r \notin owned
    OBVIOUS
  <2>2. IsFiniteSet(JobsOf(r)) /\ Cardinality(JobsOf(r)) \in Nat
    BY CountsAreNumbers DEF JobsOf
  <2>3. Cardinality(JobsOf(r)) = 0 /\ r \notin owned
    BY <1>4, <2>2 DEF RequestRefs
  <2>. QED  BY <2>2, <2>3, FS_EmptySet
<1>6. \A j \in Jobs : jobRequest[j] = NoRequest
  BY <1>5 DEF JobsOf, JobCore, JobTypes
<1>. QED  BY <1>2, <1>3, <1>5, <1>6 DEF JobCore, JobInUse

\* The counts start right.
LEMMA RefInit == Init => RefInv
<1> SUFFICES ASSUME Init  PROVE RefInv
  OBVIOUS
<1> USE DEF Init
<1>1. \A r \in Requests : JobsOf(r) = {}
  BY NoRequestIsNone DEF JobsOf
<1>2. Cardinality({}) = 0
  BY FS_EmptySet
<1>3. Counted
  BY <1>1, <1>2 DEF Counted, RequestRefs, RendererPointers, MainHoldsRenderer
<1>4. PhaseInv
  BY DEF PhaseInv, Phases
<1>. QED  BY <1>3, <1>4, JobInit DEF RefInv

\* A page or the icon gets its request while the document is being opened.
LEMMA OpenStepCount ==
  ASSUME JobInv, Counted, OpenStep
  PROVE  Counted' /\ rendererRefs' >= rendererRefs
<1> USE DEF Counted
<1>1. ASSUME NEW r \in Requests, phase = "opening", r \notin owned
      PROVE  JobsOf(r) = {} /\ Cardinality(JobsOf(r)) = 0
  <2>1. JobsOf(r) = {}
    BY <1>1, NoRequestIsNone DEF JobsOf, JobInv, OpeningIsQuiet
  <2>. QED  BY <2>1, FS_EmptySet
<1>2. ASSUME NEW r \in Icons, NEW j \in Jobs, OpenIcon(r, j)
      PROVE  Counted' /\ rendererRefs' >= rendererRefs
  <2>1. r \in Requests /\ phase = "opening" /\ r \notin owned /\ QueueJob(r, j)
    BY <1>2 DEF OpenIcon, Requests
  <2>2. Cardinality(JobsOf(r)) = 0 /\ Cardinality(JobsOf(r))' = 1
    BY <1>1, <2>1, QueueJobCount DEF JobInv
  <2>3. PointersTo(r)' = 2
    BY <1>2, <2>2 DEF PointersTo, OpenIcon
  <2>4. \A s \in Requests \ {r} : PointersTo(s)' = PointersTo(s)
    BY <1>2, <2>1, QueueJobCount DEF PointersTo, OpenIcon, JobInv
  <2>. QED
    <3>1. /\ refs' = [refs EXCEPT ![r] = 2] /\ rendererRefs' = rendererRefs + 1
          /\ registered' = registered \union {r} /\ owned' = owned \union {r}
          /\ MainHoldsRenderer' = MainHoldsRenderer
      BY <1>2 DEF OpenIcon, MainHoldsRenderer
    <3>2. Counted'
      BY <2>1, <2>2, <2>3, <2>4, <3>1, 2 > 0, 2 \in Nat, NewRequestCount
    <3>. QED  BY <3>1, <3>2
<1>3. ASSUME NEW r \in Pages, OpenPage(r)
      PROVE  Counted' /\ rendererRefs' >= rendererRefs
  <2>1. r \in Requests /\ phase = "opening" /\ r \notin owned /\ NewRequest(r)
    BY <1>3 DEF OpenPage, Requests, NewRequest
  <2>2. \A s \in Requests : JobsOf(s)' = JobsOf(s)
    BY <1>3 DEF OpenPage, jobVars, JobsOf
  <2>3. PointersTo(r)' = 1 /\ Cardinality(JobsOf(r)) = 0
    BY <1>1, <2>1, <2>2 DEF PointersTo, NewRequest
  <2>4. \A s \in Requests \ {r} : PointersTo(s)' = PointersTo(s)
    BY <2>1, <2>2 DEF PointersTo, NewRequest
  <2>. QED
    <3>1. /\ refs' = [refs EXCEPT ![r] = 1] /\ rendererRefs' = rendererRefs + 1
          /\ registered' = registered \union {r} /\ owned' = owned \union {r}
          /\ MainHoldsRenderer' = MainHoldsRenderer
      BY <1>3 DEF OpenPage, NewRequest, MainHoldsRenderer
    <3>2. Counted'
      BY <2>1, <2>3, <2>4, <3>1, 1 > 0, 1 \in Nat, NewRequestCount
    <3>. QED  BY <3>1, <3>2
<1>4. CASE Opened
  BY <1>4, CountFrame DEF Opened, refVars, jobVars, MainHoldsRenderer
<1>. QED  BY <1>2, <1>3, <1>4 DEF OpenStep

\* A job handed to the pool is counted.
LEMMA RequestRenderCount ==
  ASSUME JobCore, Counted, NEW r \in Requests, NEW j \in Jobs, RequestRender(r, j)
  PROVE  Counted'
<1> USE DEF Counted, RequestRender, mainVars
<1>1. Cardinality(JobsOf(r))' = Cardinality(JobsOf(r)) + 1
      /\ \A s \in Requests \ {r} : JobsOf(s)' = JobsOf(s)
  BY QueueJobCount
<1>2. RequestRefs'
  <2>1. \A s \in Requests : refs'[s] = Cardinality(JobsOf(s))' + (IF s \in owned' THEN 1 ELSE 0)
    <3>1. Cardinality(JobsOf(r)) \in Nat
      BY CountsAreNumbers DEF JobsOf
    <3>. QED  BY <1>1, <3>1 DEF RequestRefs
  <2>2. r \in registered
    <3>1. Cardinality(JobsOf(r)) \in Nat
      BY CountsAreNumbers DEF JobsOf
    <3>. QED  BY <3>1 DEF RequestRefs
  <2>. QED  BY <2>1, <2>2 DEF RequestRefs
<1>. QED  BY <1>2 DEF RendererPointers, MainHoldsRenderer

\* A job given back, on either thread, is no longer counted.
LEMMA GiveBackCount ==
  ASSUME JobCore, Counted, NEW j \in Jobs, jobRequest[j] \in Requests,
         FreeJob(j), UnrefRequest(jobRequest[j]), UNCHANGED <<owned, phase>>
  PROVE  Counted' /\ rendererRefs > 0
<1>0. PICK r \in Requests : r = jobRequest[j]
  OBVIOUS
<1>1. /\ Cardinality(JobsOf(r))' = Cardinality(JobsOf(r)) - 1
      /\ Cardinality(JobsOf(r)) > 0
      /\ \A s \in Requests \ {r} : JobsOf(s)' = JobsOf(s)
  BY <1>0, FreeJobCount
<1>2. PointersTo(r) > 0 /\ PointersTo(r)' = PointersTo(r) - 1
  <2>1. Cardinality(JobsOf(r)) \in Nat
    BY CountsAreNumbers DEF JobsOf
  <2>. QED  BY <1>1, <2>1 DEF PointersTo
<1>3. \A s \in Requests \ {r} : PointersTo(s)' = PointersTo(s)
  BY <1>1 DEF PointersTo
<1>4. UnrefRequest(r)
  BY <1>0
<1>5. Counted' /\ refs[r] > 0
  BY <1>2, <1>3, <1>4, UnrefCount DEF MainHoldsRenderer
<1>. QED
  BY <1>0, <1>5, NothingLeft DEF Counted, JobCore, JobInUse, JobTypes, RequestRefs

\* Main letting go of a request.
LEMMA LetGoCount ==
  ASSUME JobCore, Counted, NEW r \in owned, UnrefRequest(r), UNCHANGED jobRequest,
         owned' = owned \ {r}, MainHoldsRenderer' = MainHoldsRenderer
  PROVE  Counted' /\ rendererRefs > 0
<1>1. r \in Requests /\ Cardinality(JobsOf(r)) \in Nat
  BY CountsAreNumbers DEF Counted, JobsOf
<1>2. \A s \in Requests : JobsOf(s)' = JobsOf(s)
  BY DEF JobsOf
<1>3. PointersTo(r) > 0 /\ PointersTo(r)' = PointersTo(r) - 1
      /\ \A s \in Requests \ {r} : PointersTo(s)' = PointersTo(s)
  BY <1>1, <1>2 DEF PointersTo
<1>4. Counted'
  BY <1>1, <1>3, UnrefCount
<1>5. rendererRefs # 0
  BY NothingLeft
<1>. QED  BY <1>4, <1>5 DEF Counted

\* Every step keeps the counts right.
LEMMA CountedNext == RefInv /\ [Next]_vars => Counted'
<1> SUFFICES ASSUME JobInv, JobCore, Counted, PhaseInv, [Next]_vars  PROVE Counted'
  BY DEF RefInv, JobInv
<1>1. CASE OpenStep
  BY <1>1, OpenStepCount
<1>2. ASSUME NEW r \in Requests, NEW j \in Jobs, RequestRender(r, j)  PROVE Counted'
  BY <1>2, RequestRenderCount
<1>3. ASSUME NEW r \in Requests, Abort(r)  PROVE Counted'
  BY <1>3, CountFrame DEF Abort, mainVars, MainHoldsRenderer
<1>4. ASSUME NEW j \in Jobs, Dispatch(j)  PROVE Counted'
  BY <1>4, GiveBackCount DEF Dispatch, JobCore, JobTypes, JobInUse
<1>5. CASE Stop
  BY <1>5, CountFrame DEF Stop, jobVars, MainHoldsRenderer
<1>6. CASE CloseStep
  <2>1. CASE ClearIcon
    <3>1. CASE owned \intersect Icons = {}
      BY <2>1, <3>1, CountFrame DEF ClearIcon, jobVars, refVars, MainHoldsRenderer
    <3>2. CASE owned \intersect Icons # {}
      BY <2>1, <3>2, LetGoCount DEF ClearIcon, jobVars, MainHoldsRenderer
    <3>. QED  BY <3>1, <3>2
  <2>2. CASE ReleaseRenderer
    BY <2>2, CountsAreNumbers
    DEF ReleaseRenderer, Counted, RequestRefs, RendererPointers, MainHoldsRenderer, JobsOf, jobVars
  <2>3. CASE KeepAsPredecessor \/ StartDropping
    BY <2>3, CountFrame DEF KeepAsPredecessor, StartDropping, jobVars, MainHoldsRenderer
  <2>4. ASSUME NEW r \in Requests, DropPage(r)  PROVE Counted'
    BY <2>4, LetGoCount DEF DropPage, jobVars, MainHoldsRenderer
  <2>5. CASE FreeDocument
    BY <2>5, CountFrame DEF FreeDocument, jobVars, MainHoldsRenderer
  <2>. QED  BY <1>6, <2>1, <2>2, <2>3, <2>4, <2>5 DEF CloseStep
<1>7. CASE StartDropping
  BY <1>7, CountFrame DEF StartDropping, jobVars, MainHoldsRenderer
<1>8. ASSUME NEW j \in Jobs, Take(j)  PROVE Counted'
  BY <1>8, CountFrame DEF Take, mainVars, MainHoldsRenderer
<1>9. ASSUME NEW j \in Jobs, WorkerStep(j)  PROVE Counted'
  <2>1. CASE Unref(j)
    BY <2>1, GiveBackCount DEF Unref, JobCore, JobTypes, JobInUse, mainVars
  <2>2. CASE ~Unref(j)
    BY <1>9, <2>2, CountFrame
    DEF WorkerStep, BackOut, StartRender, RenderFails, RenderIsCutShort, Recolor, Post,
        PostFails, Remove, WorkerMoves, jobVars, mainVars, MainHoldsRenderer
  <2>. QED  BY <2>1, <2>2
<1>10. CASE UNCHANGED vars
  BY <1>10, CountFrame DEF vars, refVars, MainHoldsRenderer
<1>. QED
  BY <1>1, <1>2, <1>3, <1>4, <1>5, <1>6, <1>7, <1>8, <1>9, <1>10 DEF Next

\* Once the last reference on the renderer is gone, it stays gone.
LEMMA ReleasedForGood == RefInv /\ [Next]_vars /\ rendererRefs = 0 => rendererRefs' = 0
<1> SUFFICES ASSUME JobInv, JobCore, Counted, PhaseInv, [Next]_vars, rendererRefs = 0
             PROVE  rendererRefs' = 0
  BY DEF RefInv, JobInv
<1>1. /\ ~MainHoldsRenderer /\ registered = {} /\ owned = {}
      /\ \A j \in Jobs : stage[j] = "free"
  BY NothingLeft
<1>2. CASE CloseStep
  BY <1>1, <1>2
  DEF CloseStep, ClearIcon, ReleaseRenderer, KeepAsPredecessor, StartDropping, DropPage,
      FreeDocument, MainHoldsRenderer, refVars
<1>3. CASE ~CloseStep
  BY <1>1, <1>3
  DEF Next, OpenStep, OpenIcon, OpenPage, Opened, RequestRender, Abort, Dispatch, Stop,
      StartDropping, Take, WorkerStep, BackOut, StartRender, RenderFails, RenderIsCutShort,
      Recolor, Post, PostFails, Remove, Unref, WorkerMoves, MainHoldsRenderer, refVars, vars
<1>. QED  BY <1>2, <1>3

\* Main goes through its phases in order: about_to_close follows the phase, and
\* the worker waits for itself only after the renderer's last reference is gone.
LEMMA PhaseInvNext == RefInv /\ [Next]_vars => PhaseInv'
<1> SUFFICES ASSUME RefInv, JobCore, JobTypes, PhaseInv, [Next]_vars  PROVE PhaseInv'
  BY DEF RefInv, JobInv, JobCore
<1>1. /\ phase' \in Phases
      /\ aboutToClose' = (phase' \notin {"opening", "open"})
  BY DEF PhaseInv, Phases, Next, OpenStep, OpenIcon, OpenPage, Opened, RequestRender, Abort,
         Dispatch, Stop, CloseStep, ClearIcon, ReleaseRenderer, KeepAsPredecessor,
         StartDropping, DropPage, FreeDocument, Take, WorkerStep, BackOut, StartRender,
         RenderFails, RenderIsCutShort, Recolor, Post, PostFails, Remove, Unref, WorkerMoves,
         mainVars, vars
<1>2. completed' \in [Requests -> BOOLEAN]
  BY DEF PhaseInv, Next, OpenStep, OpenIcon, OpenPage, Opened, RequestRender, Abort,
         Dispatch, Stop, CloseStep, ClearIcon, ReleaseRenderer, KeepAsPredecessor,
         StartDropping, DropPage, FreeDocument, Take, WorkerStep, BackOut, StartRender,
         RenderFails, RenderIsCutShort, Recolor, Post, PostFails, Remove, Unref, WorkerMoves,
         mainVars, vars
<1>3. pc' = "selfwait" => pc = "selfwait" \/ rendererRefs' = 0
  BY DEF Next, OpenStep, OpenIcon, OpenPage, Opened, RequestRender, Abort,
         Dispatch, Stop, CloseStep, ClearIcon, ReleaseRenderer, KeepAsPredecessor,
         StartDropping, DropPage, FreeDocument, Take, WorkerStep, BackOut, StartRender,
         RenderFails, RenderIsCutShort, Recolor, Post, PostFails, Remove, Unref, WorkerMoves,
         vars
<1>4. pc' = "selfwait" => rendererRefs' = 0
  BY <1>3, ReleasedForGood DEF PhaseInv
<1>. QED  BY <1>1, <1>2, <1>4 DEF PhaseInv

\* The counting layer holds in every behaviour: reference counts are the
\* references there are, on the widgets, in the registry and in the jobs.
LEMMA RefInvariant == Spec => []RefInv
<1>1. RefInv /\ [Next]_vars => RefInv'
  BY CountedNext, PhaseInvNext, JobCoreNext, OpeningIsQuietNext DEF RefInv, JobInv
<1>. QED  BY RefInit, <1>1, PTL DEF Spec

\* Type correctness; that the counts are naturals rests on the counting above.
THEOREM TypeCorrect == Spec => []TypeOK
<1>1. RefInv => TypeOK
  BY DEF RefInv, JobInv, JobCore, JobTypes, Counted, PhaseInv, TypeOK
<1>. QED  BY RefInvariant, <1>1, PTL

\* A request is alive, and on the renderer's list, exactly as long as main or a
\* job points to it.
THEOREM RequestRefsExact == Spec => []RequestRefs
  BY RefInvariant, PTL DEF RefInv, Counted

\* No job ever finds its renderer finalised.
THEOREM RendererLivesLongEnough == Spec => []RendererOutlivesRequests
<1>1. RefInv => RendererOutlivesRequests
  <2> SUFFICES ASSUME RefInv  PROVE RendererOutlivesRequests
    OBVIOUS
  <2>1. rendererRefs = RendererPointers /\ rendererRefs \in Nat
    BY DEF RefInv, Counted
  <2>2. \A j \in Jobs : stage[j] # "free" => rendererRefs # 0
    BY NothingLeft DEF RefInv, JobInv
  <2>. QED  BY <2>1, <2>2 DEF RendererOutlivesRequests, RendererPointers
<1>. QED  BY RefInvariant, <1>1, PTL

\* The pool is only told to finish when there is nothing left to do.
THEOREM PoolFinishesDrained == Spec => []FinalisedWhenDrained
<1>1. RefInv => FinalisedWhenDrained
  <2> SUFFICES ASSUME RefInv, rendererRefs = 0
               PROVE  /\ aboutToClose
                      /\ \A j \in Jobs : stage[j] = "free"
                      /\ pc \in {"idle", "selfwait"}
    BY DEF FinalisedWhenDrained
  <2>1. ~MainHoldsRenderer /\ \A j \in Jobs : stage[j] = "free"
    BY NothingLeft DEF RefInv, JobInv
  <2>2. aboutToClose
    BY <2>1 DEF RefInv, PhaseInv, MainHoldsRenderer
  <2>3. pc \in {"idle", "selfwait"}
    BY <2>1 DEF RefInv, JobInv, JobCore, WorkerHolds
  <2>. QED  BY <2>1, <2>2, <2>3
<1>. QED  BY RefInvariant, <1>1, PTL

-----------------------------------------------------------------------------
(* Refinement: the jobs implement RenderService *)

\* Taking one job off a list either leaves what is wanted as it is, or the job
\* was the live one and its request is no longer wanted.
LEMMA RemovalDrops ==
  ASSUME JobCore, NEW j \in Jobs, NEW r \in Requests, j \in active[r],
         active' = [active EXCEPT ![r] = @ \ {j}], aborted' = aborted
  PROVE  /\ aborted[j] => Wanted' = Wanted
         /\ ~aborted[j] => r \in Wanted /\ Wanted' = Wanted \ {r}
<1> USE DEF JobCore, JobTypes
<1>1. /\ Live(r)' = Live(r) \ {j}
      /\ \A s \in Requests \ {r} : Live(s)' = Live(s)
  BY DEF Live
<1>2. ~aborted[j] => Live(r) = {j}
  BY DEF SingleLiveJob, Live
<1>3. aborted[j] => j \notin Live(r)
  BY DEF Live
<1>. QED  BY <1>1, <1>2, <1>3 DEF Wanted

\* Each step of the two threads is a step of the service, or none.
LEMMA StepRefines ==
  RefInv /\ [Next]_vars => [Service!Next]_(Service!vars)
<1> SUFFICES ASSUME JobInv, JobCore, JobTypes, Counted, PhaseInv, [Next]_vars
             PROVE  Service!Next \/ UNCHANGED <<Wanted, completed, aboutToClose>>
  BY DEF RefInv, JobInv, JobCore, Service!vars
<1> DEFINE Stutters == UNCHANGED <<Wanted, completed, aboutToClose>>
<1>1. ASSUME UNCHANGED <<active, aborted>>  PROVE Wanted' = Wanted
  BY <1>1 DEF Wanted, Live
<1>2. ASSUME NEW r \in Requests, NEW j \in Jobs, QueueJob(r, j), Live(r) = {},
             UNCHANGED <<completed, aboutToClose>>
      PROVE  Service!Ask(r)
  <2>1. \A s \in Requests : j \notin active[s]
    BY <1>2 DEF JobCore, JobsListed, QueueJob
  <2>2. j \in Live(r)' /\ \A s \in Requests \ {r} : Live(s)' = Live(s)
    BY <1>2, <2>1 DEF QueueJob, Live, JobTypes
  <2>3. r \notin Wanted /\ Wanted' = Wanted \union {r}
    BY <1>2, <2>2 DEF Wanted
  <2>. QED  BY <1>2, <2>3 DEF Service!Ask
<1>3. CASE OpenStep
  <2>1. ASSUME NEW r \in Icons, NEW j \in Jobs, OpenIcon(r, j)  PROVE Service!Next
    <3>1. r \in Requests
      BY DEF Requests
    <3>2. Live(r) = {}
      BY <2>1, <3>1, NoRequestIsNone
      DEF OpenIcon, JobInv, OpeningIsQuiet, JobCore, JobTypes, JobsListed, Live
    <3>3. Service!Ask(r)
      BY <2>1, <3>1, <3>2, <1>2 DEF OpenIcon
    <3>. QED  BY <3>1, <3>3 DEF Service!Next
  <2>2. ASSUME NEW r \in Pages, OpenPage(r)  PROVE Stutters
    BY <2>2, <1>1 DEF OpenPage, jobVars
  <2>3. CASE Opened
    BY <2>3, <1>1 DEF Opened, jobVars
  <2>. QED  BY <1>3, <2>1, <2>2, <2>3 DEF OpenStep
<1>4. ASSUME NEW r \in Requests, NEW j \in Jobs, RequestRender(r, j)  PROVE Service!Next
  <2>1. Service!Ask(r)
    BY <1>4, <1>2 DEF RequestRender, mainVars
  <2>. QED  BY <2>1 DEF Service!Next
<1>5. ASSUME NEW r \in Requests, Abort(r)  PROVE Service!Next
  <2>1. Live(r)' = {} /\ Live(r) # {}
    BY <1>5 DEF Abort, Live, JobTypes
  <2>2. \A s \in Requests \ {r} : \A j \in active[s] : j \notin active[r]
    BY DEF JobCore, JobTypes, JobsListed
  <2>3. \A s \in Requests \ {r} : Live(s)' = Live(s)
    BY <1>5, <2>2 DEF Abort, Live, JobTypes
  <2>4. r \in Wanted /\ Wanted' = Wanted \ {r}
    BY <2>1, <2>3 DEF Wanted
  <2>5. Service!Drop(r)
    BY <1>5, <2>4 DEF Service!Drop, Abort, mainVars
  <2>. QED  BY <2>5 DEF Service!Next
<1>6. ASSUME NEW j \in Jobs, Dispatch(j)  PROVE Service!Next \/ Stutters
  <2>1. PICK r \in Requests : r = jobRequest[j] /\ j \in active[r]
    BY <1>6 DEF Dispatch, JobCore, JobTypes, JobInUse, JobsListed
  <2>2. /\ aborted[j] => Wanted' = Wanted
        /\ ~aborted[j] => r \in Wanted /\ Wanted' = Wanted \ {r}
    BY <1>6, <2>1, RemovalDrops DEF Dispatch
  <2>3. CASE ~aboutToClose /\ ~aborted[j]
    <3>1. Service!Answer(r)
      BY <1>6, <2>1, <2>2, <2>3 DEF Dispatch, Service!Answer
    <3>. QED  BY <3>1 DEF Service!Next
  <2>4. CASE aboutToClose /\ ~aborted[j]
    <3>1. Service!Drop(r)
      BY <1>6, <2>1, <2>2, <2>4 DEF Dispatch, Service!Drop
    <3>. QED  BY <3>1 DEF Service!Next
  <2>5. CASE aborted[j]
    BY <1>6, <2>2, <2>5 DEF Dispatch
  <2>. QED  BY <2>3, <2>4, <2>5
<1>7. CASE Stop
  <2>1. Service!Close
    BY <1>7, <1>1 DEF Stop, Service!Close, jobVars, PhaseInv
  <2>. QED  BY <2>1 DEF Service!Next
<1>8. CASE CloseStep \/ StartDropping
  BY <1>8, <1>1
  DEF CloseStep, ClearIcon, ReleaseRenderer, KeepAsPredecessor, StartDropping, DropPage,
      FreeDocument, jobVars
<1>9. ASSUME NEW j \in Jobs, Take(j) \/ WorkerStep(j)  PROVE Service!Next \/ Stutters
  <2>1. CASE Remove(j)
    <3>1. PICK r \in Requests : r = jobRequest[j] /\ j \in active[r]
      BY <2>1 DEF Remove, JobCore, JobTypes, JobInUse, JobsListed
    <3>2. /\ aborted[j] => Wanted' = Wanted
          /\ ~aborted[j] => r \in Wanted /\ Wanted' = Wanted \ {r}
      BY <2>1, <3>1, RemovalDrops DEF Remove
    <3>3. CASE aborted[j]
      BY <2>1, <3>2, <3>3 DEF Remove, mainVars
    <3>4. CASE ~aborted[j]
      <4>1. Service!Drop(r)
        BY <2>1, <3>2, <3>4 DEF Remove, mainVars, Service!Drop
      <4>. QED  BY <4>1 DEF Service!Next
    <3>. QED  BY <3>3, <3>4
  <2>2. CASE ~Remove(j)
    BY <1>1, <1>9, <2>2
    DEF Take, WorkerStep, BackOut, StartRender, RenderFails, RenderIsCutShort, Recolor,
        Post, PostFails, Unref, WorkerMoves, jobVars, mainVars
  <2>. QED  BY <2>1, <2>2
<1>10. CASE UNCHANGED vars
  BY <1>10, <1>1 DEF vars
<1>. QED
  BY <1>3, <1>4, <1>5, <1>6, <1>7, <1>8, <1>9, <1>10 DEF Next

\* Worker, pool and main loop together are the render service: at most one
\* answer per ask, none that was withdrawn, none once the renderer is stopped.
THEOREM JobsImplementService == Spec => ImplementsService
<1>1. Init => Service!Init
  BY DEF Init, Service!Init, Wanted, Live
<1>. QED  BY <1>1, StepRefines, RefInvariant, PTL DEF Spec, ImplementsService, Service!Spec

-----------------------------------------------------------------------------
(***************************************************************************)
(* The order of the pool's queue (PoolQueue), for any number of jobs and   *)
(* any penalty: a job stands in it once, and nothing new gets ahead of a   *)
(* live job whose view time has passed.                                    *)
(***************************************************************************)

\* A set of positions in a sequence has a last one.
LEMMA LastPosition ==
  ASSUME NEW n \in Nat, NEW S \in SUBSET (1 .. n), S # {}
  PROVE  \E m \in S : \A k \in S : k <= m
<1> DEFINE T == {n - k : k \in S}
<1>1. T \in SUBSET Nat /\ T # {}
  <2>1. \A k \in S : k \in 1 .. n /\ n - k \in Nat
    OBVIOUS
  <2>2. PICK k \in S : TRUE
    OBVIOUS
  <2> QED BY <2>1, <2>2
<1>2. \E m \in T : \A k \in T : ~(<<k, m>> \in OpToRel(<, Nat))
  BY <1>1, WFMin, NatLessThanWellFounded, Zenon
<1>3. \A m, k \in T : <<k, m>> \in OpToRel(<, Nat) <=> k < m
  BY <1>1 DEF OpToRel
<1>4. \E m \in T : \A k \in T : ~(k < m)
  BY <1>2, <1>3, Zenon
<1>5. PICK m \in S : \A k \in S : ~(n - k < n - m)
  BY <1>4
<1> QED BY <1>5

\* What an insertion leaves at each position.
LEMMA InsertAtProperties ==
  ASSUME NEW S, NEW s \in Seq(S), NEW e \in S, NEW k \in 1 .. Len(s) + 1
  PROVE  /\ Pool!InsertAt(s, k, e) \in Seq(S)
         /\ DOMAIN Pool!InsertAt(s, k, e) = 1 .. Len(s) + 1
         /\ \A i \in 1 .. Len(s) + 1 :
              Pool!InsertAt(s, k, e)[i] = IF i < k THEN s[i] ELSE IF i = k THEN e ELSE s[i - 1]
<1> DEFINE a == SubSeq(s, 1, k - 1)
           b == SubSeq(s, k, Len(s))
           c == a \o <<e>>
<1>1. Pool!InsertAt(s, k, e) = c \o b
  BY Zenon DEF Pool!InsertAt
<1>2. Len(s) \in Nat /\ \A i \in 1 .. Len(s) : s[i] \in S
  BY LenProperties
<1>3. /\ a \in Seq(S) /\ Len(a) = k - 1
      /\ \A i \in 1 .. k - 1 : a[i] = s[i]
  BY <1>2, SubSeqProperties
<1>4. /\ b \in Seq(S) /\ Len(b) = Len(s) - k + 1
      /\ \A i \in 1 .. Len(s) - k + 1 : b[i] = s[k + i - 1]
  <2>1. k \in Int /\ Len(s) \in Int /\ \A i \in k .. Len(s) : s[i] \in S
    BY <1>2
  <2> QED BY <1>2, <2>1, SubSeqProperties
<1> HIDE DEF a, b
<1>5. /\ <<e>> \in Seq(S) /\ Len(<<e>>) = 1 /\ <<e>>[1] = e
  OBVIOUS
<1>6. /\ c \in Seq(S) /\ Len(c) = k
      /\ \A i \in 1 .. k : c[i] = IF i < k THEN s[i] ELSE e
  <2>1. /\ c \in Seq(S) /\ Len(c) = Len(a) + Len(<<e>>)
        /\ \A i \in 1 .. Len(a) + Len(<<e>>) :
             c[i] = IF i <= Len(a) THEN a[i] ELSE <<e>>[i - Len(a)]
    BY <1>3, <1>5, ConcatProperties
  <2> QED BY <1>2, <1>3, <1>5, <2>1
<1> HIDE DEF c
<1>7. /\ c \o b \in Seq(S) /\ Len(c \o b) = Len(c) + Len(b)
      /\ \A i \in 1 .. Len(c) + Len(b) :
           (c \o b)[i] = IF i <= Len(c) THEN c[i] ELSE b[i - Len(c)]
  BY <1>4, <1>6, ConcatProperties
<1>8. Len(c) + Len(b) = Len(s) + 1 /\ DOMAIN (c \o b) = 1 .. Len(s) + 1
  BY <1>2, <1>4, <1>6, <1>7, LenProperties
<1>9. ASSUME NEW i \in 1 .. Len(s) + 1
      PROVE  (c \o b)[i] = IF i < k THEN s[i] ELSE IF i = k THEN e ELSE s[i - 1]
  <2>1. CASE i <= k
    <3>1. i \in 1 .. k
      BY <1>2, <2>1
    <3> QED BY <1>2, <1>6, <1>7, <1>8, <2>1, <3>1
  <2>2. CASE i > k
    <3>1. i - k \in 1 .. Len(s) - k + 1 /\ k + (i - k) - 1 = i - 1 /\ ~(i <= k)
      BY <1>2, <2>2
    <3>2. (c \o b)[i] = b[i - k]
      BY <1>6, <1>7, <1>8, <3>1
    <3> QED BY <1>4, <2>2, <3>1, <3>2
  <2>3. i <= k \/ i > k
    BY <1>2
  <2> QED BY <2>1, <2>2, <2>3
<1> QED BY <1>1, <1>7, <1>8, <1>9

\* The new job comes to stand somewhere in the queue, behind every live job whose view
\* time has passed: the search from the end stops there at the latest.
LEMMA PlaceProperties ==
  ASSUME MaxAhead \in Nat, Pool!TypeOK, NEW time \in 0 .. MaxAhead
  PROVE  /\ Pool!PlaceOf(time) \in 1 .. Len(queue) + 1
         /\ \A m \in 1 .. Len(queue) :
              queue[m] \notin dropped /\ viewTime[queue[m]] = Pool!Past => m < Pool!PlaceOf(time)
<1> DEFINE stops == {i \in 1 .. Len(queue) : Pool!RenderThreadSort(time, queue[i]) >= 0}
<1>1. Len(queue) \in Nat /\ stops \in SUBSET (1 .. Len(queue))
  BY LenProperties DEF Pool!TypeOK
<1>2. \A m \in 1 .. Len(queue) :
        queue[m] \notin dropped /\ viewTime[queue[m]] = Pool!Past => m \in stops
  BY DEF Pool!RenderThreadSort, Pool!Past
<1>3. Pool!PlaceOf(time) = IF stops = {} THEN 1
                      ELSE 1 + CHOOSE i \in stops : \A k \in stops : k <= i
  BY DEF Pool!PlaceOf
<1> HIDE DEF stops
<1>4. CASE stops = {}
  BY <1>1, <1>2, <1>3, <1>4
<1>5. CASE stops # {}
  <2>1. \E i \in stops : \A k \in stops : k <= i
    BY <1>1, <1>5, LastPosition
  <2> DEFINE last == CHOOSE i \in stops : \A k \in stops : k <= i
  <2>2. last \in stops /\ \A k \in stops : k <= last
    BY <2>1
  <2>3. Pool!PlaceOf(time) = 1 + last
    BY <1>3, <1>5
  <2> HIDE DEF last
  <2> QED BY <1>1, <1>2, <2>2, <2>3
<1> QED BY <1>4, <1>5

\* The queue after a push, position by position.
LEMMA PushProperties ==
  ASSUME MaxAhead \in Nat, Pool!TypeOK, NEW j \in Jobs, NEW time \in 0 .. MaxAhead, Pool!Push(j, time)
  PROVE  LET k == Pool!PlaceOf(time)
         IN  /\ queue' \in Seq(Jobs) /\ DOMAIN queue' = 1 .. Len(queue) + 1
             /\ k \in 1 .. Len(queue) + 1 /\ Len(queue) \in Nat
             /\ \A i \in 1 .. Len(queue) + 1 :
                  queue'[i] = IF i < k THEN queue[i] ELSE IF i = k THEN j ELSE queue[i - 1]
<1> DEFINE k == Pool!PlaceOf(time)
<1>1. queue \in Seq(Jobs) /\ Len(queue) \in Nat /\ k \in 1 .. Len(queue) + 1
  BY PlaceProperties, LenProperties DEF Pool!TypeOK
<1>2. queue' = Pool!InsertAt(queue, k, j)
  BY DEF Pool!Push
<1> HIDE DEF k
<1>3. /\ queue' \in Seq(Jobs) /\ DOMAIN queue' = 1 .. Len(queue) + 1
      /\ \A i \in 1 .. Len(queue) + 1 :
           queue'[i] = IF i < k THEN queue[i] ELSE IF i = k THEN j ELSE queue[i - 1]
  <2> DEFINE q == Pool!InsertAt(queue, k, j)
  <2>1. /\ q \in Seq(Jobs) /\ DOMAIN q = 1 .. Len(queue) + 1
        /\ \A i \in 1 .. Len(queue) + 1 :
             q[i] = IF i < k THEN queue[i] ELSE IF i = k THEN j ELSE queue[i - 1]
    BY <1>1, InsertAtProperties
  <2> HIDE DEF q
  <2>2. queue' = q
    BY <1>2 DEF q
  <2> QED BY <2>1, <2>2
<1> QED BY <1>1, <1>3 DEF k

\* What a pop leaves.
LEMMA PopProperties ==
  ASSUME MaxAhead \in Nat, Pool!TypeOK, Pool!Pop
  PROVE  /\ queue' \in Seq(Jobs) /\ DOMAIN queue' = 1 .. Len(queue) - 1
         /\ Len(queue) \in Nat \ {0}
         /\ \A i \in 1 .. Len(queue) - 1 : queue'[i] = queue[i + 1]
         /\ Head(queue) = queue[1]
  BY HeadTailProperties, LenProperties DEF Pool!TypeOK, Pool!Pop

\* A step keeps the queue a sequence of distinct jobs.
LEMMA QueueTypeStep ==
  ASSUME MaxAhead \in Nat, Pool!TypeOK, [Pool!Next]_Pool!vars
  PROVE  Pool!TypeOK'
<1>1. /\ queue \in Seq(Jobs) /\ DOMAIN queue = 1 .. Len(queue) /\ Len(queue) \in Nat
      /\ \A a, b \in 1 .. Len(queue) : queue[a] = queue[b] => a = b
      /\ \A j \in dropped : \E i \in 1 .. Len(queue) : queue[i] = j
      /\ viewTime \in [Jobs -> Pool!Past .. MaxAhead] /\ working \in BOOLEAN
  BY LenProperties DEF Pool!TypeOK, Pool!Queued, Pool!ToSet, Pool!IsInjective
<1>2. ASSUME NEW j \in Jobs, NEW time \in 0 .. MaxAhead, Pool!Push(j, time)
      PROVE  Pool!TypeOK'
  <2> DEFINE k == Pool!PlaceOf(time)
  <2>1. /\ queue' \in Seq(Jobs) /\ DOMAIN queue' = 1 .. Len(queue) + 1
        /\ k \in 1 .. Len(queue) + 1
        /\ \A i \in 1 .. Len(queue) + 1 :
             queue'[i] = IF i < k THEN queue[i] ELSE IF i = k THEN j ELSE queue[i - 1]
    BY <1>2, PushProperties
  <2> HIDE DEF k
  <2>2. \A i \in 1 .. Len(queue) : queue[i] # j
    BY <1>1, <1>2 DEF Pool!Push, Pool!Queued, Pool!ToSet
  <2>3. Pool!IsInjective(queue')
    <3> SUFFICES ASSUME NEW a \in 1 .. Len(queue) + 1, NEW b \in 1 .. Len(queue) + 1,
                        queue'[a] = queue'[b]
                 PROVE  a = b
      BY <2>1 DEF Pool!IsInjective
    <3> DEFINE old(i) == IF i < k THEN i ELSE i - 1
    <3>1. \A i \in 1 .. Len(queue) + 1 :
            i # k => old(i) \in 1 .. Len(queue) /\ queue'[i] = queue[old(i)]
      BY <1>1, <2>1
    <3>2. queue'[k] = j
      BY <1>1, <2>1
    <3>3. CASE a = k
      BY <2>2, <3>1, <3>2, <3>3
    <3>4. CASE b = k
      BY <2>2, <3>1, <3>2, <3>4
    <3>5. CASE a # k /\ b # k
      <4>1. old(a) = old(b)
        BY <1>1, <3>1, <3>5
      <4> QED BY <1>1, <2>1, <3>5, <4>1
    <3> QED BY <3>3, <3>4, <3>5
  <2>4. dropped' \subseteq Pool!ToSet(queue')
    <3> SUFFICES ASSUME NEW x \in dropped
                 PROVE  \E i \in 1 .. Len(queue) + 1 : queue'[i] = x
      BY <1>2, <2>1 DEF Pool!Push, Pool!ToSet
    <3>1. PICK i \in 1 .. Len(queue) : queue[i] = x
      BY <1>1
    <3>2. CASE i < k
      <4>1. i \in 1 .. Len(queue) + 1
        BY <1>1
      <4> QED BY <2>1, <3>1, <3>2, <4>1
    <3>3. CASE i >= k
      <4>1. i + 1 \in 1 .. Len(queue) + 1 /\ ~(i + 1 < k) /\ i + 1 # k /\ (i + 1) - 1 = i
        BY <1>1, <2>1, <3>3
      <4>2. queue'[i + 1] = queue[(i + 1) - 1]
        BY <2>1, <4>1
      <4> QED BY <3>1, <4>1, <4>2
    <3>4. i < k \/ i >= k
      BY <2>1
    <3> QED BY <3>2, <3>3, <3>4
  <2>5. viewTime' \in [Jobs -> Pool!Past .. MaxAhead]
    BY <1>1, <1>2 DEF Pool!Push, Pool!Past
  <2> QED BY <1>1, <1>2, <2>1, <2>3, <2>4, <2>5 DEF Pool!Push, Pool!TypeOK, Pool!Queued
<1>3. ASSUME NEW j \in Jobs, Pool!Abort(j) \/ Pool!UpdateViewTime(j)
      PROVE  Pool!TypeOK'
  BY <1>3 DEF Pool!Abort, Pool!UpdateViewTime, Pool!TypeOK, Pool!Queued, Pool!Past
<1>4. CASE Pool!Pop
  <2>1. /\ queue' \in Seq(Jobs) /\ DOMAIN queue' = 1 .. Len(queue) - 1
        /\ Len(queue) \in Nat \ {0} /\ Head(queue) = queue[1]
        /\ \A i \in 1 .. Len(queue) - 1 : queue'[i] = queue[i + 1]
    BY <1>4, PopProperties
  <2>2. Pool!IsInjective(queue')
    <3> SUFFICES ASSUME NEW a \in 1 .. Len(queue) - 1, NEW b \in 1 .. Len(queue) - 1,
                        queue'[a] = queue'[b]
                 PROVE  a = b
      BY <2>1 DEF Pool!IsInjective
    <3>1. a + 1 \in 1 .. Len(queue) /\ b + 1 \in 1 .. Len(queue)
      BY <2>1
    <3>2. queue[a + 1] = queue[b + 1]
      BY <2>1
    <3>3. a + 1 = b + 1
      BY <1>1, <3>1, <3>2
    <3> QED BY <2>1, <3>3
  <2>3. dropped' \subseteq Pool!ToSet(queue')
    <3> SUFFICES ASSUME NEW x \in dropped, x # queue[1]
                 PROVE  \E i \in 1 .. Len(queue) - 1 : queue'[i] = x
      BY <1>4, <2>1 DEF Pool!Pop, Pool!ToSet
    <3>1. PICK i \in 1 .. Len(queue) : queue[i] = x
      BY <1>1
    <3>2. i - 1 \in 1 .. Len(queue) - 1 /\ (i - 1) + 1 = i
      BY <2>1, <3>1
    <3> QED BY <2>1, <3>1, <3>2
  <2> QED BY <1>1, <1>4, <2>1, <2>2, <2>3 DEF Pool!Pop, Pool!TypeOK, Pool!Queued
<1>5. CASE Pool!Done
  BY <1>5 DEF Pool!Done, Pool!TypeOK, Pool!Queued
<1>6. CASE Pool!Tick
  BY <1>6 DEF Pool!Tick, Pool!TypeOK, Pool!Queued, Pool!Past
<1>7. CASE UNCHANGED Pool!vars
  BY <1>7 DEF Pool!vars, Pool!TypeOK, Pool!Queued
<1> QED BY <1>2, <1>3, <1>4, <1>5, <1>6, <1>7 DEF Pool!Next

\* What stands ahead of j, by position.
LEMMA AheadAt ==
  ASSUME queue \in Seq(Jobs), NEW i, NEW j
  PROVE  i \in Pool!Ahead(j) <=>
           \E k, m \in 1 .. Len(queue) : k < m /\ queue[k] = i /\ queue[m] = j
  BY LenProperties DEF Pool!Ahead, Pool!Queued, Pool!ToSet

\* What a step can put ahead of a live job that has had its time: nothing.
LEMMA AheadStep ==
  ASSUME MaxAhead \in Nat, Pool!TypeOK, [Pool!Next]_Pool!vars,
         NEW j \in Pool!Queued \ dropped, viewTime[j] = Pool!Past, j \in Pool!Queued'
  PROVE  Pool!Ahead(j)' \subseteq Pool!Ahead(j)
<1>1. CASE queue' = queue
  BY <1>1 DEF Pool!Ahead, Pool!Queued
<1>2. ASSUME NEW new \in Jobs, NEW time \in 0 .. MaxAhead, Pool!Push(new, time)
      PROVE  Pool!Ahead(j)' \subseteq Pool!Ahead(j)
  <2> DEFINE p == Pool!PlaceOf(time)
  <2>1. /\ queue' \in Seq(Jobs) /\ DOMAIN queue' = 1 .. Len(queue) + 1
        /\ p \in 1 .. Len(queue) + 1 /\ Len(queue) \in Nat
        /\ \A i \in 1 .. Len(queue) + 1 :
             queue'[i] = IF i < p THEN queue[i] ELSE IF i = p THEN new ELSE queue[i - 1]
    BY <1>2, PushProperties
  <2>2. \A m \in 1 .. Len(queue) : queue[m] = j => m < p
    BY PlaceProperties
  <2> HIDE DEF p
  <2>3. new # j
    BY <1>2 DEF Pool!Push
  <2> SUFFICES ASSUME NEW i \in Pool!Ahead(j)'
               PROVE  i \in Pool!Ahead(j)
    OBVIOUS
  <2>4. PICK k \in 1 .. Len(queue) + 1, m \in 1 .. Len(queue) + 1 :
          k < m /\ queue'[k] = i /\ queue'[m] = j
    BY <2>1 DEF Pool!Ahead
  <2>5. m < p
    <3>1. m # p
      BY <2>1, <2>3, <2>4
    <3>2. ~(m > p)
      <4> SUFFICES ASSUME m > p PROVE FALSE
        OBVIOUS
      <4>1. m - 1 \in 1 .. Len(queue) /\ ~(m < p) /\ ~(m - 1 < p)
        BY <2>1
      <4>2. queue[m - 1] = j
        BY <2>1, <2>4, <3>1, <4>1
      <4> QED BY <2>2, <4>1, <4>2
    <3> QED BY <2>1, <3>1, <3>2
  <2>6. /\ k \in 1 .. Len(queue) /\ m \in 1 .. Len(queue) /\ k < p /\ k < m
    BY <2>1, <2>4, <2>5
  <2>7. queue[k] = i /\ queue[m] = j
    BY <2>1, <2>4, <2>5, <2>6
  <2>8. queue \in Seq(Jobs)
    BY DEF Pool!TypeOK
  <2> QED BY <2>6, <2>7, <2>8, AheadAt
<1>3. CASE Pool!Pop
  <2>1. /\ queue' \in Seq(Jobs) /\ DOMAIN queue' = 1 .. Len(queue) - 1
        /\ Len(queue) \in Nat \ {0}
        /\ \A i \in 1 .. Len(queue) - 1 : queue'[i] = queue[i + 1]
    BY <1>3, PopProperties
  <2> SUFFICES ASSUME NEW i \in Pool!Ahead(j)'
               PROVE  i \in Pool!Ahead(j)
    OBVIOUS
  <2>2. PICK k \in 1 .. Len(queue) - 1, m \in 1 .. Len(queue) - 1 :
          k < m /\ queue'[k] = i /\ queue'[m] = j
    BY <2>1 DEF Pool!Ahead
  <2>3. /\ k + 1 \in 1 .. Len(queue) /\ m + 1 \in 1 .. Len(queue) /\ k + 1 < m + 1
        /\ queue[k + 1] = i /\ queue[m + 1] = j
    BY <2>1, <2>2
  <2>4. queue \in Seq(Jobs)
    BY DEF Pool!TypeOK
  <2> QED BY <2>3, <2>4, AheadAt
<1>4. (\E x \in Jobs : Pool!Abort(x) \/ Pool!UpdateViewTime(x)) \/ Pool!Done \/ Pool!Tick \/ UNCHANGED Pool!vars
        => queue' = queue
  BY DEF Pool!Abort, Pool!UpdateViewTime, Pool!Done, Pool!Tick, Pool!vars
<1> QED BY <1>1, <1>2, <1>3, <1>4 DEF Pool!Next

\* A job stands in the queue once, and only queued jobs are marked aborted
\* (g_thread_pool_push, zathura_render_request_abort).
THEOREM QueueTyped ==
  ASSUME MaxAhead \in Nat
  PROVE  Pool!Spec => []Pool!TypeOK
<1>1. Pool!Init => Pool!TypeOK
  <2> SUFFICES ASSUME Pool!Init PROVE Pool!TypeOK
    OBVIOUS
  <2>1. queue \in Seq(Jobs) /\ Pool!IsInjective(queue)
    BY DEF Pool!Init, Pool!IsInjective
  <2>2. viewTime \in [Jobs -> Pool!Past .. MaxAhead]
    BY DEF Pool!Init, Pool!Past
  <2> QED BY <2>1, <2>2 DEF Pool!Init, Pool!TypeOK
<1>2. Pool!TypeOK /\ [Pool!Next]_Pool!vars => Pool!TypeOK'
  BY QueueTypeStep
<1> QED BY <1>1, <1>2, PTL DEF Pool!Spec

\* Once its view time has passed, nothing pushed later comes to stand ahead of a live
\* job: the order is made when jobs are pushed, and render_thread_sort stops there.
THEOREM NoneOvertakes ==
  ASSUME MaxAhead \in Nat
  PROVE  Pool!Spec => Pool!PassedOnlyAhead
<1>1. Pool!TypeOK /\ [Pool!Next]_Pool!vars
        => [\A j \in Pool!Queued \ dropped :
              viewTime[j] = Pool!Past /\ j \in Pool!Queued' => Pool!Ahead(j)' \subseteq Pool!Ahead(j)]_Pool!vars
  BY AheadStep
<1> QED BY <1>1, QueueTyped, PTL DEF Pool!Spec, Pool!PassedOnlyAhead
=============================================================================
