----------------------------- MODULE PoolQueue -----------------------------
(***************************************************************************)
(* The order of the render jobs: the thread pool's queue is sorted by      *)
(* render_thread_sort when a job is pushed, and only then.  Jobs are       *)
(* aborted, and their requests' view times renewed, while they wait.       *)
(*                                                                         *)
(* RenderJobs lets the worker take any queued job and assumes that no live *)
(* job is passed over for ever; LiveJobsServed is that assumption, checked *)
(* here from the code's order.                                             *)
(*                                                                         *)
(* A view time is kept relative to the clock: 0 is now, 1..MaxAhead is     *)
(* ahead of now (draws from a thumbnail add a penalty), Past is any time   *)
(* that has passed.  The sort only ever compares a new job, whose time is  *)
(* now or later, with a waiting one, so nothing else matters.              *)
(***************************************************************************)
EXTENDS Integers, Sequences, SequencesExt

CONSTANTS
  Jobs,      \* job structures, bounding the queue
  MaxAhead   \* the largest penalty, in ticks of the clock

ASSUME MaxAheadAssumption == MaxAhead \in Nat

Past == -1

VARIABLES
  queue,     \* the pool's queue; the worker takes its first element
  aborted,   \* job->aborted of the queued jobs
  viewTime,  \* job->request's last_view_time, relative to the clock
  working    \* the pool's one thread is running a job

vars == <<queue, aborted, viewTime, working>>

Queued == ToSet(queue)

TypeOK ==
  /\ queue \in Seq(Jobs) /\ IsInjective(queue)
  /\ aborted \subseteq Queued
  /\ viewTime \in [Jobs -> Past..MaxAhead]
  /\ working \in BOOLEAN

Init ==
  /\ queue = <<>> /\ aborted = {}
  /\ viewTime = [j \in Jobs |-> Past]
  /\ working = FALSE

\* Mutant: the view times are compared the wrong way round.
NewestFirst(newTime, b) ==
  IF b \in aborted \/ newTime > viewTime[b] THEN -1
  ELSE IF newTime < viewTime[b] THEN 1
  ELSE 0

\* render_thread_sort: negative, zero or positive as in C.  Called with the
\* new job, which is never aborted, as a.
RenderThreadSort(newTime, b) ==
  IF b \in aborted THEN -1
  ELSE IF newTime < viewTime[b] THEN -1
  ELSE IF newTime > viewTime[b] THEN 1
  ELSE 0

\* g_async_queue_push_sorted: coming from the end, the new job passes those it
\* sorts before and stops behind the first one that it does not.
PlaceOf(newTime) ==
  LET stops == {i \in 1..Len(queue) : RenderThreadSort(newTime, queue[i]) >= 0}
  IN  IF stops = {} THEN 1 ELSE 1 + CHOOSE i \in stops : \A k \in stops : k <= i

\* zathura_render_request, at a view time of now or, with a penalty, later
Push(j, time) ==
  /\ j \notin Queued
  /\ queue' = InsertAt(queue, PlaceOf(time), j)
  /\ viewTime' = [viewTime EXCEPT ![j] = time]
  /\ UNCHANGED <<aborted, working>>

\* zathura_render_request_abort
Abort(j) ==
  /\ j \in Queued \ aborted
  /\ aborted' = aborted \union {j}
  /\ UNCHANGED <<queue, viewTime, working>>

\* zathura_render_request_update_view_time, when the page becomes visible
UpdateViewTime(j) ==
  /\ j \in Queued /\ viewTime[j] # 0
  /\ viewTime' = [viewTime EXCEPT ![j] = 0]
  /\ UNCHANGED <<queue, aborted, working>>

\* The pool's thread pops the next job, and later is done with it.
Pop ==
  /\ ~working /\ queue # <<>>
  /\ queue' = Tail(queue)
  /\ aborted' = aborted \ {Head(queue)}
  /\ working' = TRUE
  /\ UNCHANGED viewTime

Done ==
  /\ working
  /\ working' = FALSE
  /\ UNCHANGED <<queue, aborted, viewTime>>

Tick ==
  /\ \E j \in Jobs : viewTime[j] # Past
  /\ viewTime' = [j \in Jobs |-> IF viewTime[j] = Past THEN Past ELSE viewTime[j] - 1]
  /\ UNCHANGED <<queue, aborted, working>>

Next ==
  \/ \E j \in Jobs :
       \/ \E time \in 0..MaxAhead : Push(j, time)
       \/ Abort(j) \/ UpdateViewTime(j)
  \/ Pop \/ Done \/ Tick

Spec == Init /\ [][Next]_vars

\* The worker works and the clock runs; nothing says that pushing ever ends.
FairSpec == Spec /\ WF_vars(Pop) /\ WF_vars(Done) /\ WF_vars(Tick)

-----------------------------------------------------------------------------

\* A live job is not passed over for ever, however many more are pushed, as
\* long as its page's view time is not renewed again and again: it comes out of
\* the queue, or it is aborted.
LiveJobsServed ==
  \A j \in Jobs :
    []<>(j \notin Queued \/ j \in aborted) \/ []<><<UpdateViewTime(j)>>_vars

Ahead(j) == {i \in Queued : \E k, m \in DOMAIN queue : k < m /\ queue[k] = i /\ queue[m] = j}

\* Once its view time has passed, a live job is overtaken by no new one.
PassedOnlyAhead ==
  [][\A j \in Queued \ aborted :
       viewTime[j] = Past /\ j \in Queued' => Ahead(j)' \subseteq Ahead(j)]_vars
=============================================================================
