----------------------------- MODULE RenderJobs -----------------------------
(***************************************************************************)
(* The render jobs of one document (render.c): the main thread queues      *)
(* them, one worker thread of a GThreadPool runs them, and each finished   *)
(* one is posted back to the main loop, which emits "completed".           *)
(*                                                                         *)
(* A job is owned by nobody in particular: it is freed by whichever thread *)
(* is last to need it, and holds a reference on its request, which holds a *)
(* reference on the renderer, whose finaliser waits for the thread pool.   *)
(* So who drops the last reference matters, and it is modelled.            *)
(*                                                                         *)
(* One behaviour is the life of one document: document_open creates the    *)
(* renderer and the requests, document_close stops the renderer and either *)
(* frees the document or keeps it as the predecessor of a reload, to be    *)
(* freed later.  The order in which the pool hands out jobs is PoolQueue's *)
(* matter; here Take may pick any queued job.                              *)
(***************************************************************************)
EXTENDS Integers, FiniteSets

CONSTANTS
  Pages,   \* the render requests of the page widgets
  Icons,   \* the render request of the window icon, if the setting asks for it
  Jobs,    \* job structures; with none free, allocation fails (bounds the model)
  NoRequest

Requests == Pages \union Icons

ASSUME RequestsAssumption ==
  /\ Pages \intersect Icons = {}
  /\ NoRequest \notin Pages \union Icons

ASSUME FiniteAssumption ==
  /\ IsFiniteSet(Pages) /\ IsFiniteSet(Icons) /\ IsFiniteSet(Jobs)

VARIABLES
  \* shared by the two threads
  stage,         \* where a job is: "free", "queued", "worker" or "posted"
  jobRequest,    \* job->request
  aborted,       \* job->aborted
  active,        \* request->active_jobs, guarded by jobs_mutex
  refs,          \* reference count of a request
  registered,    \* renderer->requests
  rendererRefs,  \* reference count of the renderer
  aboutToClose,  \* renderer->about_to_close
  \* the worker thread
  pc,
  \* the main thread
  phase,         \* where the document is in its life
  owned,         \* the requests that main holds a reference on
  completed      \* history: flipped whenever "completed" is emitted

jobVars == <<stage, jobRequest, aborted, active>>
refVars == <<refs, registered, rendererRefs>>
mainVars == <<phase, owned, completed>>
vars == <<stage, jobRequest, aborted, active, refs, registered, rendererRefs,
          aboutToClose, pc, phase, owned, completed>>

Phases == {"opening", "open", "stopped", "iconCleared", "released",
           "kept", "dropping", "freed"}

\* "selfwait": the worker is in g_thread_pool_free, waiting for itself.
WorkerPCs == {"idle", "start", "render", "recolor", "remove", "unref", "selfwait"}

TypeOK ==
  /\ stage \in [Jobs -> {"free", "queued", "worker", "posted"}]
  /\ jobRequest \in [Jobs -> Requests \union {NoRequest}]
  /\ aborted \in [Jobs -> BOOLEAN]
  /\ active \in [Requests -> SUBSET Jobs]
  /\ refs \in [Requests -> Nat]
  /\ registered \subseteq Requests
  /\ rendererRefs \in Nat
  /\ aboutToClose \in BOOLEAN
  /\ pc \in WorkerPCs
  /\ phase \in Phases
  /\ owned \subseteq Requests
  /\ completed \in [Requests -> BOOLEAN]

\* zathura_renderer_init and setup_renderer: main holds the only reference.
Init ==
  /\ stage = [j \in Jobs |-> "free"]
  /\ jobRequest = [j \in Jobs |-> NoRequest]
  /\ aborted = [j \in Jobs |-> FALSE]
  /\ active = [r \in Requests |-> {}]
  /\ refs = [r \in Requests |-> 0]
  /\ registered = {}
  /\ rendererRefs = 1
  /\ aboutToClose = FALSE
  /\ pc = "idle"
  /\ phase = "opening"
  /\ owned = {}
  /\ completed = [r \in Requests |-> FALSE]

Live(r) == {j \in active[r] : ~aborted[j]}

\* The main loop dispatches sources only between two of main's callbacks.
InMainLoop == phase \in {"open", "kept", "freed"}

-----------------------------------------------------------------------------
(* References and job lists, on either thread *)

\* Mutant: the request takes no reference on the renderer.
NewRequestBorrowsRenderer(r) ==
  /\ r \notin owned
  /\ refs' = [refs EXCEPT ![r] = 1]
  /\ registered' = registered \union {r}
  /\ owned' = owned \union {r}
  /\ UNCHANGED rendererRefs

\* zathura_render_request_new
NewRequest(r) ==
  /\ r \notin owned
  /\ refs' = [refs EXCEPT ![r] = 1]
  /\ rendererRefs' = rendererRefs + 1
  /\ registered' = registered \union {r}
  /\ owned' = owned \union {r}

\* Mutant: request_dispose forgets zathura_renderer_unregister_request.
UnrefRequestStaysRegistered(r) ==
  /\ refs' = [refs EXCEPT ![r] = @ - 1]
  /\ rendererRefs' = IF refs[r] = 1 THEN rendererRefs - 1 ELSE rendererRefs
  /\ UNCHANGED registered

\* g_object_unref on a request; the last one disposes of it.
UnrefRequest(r) ==
  /\ refs' = [refs EXCEPT ![r] = @ - 1]
  /\ IF refs[r] = 1
       THEN /\ registered' = registered \ {r}
            /\ rendererRefs' = rendererRefs - 1
       ELSE UNCHANGED <<registered, rendererRefs>>

\* The part of zathura_render_request that adds a job to the list and the pool.
QueueJob(r, j) ==
  /\ stage[j] = "free"
  /\ stage' = [stage EXCEPT ![j] = "queued"]
  /\ jobRequest' = [jobRequest EXCEPT ![j] = r]
  /\ aborted' = [aborted EXCEPT ![j] = FALSE]
  /\ active' = [active EXCEPT ![r] = @ \union {j}]

FreeJob(j) ==
  /\ stage' = [stage EXCEPT ![j] = "free"]
  /\ jobRequest' = [jobRequest EXCEPT ![j] = NoRequest]

-----------------------------------------------------------------------------
(* Main thread: opening, requesting, aborting, answering *)

\* The window icon's request is created and rendered once, before the pages.
OpenIcon(r, j) ==
  /\ phase = "opening" /\ r \in Icons /\ owned = {}
  /\ refs' = [refs EXCEPT ![r] = 2]       \* main's and the job's
  /\ rendererRefs' = rendererRefs + 1
  /\ registered' = registered \union {r}
  /\ owned' = {r}
  /\ QueueJob(r, j)
  /\ UNCHANGED <<aboutToClose, pc, phase, completed>>

OpenPage(r) ==
  /\ phase = "opening" /\ r \in Pages
  /\ NewRequest(r)
  /\ UNCHANGED <<jobVars, aboutToClose, pc, phase, completed>>

Opened ==
  /\ phase = "opening" /\ Pages \subseteq owned
  /\ phase' = "open"
  /\ UNCHANGED <<jobVars, refVars, aboutToClose, pc, owned, completed>>

\* Mutant: unfinished jobs are not looked for.
RequestRenderAgain(r, j) ==
  /\ phase \in {"open", "kept"} /\ r \in owned \intersect Pages
  /\ QueueJob(r, j)
  /\ refs' = [refs EXCEPT ![r] = @ + 1]
  /\ UNCHANGED <<registered, rendererRefs, aboutToClose, pc, mainVars>>

\* zathura_render_request: a new job only when all earlier ones are aborted.
\* A page of the predecessor asks too, when it is drawn in place of a page
\* of the successor and has lost its surface.
RequestRender(r, j) ==
  /\ phase \in {"open", "kept"} /\ r \in owned \intersect Pages
  /\ Live(r) = {}
  /\ QueueJob(r, j)
  /\ refs' = [refs EXCEPT ![r] = @ + 1]
  /\ UNCHANGED <<registered, rendererRefs, aboutToClose, pc, mainVars>>

\* zathura_render_request_abort: on a resize and when the page is scrolled away.
Abort(r) ==
  /\ phase = "open" /\ r \in owned \intersect Pages
  /\ Live(r) # {}
  /\ aborted' = [j \in Jobs |-> aborted[j] \/ j \in active[r]]
  /\ UNCHANGED <<stage, jobRequest, active, refVars, aboutToClose, pc, mainVars>>

\* Mutants: the aborted flag is not looked at; the job stays on the list.
DispatchAborted(j) ==
  LET r == jobRequest[j] IN
  /\ InMainLoop /\ stage[j] = "posted"
  /\ completed' = IF aboutToClose THEN completed ELSE [completed EXCEPT ![r] = ~@]
  /\ active' = [active EXCEPT ![r] = @ \ {j}]
  /\ FreeJob(j)
  /\ UnrefRequest(r)
  /\ UNCHANGED <<aborted, aboutToClose, pc, phase, owned>>

DispatchStaysListed(j) ==
  LET r == jobRequest[j] IN
  /\ InMainLoop /\ stage[j] = "posted"
  /\ completed' = IF ~aboutToClose /\ ~aborted[j]
                    THEN [completed EXCEPT ![r] = ~@]
                    ELSE completed
  /\ FreeJob(j)
  /\ UnrefRequest(r)
  /\ UNCHANGED <<active, aborted, aboutToClose, pc, phase, owned>>

\* emit_completed_signal, a callback of the main loop.
Dispatch(j) ==
  LET r == jobRequest[j] IN
  /\ InMainLoop /\ stage[j] = "posted"
  /\ completed' = IF ~aboutToClose /\ ~aborted[j]
                    THEN [completed EXCEPT ![r] = ~@]
                    ELSE completed
  /\ active' = [active EXCEPT ![r] = @ \ {j}]
  /\ FreeJob(j)
  /\ UnrefRequest(r)
  /\ UNCHANGED <<aborted, aboutToClose, pc, phase, owned>>

-----------------------------------------------------------------------------
(* Main thread: document_close, a callback during which the worker runs on *)

Stop ==
  /\ phase = "open"
  /\ phase' = "stopped"
  /\ aboutToClose' = TRUE
  /\ UNCHANGED <<jobVars, refVars, pc, owned, completed>>

\* g_clear_object(&zathura->window_icon_render_request)
ClearIcon ==
  /\ phase = "stopped"
  /\ phase' = "iconCleared"
  /\ IF owned \intersect Icons = {}
       THEN UNCHANGED <<refVars, owned>>
       ELSE \E r \in owned \intersect Icons :
              /\ UnrefRequest(r)
              /\ owned' = owned \ {r}
  /\ UNCHANGED <<jobVars, aboutToClose, pc, completed>>

\* g_clear_object(&zathura->sync.render_thread)
ReleaseRenderer ==
  /\ phase = "iconCleared"
  /\ phase' = "released"
  /\ rendererRefs' = rendererRefs - 1
  /\ UNCHANGED <<jobVars, refs, registered, aboutToClose, pc, owned, completed>>

\* The document outlives its closing as the predecessor of a reload ...
KeepAsPredecessor ==
  /\ phase = "released"
  /\ phase' = "kept"
  /\ UNCHANGED <<jobVars, refVars, aboutToClose, pc, owned, completed>>

\* ... or its pages are dropped now, or when the predecessor is freed.
StartDropping ==
  /\ phase \in {"released", "kept"}
  /\ phase' = "dropping"
  /\ UNCHANGED <<jobVars, refVars, aboutToClose, pc, owned, completed>>

\* g_object_unref(pages[i]); the widget's dispose drops its request.
DropPage(r) ==
  /\ phase = "dropping" /\ r \in owned
  /\ UnrefRequest(r)
  /\ owned' = owned \ {r}
  /\ UNCHANGED <<jobVars, aboutToClose, pc, phase, completed>>

FreeDocument ==
  /\ phase = "dropping" /\ owned = {}
  /\ phase' = "freed"
  /\ UNCHANGED <<jobVars, refVars, aboutToClose, pc, owned, completed>>

-----------------------------------------------------------------------------
(* Worker thread: render_job *)

CutShort(j) == aboutToClose \/ aborted[j]

Take(j) ==
  /\ pc = "idle" /\ stage[j] = "queued"
  /\ stage' = [stage EXCEPT ![j] = "worker"]
  /\ pc' = "start"
  /\ UNCHANGED <<jobRequest, aborted, active, refVars, aboutToClose, mainVars>>

\* The worker goes from pc "from" to pc "to" with job j, changing nothing else.
WorkerMoves(j, from, to) ==
  /\ pc = from /\ stage[j] = "worker"
  /\ pc' = to
  /\ UNCHANGED <<jobVars, refVars, aboutToClose, mainVars>>

\* Mutant: an early return without remove_job_and_free.
BackOutAndForget(j) == CutShort(j) /\ WorkerMoves(j, "start", "idle")

BackOut(j) == CutShort(j) /\ WorkerMoves(j, "start", "remove")

StartRender(j) == ~CutShort(j) /\ WorkerMoves(j, "start", "render")

\* Mutant: the same, when rendering fails.
RenderFailsAndForgets(j) == WorkerMoves(j, "render", "idle")

\* No surface, or the plugin reports an error.
RenderFails(j) == WorkerMoves(j, "render", "remove")

RenderIsCutShort(j) == CutShort(j) /\ WorkerMoves(j, "render", "remove")

Recolor(j) == ~CutShort(j) /\ WorkerMoves(j, "render", "recolor")

\* invoke_completed_signal; from here on the job is the main thread's.
Post(j) ==
  /\ pc = "recolor" /\ stage[j] = "worker"
  /\ stage' = [stage EXCEPT ![j] = "posted"]
  /\ pc' = "idle"
  /\ UNCHANGED <<jobRequest, aborted, active, refVars, aboutToClose, mainVars>>

PostFails(j) == WorkerMoves(j, "recolor", "remove")

\* remove_job_and_free: off the list under jobs_mutex ...
Remove(j) ==
  /\ pc = "remove" /\ stage[j] = "worker"
  /\ active' = [active EXCEPT ![jobRequest[j]] = @ \ {j}]
  /\ pc' = "unref"
  /\ UNCHANGED <<stage, jobRequest, aborted, refVars, aboutToClose, mainVars>>

\* ... then the reference and the job.  If this was the renderer's last
\* reference, renderer_finalize now runs here, inside a job of the very pool
\* that it asks to finish all its jobs.
Unref(j) ==
  /\ pc = "unref" /\ stage[j] = "worker"
  /\ FreeJob(j)
  /\ UnrefRequest(jobRequest[j])
  /\ pc' = IF rendererRefs' = 0 THEN "selfwait" ELSE "idle"
  /\ UNCHANGED <<aborted, active, aboutToClose, mainVars>>

-----------------------------------------------------------------------------

WorkerStep(j) ==
  \/ BackOut(j) \/ StartRender(j)
  \/ RenderFails(j) \/ RenderIsCutShort(j) \/ Recolor(j)
  \/ Post(j) \/ PostFails(j)
  \/ Remove(j) \/ Unref(j)

OpenStep ==
  \/ \E r \in Icons, j \in Jobs : OpenIcon(r, j)
  \/ \E r \in Pages : OpenPage(r)
  \/ Opened

\* The steps that document_close takes without returning to the main loop.
CloseStep ==
  \/ ClearIcon \/ ReleaseRenderer
  \/ phase = "released" /\ (KeepAsPredecessor \/ StartDropping)
  \/ \E r \in Requests : DropPage(r)
  \/ FreeDocument

Next ==
  \/ OpenStep
  \/ \E r \in Requests, j \in Jobs : RequestRender(r, j)
  \/ \E r \in Requests : Abort(r)
  \/ \E j \in Jobs : Dispatch(j)
  \/ Stop
  \/ CloseStep
  \/ phase = "kept" /\ StartDropping
  \/ \E j \in Jobs : Take(j) \/ WorkerStep(j)

Spec == Init /\ [][Next]_vars

\* A live job of a request that the worker takes.
TakeLive(r) == \E j \in active[r] : ~aborted[j] /\ Take(j)

(* The operating system runs the worker; the main loop dispatches what is   *)
(* posted; document_open and document_close return.  Strong fairness for    *)
(* TakeLive is justified by the order of the pool's queue: a job can only   *)
(* be overtaken by jobs with an older view time, and view times are taken   *)
(* from the clock (PoolQueue).  Aborted jobs have no such promise while new *)
(* jobs keep coming: hence only WF of "the worker takes something".         *)
Fairness ==
  /\ WF_vars(OpenStep)
  /\ WF_vars(CloseStep)
  /\ WF_vars(\E j \in Jobs : WorkerStep(j))
  /\ WF_vars(\E j \in Jobs : Take(j))
  /\ \A r \in Requests : SF_vars(TakeLive(r))
  /\ \A j \in Jobs : WF_vars(Dispatch(j))

FairSpec == Spec /\ Fairness

-----------------------------------------------------------------------------
(* What must be true *)

\* A request has at most one job that is not aborted, however its aborts and
\* draws interleave with the worker and with the posted completions.
SingleLiveJob == \A r \in Requests : \A i, j \in Live(r) : i = j

\* A job is on the list of the request it points to from the moment it is
\* queued until its removal, and on no other: what Live(r) and the
\* "unfinished jobs" test of zathura_render_request rely on.
JobsListed ==
  \A j \in Jobs, r \in Requests :
    j \in active[r] <=> /\ stage[j] # "free"
                        /\ jobRequest[j] = r
                        /\ ~(stage[j] = "worker" /\ pc = "unref")

JobsOf(r) == {j \in Jobs : jobRequest[j] = r}

\* Every reference is accounted for: a request is alive exactly as long as
\* main or one of its jobs points to it, and it is on the renderer's list
\* exactly as long as it is alive.
RequestRefs ==
  \A r \in Requests :
    /\ refs[r] = Cardinality(JobsOf(r)) + (IF r \in owned THEN 1 ELSE 0)
    /\ r \in registered <=> refs[r] > 0

\* main has not yet released zathura->sync.render_thread
MainHoldsRenderer == phase \in {"opening", "open", "stopped", "iconCleared"}

\* The renderer outlives every request: a job never finds it finalised.
RendererOutlivesRequests ==
  /\ rendererRefs = Cardinality(registered)
                       + (IF MainHoldsRenderer THEN 1 ELSE 0)
  /\ \A j \in Jobs : stage[j] # "free" => rendererRefs > 0

\* The pool is told to finish only when nothing is queued, posted or in work
\* (so a finaliser on the main thread never waits for long), and the worker
\* waits for itself only then.
FinalisedWhenDrained ==
  rendererRefs = 0 => /\ aboutToClose
                      /\ \A j \in Jobs : stage[j] = "free"
                      /\ pc \in {"idle", "selfwait"}

Wanted == {r \in Requests : Live(r) # {}}

Service == INSTANCE RenderService WITH
             wanted <- Wanted, closed <- aboutToClose

\* The two threads together are the render service.
ImplementsService == Service!Spec

\* Every ask is settled: answered, failed, aborted or dropped by the close.
AsksAreSettled == \A r \in Requests : r \in Wanted ~> r \notin Wanted

\* After the document is gone every job is given back and no request is left.
DrainsAfterFree ==
  phase = "freed" ~> /\ \A j \in Jobs : stage[j] = "free"
                     /\ registered = {}

-----------------------------------------------------------------------------
(* What the source says and the code does not do *)

\* document_close announces "stop rendering" and then frees the document; the
\* header says of zathura_renderer_stop "Stop rendering."  Once the document
\* is freed the worker renders none of its pages.
RenderOnlyLiveDocument == phase = "freed" => pc \notin {"render", "recolor"}
=============================================================================
