--------------------------- MODULE RenderService ---------------------------
(***************************************************************************)
(* What the renderer promises to the page widgets, with no thread, queue   *)
(* or job in sight.  A page asks for a surface; the ask is answered at     *)
(* most once, by a "completed" signal, or it is dropped (rendering failed, *)
(* or the page withdrew it); a closed renderer never answers.              *)
(*                                                                         *)
(* RenderJobs implements this specification.                               *)
(***************************************************************************)

CONSTANT Requests        \* the render requests: one per page, one per icon

VARIABLES
  wanted,      \* the requests with an ask that has not been settled
  completed,   \* flipped each time the "completed" signal is emitted
  closed       \* the renderer was told to stop

vars == <<wanted, completed, closed>>

TypeOK ==
  /\ wanted \subseteq Requests
  /\ completed \in [Requests -> BOOLEAN]
  /\ closed \in BOOLEAN

Init ==
  /\ wanted = {}
  /\ completed = [r \in Requests |-> FALSE]
  /\ closed = FALSE

Ask(r) ==
  /\ r \notin wanted
  /\ wanted' = wanted \union {r}
  /\ UNCHANGED <<completed, closed>>

\* The page withdrew the ask, or the renderer could not satisfy it.
Drop(r) ==
  /\ r \in wanted
  /\ wanted' = wanted \ {r}
  /\ UNCHANGED <<completed, closed>>

\* The one answer to the ask.
Answer(r) ==
  /\ r \in wanted
  /\ ~closed
  /\ wanted' = wanted \ {r}
  /\ completed' = [completed EXCEPT ![r] = ~@]
  /\ UNCHANGED closed

Close ==
  /\ ~closed
  /\ closed' = TRUE
  /\ UNCHANGED <<wanted, completed>>

Next ==
  \/ \E r \in Requests : Ask(r) \/ Drop(r) \/ Answer(r)
  \/ Close

Spec == Init /\ [][Next]_vars
=============================================================================
