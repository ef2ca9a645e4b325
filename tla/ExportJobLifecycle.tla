-------------------------- MODULE ExportJobLifecycle --------------------------
(***************************************************************************)
(* What the user of the export API is promised of one job, with nothing    *)
(* said of queues, locks or workers: a submitted job runs and ends either  *)
(* succeeded, with a result that can be downloaded from then on, or        *)
(* failed; only a failed job can be submitted again.                       *)
(***************************************************************************)
CONSTANT Jobs

VARIABLES
  phase, \* the status GET /export-jobs/:id shows
  ready  \* jobs GET /export-jobs/:id/result can serve

vars == <<phase, ready>>

Init == phase = [j \in Jobs |-> "absent"] /\ ready = {}

Move(j, from, to) ==
  /\ phase[j] \in from
  /\ phase' = [phase EXCEPT ![j] = to]

Submit(j)   == Move(j, {"absent"}, "pending") /\ UNCHANGED ready
Run(j)      == Move(j, {"pending"}, "running") /\ UNCHANGED ready
Deliver(j)  == Move(j, {"running"}, "succeeded") /\ ready' = ready \cup {j}
Fail(j)     == Move(j, {"pending", "running"}, "failed") /\ UNCHANGED ready
Resubmit(j) == Move(j, {"failed"}, "pending") /\ UNCHANGED ready

Next == \E j \in Jobs : Submit(j) \/ Run(j) \/ Deliver(j) \/ Fail(j) \/ Resubmit(j)

Spec == Init /\ [][Next]_vars

(* A job that was accepted is settled one way or the other. *)
FairSpec == Spec /\ \A j \in Jobs : WF_vars(Deliver(j) \/ Fail(j))
===============================================================================
