---------------------------- MODULE RunLifecycle ----------------------------
(***************************************************************************)
(* What the control plane promises about runs, seen from GET               *)
(* /api/run/status: one run at a time, each under a run id of its own, and *)
(* a run that was asked to stop does not go back to running.  RunControl   *)
(* implements it.                                                          *)
(***************************************************************************)
EXTENDS Integers

CONSTANTS MaxRuns   \* runs started in a behaviour

VARIABLES state, runId, lastRun

vars == <<state, runId, lastRun>>

Init == state = "idle" /\ runId = 0 /\ lastRun = 0

(* A run begins, in idle or over a run that is stopping, under a new id.    *)
Begin ==
  /\ state # "running" /\ lastRun < MaxRuns
  /\ state' = "running" /\ lastRun' = lastRun + 1 /\ runId' = lastRun'

AskStop ==
  /\ state # "idle" /\ state' = "stopping"
  /\ UNCHANGED <<runId, lastRun>>

End ==
  /\ state # "idle" /\ state' = "idle" /\ runId' = 0
  /\ UNCHANGED lastRun

Next == Begin \/ AskStop \/ End

(* A run that is stopping ends, unless another begins.                      *)
Fairness == WF_vars(state = "stopping" /\ End)

Spec == Init /\ [][Next]_vars
FairSpec == Spec /\ Fairness
=============================================================================
