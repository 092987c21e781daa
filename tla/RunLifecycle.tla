---------------------------- MODULE RunLifecycle ----------------------------
(***************************************************************************)
(* What the audit registry promises its callers (CORE-002), without rows,  *)
(* attempts or timestamps: one audit run with a phase, and one piece of    *)
(* work per logical task.  A task is worked on by at most one live worker  *)
(* at a time; work that is lost (failed or cancelled) may be reopened; a   *)
(* closed run never changes phase again, and it closes with the verdict    *)
(* that the state of its tasks dictates.                                   *)
(*                                                                         *)
(* AuditRegistry implements this specification (see its Lifecycle          *)
(* instance); the attempts of the registry and the late outcomes reported  *)
(* for superseded attempts are invisible here.                             *)
(***************************************************************************)
CONSTANTS Tasks,      \* the logical tasks (host/framework pairs) of the run
          Optional    \* the tasks whose jobs are not mandatory

VARIABLES phase,      \* where the run is in its life
          work        \* work[t]: what became of task t

vars == <<phase, work>>

Phases == {"none", "pending", "running", "cancelled",
           "completed", "partial", "failed"}
WorkStates == {"none", "open", "done", "lost"}

LifecycleTypeOK == /\ phase \in Phases
                   /\ work \in [Tasks -> WorkStates]

Init == /\ phase = "none"
        /\ work = [t \in Tasks |-> "none"]

Create == /\ phase = "none"
          /\ phase' = "pending"
          /\ UNCHANGED work

\* Started for the first time, or resumed after a cancellation.
Activate == /\ phase \in {"pending", "cancelled"}
            /\ phase' = "running"
            /\ UNCHANGED work

\* A worker takes the task: for the first time, again after it was lost, or
\* once more although it was done.
Open(t) == /\ phase # "none"
           /\ work[t] # "open"
           /\ work' = [work EXCEPT ![t] = "open"]
           /\ UNCHANGED phase

Finish(t) == /\ work[t] = "open"
             /\ work' = [work EXCEPT ![t] = "done"]
             /\ UNCHANGED phase

Lose(t) == /\ work[t] = "open"
           /\ work' = [work EXCEPT ![t] = "lost"]
           /\ UNCHANGED phase

Abandoned == [t \in Tasks |-> IF work[t] = "open" THEN "lost" ELSE work[t]]

\* Cancelling loses every open task.  The phase follows unless the run is
\* already closed, in which case it keeps its verdict.
Cancel == /\ phase # "none"
          /\ work' = Abandoned
          /\ phase' = IF phase \in {"pending", "running"} THEN "cancelled"
                                                          ELSE phase

\* What a run is worth, given what became of its tasks.
Verdict(w) ==
    IF \E t \in Tasks \ Optional : w[t] \in {"open", "lost"} THEN "failed"
    ELSE IF \E t \in Tasks \cap Optional : w[t] = "lost" THEN "partial"
    ELSE "completed"

Close == /\ phase = "running"
         /\ phase' = Verdict(work)
         /\ UNCHANGED work

\* A rejected request fails the run whatever its tasks say.
Reject == /\ phase = "running"
          /\ phase' = "failed"
          /\ UNCHANGED work

Next == \/ Create \/ Activate \/ Cancel \/ Close \/ Reject
        \/ \E t \in Tasks : Open(t) \/ Finish(t) \/ Lose(t)

Spec == Init /\ [][Next]_vars
=============================================================================
