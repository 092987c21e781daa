--------------------------- MODULE AuditRegistry ---------------------------
(***************************************************************************)
(* The audit registry (audit_registry.py, domain/audit_models.py): the     *)
(* SQLite tables audit_runs and audit_jobs, restricted to the rows of one  *)
(* audit_run_id.  Every statement of the registry selects by audit_run_id  *)
(* or by job_id, so the rows of different runs never meet.                 *)
(*                                                                         *)
(* A registry method is synchronous and runs on the event loop without an  *)
(* await, so each call is one action.  A call that raises leaves the       *)
(* tables alone, except cancel_run, which raises after having cancelled    *)
(* the open jobs of a run that is already closed.                          *)
(*                                                                         *)
(* A timestamp is modelled by whether it is set.                           *)
(***************************************************************************)
EXTENDS Naturals

CONSTANTS Tasks,        \* logical_task_id values planned for the run
          Optional,     \* the tasks whose jobs are created with mandatory=False
          MaxAttempt    \* bound on AuditJob.attempt

ASSUME AttemptAssumption == MaxAttempt \in Nat \ {0}

VARIABLES run,   \* the AuditRun row
          last,  \* last[t]: MAX(attempt) over the jobs of task t, 0 without one
          job    \* job[t][n]: the AuditJob row of attempt n of task t

registryVars == <<run, last, job>>

Attempts == 1..MaxAttempt

RunStatuses == {"none", "pending", "running", "completed", "failed",
                "cancelled", "partial"}
ClosedRun == {"completed", "failed", "partial"}

JobStatuses == {"none", "pending", "running", "completed", "failed",
                "cancelled", "skipped"}
OpenJob == {"pending", "running"}

AUDIT_RUN_TRANSITIONS ==
    {<<"pending", "running">>, <<"pending", "cancelled">>,
     <<"running", "completed">>, <<"running", "failed">>,
     <<"running", "cancelled">>, <<"running", "partial">>,
     <<"cancelled", "running">>}

AUDIT_JOB_TRANSITIONS ==
    {<<"pending", "running">>, <<"pending", "cancelled">>, <<"pending", "skipped">>,
     <<"running", "completed">>, <<"running", "failed">>, <<"running", "cancelled">>}

validate_run_transition(s, new) == s = new \/ <<s, new>> \in AUDIT_RUN_TRANSITIONS

validate_job_transition(s, new) == s = new \/ <<s, new>> \in AUDIT_JOB_TRANSITIONS

RunRow == [status : RunStatuses, started : BOOLEAN, finished : BOOLEAN]
JobRow == [status : JobStatuses, started : BOOLEAN, finished : BOOLEAN,
           error : BOOLEAN]

NoRun == [status |-> "none", started |-> FALSE, finished |-> FALSE]
NoJob == [status |-> "none", started |-> FALSE, finished |-> FALSE, error |-> FALSE]
NewJob == [NoJob EXCEPT !.status = "pending"]

\* AuditRun.transition_to: resuming after a cancellation clears finished_at.
RunTo(r, new) ==
    [status   |-> new,
     started  |-> r.started \/ new = "running",
     finished |-> IF new = "running" THEN FALSE
                  ELSE r.finished \/ new \in ClosedRun \cup {"cancelled"}]

\* AuditJob.transition_to: err says that an error payload was passed.
JobTo(j, new, err) ==
    [status   |-> new,
     started  |-> j.started \/ new = "running",
     finished |-> j.finished \/ new \in {"completed", "failed", "cancelled", "skipped"},
     error    |-> j.error \/ err]

-----------------------------------------------------------------------------
(* Reading the tables.                                                     *)

HasJob(t) == last[t] > 0
LatestStatus(t) == IF HasJob(t) THEN job[t][last[t]].status ELSE "none"

\* Faulty: a job that was never started does not count.
PlannedStarted == {t \in Tasks : HasJob(t) /\ job[t][last[t]].started}

Planned == {t \in Tasks : HasJob(t)}

\* can_complete_run: every mandatory task ended well in its latest attempt.
can_complete_run ==
    \A t \in Planned \ Optional : LatestStatus(t) \in {"completed", "skipped"}

resolve_terminal_run_status ==
    IF \E t \in Planned \ Optional :
            LatestStatus(t) \in {"failed", "cancelled", "pending", "running"}
        THEN "failed"
    ELSE IF \E t \in Planned \cap Optional : LatestStatus(t) \in {"failed", "cancelled"}
        THEN "partial"
    ELSE "completed"

-----------------------------------------------------------------------------
(* Runs.                                                                   *)

RegistryInit ==
    /\ run = NoRun
    /\ last = [t \in Tasks |-> 0]
    /\ job = [t \in Tasks |-> [n \in Attempts |-> NoJob]]

create_run == /\ run.status = "none"
              /\ run' = [NoRun EXCEPT !.status = "pending"]
              /\ UNCHANGED <<last, job>>

transition_run(new) == /\ run.status # "none"
                       /\ new = "completed" => can_complete_run
                       /\ validate_run_transition(run.status, new)
                       /\ run' = RunTo(run, new)
                       /\ UNCHANGED <<last, job>>

\* A step of its own: create_run has committed before it, so a process that
\* dies in between leaves a pending run behind.
mark_run_started == transition_run("running")

\* AuditRequestRejected while the jobs are prepared.
reject_run == transition_run("failed")

\* The open jobs go first; a closed run then makes the call raise.
cancel_run ==
    /\ run.status # "none"
    /\ job' = [t \in Tasks |-> [n \in Attempts |->
                 IF job[t][n].status \in OpenJob THEN JobTo(job[t][n], "cancelled", FALSE)
                                                 ELSE job[t][n]]]
    /\ run' = IF run.status # "cancelled" /\ validate_run_transition(run.status, "cancelled")
                THEN RunTo(run, "cancelled") ELSE run
    /\ UNCHANGED last

resume_run == /\ run.status # "running"
              /\ transition_run("running")

finalize_run ==
    /\ run.status # "none"
    /\ resolve_terminal_run_status = "completed" => can_complete_run
    /\ validate_run_transition(run.status, resolve_terminal_run_status)
    /\ run' = RunTo(run, resolve_terminal_run_status)
    /\ UNCHANGED <<last, job>>

-----------------------------------------------------------------------------
(* Jobs.  The row with number next_attempt(t) does not exist before.       *)

next_attempt(t) == last[t] + 1

\* create_job: a pending row, whatever rows of the task there are.
create_job(t) ==
    /\ run.status # "none"
    /\ next_attempt(t) \in Attempts
    /\ last' = [last EXCEPT ![t] = next_attempt(t)]
    /\ job' = [job EXCEPT ![t][next_attempt(t)] = NewJob]
    /\ UNCHANGED run

\* The only call of it outside the registry: the bootstrap passes over a task
\* that has a row.
create_first_job(t) == ~HasJob(t) /\ create_job(t)

\* start_job_attempt on a task whose latest attempt is still pending.
start_pending_job(t) ==
    /\ LatestStatus(t) = "pending"
    /\ job' = [job EXCEPT ![t][last[t]] = JobTo(@, "running", FALSE)]
    /\ UNCHANGED <<run, last>>

\* Faulty: the running attempt is not cancelled before the new one starts.
RetryBesideRunning(t) ==
    /\ run.status # "none"
    /\ next_attempt(t) \in Attempts
    /\ last' = [last EXCEPT ![t] = next_attempt(t)]
    /\ job' = [job EXCEPT ![t][next_attempt(t)] = JobTo(NewJob, "running", FALSE)]
    /\ UNCHANGED run

\* retry_job: the latest attempt is cancelled when it is running, and left as it
\* is when it is pending; then a new attempt is created and started.
retry_job(t) ==
    /\ run.status # "none"
    /\ next_attempt(t) \in Attempts
    /\ last' = [last EXCEPT ![t] = next_attempt(t)]
    /\ job' = [job EXCEPT ![t] = [n \in Attempts |->
                 IF n = next_attempt(t) THEN JobTo(NewJob, "running", FALSE)
                 ELSE IF n = last[t] /\ job[t][n].status = "running"
                        THEN JobTo(job[t][n], "cancelled", FALSE)
                 ELSE job[t][n]]]
    /\ UNCHANGED run

\* start_job_attempt on any other task does the same.  The only call of retry_job
\* itself is for an attempt that failed or was cancelled, and so is one of these.
start_next_job(t) == LatestStatus(t) # "pending" /\ retry_job(t)

\* A worker reports the outcome of its own attempt n, which by then need not
\* be the latest one.
transition_job(t, n, new, err) ==
    /\ n \in 1..last[t]
    /\ validate_job_transition(job[t][n].status, new)
    /\ job' = [job EXCEPT ![t][n] = JobTo(@, new, err)]
    /\ UNCHANGED <<run, last>>

complete_job(t, n) == transition_job(t, n, "completed", FALSE)
fail_job(t, n) == transition_job(t, n, "failed", TRUE)

RegistryNext ==
    \/ create_run \/ mark_run_started \/ reject_run
    \/ cancel_run \/ resume_run \/ finalize_run
    \/ \E t \in Tasks :
         \/ create_first_job(t) \/ start_pending_job(t) \/ start_next_job(t)
         \/ \E n \in Attempts : complete_job(t, n) \/ fail_job(t, n)

RegistrySpec == RegistryInit /\ [][RegistryNext]_registryVars

-----------------------------------------------------------------------------
(* Properties.                                                             *)

\* Types: the run row, the attempt counters and the job rows stay within the
\* columns' domains (domain/audit_models.py enumerations).
RegistryTypeOK == /\ run \in RunRow
                  /\ last \in [Tasks -> 0..MaxAttempt]
                  /\ job \in [Tasks -> [Attempts -> JobRow]]

\* Of all attempts of a logical task only the latest can be open: a retry
\* closes what it supersedes, so two workers never hold live attempts of one
\* task (start_job_attempt), and attempts are numbered without gaps
\* (next_attempt).
OneOpenAttempt == \A t \in Tasks, n \in Attempts :
    /\ n <= last[t] <=> job[t][n].status # "none"
    /\ job[t][n].status \in OpenJob => n = last[t]

\* The timestamps and the error payload of one job row fit its status.
JobRowAgrees(j) ==
    /\ j.finished <=> j.status \notin OpenJob \cup {"none"}
    /\ j.status \in {"running", "completed", "failed"} => j.started
    /\ j.error <=> j.status = "failed"

\* finished_at is set exactly on what has ended, through any sequence of
\* cancellations and resumptions, what runs or ended by itself has started_at,
\* and only a failed attempt carries an error (transition_to of both rows).
TimestampsAgree ==
    /\ run.finished <=> run.status \in ClosedRun \cup {"cancelled"}
    /\ run.status \in ClosedRun \cup {"running"} => run.started
    /\ \A t \in Tasks, n \in Attempts : JobRowAgrees(job[t][n])

\* What the rows of a run promise together, through any sequence of calls: their types,
\* one open attempt per task (start_job_attempt) and timestamps that fit
\* (transition_to).  It is inductive: OneOpenAttempt needs the numbering of the
\* rows, since a retry writes a row that did not exist, and that writing an outcome
\* twice changes nothing needs TimestampsAgree.
RegistryInv == RegistryTypeOK /\ OneOpenAttempt /\ TimestampsAgree

\* A run that was closed with a verdict keeps it: no cancellation, resumption
\* or second finalization changes it (AUDIT_RUN_TRANSITIONS).
ClosedRunFinal ==
    [][run.status \in ClosedRun => run' = run]_registryVars

\* The outcome of an attempt is final: a late report of a worker whose attempt
\* was cancelled or superseded never rewrites it (AUDIT_JOB_TRANSITIONS).
OutcomeFinal ==
    [][\A t \in Tasks, n \in Attempts :
         job[t][n].status \notin OpenJob \cup {"none"} => job'[t][n] = job[t][n]]_registryVars

\* The abstract lifecycle: a task is as good as its latest attempt.
Worth(s) == IF s \in OpenJob THEN "open"
            ELSE IF s \in {"completed", "skipped"} THEN "done"
            ELSE IF s \in {"failed", "cancelled"} THEN "lost" ELSE "none"
WorkOf == [t \in Tasks |-> Worth(LatestStatus(t))]

Lifecycle == INSTANCE RunLifecycle WITH phase <- run.status, work <- WorkOf

\* The registry implements the lifecycle CORE-002 promises: whatever happens to
\* attempts, the run closes with the verdict its tasks deserve (finalize_run).
ImplementsLifecycle == Lifecycle!Spec
=============================================================================
