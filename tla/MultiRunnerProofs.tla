------------------------- MODULE MultiRunnerProofs -------------------------
(***************************************************************************)
(* Theorems about the audit registry and the runner of an audit run, for   *)
(* any set of tasks, hosts and ranks, any limit and any number of attempts *)
(* and pauses.                                                             *)
(*                                                                         *)
(* The registry, by itself: verdicts and outcomes are final, attempts      *)
(* supersede each other, and it implements the life cycle of a run         *)
(* (RunLifecycle).  The runner, which extends the registry:                *)
(*                                                                         *)
(* With any number of chat turns, cancellations and crashes: the runner    *)
(* only ever calls the registry, so that everything proved of the registry *)
(* holds of a run (RunnerCallsRegistry), and a run is closed as completed  *)
(* only with all its reports (VerdictsBacked), and no turn has two jobs of *)
(* one host under way (HostsExclusive).  For chat turns that follow each   *)
(* other, as long as the process lives and whatever is cancelled: nothing  *)
(* is lost from the queue or left in it (NothingLost, QueueEmptied).       *)
(***************************************************************************)
EXTENDS MultiRunner, TLAPS

-----------------------------------------------------------------------------
(* The registry.                                                           *)

\* A transition of a run row yields a run row (AuditRun.transition_to).
LEMMA RunToType ==
    ASSUME NEW r \in RunRow, NEW s \in RunStatuses
    PROVE  RunTo(r, s) \in RunRow
  BY DEF RunTo, RunRow, RunStatuses, ClosedRun

\* A transition of a job row yields a job row (AuditJob.transition_to).
LEMMA JobToType ==
    ASSUME NEW j \in JobRow, NEW s \in JobStatuses, NEW e \in BOOLEAN
    PROVE  JobTo(j, s, e) \in JobRow
  BY DEF JobTo, JobRow, JobStatuses

\* The verdict of a run is one of the closed statuses.
LEMMA VerdictType == resolve_terminal_run_status \in ClosedRun
  BY DEF resolve_terminal_run_status, ClosedRun

\* Nothing is registered at first.
LEMMA InitInv == RegistryInit => RegistryInv
  BY AttemptAssumption DEF RegistryInit, RegistryInv, RegistryTypeOK, OneOpenAttempt,
     TimestampsAgree, NoRun, NoJob, RunRow, JobRow, RunStatuses, JobStatuses,
     Attempts, ClosedRun, OpenJob, JobRowAgrees

\* A step that only moves the run row to a status it may have.
LEMMA RunStep ==
    ASSUME RegistryInv, NEW s \in RunStatuses \ {"none", "pending"},
           validate_run_transition(run.status, s),
           run' = RunTo(run, s), UNCHANGED <<last, job>>
    PROVE  RegistryInv' /\ (run.status \in ClosedRun => run' = run)
  <1>1. run' \in RunRow
    BY RunToType DEF RegistryInv, RegistryTypeOK
  <1>2. /\ run'.finished <=> run'.status \in ClosedRun \cup {"cancelled"}
        /\ run'.status \in ClosedRun \cup {"running"} => run'.started
    BY DEF RegistryInv, RegistryTypeOK, TimestampsAgree, RunTo, RunRow, RunStatuses,
           ClosedRun, validate_run_transition, AUDIT_RUN_TRANSITIONS
  <1>3. run.status \in ClosedRun => run' = run
    BY DEF RegistryInv, RegistryTypeOK, TimestampsAgree, RunTo, RunRow, RunStatuses,
           ClosedRun, validate_run_transition, AUDIT_RUN_TRANSITIONS
  <1>4. QED
    BY <1>1, <1>2, <1>3 DEF RegistryInv, RegistryTypeOK, OneOpenAttempt, TimestampsAgree

\* A legal transition of a job row: the row still agrees with its status, and
\* a row that has ended does not change.
LEMMA JobStep ==
    ASSUME NEW j \in JobRow, JobRowAgrees(j),
           NEW s \in JobStatuses, s \notin {"none", "pending", "failed", "skipped"},
           validate_job_transition(j.status, s)
    PROVE  /\ JobTo(j, s, FALSE) \in JobRow
           /\ JobTo(j, s, FALSE).status = s
           /\ JobRowAgrees(JobTo(j, s, FALSE))
           /\ j.status # "none"
           /\ j.status \notin OpenJob => JobTo(j, s, FALSE) = j
  <1>1. JobTo(j, s, FALSE) \in JobRow
    BY JobToType
  <1>2. QED
    BY <1>1 DEF JobTo, JobRow, JobStatuses, JobRowAgrees, OpenJob,
                validate_job_transition, AUDIT_JOB_TRANSITIONS

\* The same for a failure, which comes with an error.
LEMMA JobFailure ==
    ASSUME NEW j \in JobRow, JobRowAgrees(j), validate_job_transition(j.status, "failed")
    PROVE  /\ JobTo(j, "failed", TRUE) \in JobRow
           /\ JobTo(j, "failed", TRUE).status = "failed"
           /\ JobRowAgrees(JobTo(j, "failed", TRUE))
           /\ j.status # "none"
           /\ j.status \notin OpenJob => JobTo(j, "failed", TRUE) = j
  <1>1. JobTo(j, "failed", TRUE) \in JobRow
    BY JobToType DEF JobStatuses
  <1>2. QED
    BY <1>1 DEF JobTo, JobRow, JobStatuses, JobRowAgrees, OpenJob,
                validate_job_transition, AUDIT_JOB_TRANSITIONS

\* A fresh attempt that is started at once is a running row.
LEMMA FreshJob ==
    LET k == JobTo(NewJob, "running", FALSE) IN
      /\ NewJob \in JobRow /\ NewJob.status = "pending" /\ JobRowAgrees(NewJob)
      /\ k \in JobRow /\ k.status = "running" /\ JobRowAgrees(k)
  BY DEF NewJob, NoJob, JobTo, JobRow, JobStatuses, JobRowAgrees, OpenJob

\* What a step may do to the registry besides keeping the invariant.
StepKeepsOutcomes ==
    /\ run.status \in ClosedRun => run' = run
    /\ \A t \in Tasks, n \in Attempts :
         job[t][n].status \notin OpenJob \cup {"none"} => job'[t][n] = job[t][n]

\* Every registry call keeps the invariant, the verdict of a closed run and the
\* outcome of a closed attempt.
LEMMA NextStep == RegistryInv /\ [RegistryNext]_registryVars => RegistryInv' /\ StepKeepsOutcomes
  <1> SUFFICES ASSUME RegistryInv, [RegistryNext]_registryVars
               PROVE  RegistryInv' /\ StepKeepsOutcomes
    OBVIOUS
  <1> USE AttemptAssumption
  <1>1. CASE create_run
    <2>1. run' \in RunRow /\ run'.status = "pending" /\ ~run'.finished
      BY <1>1 DEF create_run, NoRun, RunRow, RunStatuses
    <2>2. QED
      BY <1>1, <2>1 DEF create_run, RegistryInv, RegistryTypeOK, OneOpenAttempt,
         TimestampsAgree, StepKeepsOutcomes, ClosedRun
  <1>2. CASE mark_run_started \/ resume_run
    BY <1>2, RunStep DEF mark_run_started, resume_run, transition_run, RunStatuses,
       StepKeepsOutcomes
  <1>3. CASE reject_run
    BY <1>3, RunStep DEF reject_run, transition_run, RunStatuses, StepKeepsOutcomes
  <1>4. CASE finalize_run
    BY <1>4, RunStep, VerdictType DEF finalize_run, RunStatuses, ClosedRun, StepKeepsOutcomes
  <1>5. CASE cancel_run
    <2>1. \A t \in Tasks, n \in Attempts :
            /\ job'[t][n] \in JobRow
            /\ JobRowAgrees(job'[t][n])
            /\ job[t][n].status \notin OpenJob => job'[t][n] = job[t][n]
            /\ job'[t][n].status = "none" <=> job[t][n].status = "none"
            /\ job'[t][n].status \notin OpenJob
      <3> SUFFICES ASSUME NEW t \in Tasks, NEW n \in Attempts
                   PROVE  /\ job'[t][n] \in JobRow
                          /\ JobRowAgrees(job'[t][n])
                          /\ job[t][n].status \notin OpenJob => job'[t][n] = job[t][n]
                          /\ job'[t][n].status = "none" <=> job[t][n].status = "none"
                          /\ job'[t][n].status \notin OpenJob
        OBVIOUS
      <3>1. job[t][n] \in JobRow /\ JobRowAgrees(job[t][n])
        BY DEF RegistryInv, RegistryTypeOK, TimestampsAgree
      <3>2. CASE job[t][n].status \in OpenJob
        <4>1. job'[t][n] = JobTo(job[t][n], "cancelled", FALSE)
          BY <1>5, <3>2 DEF cancel_run
        <4>2. validate_job_transition(job[t][n].status, "cancelled")
          BY <3>2 DEF OpenJob, validate_job_transition, AUDIT_JOB_TRANSITIONS
        <4>3. /\ JobTo(job[t][n], "cancelled", FALSE) \in JobRow
              /\ JobTo(job[t][n], "cancelled", FALSE).status = "cancelled"
              /\ JobRowAgrees(JobTo(job[t][n], "cancelled", FALSE))
          BY <3>1, <4>2, JobStep DEF JobStatuses
        <4>4. QED
          BY <3>2, <4>1, <4>3 DEF OpenJob
      <3>3. CASE job[t][n].status \notin OpenJob
        BY <1>5, <3>1, <3>3 DEF cancel_run
      <3>4. QED
        BY <3>2, <3>3
    <2>2. job' \in [Tasks -> [Attempts -> JobRow]]
      BY <1>5, <2>1 DEF cancel_run
    <2>3. /\ run' \in RunRow
          /\ run'.finished <=> run'.status \in ClosedRun \cup {"cancelled"}
          /\ run'.status \in ClosedRun \cup {"running"} => run'.started
          /\ run.status \in ClosedRun => run' = run
      <3>1. run \in RunRow
        BY DEF RegistryInv, RegistryTypeOK
      <3>2. CASE run' = run
        BY <3>1, <3>2 DEF RegistryInv, TimestampsAgree
      <3>3. CASE /\ validate_run_transition(run.status, "cancelled")
                 /\ run.status # "cancelled"
                 /\ run' = RunTo(run, "cancelled")
        <4>1. run' \in RunRow
          BY <3>1, <3>3, RunToType DEF RunStatuses
        <4>2. run'.status = "cancelled" /\ run'.finished
          BY <3>3 DEF RunTo
        <4>3. run.status \notin ClosedRun
          BY <3>1, <3>3 DEF RunRow, ClosedRun, validate_run_transition, AUDIT_RUN_TRANSITIONS
        <4>4. QED
          BY <4>1, <4>2, <4>3 DEF ClosedRun
      <3>4. QED
        BY <1>5, <3>2, <3>3 DEF cancel_run
    <2>4. last' = last
      BY <1>5 DEF cancel_run
    <2>5. RegistryTypeOK' /\ TimestampsAgree'
      BY <2>1, <2>2, <2>3, <2>4 DEF RegistryInv, RegistryTypeOK, TimestampsAgree
    <2>6. OneOpenAttempt'
      BY <2>1, <2>4 DEF RegistryInv, OneOpenAttempt
    <2>7. QED
      BY <2>1, <2>3, <2>5, <2>6 DEF RegistryInv, StepKeepsOutcomes
  <1>6. ASSUME NEW t \in Tasks, create_first_job(t)
        PROVE  RegistryInv' /\ StepKeepsOutcomes
    <2>1. last[t] = 0 /\ next_attempt(t) = 1 /\ 1 \in Attempts
      BY <1>6 DEF create_first_job, create_job, HasJob, next_attempt, RegistryInv, RegistryTypeOK, Attempts
    <2>2. /\ job' = [job EXCEPT ![t][1] = NewJob]
          /\ last' = [last EXCEPT ![t] = 1]
          /\ run' = run
      BY <1>6, <2>1 DEF create_first_job, create_job
    <2>3. \A n \in Attempts : job[t][n].status = "none"
      BY <2>1 DEF RegistryInv, OneOpenAttempt, Attempts
    <2>4. QED
      BY <2>1, <2>2, <2>3, FreshJob DEF RegistryInv, RegistryTypeOK, OneOpenAttempt,
         TimestampsAgree, StepKeepsOutcomes, Attempts, OpenJob
  <1>7. ASSUME NEW t \in Tasks, start_pending_job(t)
        PROVE  RegistryInv' /\ StepKeepsOutcomes
    <2>1. last[t] \in Attempts /\ job[t][last[t]].status = "pending"
      BY <1>7 DEF start_pending_job, LatestStatus, HasJob, RegistryInv, RegistryTypeOK, Attempts
    <2> DEFINE k == JobTo(job[t][last[t]], "running", FALSE)
    <2>2. /\ job' = [job EXCEPT ![t][last[t]] = k]
          /\ last' = last /\ run' = run
      BY <1>7, <2>1 DEF start_pending_job, RegistryInv, RegistryTypeOK
    <2>3. job[t][last[t]] \in JobRow /\ JobRowAgrees(job[t][last[t]])
      BY <2>1 DEF RegistryInv, RegistryTypeOK, TimestampsAgree
    <2>4. k \in JobRow /\ k.status = "running" /\ JobRowAgrees(k)
      <3>1. validate_job_transition(job[t][last[t]].status, "running")
        BY <2>1 DEF validate_job_transition, AUDIT_JOB_TRANSITIONS
      <3>2. QED
        BY <2>3, <3>1, JobStep DEF JobStatuses
    <2> HIDE DEF k
    <2>5. \A u \in Tasks, n \in Attempts :
            job'[u][n] = IF u = t /\ n = last[t] THEN k ELSE job[u][n]
      BY <2>1, <2>2 DEF RegistryInv, RegistryTypeOK
    <2>6. RegistryTypeOK'
      BY <2>1, <2>2, <2>4 DEF RegistryInv, RegistryTypeOK
    <2>7. OneOpenAttempt'
      BY <2>1, <2>2, <2>4, <2>5 DEF RegistryInv, RegistryTypeOK, OneOpenAttempt, Attempts, OpenJob
    <2>8. TimestampsAgree'
      BY <2>2, <2>4, <2>5 DEF RegistryInv, TimestampsAgree
    <2>9. StepKeepsOutcomes
      BY <2>1, <2>2, <2>5 DEF StepKeepsOutcomes, OpenJob
    <2>10. QED
      BY <2>6, <2>7, <2>8, <2>9 DEF RegistryInv
  <1>8. ASSUME NEW t \in Tasks, start_next_job(t)
        PROVE  RegistryInv' /\ StepKeepsOutcomes
    <2> DEFINE m == next_attempt(t)
               k == JobTo(NewJob, "running", FALSE)
    <2>1. /\ m \in Attempts /\ m = last[t] + 1
          /\ last' = [last EXCEPT ![t] = m] /\ run' = run
          /\ \A u \in Tasks \ {t} : job'[u] = job[u]
          /\ LatestStatus(t) # "pending"
      BY <1>8 DEF start_next_job, retry_job, next_attempt, RegistryInv, RegistryTypeOK
    <2>2. \A n \in Attempts :
            /\ n = m => job'[t][n] = k
            /\ n # m /\ job[t][n].status = "running" =>
                 job'[t][n] = JobTo(job[t][n], "cancelled", FALSE)
            /\ n # m /\ job[t][n].status # "running" => job'[t][n] = job[t][n]
      BY <1>8, <2>1 DEF start_next_job, retry_job, RegistryInv, RegistryTypeOK, OneOpenAttempt, OpenJob
    <2>3. \A n \in Attempts : job[t][n].status # "pending"
      BY <2>1 DEF RegistryInv, RegistryTypeOK, OneOpenAttempt, OpenJob, LatestStatus, HasJob,
         Attempts
    <2>4. job[t][m].status = "none"
      BY <2>1 DEF RegistryInv, RegistryTypeOK, OneOpenAttempt
    <2>5. \A n \in Attempts :
            /\ job'[t][n] \in JobRow
            /\ JobRowAgrees(job'[t][n])
            /\ job[t][n].status \notin OpenJob \cup {"none"} => job'[t][n] = job[t][n]
            /\ n # m => (job'[t][n].status = "none" <=> job[t][n].status = "none")
            /\ n # m => job'[t][n].status \notin OpenJob
            /\ n = m => job'[t][n].status = "running"
      <3> SUFFICES ASSUME NEW n \in Attempts
                   PROVE  /\ job'[t][n] \in JobRow
                          /\ JobRowAgrees(job'[t][n])
                          /\ job[t][n].status \notin OpenJob \cup {"none"} => job'[t][n] = job[t][n]
                          /\ n # m => (job'[t][n].status = "none" <=> job[t][n].status = "none")
                          /\ n # m => job'[t][n].status \notin OpenJob
                          /\ n = m => job'[t][n].status = "running"
        OBVIOUS
      <3>1. job[t][n] \in JobRow /\ JobRowAgrees(job[t][n])
        BY DEF RegistryInv, RegistryTypeOK, TimestampsAgree
      <3>2. CASE n = m
        BY <2>2, <2>4, <3>2, FreshJob
      <3>3. CASE n # m /\ job[t][n].status = "running"
        <4>1. validate_job_transition("running", "cancelled")
          BY DEF validate_job_transition, AUDIT_JOB_TRANSITIONS
        <4>2. /\ JobTo(job[t][n], "cancelled", FALSE) \in JobRow
              /\ JobTo(job[t][n], "cancelled", FALSE).status = "cancelled"
              /\ JobRowAgrees(JobTo(job[t][n], "cancelled", FALSE))
          BY <3>1, <3>3, <4>1, JobStep DEF JobStatuses
        <4>3. QED
          BY <2>2, <3>3, <4>2 DEF OpenJob
      <3>4. CASE n # m /\ job[t][n].status # "running"
        BY <2>2, <2>3, <3>1, <3>4 DEF OpenJob
      <3>5. QED
        BY <3>2, <3>3, <3>4
    <2>6. job' \in [Tasks -> [Attempts -> JobRow]]
      BY <1>8, <2>1, <2>5 DEF start_next_job, retry_job, RegistryInv, RegistryTypeOK
    <2> HIDE DEF m, k
    <2>7. RegistryTypeOK' /\ TimestampsAgree'
      <3>1. RegistryTypeOK'
        <4>1. m \in 0..MaxAttempt
          BY <2>1 DEF Attempts
        <4>2. QED
          BY <2>1, <2>6, <4>1 DEF RegistryInv, RegistryTypeOK
      <3>2. \A u \in Tasks, n \in Attempts : JobRowAgrees(job'[u][n])
        BY <2>1, <2>5 DEF RegistryInv, TimestampsAgree
      <3>3. QED
        BY <2>1, <3>1, <3>2 DEF RegistryInv, TimestampsAgree
    <2>8. OneOpenAttempt'
      <3> SUFFICES ASSUME NEW u \in Tasks, NEW n \in Attempts
                   PROVE  /\ n <= last'[u] <=> job'[u][n].status # "none"
                          /\ job'[u][n].status \in OpenJob => n = last'[u]
        BY DEF OneOpenAttempt
      <3>1. /\ n <= last[u] <=> job[u][n].status # "none"
            /\ job[u][n].status \in OpenJob => n = last[u]
            /\ n \in Nat /\ last[t] \in Nat
        BY DEF RegistryInv, RegistryTypeOK, OneOpenAttempt, Attempts
      <3>2. CASE u = t
        <4>1. last'[u] = m /\ m = last[t] + 1
          BY <2>1, <3>2 DEF RegistryInv, RegistryTypeOK
        <4>2. CASE n = m
          BY <2>5, <3>2, <4>1, <4>2, <3>1
        <4>3. CASE n # m
          <5>1. /\ job'[u][n].status = "none" <=> job[u][n].status = "none"
                /\ job'[u][n].status \notin OpenJob
            BY <2>5, <3>2, <4>3
          <5>2. QED
            BY <3>1, <3>2, <4>1, <4>3, <5>1
        <4>4. QED
          BY <4>2, <4>3
      <3>3. CASE u # t
        BY <2>1, <3>1, <3>3 DEF RegistryInv, RegistryTypeOK
      <3>4. QED
        BY <3>2, <3>3
    <2>9. QED
      BY <2>1, <2>5, <2>7, <2>8 DEF RegistryInv, StepKeepsOutcomes
  <1>9. ASSUME NEW t \in Tasks, NEW n \in Attempts, complete_job(t, n) \/ fail_job(t, n)
        PROVE  RegistryInv' /\ StepKeepsOutcomes
    <2>1. job[t][n] \in JobRow /\ JobRowAgrees(job[t][n])
      BY DEF RegistryInv, RegistryTypeOK, TimestampsAgree
    <2>2. PICK k \in JobRow :
            /\ job' = [job EXCEPT ![t][n] = k]
            /\ k.status \in {"completed", "failed"} /\ JobRowAgrees(k)
            /\ job[t][n].status # "none"
            /\ job[t][n].status \notin OpenJob => k = job[t][n]
      <3>1. CASE complete_job(t, n)
        <4>1. /\ validate_job_transition(job[t][n].status, "completed")
              /\ job' = [job EXCEPT ![t][n] = JobTo(job[t][n], "completed", FALSE)]
          BY <3>1 DEF complete_job, transition_job, RegistryInv, RegistryTypeOK
        <4>2. QED
          BY <2>1, <4>1, JobStep DEF JobStatuses
      <3>2. CASE fail_job(t, n)
        <4>1. /\ validate_job_transition(job[t][n].status, "failed")
              /\ job' = [job EXCEPT ![t][n] = JobTo(job[t][n], "failed", TRUE)]
          BY <3>2 DEF fail_job, transition_job, RegistryInv, RegistryTypeOK
        <4>2. QED
          BY <2>1, <4>1, JobFailure
      <3>3. QED
        BY <1>9, <3>1, <3>2
    <2>3. last' = last /\ run' = run
      BY <1>9 DEF complete_job, fail_job, transition_job
    <2>4. QED
      BY <2>2, <2>3 DEF RegistryInv, RegistryTypeOK, OneOpenAttempt, TimestampsAgree,
         StepKeepsOutcomes, Attempts, OpenJob
  <1>10. CASE UNCHANGED registryVars
    BY <1>10 DEF registryVars, RegistryInv, RegistryTypeOK, OneOpenAttempt,
       TimestampsAgree, StepKeepsOutcomes
  <1>11. QED
    BY <1>1, <1>2, <1>3, <1>4, <1>5, <1>6, <1>7, <1>8, <1>9, <1>10 DEF RegistryNext

\* The registry's invariant holds for every number of tasks and attempts.
THEOREM RegistryInvariant == RegistrySpec => []RegistryInv
  <1>1. RegistryInv /\ [RegistryNext]_registryVars => RegistryInv'
    BY NextStep
  <1>2. QED
    BY InitInv, <1>1, PTL DEF RegistrySpec

\* The tables stay within the columns' domains (domain/audit_models.py).
THEOREM TypeCorrect == RegistrySpec => []RegistryTypeOK
  <1>1. RegistryInv => RegistryTypeOK
    BY DEF RegistryInv
  <1>2. QED
    BY RegistryInvariant, <1>1, PTL

\* Two workers never hold live attempts of one task (start_job_attempt).
THEOREM AttemptsSupersede == RegistrySpec => []OneOpenAttempt
  <1>1. RegistryInv => OneOpenAttempt
    BY DEF RegistryInv
  <1>2. QED
    BY RegistryInvariant, <1>1, PTL

\* Timestamps and error payloads fit the statuses (transition_to).
THEOREM TimestampsCorrect == RegistrySpec => []TimestampsAgree
  <1>1. RegistryInv => TimestampsAgree
    BY DEF RegistryInv
  <1>2. QED
    BY RegistryInvariant, <1>1, PTL

\* A closed run keeps its verdict under every registry call.
THEOREM VerdictIsFinal == RegistrySpec => ClosedRunFinal
  <1>1. RegistryInv /\ [RegistryNext]_registryVars
          => [run.status \in ClosedRun => run' = run]_registryVars
    BY NextStep DEF StepKeepsOutcomes
  <1>2. QED
    BY RegistryInvariant, <1>1, PTL DEF RegistrySpec, ClosedRunFinal

\* A closed attempt keeps its outcome under every registry call.
THEOREM OutcomeIsFinal == RegistrySpec => OutcomeFinal
  <1>1. RegistryInv /\ [RegistryNext]_registryVars
          => [\A t \in Tasks, n \in Attempts :
                job[t][n].status \notin OpenJob \cup {"none"} => job'[t][n] = job[t][n]]_registryVars
    BY NextStep DEF StepKeepsOutcomes
  <1>2. QED
    BY RegistryInvariant, <1>1, PTL DEF RegistrySpec, OutcomeFinal

-----------------------------------------------------------------------------
(* The registry implements the abstract run lifecycle, for any tasks and   *)
(* any bound on attempts: attempts, late outcomes and timestamps are       *)
(* stuttering steps of RunLifecycle or steps of one of its tasks.          *)

\* The values of Worth.
LEMMA WorthOf ==
    /\ Worth("pending") = "open" /\ Worth("running") = "open"
    /\ Worth("completed") = "done"
    /\ Worth("failed") = "lost" /\ Worth("cancelled") = "lost"
    /\ Worth("none") = "none" /\ Worth("skipped") = "done"
  BY DEF Worth, OpenJob

\* A step that leaves the latest rows alone leaves the work alone.
LEMMA WorkSame ==
    ASSUME \A t \in Tasks : LatestStatus(t)' = LatestStatus(t)
    PROVE  WorkOf' = WorkOf
  BY DEF WorkOf

\* A step that changes the latest row of one task changes the work of that task.
LEMMA WorkOne ==
    ASSUME NEW t \in Tasks, NEW s,
           LatestStatus(t)' = s,
           \A u \in Tasks \ {t} : LatestStatus(u)' = LatestStatus(u)
    PROVE  WorkOf' = [WorkOf EXCEPT ![t] = Worth(s)]
  <1>1. DOMAIN WorkOf' = Tasks
    BY DEF WorkOf
  <1>2. \A u \in Tasks : WorkOf'[u] = Worth(LatestStatus(u)')
    BY DEF WorkOf
  <1>3. QED
    BY <1>1, <1>2 DEF WorkOf

\* The status of the latest row is a job status; "none" means that there is none.
LEMMA LatestType ==
    ASSUME RegistryInv, NEW t \in Tasks
    PROVE  /\ LatestStatus(t) \in JobStatuses
           /\ LatestStatus(t) = "none" <=> last[t] = 0
           /\ last[t] # 0 => last[t] \in Attempts /\ LatestStatus(t) = job[t][last[t]].status
  <1>1. last[t] \in 0..MaxAttempt
    BY DEF RegistryInv, RegistryTypeOK
  <1>2. CASE last[t] = 0
    BY <1>2 DEF LatestStatus, HasJob, JobStatuses
  <1>3. CASE last[t] # 0
    <2>1. last[t] \in Attempts /\ last[t] > 0
      BY <1>1, <1>3, AttemptAssumption DEF Attempts
    <2>2. job[t][last[t]] \in JobRow /\ job[t][last[t]].status # "none"
      BY <1>1, <2>1 DEF RegistryInv, RegistryTypeOK, OneOpenAttempt
    <2>3. QED
      BY <1>3, <2>1, <2>2 DEF LatestStatus, HasJob, JobRow
  <1>4. QED
    BY <1>2, <1>3

\* resolve_terminal_run_status is the verdict of the abstract run.
LEMMA SameVerdict ==
    ASSUME RegistryInv
    PROVE  resolve_terminal_run_status = Lifecycle!Verdict(WorkOf)
  <1>1. \A t \in Tasks :
          /\ LatestStatus(t) \in {"failed", "cancelled"} <=> WorkOf[t] = "lost"
          /\ LatestStatus(t) \in {"pending", "running"} <=> WorkOf[t] = "open"
          /\ t \notin Planned => WorkOf[t] = "none"
    <2> SUFFICES ASSUME NEW t \in Tasks
                 PROVE  /\ LatestStatus(t) \in {"failed", "cancelled"} <=> WorkOf[t] = "lost"
                        /\ LatestStatus(t) \in {"pending", "running"} <=> WorkOf[t] = "open"
                        /\ t \notin Planned => WorkOf[t] = "none"
      OBVIOUS
    <2>1. WorkOf[t] = Worth(LatestStatus(t)) /\ LatestStatus(t) \in JobStatuses
      BY LatestType DEF WorkOf
    <2>2. t \notin Planned => LatestStatus(t) = "none"
      BY DEF Planned, LatestStatus
    <2>3. QED
      BY <2>1, <2>2, WorthOf DEF JobStatuses
  <1>2. Planned \subseteq Tasks
    BY DEF Planned
  <1>3. (\E t \in Planned \ Optional :
            LatestStatus(t) \in {"failed", "cancelled", "pending", "running"})
          <=> \E t \in Tasks \ Optional : WorkOf[t] \in {"open", "lost"}
    BY <1>1, <1>2
  <1>4. (\E t \in Planned \cap Optional : LatestStatus(t) \in {"failed", "cancelled"})
          <=> \E t \in Tasks \cap Optional : WorkOf[t] = "lost"
    BY <1>1, <1>2
  <1>5. QED
    BY <1>3, <1>4 DEF resolve_terminal_run_status, Lifecycle!Verdict

\* Every registry call is a step of the abstract run, or is invisible to it.
LEMMA StepRefines ==
    ASSUME RegistryInv, [RegistryNext]_registryVars
    PROVE  [Lifecycle!Next]_(Lifecycle!vars)
  <1> USE AttemptAssumption
  <1> DEFINE Stutter == run'.status = run.status /\ WorkOf' = WorkOf
  <1>0. SUFFICES Lifecycle!Next \/ Stutter
    BY DEF Lifecycle!vars
  <1>a. run \in RunRow /\ run.status \in RunStatuses
    BY DEF RegistryInv, RegistryTypeOK, RunRow
  <1>b. ASSUME UNCHANGED <<last, job>> PROVE WorkOf' = WorkOf
    BY <1>b, WorkSame DEF LatestStatus, HasJob
  <1>c. ASSUME NEW s, run' = RunTo(run, s) PROVE run'.status = s
    BY <1>c DEF RunTo
  <1>1. CASE create_run
    <2>1. run.status = "none" /\ run'.status = "pending"
      BY <1>1 DEF create_run, NoRun
    <2>2. QED
      BY <1>1, <2>1, <1>b DEF create_run, Lifecycle!Next, Lifecycle!Create
  <1>2. CASE mark_run_started \/ resume_run
    <2>1. /\ run.status \in {"running", "pending", "cancelled"}
          /\ run'.status = "running" /\ WorkOf' = WorkOf
      BY <1>2, <1>a, <1>b, <1>c DEF mark_run_started, resume_run, transition_run,
         validate_run_transition, AUDIT_RUN_TRANSITIONS, RunStatuses
    <2>2. QED
      BY <2>1 DEF Lifecycle!Next, Lifecycle!Activate
  <1>3. CASE reject_run
    <2>1. /\ run.status \in {"running", "failed"}
          /\ run'.status = "failed" /\ WorkOf' = WorkOf
      BY <1>3, <1>a, <1>b, <1>c DEF reject_run, transition_run,
         validate_run_transition, AUDIT_RUN_TRANSITIONS, RunStatuses
    <2>2. QED
      BY <2>1 DEF Lifecycle!Next, Lifecycle!Reject
  <1>4. CASE finalize_run
    <2> DEFINE v == resolve_terminal_run_status
    <2>1. v \in ClosedRun /\ v = Lifecycle!Verdict(WorkOf)
      BY VerdictType, SameVerdict
    <2>2. run' = RunTo(run, v) /\ validate_run_transition(run.status, v) /\ UNCHANGED <<last, job>>
      BY <1>4 DEF finalize_run
    <2> HIDE DEF v
    <2>3. /\ run.status = "running" \/ run.status = v
          /\ run'.status = v /\ WorkOf' = WorkOf
      BY <2>1, <2>2, <1>a, <1>b, <1>c DEF ClosedRun,
         validate_run_transition, AUDIT_RUN_TRANSITIONS
    <2>4. QED
      BY <2>1, <2>3 DEF Lifecycle!Next, Lifecycle!Close
  <1>5. CASE cancel_run
    <2>1. \A t \in Tasks : LatestStatus(t)' =
            IF LatestStatus(t) \in OpenJob THEN "cancelled" ELSE LatestStatus(t)
      <3> SUFFICES ASSUME NEW t \in Tasks
                   PROVE  LatestStatus(t)' =
                            IF LatestStatus(t) \in OpenJob THEN "cancelled" ELSE LatestStatus(t)
        OBVIOUS
      <3>1. last' = last
        BY <1>5 DEF cancel_run
      <3>2. CASE last[t] = 0
        BY <3>1, <3>2 DEF LatestStatus, HasJob, OpenJob
      <3>3. CASE last[t] # 0
        <4>1. last[t] \in Attempts /\ LatestStatus(t) = job[t][last[t]].status /\ last[t] > 0
          BY <3>3, LatestType DEF Attempts
        <4>2. job'[t][last[t]] = IF job[t][last[t]].status \in OpenJob
                THEN JobTo(job[t][last[t]], "cancelled", FALSE) ELSE job[t][last[t]]
          BY <1>5, <4>1 DEF cancel_run
        <4>3. JobTo(job[t][last[t]], "cancelled", FALSE).status = "cancelled"
          BY DEF JobTo
        <4>4. LatestStatus(t)' = job'[t][last[t]].status
          BY <3>1, <4>1 DEF LatestStatus, HasJob
        <4>5. QED
          BY <4>1, <4>2, <4>3, <4>4
      <3>4. QED
        BY <3>2, <3>3
    <2>2. WorkOf' = Lifecycle!Abandoned
      <3>1. \A t \in Tasks : Worth(LatestStatus(t)') =
              IF WorkOf[t] = "open" THEN "lost" ELSE WorkOf[t]
        BY <2>1, LatestType, WorthOf DEF WorkOf, OpenJob, JobStatuses
      <3>2. QED
        BY <3>1 DEF WorkOf, Lifecycle!Abandoned
    <2>3. run.status # "none" /\ run'.status =
            IF run.status \in {"pending", "running"} THEN "cancelled" ELSE run.status
      BY <1>5, <1>a, <1>c DEF cancel_run, validate_run_transition, AUDIT_RUN_TRANSITIONS,
         RunStatuses
    <2>4. QED
      BY <2>2, <2>3 DEF Lifecycle!Next, Lifecycle!Cancel
  <1>d. ASSUME NEW t \in Tasks, run' = run, run.status # "none",
               NEW s \in JobStatuses \ {"none"},
               LatestStatus(t)' = s,
               \A u \in Tasks \ {t} : LatestStatus(u)' = LatestStatus(u),
               Worth(s) # "open" => Worth(LatestStatus(t)) \in {Worth(s), "open"}
        PROVE  Lifecycle!Next \/ Stutter
    <2>1. WorkOf' = [WorkOf EXCEPT ![t] = Worth(s)] /\ WorkOf[t] = Worth(LatestStatus(t))
      BY <1>d, WorkOne DEF WorkOf
    <2>2. CASE WorkOf[t] = Worth(s)
      BY <1>d, <2>1, <2>2 DEF WorkOf
    <2>3. CASE WorkOf[t] # Worth(s) /\ Worth(s) = "open"
      BY <1>d, <2>1, <2>3 DEF Lifecycle!Next, Lifecycle!Open
    <2>4. CASE WorkOf[t] # Worth(s) /\ Worth(s) # "open"
      <3>1. WorkOf[t] = "open" /\ Worth(s) \in {"done", "lost"}
        BY <1>d, <2>1, <2>4, WorthOf DEF JobStatuses
      <3>2. QED
        BY <1>d, <2>1, <3>1 DEF Lifecycle!Next, Lifecycle!Finish, Lifecycle!Lose
    <2>5. QED
      BY <2>2, <2>3, <2>4
  <1>6. ASSUME NEW t \in Tasks, create_first_job(t)
        PROVE  Lifecycle!Next \/ Stutter
    <2>1. last[t] = 0 /\ run' = run /\ run.status # "none"
      BY <1>6 DEF create_first_job, create_job, HasJob, RegistryInv, RegistryTypeOK
    <2>2. LatestStatus(t)' = "pending"
      <3>1. 1 \in Attempts
        BY DEF Attempts
      <3>2. job'[t][1] = NewJob /\ last'[t] = 1
        BY <1>6, <2>1, <3>1 DEF create_first_job, create_job, next_attempt, RegistryInv, RegistryTypeOK
      <3>3. QED
        BY <3>2, FreshJob DEF LatestStatus, HasJob
    <2>3. \A u \in Tasks \ {t} : LatestStatus(u)' = LatestStatus(u)
      BY <1>6 DEF create_first_job, create_job, LatestStatus, HasJob, RegistryInv, RegistryTypeOK
    <2>4. QED
      BY <1>d, <2>1, <2>2, <2>3, WorthOf DEF JobStatuses
  <1>7. ASSUME NEW t \in Tasks, start_pending_job(t)
        PROVE  Lifecycle!Next \/ Stutter
    <2>1. /\ last[t] \in Attempts /\ LatestStatus(t) = "pending"
          /\ last[t] > 0 /\ last' = last /\ run' = run
      BY <1>7, LatestType DEF start_pending_job, Attempts
    <2>2. LatestStatus(t)' = "running"
      <3>1. job'[t][last[t]] = JobTo(job[t][last[t]], "running", FALSE)
        BY <1>7, <2>1 DEF start_pending_job, RegistryInv, RegistryTypeOK
      <3>2. QED
        BY <2>1, <3>1 DEF LatestStatus, HasJob, JobTo
    <2>3. \A u \in Tasks \ {t} : LatestStatus(u)' = LatestStatus(u)
      BY <1>7, <2>1 DEF start_pending_job, LatestStatus, HasJob, RegistryInv, RegistryTypeOK
    <2>4. WorkOf' = [WorkOf EXCEPT ![t] = Worth("running")]
      BY <2>2, <2>3, WorkOne
    <2>5. WorkOf[t] = Worth("running")
      BY <2>1, WorthOf DEF WorkOf
    <2>6. QED
      BY <2>1, <2>4, <2>5 DEF WorkOf
  <1>8. ASSUME NEW t \in Tasks, start_next_job(t)
        PROVE  Lifecycle!Next \/ Stutter
    <2> DEFINE m == next_attempt(t)
    <2>1. /\ m \in Attempts /\ m > 0 /\ last'[t] = m
          /\ run' = run /\ run.status # "none"
      BY <1>8 DEF start_next_job, retry_job, next_attempt, RegistryInv, RegistryTypeOK
    <2>2. LatestStatus(t)' = "running"
      <3>1. job'[t][m] = JobTo(NewJob, "running", FALSE)
        BY <1>8, <2>1 DEF start_next_job, retry_job, RegistryInv, RegistryTypeOK
      <3>2. QED
        BY <2>1, <3>1, FreshJob DEF LatestStatus, HasJob
    <2>3. \A u \in Tasks \ {t} : LatestStatus(u)' = LatestStatus(u)
      BY <1>8 DEF start_next_job, retry_job, LatestStatus, HasJob, RegistryInv, RegistryTypeOK
    <2>4. QED
      BY <1>d, <2>1, <2>2, <2>3, WorthOf DEF JobStatuses
  <1>9. ASSUME NEW t \in Tasks, NEW n \in Attempts, NEW s \in {"completed", "failed"},
               NEW e \in BOOLEAN, transition_job(t, n, s, e), RegistryInv' /\ StepKeepsOutcomes
        PROVE  Lifecycle!Next \/ Stutter
    <2>1. /\ n \in 1..last[t] /\ run' = run /\ last' = last
          /\ job[t][n].status \in {"running", s}
          /\ job' = [job EXCEPT ![t][n] = JobTo(job[t][n], s, e)]
      BY <1>9 DEF transition_job, validate_job_transition, AUDIT_JOB_TRANSITIONS,
         RegistryInv, RegistryTypeOK
    <2>2. \A u \in Tasks \ {t} : LatestStatus(u)' = LatestStatus(u)
      BY <2>1 DEF LatestStatus, HasJob, RegistryInv, RegistryTypeOK
    <2>3. CASE job[t][n].status = s
      <3>1. \A k \in Attempts : job'[t][k] = job[t][k]
        BY <1>9, <2>1, <2>3 DEF StepKeepsOutcomes, OpenJob, RegistryInv, RegistryTypeOK
      <3>2. LatestStatus(t)' = LatestStatus(t)
        BY <2>1, <3>1, LatestType DEF LatestStatus, HasJob
      <3>3. QED
        BY <2>1, <2>2, <3>2, WorkSame
    <2>4. CASE job[t][n].status = "running"
      <3>1. n = last[t] /\ last[t] > 0 /\ LatestStatus(t) = "running"
        BY <2>1, <2>4 DEF RegistryInv, RegistryTypeOK, OneOpenAttempt, OpenJob, LatestStatus, HasJob
      <3>2. LatestStatus(t)' = s
        <4>1. job'[t][n] = JobTo(job[t][n], s, e)
          BY <2>1 DEF RegistryInv, RegistryTypeOK
        <4>2. QED
          BY <2>1, <3>1, <4>1 DEF LatestStatus, HasJob, JobTo
      <3>3. WorkOf' = [WorkOf EXCEPT ![t] = Worth(s)]
        BY <2>2, <3>2, WorkOne
      <3>4. WorkOf[t] = "open" /\ Worth(s) \in {"done", "lost"}
        BY <3>1, WorthOf DEF WorkOf
      <3>5. QED
        BY <2>1, <3>3, <3>4 DEF Lifecycle!Next, Lifecycle!Finish, Lifecycle!Lose
    <2>5. QED
      BY <2>1, <2>3, <2>4
  <1>10. CASE UNCHANGED registryVars
    BY <1>10, <1>b DEF registryVars
  <1>11. RegistryInv' /\ StepKeepsOutcomes
    BY NextStep
  <1>12. ASSUME NEW t \in Tasks, NEW n \in Attempts, complete_job(t, n) \/ fail_job(t, n)
         PROVE  Lifecycle!Next \/ Stutter
    <2>1. CASE complete_job(t, n)
      <3>1. transition_job(t, n, "completed", FALSE)
        BY <2>1 DEF complete_job
      <3>2. QED
        BY <1>9, <1>11, <3>1
    <2>2. CASE fail_job(t, n)
      <3>1. transition_job(t, n, "failed", TRUE)
        BY <2>2 DEF fail_job
      <3>2. QED
        BY <1>9, <1>11, <3>1
    <2>3. QED
      BY <1>12, <2>1, <2>2
  <1>13. QED
    BY <1>1, <1>2, <1>3, <1>4, <1>5, <1>6, <1>7, <1>8, <1>10, <1>12 DEF RegistryNext

\* The registry implements the lifecycle: whatever happens to attempts, the run
\* moves through its phases, and closes with its verdict, as CORE-002 says.
THEOREM RegistryRefines == RegistrySpec => ImplementsLifecycle
  <1>1. RegistryInit => Lifecycle!Init
    <2> SUFFICES ASSUME RegistryInit PROVE Lifecycle!Init
      OBVIOUS
    <2>1. run.status = "none"
      BY DEF RegistryInit, NoRun
    <2>2. \A t \in Tasks : LatestStatus(t) = "none"
      <3> SUFFICES ASSUME NEW t \in Tasks PROVE LatestStatus(t) = "none"
        OBVIOUS
      <3>1. last[t] = 0
        BY DEF RegistryInit
      <3>2. ~(last[t] > 0)
        BY <3>1
      <3>3. QED
        BY <3>2 DEF LatestStatus, HasJob
    <2>3. WorkOf = [t \in Tasks |-> "none"]
      BY <2>2, WorthOf DEF WorkOf
    <2>4. QED
      BY <2>1, <2>3 DEF Lifecycle!Init
  <1>2. RegistryInv /\ [RegistryNext]_registryVars => [Lifecycle!Next]_(Lifecycle!vars)
    BY StepRefines
  <1>3. QED
    BY <1>1, <1>2, RegistryInvariant, PTL DEF RegistrySpec, ImplementsLifecycle, Lifecycle!Spec

-----------------------------------------------------------------------------
(* The runner.                                                             *)

Working == {"sched", "graph", "again", "merge"}
Graphing == {"graph", "again"}

\* The rows of all tasks are there.
RowsAll == \A t \in Tasks : last[t] > 0

\* A turn has jobs in flight only while it schedules, and on different hosts; it runs a
\* thread only while it does nothing else; and each attempt that a worker reports for is
\* that of a row, l being the number of rows of each task.
Fits(x, l) ==
    /\ x.pc # "sched" => \A t \in Tasks : x.flight[t] = "no"
    /\ \A t, u \in Tasks :
         x.flight[t] # "no" /\ x.flight[u] # "no" /\ Host[t] = Host[u] => t = u
    /\ x.pc \in Graphing => \E t \in Tasks : x.thread = {t}
    /\ x.pc \notin Graphing => x.thread = {}
    /\ \A t \in Tasks :
         /\ x.act[t] <= l[t]
         /\ x.flight[t] \in {"running", "done", "hitl"} \/ t \in x.paused => x.act[t] > 0

\* So is the attempt of each session.
SessionsFit(s, l) == \A t \in Tasks : s[t].attempt <= l[t]

\* Rows come first: once anything works or remembers, all are there.
RowsFirst ==
    (\E c \in Turns : turn[c].pc \in Working)
      \/ (\E t \in Tasks : ckpt[t] # "none" \/ HasSession(mem, t) \/ HasSession(disk, t))
    => RowsAll

\* What holds whatever happens.
RunnerInv == /\ RunnerTypeOK /\ RegistryInv
             /\ \A c \in Turns : Fits(turn[c], last)
             /\ SessionsFit(mem, last) /\ SessionsFit(disk, last)
             /\ RowsFirst

-----------------------------------------------------------------------------
(* What a step may change.                                                 *)

\* Rows are never deleted.
LEMMA RowsGrow ==
    ASSUME RegistryInv, [RegistryNext]_registryVars
    PROVE  \A t \in Tasks : last[t] \in Nat /\ last'[t] \in Nat /\ last[t] <= last'[t]
  <1> USE AttemptAssumption
  <1>1. last \in [Tasks -> Nat] /\ RegistryInv'
    BY NextStep DEF RegistryInv, RegistryTypeOK
  <1>2. last' \in [Tasks -> Nat]
    BY <1>1 DEF RegistryInv, RegistryTypeOK
  <1>3. CASE last' = last
    BY <1>1, <1>3
  <1>4. ASSUME NEW t \in Tasks, last' = [last EXCEPT ![t] = next_attempt(t)]
        PROVE  \A u \in Tasks : last[u] <= last'[u]
    BY <1>1, <1>4 DEF next_attempt
  <1> QED
    BY <1>1, <1>2, <1>3, <1>4 DEF RegistryNext, registryVars, create_run, mark_run_started,
       reject_run, resume_run, transition_run, cancel_run, finalize_run, create_first_job, create_job,
       start_pending_job, start_next_job, retry_job, complete_job, fail_job, transition_job

\* What fits the attempts so far fits when there are more.
LEMMA FitsLater ==
    ASSUME NEW x \in TurnType, NEW l \in [Tasks -> Nat], NEW m \in [Tasks -> Nat],
           \A t \in Tasks : l[t] <= m[t], Fits(x, l)
    PROVE  Fits(x, m)
  BY AttemptAssumption DEF Fits, TurnType

\* Sessions that fit the attempts so far fit when there are more.
LEMMA SessionsFitLater ==
    ASSUME NEW s \in [Tasks -> Session], NEW l \in [Tasks -> Nat], NEW m \in [Tasks -> Nat],
           \A t \in Tasks : l[t] <= m[t], SessionsFit(s, l)
    PROVE  SessionsFit(s, m)
  <1> SUFFICES ASSUME NEW t \in Tasks  PROVE s[t].attempt <= m[t]
    BY DEF SessionsFit
  <1>1. s[t] \in Session /\ s[t].attempt <= l[t] /\ l[t] <= m[t] /\ l[t] \in Nat /\ m[t] \in Nat
    BY DEF SessionsFit
  <1>2. s[t].attempt \in Nat
    BY <1>1, AttemptAssumption DEF Session
  <1> QED  BY <1>1, <1>2

\* The other turns stay where they are.
Only(c) == turn' \in [Turns -> TurnType] /\ \A d \in Turns \ {c} : turn'[d] = turn[d]

\* A step of turn c that keeps what the turn and the sessions hold in order.
LEMMA TurnKeepsInv ==
    ASSUME RunnerInv, [RegistryNext]_registryVars, NEW c \in Turns, Only(c), RunnerTypeOK',
           Fits(turn'[c], last'), SessionsFit(mem', last'), SessionsFit(disk', last'),
           RowsAll \/ RowsAll' \/ (turn'[c].pc \notin Working /\ UNCHANGED <<ckpt, mem, disk>>)
    PROVE  RunnerInv'
  <1> USE DEF RunnerInv
  <1>1. RegistryInv'
    BY NextStep
  <1>2. /\ last \in [Tasks -> Nat] /\ last' \in [Tasks -> Nat]
        /\ \A t \in Tasks : last[t] <= last'[t]
    BY <1>1, RowsGrow, AttemptAssumption DEF RegistryInv, RegistryTypeOK
  <1>3. ASSUME NEW d \in Turns \ {c}
        PROVE  Fits(turn'[d], last')
    <2>1. turn'[d] = turn[d] /\ turn[d] \in TurnType
      BY DEF Only, RunnerTypeOK
    <2> QED  BY <1>2, <2>1, FitsLater
  <1>4. RowsAll => RowsAll'
    BY <1>2 DEF RowsAll
  <1>5. RowsFirst'
    <2>1. CASE RowsAll \/ RowsAll'
      BY <1>4, <2>1 DEF RowsFirst
    <2>2. CASE turn'[c].pc \notin Working /\ UNCHANGED <<ckpt, mem, disk>>
      BY <1>4, <2>2 DEF RowsFirst, Only, HasSession
    <2> QED  BY <2>1, <2>2
  <1> QED  BY <1>1, <1>3, <1>5

\* A turn at work has all rows.
LEMMA WorkingRows ==
    ASSUME RunnerInv, NEW c \in Turns,
           turn[c].pc \in Working \/ \E t \in Tasks : turn[c].flight[t] # "no"
    PROVE  RowsAll
  BY DEF RunnerInv, RowsFirst, Fits, Working

\* A turn that does nothing.
LEMMA IdleIs ==
    /\ Idle \in TurnType /\ Idle.pc = "idle" /\ Idle.thread = {} /\ Idle.pending = {}
    /\ Idle.paused = {} /\ Idle.completed = {}
    /\ \A t \in Tasks : Idle.flight[t] = "no" /\ Idle.act[t] = 0
  BY AttemptAssumption DEF Idle, TurnType, FlightStates

\* A turn that does nothing fits any attempts.
LEMMA IdleFits ==
    ASSUME NEW l \in [Tasks -> Nat]
    PROVE  Fits(Idle, l)
  BY IdleIs DEF Fits, Graphing

\* A turn that begins to schedule.
LEMMA SchedulingFits ==
    ASSUME NEW l \in [Tasks -> Nat], NEW rest \in SUBSET Tasks, NEW done \in SUBSET Tasks
    PROVE  Scheduling(rest, done) \in TurnType /\ Fits(Scheduling(rest, done), l)
  <1> DEFINE x == Scheduling(rest, done)
  <1>1. /\ x \in TurnType /\ x.pc = "sched" /\ x.thread = {} /\ x.paused = {}
        /\ \A t \in Tasks : x.flight[t] = "no" /\ x.act[t] = 0
    BY IdleIs DEF Scheduling, TurnType
  <1> HIDE DEF x
  <1>2. Fits(x, l)
    BY <1>1 DEF Fits, Graphing
  <1> QED  BY <1>1, <1>2 DEF x

\* A turn that runs a thread of its own fits any attempts.
LEMMA RunsGraphFits ==
    ASSUME NEW l \in [Tasks -> Nat], NEW t \in Tasks, NEW pc \in Graphing
    PROVE  RunsGraph(t, pc) \in TurnType /\ Fits(RunsGraph(t, pc), l)
  <1> DEFINE x == RunsGraph(t, pc)
  <1>1. /\ x \in TurnType /\ x.pc = pc /\ x.thread = {t} /\ x.paused = {}
        /\ \A u \in Tasks : x.flight[u] = "no" /\ x.act[u] = 0
    BY IdleIs DEF RunsGraph, TurnType, Graphing
  <1> HIDE DEF x
  <1>2. Fits(x, l)
    BY <1>1 DEF Fits, Graphing
  <1> QED  BY <1>1, <1>2 DEF x

\* The outcome of a row that exists is reported by complete_job or fail_job, if at all.
LEMMA OutcomeCalls ==
    ASSUME RegistryInv, NEW t \in Tasks, NEW n \in Nat, 0 < n, n <= last[t],
           NEW out \in Outcomes, job' = Outcome(t, n, out), UNCHANGED <<run, last>>
    PROVE  [RegistryNext]_registryVars
  <1>1. n \in Attempts /\ n \in 1..last[t]
    BY AttemptAssumption DEF RegistryInv, RegistryTypeOK, Attempts
  <1>2. CASE job' = job
    BY <1>2 DEF registryVars
  <1>3. CASE job' # job
    <2>1. complete_job(t, n) \/ fail_job(t, n)
      BY <1>1, <1>3 DEF Outcome, complete_job, fail_job, transition_job
    <2> QED  BY <1>1, <2>1 DEF RegistryNext
  <1> QED  BY <1>2, <1>3

\* The parts of the invariant that most steps need.
LEMMA Facts ==
    ASSUME RunnerInv
    PROVE  /\ last \in [Tasks -> Nat] /\ turn \in [Turns -> TurnType]
           /\ mem \in [Tasks -> Session] /\ disk \in [Tasks -> Session]
           /\ RegistryInv /\ RunnerTypeOK
  BY AttemptAssumption DEF RunnerInv, RunnerTypeOK, RegistryInv, RegistryTypeOK

\* The registry is called; sessions and turns keep what they hold.
LEMMA SameSessions ==
    ASSUME RunnerInv, [RegistryNext]_registryVars, UNCHANGED <<mem, disk>>
    PROVE  SessionsFit(mem', last') /\ SessionsFit(disk', last')
  <1>1. /\ last \in [Tasks -> Nat] /\ last' \in [Tasks -> Nat]
        /\ \A t \in Tasks : last[t] <= last'[t]
    BY Facts, RowsGrow, NextStep, AttemptAssumption DEF RegistryInv, RegistryTypeOK
  <1> QED  BY <1>1, Facts, SessionsFitLater DEF RunnerInv

\* A call on the registry leaves a turn fitting the attempts.
LEMMA SameTurn ==
    ASSUME RunnerInv, [RegistryNext]_registryVars, NEW c \in Turns
    PROVE  Fits(turn[c], last')
  <1>1. /\ last \in [Tasks -> Nat] /\ last' \in [Tasks -> Nat]
        /\ \A t \in Tasks : last[t] <= last'[t]
    BY Facts, RowsGrow, NextStep, AttemptAssumption DEF RegistryInv, RegistryTypeOK
  <1> QED  BY <1>1, Facts, FitsLater DEF RunnerInv

-----------------------------------------------------------------------------
(* The steps of the bootstrap and of the scheduler.                        *)

\* bootstrap_jobs calls the registry and keeps the invariant.
LEMMA BootstrapInv ==
    ASSUME RunnerInv, NEW c \in Turns,
           BootstrapCreate(c) \/ BootstrapStart(c) \/ BootstrapAgain(c)
             \/ \E t \in Tasks : BootstrapRow(c, t)
    PROVE  [RegistryNext]_registryVars /\ RunnerInv'
  <1>1. [RegistryNext]_registryVars /\ UNCHANGED <<ckpt, report, root, mem, disk, stops, cancels, crashes>>
    BY DEF BootstrapCreate, BootstrapStart, BootstrapAgain, BootstrapRow, RegistryNext,
           registryVars, threadVars, sessionVars, boundVars
  <1>2. /\ turn[c].pc \in {"idle", "boot", "rows"} /\ turn[c] \in TurnType
        /\ \/ turn' = turn
           \/ \E pc \in {"boot", "rows"} : turn' = [turn EXCEPT ![c].pc = pc]
    BY Facts DEF BootstrapCreate, BootstrapStart, BootstrapAgain, BootstrapRow
  <1>3. /\ Only(c) /\ turn'[c].pc \in {"idle", "boot", "rows"}
        /\ turn'[c].flight = turn[c].flight /\ turn'[c].act = turn[c].act
        /\ turn'[c].thread = turn[c].thread /\ turn'[c].paused = turn[c].paused
    <2>1. CASE turn' = turn
      BY <1>2, <2>1, Facts DEF Only
    <2>2. ASSUME NEW pc \in {"boot", "rows"}, turn' = [turn EXCEPT ![c].pc = pc]
          PROVE  /\ Only(c) /\ turn'[c].pc \in {"idle", "boot", "rows"}
                 /\ turn'[c].flight = turn[c].flight /\ turn'[c].act = turn[c].act
                 /\ turn'[c].thread = turn[c].thread /\ turn'[c].paused = turn[c].paused
      BY <1>2, <2>2, Facts DEF Only, TurnType
    <2> QED  BY <1>2, <2>1, <2>2
  <1>4. Fits(turn'[c], last')
    <2>1. Fits(turn[c], last')
      BY <1>1, SameTurn
    <2> QED  BY <1>2, <1>3, <2>1 DEF Fits, Graphing
  <1>5. RunnerTypeOK'
    BY <1>1, <1>3, Facts DEF RunnerTypeOK, Only
  <1>6. turn'[c].pc \notin Working
    BY <1>3 DEF Working
  <1> QED  BY <1>1, <1>3, <1>4, <1>5, <1>6, SameSessions, TurnKeepsInv

\* run_framework_jobs calls the registry and keeps the invariant.
LEMMA RunJobsInv ==
    ASSUME RunnerInv, NEW c \in Turns, run_framework_jobs(c)
    PROVE  [RegistryNext]_registryVars /\ RunnerInv'
  <1> DEFINE x == Scheduling(Tasks, {})
  <1>1. /\ turn' = [turn EXCEPT ![c] = x] /\ UNCHANGED registryVars
        /\ UNCHANGED <<last, ckpt, report, root, mem, disk, stops, cancels, crashes>>
    BY DEF run_framework_jobs, registryVars, threadVars, sessionVars, boundVars
  <1>2. x \in TurnType /\ Fits(x, last)
    BY Facts, SchedulingFits
  <1> HIDE DEF x
  <1>3. Only(c) /\ turn'[c] = x
    BY <1>1, <1>2, Facts DEF Only
  <1>4. RowsAll
    BY DEF run_framework_jobs, Planned, HasJob, RowsAll
  <1>5. RunnerTypeOK'
    BY <1>1, <1>3, Facts DEF RunnerTypeOK, Only
  <1> QED  BY <1>1, <1>2, <1>3, <1>4, <1>5, SameSessions, TurnKeepsInv

\* A session written for task t, with an attempt that exists.
LEMMA Remembers ==
    ASSUME RunnerInv, NEW t \in Tasks, NEW s \in Session, s.attempt <= last[t],
           remember_multi_session(t, s)
    PROVE  /\ mem' \in [Tasks -> Session] /\ disk' \in [Tasks -> Session]
           /\ SessionsFit(mem', last) /\ SessionsFit(disk', last)
  BY Facts DEF remember_multi_session, SessionsFit, RunnerInv

\* Launching a job calls the registry and keeps the invariant.
LEMMA LaunchInv ==
    ASSUME RunnerInv, NEW c \in Turns, NEW t \in Tasks, Launch(c, t)
    PROVE  [RegistryNext]_registryVars /\ RunnerInv'
  <1>1. /\ turn[c].pc = "sched" /\ Host[t] \notin busy_hosts(c)
        /\ turn' = [turn EXCEPT ![c].pending = @ \ {t}, ![c].flight[t] = "launched"]
        /\ UNCHANGED registryVars /\ UNCHANGED <<last, ckpt, report, root, stops, cancels, crashes>>
    BY DEF Launch, registryVars, threadVars, boundVars
  <1>2. turn[c] \in TurnType /\ Fits(turn[c], last)
    BY Facts DEF RunnerInv
  <1>3. RowsAll
    BY <1>1, WorkingRows DEF Working
  <1>4. /\ Only(c)
        /\ turn'[c].pc = "sched" /\ turn'[c].flight = [turn[c].flight EXCEPT ![t] = "launched"]
        /\ turn'[c].thread = turn[c].thread /\ turn'[c].act = turn[c].act
        /\ turn'[c].paused = turn[c].paused
    BY <1>1, <1>2, Facts DEF Only, TurnType, FlightStates
  <1>5. Fits(turn'[c], last)
    <2>1. \A u \in Tasks : turn[c].flight[u] # "no" => Host[u] # Host[t]
      BY <1>1 DEF busy_hosts, in_flight
    <2>2. turn[c].flight \in [Tasks -> FlightStates]
      BY <1>2 DEF TurnType
    <2>3. \A u \in Tasks :
            turn'[c].flight[u] = IF u = t THEN "launched" ELSE turn[c].flight[u]
      BY <1>4, <2>2
    <2>4. ASSUME NEW u \in Tasks, NEW v \in Tasks, Host[u] = Host[v],
                 turn'[c].flight[u] # "no", turn'[c].flight[v] # "no"
          PROVE  u = v
      BY <1>2, <2>1, <2>3, <2>4 DEF Fits
    <2>5. ASSUME NEW u \in Tasks
          PROVE  /\ turn'[c].act[u] <= last[u]
                 /\ turn'[c].flight[u] \in {"running", "done", "hitl"} \/ u \in turn'[c].paused
                      => turn'[c].act[u] > 0
      BY <1>2, <1>4, <2>3 DEF Fits
    <2>6. turn'[c].thread = {} /\ "sched" \notin Graphing
      BY <1>1, <1>2, <1>4 DEF Fits, Graphing
    <2>7. turn'[c].pc = "sched"
      BY <1>4
    <2> QED  BY <2>4, <2>5, <2>6, <2>7 DEF Fits
  <1>6. PICK n \in {1, last[t]} : remember_multi_session(t,
           session_payload(turn[c].completed, turn[c].pending \ {t}, {}, n))
    BY DEF Launch
  <1>7. n \in 0..MaxAttempt /\ n <= last[t]
    BY <1>3, Facts, AttemptAssumption DEF RowsAll, RegistryInv, RegistryTypeOK
  <1>8. session_payload(turn[c].completed, turn[c].pending \ {t}, {}, n) \in Session
    BY <1>2, <1>7 DEF session_payload, Session, TurnType
  <1>9. /\ mem' \in [Tasks -> Session] /\ disk' \in [Tasks -> Session]
        /\ SessionsFit(mem', last) /\ SessionsFit(disk', last)
    <2>1. session_payload(turn[c].completed, turn[c].pending \ {t}, {}, n).attempt = n
      BY DEF session_payload
    <2> QED  BY <1>6, <1>7, <1>8, <2>1, Remembers
  <1>10. RunnerTypeOK'
    BY <1>1, <1>4, <1>9, Facts DEF RunnerTypeOK, Only
  <1> QED  BY <1>1, <1>3, <1>4, <1>5, <1>9, <1>10, TurnKeepsInv

\* A worker begins with one call of the registry, or with the attempt that runs.
LEMMA BeginCalls ==
    ASSUME NEW c \in Turns, NEW t \in Tasks, Begin(c, t)
    PROVE  UNCHANGED registryVars \/ start_pending_job(t) \/ start_next_job(t)
  <1>1. CASE LatestStatus(t) \in {"failed", "cancelled"} /\ retry_job(t)
    BY <1>1 DEF start_next_job
  <1> QED  BY <1>1 DEF Begin

\* The begin of a worker calls the registry and keeps the invariant.
LEMMA BeginInv ==
    ASSUME RunnerInv, NEW c \in Turns, NEW t \in Tasks, Begin(c, t)
    PROVE  [RegistryNext]_registryVars /\ RunnerInv'
  <1>1. [RegistryNext]_registryVars
    BY BeginCalls DEF RegistryNext
  <1>2. /\ turn[c].flight[t] = "launched"
        /\ turn' = [turn EXCEPT ![c].flight[t] = "running", ![c].act[t] = last'[t]]
        /\ ckpt' = [ckpt EXCEPT ![t] = "live"]
        /\ UNCHANGED <<report, root, mem, disk, stops, cancels, crashes>>
    BY DEF Begin, sessionVars, boundVars
  <1>3. turn[c] \in TurnType /\ Fits(turn[c], last')
    BY <1>1, Facts, SameTurn
  <1>4. RowsAll
    BY <1>2, WorkingRows
  <1>5. last'[t] > 0 /\ last'[t] \in 0..MaxAttempt
    <2>1. RegistryInv' /\ last[t] <= last'[t] /\ last[t] \in Nat /\ last'[t] \in Nat
      BY <1>1, Facts, NextStep, RowsGrow
    <2> QED  BY <1>4, <2>1 DEF RowsAll, RegistryInv, RegistryTypeOK
  <1>6. /\ Only(c)
        /\ turn'[c].pc = turn[c].pc /\ turn'[c].flight = [turn[c].flight EXCEPT ![t] = "running"]
        /\ turn'[c].thread = turn[c].thread /\ turn'[c].act = [turn[c].act EXCEPT ![t] = last'[t]]
        /\ turn'[c].paused = turn[c].paused
    BY <1>2, <1>3, <1>5, Facts DEF Only, TurnType, FlightStates
  <1>7. Fits(turn'[c], last')
    <2>1. turn[c].flight \in [Tasks -> FlightStates] /\ turn[c].act \in [Tasks -> 0..MaxAttempt]
      BY <1>3 DEF TurnType
    <2>2. \A u \in Tasks :
            /\ turn'[c].flight[u] = IF u = t THEN "running" ELSE turn[c].flight[u]
            /\ turn'[c].act[u] = IF u = t THEN last'[t] ELSE turn[c].act[u]
      BY <1>6, <2>1
    <2>3. ASSUME NEW u \in Tasks, NEW v \in Tasks, Host[u] = Host[v],
                 turn'[c].flight[u] # "no", turn'[c].flight[v] # "no"
          PROVE  u = v
      BY <1>2, <1>3, <2>2, <2>3 DEF Fits
    <2>4. ASSUME NEW u \in Tasks
          PROVE  /\ turn'[c].act[u] <= last'[u]
                 /\ turn'[c].flight[u] \in {"running", "done", "hitl"} \/ u \in turn'[c].paused
                      => turn'[c].act[u] > 0
      BY <1>3, <1>5, <1>6, <2>2 DEF Fits
    <2>5. turn[c].pc = "sched"
      BY <1>2, <1>3 DEF Fits
    <2> QED  BY <1>3, <1>6, <2>3, <2>4, <2>5 DEF Fits
  <1>8. RunnerTypeOK'
    BY <1>2, <1>6, Facts DEF RunnerTypeOK, Only
  <1> QED  BY <1>1, <1>2, <1>4, <1>6, <1>7, <1>8, SameSessions, TurnKeepsInv

\* The bounds of a graph that ends, and what it leaves.
LEMMA EndsTyped ==
    ASSUME RunnerTypeOK, NEW t \in Tasks, NEW out \in Outcomes, NEW outs,
           GraphEnds(t, out), Stop(outs, out)
    PROVE  /\ ckpt' \in [Tasks -> {"none", "live", "paused", "ended"}]
           /\ report' \subseteq Tasks /\ report \subseteq report' /\ stops' \in 0..MaxStops
           /\ out = "ok" => t \in report'
  BY RunnerAssumption DEF RunnerTypeOK, GraphEnds, Stop, Outcomes

\* The end of a worker calls the registry and keeps the invariant.
LEMMA WorkerEndsInv ==
    ASSUME RunnerInv, NEW c \in Turns, NEW t \in Tasks, NEW out \in Outcomes,
           WorkerEnds(c, t, out)
    PROVE  [RegistryNext]_registryVars /\ RunnerInv'
  <1>1. /\ turn[c].flight[t] = "running" /\ GraphEnds(t, out) /\ Stop({"hitl"}, out)
        /\ job' = Outcome(t, turn[c].act[t], out)
        /\ turn' = [turn EXCEPT ![c].flight[t] = IF out = "hitl" THEN "hitl" ELSE "done"]
        /\ UNCHANGED <<run, last, root, mem, disk, cancels, crashes>>
    BY DEF WorkerEnds, sessionVars
  <1>2. turn[c] \in TurnType /\ Fits(turn[c], last)
    BY Facts DEF RunnerInv
  <1>3. [RegistryNext]_registryVars
    <2>1. turn[c].act[t] \in Nat /\ 0 < turn[c].act[t] /\ turn[c].act[t] <= last[t]
      BY <1>1, <1>2, AttemptAssumption DEF Fits, TurnType
    <2> QED  BY <1>1, <2>1, Facts, OutcomeCalls
  <1>4. RowsAll
    BY <1>1, WorkingRows
  <1>5. PICK f \in {"hitl", "done"} :
          /\ Only(c)
          /\ turn'[c].pc = turn[c].pc /\ turn'[c].flight = [turn[c].flight EXCEPT ![t] = f]
          /\ turn'[c].thread = turn[c].thread /\ turn'[c].act = turn[c].act
          /\ turn'[c].paused = turn[c].paused
    BY <1>1, <1>2, Facts DEF Only, TurnType, FlightStates
  <1>6. Fits(turn'[c], last)
    <2>1. turn[c].flight \in [Tasks -> FlightStates]
      BY <1>2 DEF TurnType
    <2> QED  BY <1>1, <1>2, <1>5, <2>1 DEF Fits
  <1>7. RunnerTypeOK'
    BY <1>1, <1>5, Facts, EndsTyped DEF RunnerTypeOK, Only
  <1> QED  BY <1>1, <1>3, <1>4, <1>5, <1>6, <1>7, SameSessions, TurnKeepsInv

\* Taking a job out of flight, whatever else the turn notes of it.
LEMMA ReapInv ==
    ASSUME RunnerInv, NEW c \in Turns, NEW t \in Tasks, Reap(c, t)
    PROVE  [RegistryNext]_registryVars /\ RunnerInv'
  <1>1. /\ turn[c].flight[t] \in {"done", "hitl"} /\ UNCHANGED registryVars
        /\ UNCHANGED <<last, ckpt, report, root, stops, cancels, crashes>>
    BY DEF Reap, registryVars, threadVars, boundVars
  <1>2. turn[c] \in TurnType /\ Fits(turn[c], last)
    BY Facts DEF RunnerInv
  <1>3. RowsAll
    BY <1>1, WorkingRows
  <1>4. /\ Only(c)
        /\ turn'[c].pc = turn[c].pc /\ turn'[c].flight = [turn[c].flight EXCEPT ![t] = "no"]
        /\ turn'[c].thread = turn[c].thread /\ turn'[c].act = turn[c].act
        /\ turn'[c].paused \subseteq turn[c].paused \cup {t}
    <2>1. CASE turn' = [turn EXCEPT ![c].flight[t] = "no", ![c].paused = @ \cup {t}]
      <3> DEFINE x == [turn[c] EXCEPT !.flight[t] = "no", !.paused = @ \cup {t}]
      <3>1. /\ x \in TurnType /\ x.pc = turn[c].pc /\ x.thread = turn[c].thread
            /\ x.flight = [turn[c].flight EXCEPT ![t] = "no"] /\ x.act = turn[c].act
            /\ x.paused \subseteq turn[c].paused \cup {t}
        BY <1>2 DEF TurnType, FlightStates
      <3>2. turn' = [turn EXCEPT ![c] = x]
        BY <2>1, Facts
      <3> HIDE DEF x
      <3>3. Only(c) /\ turn'[c] = x
        BY <3>1, <3>2, Facts DEF Only
      <3> QED  BY <3>1, <3>3
    <2>2. CASE turn' = [turn EXCEPT ![c].flight[t] = "no", ![c].completed = @ \cup {t}]
      <3> DEFINE x == [turn[c] EXCEPT !.flight[t] = "no", !.completed = @ \cup {t}]
      <3>1. /\ x \in TurnType /\ x.pc = turn[c].pc /\ x.thread = turn[c].thread
            /\ x.flight = [turn[c].flight EXCEPT ![t] = "no"] /\ x.act = turn[c].act
            /\ x.paused \subseteq turn[c].paused \cup {t}
        BY <1>2 DEF TurnType, FlightStates
      <3>2. turn' = [turn EXCEPT ![c] = x]
        BY <2>2, Facts
      <3> HIDE DEF x
      <3>3. Only(c) /\ turn'[c] = x
        BY <3>1, <3>2, Facts DEF Only
      <3> QED  BY <3>1, <3>3
    <2> QED  BY <2>1, <2>2 DEF Reap
  <1>5. Fits(turn'[c], last)
    <2>1. turn[c].flight \in [Tasks -> FlightStates]
      BY <1>2 DEF TurnType
    <2>2. \A u \in Tasks : turn'[c].flight[u] = IF u = t THEN "no" ELSE turn[c].flight[u]
      BY <1>4, <2>1
    <2>3. ASSUME NEW u \in Tasks
          PROVE  /\ turn'[c].act[u] <= last[u]
                 /\ turn'[c].flight[u] \in {"running", "done", "hitl"} \/ u \in turn'[c].paused
                      => turn'[c].act[u] > 0
      BY <1>1, <1>2, <1>4, <2>2 DEF Fits
    <2>4. ASSUME NEW u \in Tasks, NEW v \in Tasks, Host[u] = Host[v],
                 turn'[c].flight[u] # "no", turn'[c].flight[v] # "no"
          PROVE  u = v
      BY <1>2, <2>2, <2>4 DEF Fits
    <2>5. turn[c].pc = "sched"
      BY <1>1, <1>2 DEF Fits
    <2> QED  BY <1>2, <1>4, <2>3, <2>4, <2>5 DEF Fits
  <1>6. /\ mem' \in [Tasks -> Session] /\ disk' \in [Tasks -> Session]
        /\ SessionsFit(mem', last) /\ SessionsFit(disk', last)
    <2>1. CASE UNCHANGED <<mem, disk>>
      BY <2>1, Facts DEF RunnerInv
    <2>2. CASE forget_multi_session(t)
      <3>1. NoSession \in Session /\ NoSession.attempt = 0 /\ 0 <= last[t]
        BY <1>3, Facts, AttemptAssumption DEF NoSession, Session
      <3> QED  BY <2>2, <3>1, Remembers DEF forget_multi_session
    <2> QED  BY <2>1, <2>2 DEF Reap, sessionVars
  <1>7. RunnerTypeOK'
    BY <1>1, <1>4, <1>6, Facts DEF RunnerTypeOK, Only
  <1> QED  BY <1>1, <1>3, <1>4, <1>5, <1>6, <1>7, TurnKeepsInv

\* The sessions of a turn that pauses.
LEMMA RememberedFits ==
    ASSUME RunnerInv, NEW c \in Turns, NEW s \in [Tasks -> Session], SessionsFit(s, last)
    PROVE  Remembered(s, c) \in [Tasks -> Session] /\ SessionsFit(Remembered(s, c), last)
  <1>1. turn[c] \in TurnType /\ Fits(turn[c], last)
    BY Facts DEF RunnerInv
  <1>2. ASSUME NEW t \in Tasks
        PROVE  PausePayload(c, t) \in Session /\ PausePayload(c, t).attempt = turn[c].act[t]
    BY <1>1 DEF PausePayload, session_payload, Session, TurnType
  <1>3. \A t \in Tasks : Remembered(s, c)[t] = IF t \in turn[c].paused THEN PausePayload(c, t) ELSE s[t]
    BY DEF Remembered
  <1>4. Remembered(s, c) \in [Tasks -> Session]
    BY <1>2 DEF Remembered
  <1> QED  BY <1>1, <1>2, <1>3, <1>4 DEF SessionsFit, Fits

\* Pausing a turn calls the registry and keeps the invariant.
LEMMA PauseTurnInv ==
    ASSUME RunnerInv, NEW c \in Turns, PauseTurn(c)
    PROVE  [RegistryNext]_registryVars /\ RunnerInv'
  <1>1. /\ turn[c].pc = "sched" /\ turn' = [turn EXCEPT ![c] = Idle] /\ UNCHANGED registryVars
        /\ UNCHANGED <<last, ckpt, report, root, stops, cancels, crashes>>
        /\ mem' = Remembered(mem, c) /\ disk' = Remembered(disk, c)
    BY DEF PauseTurn, registryVars, threadVars, boundVars
  <1>2. Only(c) /\ turn'[c] = Idle /\ Fits(Idle, last)
    BY <1>1, Facts, IdleIs, IdleFits DEF Only
  <1>3. /\ mem' \in [Tasks -> Session] /\ disk' \in [Tasks -> Session]
        /\ SessionsFit(mem', last) /\ SessionsFit(disk', last)
    BY <1>1, Facts, RememberedFits DEF RunnerInv
  <1>4. RunnerTypeOK' /\ RowsAll
    BY <1>1, <1>2, <1>3, Facts, WorkingRows DEF RunnerTypeOK, Only, Working
  <1> QED  BY <1>1, <1>2, <1>3, <1>4, TurnKeepsInv

\* The merged reports call the registry and keep the invariant.
LEMMA MergeReportsInv ==
    ASSUME RunnerInv, NEW c \in Turns, MergeReports(c)
    PROVE  [RegistryNext]_registryVars /\ RunnerInv'
  <1>1. /\ turn[c].pc = "sched" /\ in_flight(c) = {} /\ turn' = [turn EXCEPT ![c].pc = "merge"]
        /\ UNCHANGED registryVars /\ UNCHANGED <<last, ckpt, report, mem, disk, stops, cancels, crashes>>
        /\ root' = turn[c].completed \cup report
    BY DEF MergeReports, registryVars, threadVars, sessionVars, boundVars
  <1>2. turn[c] \in TurnType /\ Fits(turn[c], last)
    BY Facts DEF RunnerInv
  <1>3. /\ Only(c) /\ turn'[c].pc = "merge"
        /\ turn'[c].flight = turn[c].flight /\ turn'[c].act = turn[c].act
        /\ turn'[c].thread = turn[c].thread /\ turn'[c].paused = turn[c].paused
    BY <1>1, <1>2, Facts DEF Only, TurnType
  <1>4. Fits(turn'[c], last)
    BY <1>1, <1>2, <1>3 DEF Fits, in_flight, Graphing
  <1>5. RowsAll
    BY <1>1, WorkingRows DEF Working
  <1>6. RunnerTypeOK'
    BY <1>1, <1>2, <1>3, Facts DEF RunnerTypeOK, Only, TurnType
  <1> QED  BY <1>1, <1>3, <1>4, <1>5, <1>6, SameSessions, TurnKeepsInv

\* The finalization of a run calls the registry and keeps the invariant.
LEMMA MergeFinalizeInv ==
    ASSUME RunnerInv, NEW c \in Turns, MergeFinalize(c)
    PROVE  [RegistryNext]_registryVars /\ RunnerInv'
  <1>1. /\ turn[c].pc = "merge" /\ turn' = [turn EXCEPT ![c] = Idle]
        /\ UNCHANGED <<last, ckpt, report, root, mem, disk, stops, cancels, crashes>>
    BY DEF MergeFinalize, registryVars, threadVars, sessionVars, boundVars, finalize_run
  <1>2. [RegistryNext]_registryVars
    BY DEF MergeFinalize, RegistryNext
  <1>3. Only(c) /\ turn'[c] = Idle /\ Fits(Idle, last)
    BY <1>1, Facts, IdleIs, IdleFits DEF Only
  <1>4. RunnerTypeOK' /\ RowsAll
    BY <1>1, <1>3, Facts, WorkingRows DEF RunnerTypeOK, Only, Working
  <1> QED  BY <1>1, <1>2, <1>3, <1>4, SameSessions, TurnKeepsInv

-----------------------------------------------------------------------------
(* The steps that resume a thread, and the faults.                         *)

\* aresume calls the registry and keeps the invariant.
LEMMA aresumeInv ==
    ASSUME RunnerInv, NEW c \in Turns, NEW t \in Tasks, aresume(c, t)
    PROVE  [RegistryNext]_registryVars /\ RunnerInv'
  <1>1. /\ ckpt[t] = "paused" /\ ckpt' = [ckpt EXCEPT ![t] = "live"]
        /\ turn' = [turn EXCEPT ![c] = RunsGraph(t, "graph")] /\ UNCHANGED registryVars
        /\ UNCHANGED <<last, report, root, mem, disk, stops, cancels, crashes>>
    BY DEF aresume, registryVars, sessionVars, boundVars
  <1>2. RunsGraph(t, "graph") \in TurnType /\ Fits(RunsGraph(t, "graph"), last)
    BY Facts, RunsGraphFits DEF Graphing
  <1>3. Only(c) /\ turn'[c] = RunsGraph(t, "graph")
    BY <1>1, <1>2, Facts DEF Only
  <1>4. RowsAll
    BY <1>1 DEF RunnerInv, RowsFirst
  <1>5. RunnerTypeOK'
    BY <1>1, <1>3, Facts DEF RunnerTypeOK, Only
  <1> QED  BY <1>1, <1>2, <1>3, <1>4, <1>5, SameSessions, TurnKeepsInv

\* acontinue calls the registry and keeps the invariant.
LEMMA acontinueInv ==
    ASSUME RunnerInv, NEW c \in Turns, NEW t \in Tasks, acontinue(c, t)
    PROVE  [RegistryNext]_registryVars /\ RunnerInv'
  <1>1. /\ ckpt[t] # "none" \/ HasSession(disk, t)
        /\ ckpt' = [ckpt EXCEPT ![t] = "live"] /\ mem' = Reloaded
        /\ UNCHANGED <<last, report, root, disk, stops, cancels, crashes>>
    BY DEF acontinue, registryVars, boundVars, resume_run, transition_run
  <1>2. [RegistryNext]_registryVars
    BY DEF acontinue, RegistryNext
  <1>3. PICK pc \in Graphing : turn' = [turn EXCEPT ![c] = RunsGraph(t, pc)]
    BY DEF acontinue, Graphing
  <1>4. RunsGraph(t, pc) \in TurnType /\ Fits(RunsGraph(t, pc), last)
    BY Facts, RunsGraphFits
  <1>5. Only(c) /\ turn'[c] = RunsGraph(t, pc)
    BY <1>3, <1>4, Facts DEF Only
  <1>6. RowsAll
    BY <1>1 DEF RunnerInv, RowsFirst
  <1>7. mem' \in [Tasks -> Session] /\ SessionsFit(mem', last) /\ SessionsFit(disk', last)
    BY <1>1, Facts DEF RunnerInv, Reloaded, SessionsFit
  <1>8. RunnerTypeOK'
    BY <1>1, <1>5, <1>7, Facts DEF RunnerTypeOK, Only
  <1> QED  BY <1>1, <1>2, <1>4, <1>5, <1>6, <1>7, <1>8, TurnKeepsInv

\* The sessions after the queue of s has been handed over.
LEMMA HandOverFits ==
    ASSUME RunnerInv, NEW q \in [Tasks -> Session], SessionsFit(q, last), NEW t \in Tasks
    PROVE  /\ HandOver(q, t, mem[t]) \in [Tasks -> Session]
           /\ SessionsFit(HandOver(q, t, mem[t]), last)
  <1> DEFINE s == mem[t]
             h == HandOver(q, t, s)
             Told(u) == [mem[u] EXCEPT !.completed = s.completed \cup {t}, !.remaining = s.remaining,
                                       !.siblings = Awake(s) \ {u}]
  <1>1. s \in Session /\ Awake(s) \subseteq Tasks
    BY Facts DEF Awake, Session
  <1>2. ASSUME NEW u \in Tasks
        PROVE  Told(u) \in Session /\ Told(u).attempt = mem[u].attempt
    <2>1. mem[u] \in Session
      BY Facts
    <2> QED  BY <1>1, <2>1 DEF Session
  <1>3. NoSession \in Session /\ NoSession.attempt = 0
    BY AttemptAssumption DEF NoSession, Session
  <1>4. \A u \in Tasks : h[u] = IF u = t THEN NoSession ELSE IF u \in Awake(s) THEN Told(u) ELSE q[u]
    BY DEF HandOver
  <1>5. h = [u \in Tasks |-> h[u]]
    BY DEF HandOver
  <1> HIDE DEF h, s, Told
  <1>6. \A u \in Tasks : h[u] \in Session
    BY <1>2, <1>3, <1>4
  <1>7. \A u \in Tasks : h[u].attempt <= last[u]
    <2>1. \A u \in Tasks : mem[u].attempt <= last[u] /\ q[u].attempt <= last[u] /\ 0 <= last[u]
      BY Facts DEF RunnerInv, SessionsFit
    <2> QED  BY <1>2, <1>3, <1>4, <2>1
  <1> QED  BY <1>5, <1>6, <1>7 DEF SessionsFit, h, s

\* The end of a resumed thread calls the registry and keeps the invariant.
LEMMA ThreadEndsInv ==
    ASSUME RunnerInv, NEW c \in Turns, NEW out \in Outcomes, ThreadEnds(c, out)
    PROVE  [RegistryNext]_registryVars /\ RunnerInv'
  <1>1. PICK t \in turn[c].thread, on \in HandsOn(c, out) :
          /\ GraphEnds(t, out) /\ Stop({"hitl", "raise"}, out)
          /\ IF on /\ HasSession(mem, t) THEN continue_multi_after_resume(c, t, out)
             ELSE turn' = [turn EXCEPT ![c] = Idle] /\ UNCHANGED <<job, mem, disk>>
          /\ UNCHANGED <<run, last, root, cancels, crashes>>
    BY DEF ThreadEnds, sessionVars
  <1>2. turn[c] \in TurnType /\ Fits(turn[c], last)
    BY Facts DEF RunnerInv
  <1>3. t \in Tasks /\ turn[c].pc \in Graphing
    BY <1>1, <1>2 DEF Fits, TurnType
  <1>4. RowsAll
    BY <1>3, WorkingRows DEF Graphing, Working
  <1>5. CASE turn' = [turn EXCEPT ![c] = Idle] /\ UNCHANGED <<job, mem, disk>>
    <2>1. UNCHANGED registryVars
      BY <1>1, <1>5 DEF registryVars
    <2>2. Only(c) /\ turn'[c] = Idle /\ Fits(Idle, last)
      BY <1>5, Facts, IdleIs, IdleFits DEF Only
    <2>3. RunnerTypeOK'
      BY <1>1, <1>3, <1>5, <2>2, Facts, EndsTyped DEF RunnerTypeOK, Only
    <2> QED  BY <1>1, <1>4, <1>5, <2>1, <2>2, <2>3, SameSessions, TurnKeepsInv
  <1>6. CASE HasSession(mem, t) /\ continue_multi_after_resume(c, t, out)
    <2> DEFINE s == mem[t]
    <2>1. /\ job' = IF job[t][s.attempt].status = "running" THEN Outcome(t, s.attempt, out) ELSE job
          /\ mem' = HandOver(mem, t, mem[t]) /\ disk' = HandOver(disk, t, mem[t])
          /\ turn' = [turn EXCEPT ![c] = IF Awake(s) # {} THEN Idle
                                         ELSE Scheduling(s.remaining, s.completed \cup {t})]
      BY <1>6 DEF continue_multi_after_resume
    <2>2. /\ s \in Session /\ s.attempt \in Nat /\ 0 < s.attempt /\ s.attempt <= last[t]
          /\ s.remaining \in SUBSET Tasks /\ s.completed \cup {t} \in SUBSET Tasks
      BY <1>3, <1>6, Facts, AttemptAssumption DEF HasSession, Session, RunnerInv, SessionsFit
    <2>3. [RegistryNext]_registryVars
      <3>1. CASE job' = job
        BY <1>1, <3>1 DEF registryVars
      <3>2. CASE job' = Outcome(t, s.attempt, out)
        BY <1>1, <1>3, <2>2, <3>2, Facts, OutcomeCalls
      <3> QED  BY <2>1, <3>1, <3>2
    <2>4. PICK x \in TurnType : turn' = [turn EXCEPT ![c] = x] /\ Fits(x, last)
      <3>1. CASE Awake(s) # {}
        BY <2>1, <3>1, Facts, IdleIs, IdleFits
      <3>2. CASE Awake(s) = {}
        BY <2>1, <2>2, <3>2, Facts, SchedulingFits
      <3> QED  BY <3>1, <3>2
    <2>5. Only(c) /\ turn'[c] = x
      BY <2>4, Facts DEF Only
    <2>6. /\ mem' \in [Tasks -> Session] /\ disk' \in [Tasks -> Session]
          /\ SessionsFit(mem', last) /\ SessionsFit(disk', last)
      BY <1>3, <2>1, Facts, HandOverFits DEF RunnerInv
    <2>7. RunnerTypeOK'
      BY <1>1, <1>3, <2>5, <2>6, Facts, EndsTyped DEF RunnerTypeOK, Only
    <2> QED  BY <1>1, <1>4, <2>3, <2>4, <2>5, <2>6, <2>7, TurnKeepsInv
  <1> QED  BY <1>1, <1>5, <1>6

\* A cancelled run calls the registry and keeps the invariant.
LEMMA CancelRunInv ==
    ASSUME RunnerInv, CancelRun
    PROVE  [RegistryNext]_registryVars /\ RunnerInv'
  <1>1. /\ [RegistryNext]_registryVars
        /\ UNCHANGED <<last, ckpt, report, root, mem, disk, turn, stops, crashes>>
    BY DEF CancelRun, RegistryNext, cancel_run, threadVars, sessionVars
  <1>2. RegistryInv'
    BY <1>1, Facts, NextStep
  <1>3. RunnerTypeOK'
    <2>1. cancels' \in 0..MaxFaults
      BY Facts, RunnerAssumption DEF CancelRun, RunnerTypeOK
    <2> QED  BY <1>1, <2>1, Facts DEF RunnerTypeOK
  <1>4. RowsFirst'
    BY <1>1 DEF RunnerInv, RowsFirst, RowsAll, HasSession
  <1> QED  BY <1>1, <1>2, <1>3, <1>4 DEF RunnerInv

\* A crash calls the registry and keeps the invariant.
LEMMA CrashInv ==
    ASSUME RunnerInv, Crash
    PROVE  [RegistryNext]_registryVars /\ RunnerInv'
  <1>1. /\ mem' = [t \in Tasks |-> NoSession] /\ turn' = [c \in Turns |-> Idle]
        /\ UNCHANGED registryVars /\ UNCHANGED <<run, last, job, ckpt, report, root, disk, stops, cancels>>
    BY DEF Crash, registryVars, threadVars
  <1>2. RegistryInv'
    BY <1>1, Facts, NextStep
  <1>3. NoSession \in Session /\ NoSession.attempt = 0
    BY AttemptAssumption DEF NoSession, Session
  <1>4. RunnerTypeOK'
    <2>1. crashes' \in 0..MaxFaults
      BY Facts, RunnerAssumption DEF Crash, RunnerTypeOK
    <2> QED  BY <1>1, <1>3, <2>1, Facts, IdleIs DEF RunnerTypeOK
  <1>5. \A c \in Turns : Fits(turn'[c], last')
    BY <1>1, Facts, IdleFits
  <1>6. SessionsFit(mem', last') /\ SessionsFit(disk', last')
    BY <1>1, <1>3, Facts DEF RunnerInv, SessionsFit
  <1>7. RowsFirst'
    <2>1. \A c \in Turns : turn'[c].pc \notin Working
      BY <1>1, IdleIs DEF Working
    <2>2. \A t \in Tasks : ~(mem'[t].attempt > 0)
      BY <1>1, <1>3
    <2> QED  BY <1>1, <2>1, <2>2 DEF RunnerInv, RowsFirst, RowsAll, HasSession
  <1> QED  BY <1>1, <1>2, <1>4, <1>5, <1>6, <1>7 DEF RunnerInv

-----------------------------------------------------------------------------
(* With any number of turns, and whatever fails.                           *)

\* The invariant holds initially.
LEMMA RunnerInit == Init => RunnerInv
  <1> SUFFICES ASSUME Init  PROVE RunnerInv
    OBVIOUS
  <1>1. RegistryInv /\ last = [t \in Tasks |-> 0]
    BY InitInv DEF Init, RegistryInit
  <1>2. NoSession \in Session /\ NoSession.attempt = 0
    BY AttemptAssumption DEF NoSession, Session
  <1>3. RunnerTypeOK
    BY <1>2, IdleIs, RunnerAssumption DEF Init, RunnerTypeOK
  <1>4. \A c \in Turns : Fits(turn[c], last)
    BY <1>1, IdleFits DEF Init
  <1>5. SessionsFit(mem, last) /\ SessionsFit(disk, last)
    BY <1>1, <1>2 DEF Init, SessionsFit
  <1>6. RowsFirst
    <2>1. \A t \in Tasks : ckpt[t] = "none" /\ ~HasSession(mem, t) /\ ~HasSession(disk, t)
      <3> SUFFICES ASSUME NEW t \in Tasks
                   PROVE  ckpt[t] = "none" /\ ~HasSession(mem, t) /\ ~HasSession(disk, t)
        OBVIOUS
      <3>1. ckpt[t] = "none" /\ mem[t] = NoSession /\ disk[t] = NoSession
        BY DEF Init
      <3>2. ~(NoSession.attempt > 0)
        BY <1>2
      <3> QED  BY <3>1, <3>2 DEF HasSession
    <2>2. \A c \in Turns : turn[c].pc \notin Working
      BY IdleIs DEF Init, Working
    <2> QED  BY <2>1, <2>2 DEF RowsFirst
  <1> QED  BY <1>1, <1>3, <1>4, <1>5, <1>6 DEF RunnerInv

\* Every step is a call on the registry or none, and keeps the invariant.
LEMMA RunnerStep == RunnerInv /\ [Next]_vars => [RegistryNext]_registryVars /\ RunnerInv'
  <1> SUFFICES ASSUME RunnerInv, [Next]_vars  PROVE [RegistryNext]_registryVars /\ RunnerInv'
    OBVIOUS
  <1>1. CASE UNCHANGED vars
    <2>1. /\ UNCHANGED registryVars
          /\ UNCHANGED <<run, last, job, ckpt, report, root, mem, disk, turn, stops, cancels, crashes>>
      BY <1>1 DEF vars, registryVars, threadVars, sessionVars, boundVars
    <2>2. RunnerTypeOK' /\ RegistryInv'
      BY <2>1, Facts, NextStep DEF RunnerTypeOK
    <2>3. RowsFirst'
      BY <2>1 DEF RunnerInv, RowsFirst, RowsAll, HasSession
    <2> QED  BY <2>1, <2>2, <2>3 DEF RunnerInv
  <1>2. ASSUME NEW c \in Turns, TurnStep(c)
        PROVE  [RegistryNext]_registryVars /\ RunnerInv'
    BY <1>2, BootstrapInv, RunJobsInv, PauseTurnInv, MergeReportsInv, MergeFinalizeInv,
       ThreadEndsInv, LaunchInv, BeginInv, ReapInv, WorkerEndsInv DEF TurnStep
  <1>3. ASSUME NEW c \in Turns, NewTurn(c)
        PROVE  [RegistryNext]_registryVars /\ RunnerInv'
    BY <1>3, BootstrapInv, aresumeInv, acontinueInv DEF NewTurn
  <1> QED  BY <1>1, <1>2, <1>3, CancelRunInv, CrashInv DEF Next

\* The inductive invariant holds in every behaviour.
LEMMA RunnerAlways == Spec => []RunnerInv
  <1>1. RunnerInv /\ [Next]_vars => RunnerInv'
    BY RunnerStep
  <1> QED  BY RunnerInit, <1>1, PTL DEF Spec

\* Whatever turns, cancellations and crashes do to it, a run is worked off by calls of the
\* registry: each outcome is reported for an attempt that has a row (complete_job,
\* fail_job), so that all that is proved of the registry holds of the run.
THEOREM RunnerCallsRegistry == Spec => CallsRegistry
  <1>1. Init => RegistryInit
    BY DEF Init
  <1>2. RunnerInv /\ [Next]_vars => [RegistryNext]_registryVars
    BY RunnerStep
  <1> QED  BY <1>1, <1>2, RunnerAlways, PTL DEF Spec, CallsRegistry, RegistrySpec

\* However many turns work on a run, and whatever is cancelled or crashes: each of them has at
\* most one job per host under way (schedule_framework_jobs by busy_hosts, aresume and acontinue
\* since they run their own graph to its end before they go on with the queue).
THEOREM HostsExclusive == Spec => []HostExclusive
  <1>1. RunnerInv => HostExclusive
    <2> SUFFICES ASSUME RunnerInv, NEW c \in Turns, NEW t \in Tasks, NEW u \in Tasks,
                        {t, u} \subseteq in_flight(c) \cup turn[c].thread, Host[t] = Host[u]
                 PROVE  t = u
      BY DEF HostExclusive
    <2>1. Fits(turn[c], last)
      BY DEF RunnerInv
    <2>2. CASE turn[c].pc \in Graphing
      <3>1. in_flight(c) = {} /\ \E v \in Tasks : turn[c].thread = {v}
        BY <2>1, <2>2 DEF Fits, Graphing, in_flight
      <3> QED  BY <3>1
    <2>3. CASE turn[c].pc \notin Graphing
      <3>1. turn[c].flight[t] # "no" /\ turn[c].flight[u] # "no"
        BY <2>1, <2>3 DEF Fits, in_flight
      <3> QED  BY <2>1, <3>1 DEF Fits
    <2> QED  BY <2>2, <2>3
  <1> QED  BY <1>1, RunnerAlways, PTL

\* The runner skips no job, and completes one only with its report.
CompletedReported == \A t \in Tasks, n \in Attempts :
    /\ job[t][n].status # "skipped"
    /\ job[t][n].status = "completed" => t \in report

Backed == CompletedReported /\ VerdictBacked

\* A step that completes no job and closes no run.
Uneventful == /\ report \subseteq report'
              /\ \A t \in Tasks, n \in Attempts :
                   job'[t][n].status \in {"completed", "skipped"} => job[t][n].status = job'[t][n].status

\* A step without a new completed outcome and without a lost report keeps completed outcomes reported.
LEMMA UneventfulReported ==
    ASSUME CompletedReported, Uneventful
    PROVE  CompletedReported'
  BY DEF CompletedReported, Uneventful

\* Calls of the registry other than outcomes complete nothing.
LEMMA NothingCompleted ==
    ASSUME RegistryInv,
           \/ UNCHANGED job \/ cancel_run
           \/ \E t \in Tasks : create_first_job(t) \/ start_pending_job(t) \/ start_next_job(t)
    PROVE  \A t \in Tasks, n \in Attempts :
             job'[t][n].status \in {"completed", "skipped"} => job[t][n].status = job'[t][n].status
  <1> USE AttemptAssumption
  <1>0. /\ job \in [Tasks -> [Attempts -> JobRow]] /\ last \in [Tasks -> 0..MaxAttempt]
        /\ \A j, e : JobTo(j, "running", e).status = "running"
                      /\ JobTo(j, "cancelled", e).status = "cancelled"
        /\ NewJob.status = "pending"
    BY FreshJob DEF RegistryInv, RegistryTypeOK, JobTo
  <1>1. CASE cancel_run
    BY <1>0, <1>1 DEF cancel_run
  <1>2. ASSUME NEW t \in Tasks, create_first_job(t)
        PROVE  \A u \in Tasks, n \in Attempts :
                 job'[u][n].status \in {"completed", "skipped"} => job[u][n].status = job'[u][n].status
    <2>1. job' = [job EXCEPT ![t][next_attempt(t)] = NewJob] /\ next_attempt(t) \in Attempts
      BY <1>0, <1>2 DEF create_first_job, create_job, HasJob, next_attempt, Attempts
    <2> QED  BY <1>0, <2>1
  <1>3. ASSUME NEW t \in Tasks, start_pending_job(t)
        PROVE  \A u \in Tasks, n \in Attempts :
                 job'[u][n].status \in {"completed", "skipped"} => job[u][n].status = job'[u][n].status
    <2> DEFINE k == JobTo(job[t][last[t]], "running", FALSE)
    <2>1. last[t] \in Attempts /\ k.status = "running" /\ job' = [job EXCEPT ![t][last[t]] = k]
      <3>1. last[t] \in Attempts
        BY <1>0, <1>3 DEF start_pending_job, LatestStatus, HasJob, Attempts
      <3>2. job' = [job EXCEPT ![t][last[t]] = k]
        BY <1>3 DEF start_pending_job
      <3> QED  BY <1>0, <3>1, <3>2
    <2> HIDE DEF k
    <2> QED  BY <1>0, <2>1
  <1>4. ASSUME NEW t \in Tasks, start_next_job(t)
        PROVE  \A u \in Tasks, n \in Attempts :
                 job'[u][n].status \in {"completed", "skipped"} => job[u][n].status = job'[u][n].status
    BY <1>0, <1>4 DEF start_next_job, retry_job
  <1>5. CASE UNCHANGED job
    BY <1>5
  <1> QED  BY <1>1, <1>2, <1>3, <1>4, <1>5

\* An outcome completes a job only together with its report.
LEMMA OutcomeReported ==
    ASSUME RegistryInv, CompletedReported, NEW t \in Tasks, NEW n \in Attempts, NEW out \in Outcomes,
           job' = Outcome(t, n, out), report \subseteq report', out = "ok" => t \in report'
    PROVE  CompletedReported'
  <1> DEFINE new == IF out = "ok" THEN "completed" ELSE "failed"
             k == JobTo(job[t][n], new, out # "ok")
  <1>1. job \in [Tasks -> [Attempts -> JobRow]]
    BY DEF RegistryInv, RegistryTypeOK
  <1>2. CASE job' = job
    BY <1>2 DEF CompletedReported
  <1>3. CASE job' = [job EXCEPT ![t][n] = k]
    <2>1. k.status = new
      BY DEF JobTo
    <2> HIDE DEF k
    <2> QED  BY <1>1, <1>3, <2>1 DEF CompletedReported
  <1> QED  BY <1>1, <1>2, <1>3 DEF Outcome
\* A run that is finalized as completed has the report of every task.
LEMMA FinalizeBacked ==
    ASSUME RunnerInv, CompletedReported, Optional = {}, RowsAll, finalize_run,
           run'.status = "completed"
    PROVE  report = Tasks
  <1>1. resolve_terminal_run_status = "completed"
    BY DEF finalize_run, RunTo
  <1>2. ASSUME NEW t \in Tasks
        PROVE  t \in report
    <2>1. t \in Planned \ Optional
      BY DEF RowsAll, Planned, HasJob
    <2>2. LatestStatus(t) \notin {"failed", "cancelled", "pending", "running"}
      BY <1>1, <2>1 DEF resolve_terminal_run_status
    <2>3. last[t] # 0 /\ LatestStatus(t) \in JobStatuses \ {"none"}
      BY Facts, LatestType DEF RowsAll
    <2>4. last[t] \in Attempts /\ job[t][last[t]].status \in {"completed", "skipped"}
      BY <2>2, <2>3, Facts, LatestType DEF JobStatuses
    <2> QED  BY <2>4 DEF CompletedReported
  <1> QED  BY <1>2, Facts DEF RunnerTypeOK

\* Every step keeps completed outcomes backed by reports.
LEMMA BackedStep ==
    ASSUME Optional = {}, RunnerInv, Backed, [Next]_vars
    PROVE  Backed'
  <1>1. CASE \E c \in Turns, t \in Tasks, out \in Outcomes : WorkerEnds(c, t, out)
    <2>1. PICK c \in Turns, t \in Tasks, out \in Outcomes : WorkerEnds(c, t, out)
      BY <1>1
    <2>2. turn[c].act[t] \in Attempts
      <3>1. turn[c] \in TurnType /\ Fits(turn[c], last) /\ turn[c].flight[t] = "running"
        BY <2>1, Facts DEF RunnerInv, WorkerEnds
      <3> QED  BY <3>1, AttemptAssumption DEF Fits, TurnType, Attempts
    <2>3. report \subseteq report' /\ report' \subseteq Tasks /\ (out = "ok" => t \in report')
      BY <2>1, Facts, EndsTyped DEF WorkerEnds
    <2>4. CompletedReported'
      BY <2>1, <2>2, <2>3, Facts, OutcomeReported DEF WorkerEnds, Backed
    <2>5. run' = run
      BY <2>1 DEF WorkerEnds
    <2> QED  BY <2>3, <2>4, <2>5 DEF Backed, VerdictBacked
  <1>2. CASE \E c \in Turns, out \in Outcomes : ThreadEnds(c, out)
    <2>1. PICK c \in Turns, out \in Outcomes : ThreadEnds(c, out)
      BY <1>2
    <2>2. PICK t \in turn[c].thread, on \in HandsOn(c, out) :
            /\ GraphEnds(t, out) /\ Stop({"hitl", "raise"}, out)
            /\ IF on /\ HasSession(mem, t) THEN continue_multi_after_resume(c, t, out)
               ELSE turn' = [turn EXCEPT ![c] = Idle] /\ UNCHANGED <<job, mem, disk>>
            /\ UNCHANGED <<run, last, root, cancels, crashes>>
      BY <2>1 DEF ThreadEnds, sessionVars
    <2>3. t \in Tasks
      BY <2>2, Facts DEF TurnType
    <2>4. report \subseteq report' /\ report' \subseteq Tasks /\ (out = "ok" => t \in report')
      BY <2>2, <2>3, Facts, EndsTyped
    <2>5. CompletedReported'
      <3>1. CASE job' = job
        BY <2>4, <3>1 DEF Backed, CompletedReported
      <3>2. CASE HasSession(mem, t) /\ job' = Outcome(t, mem[t].attempt, out)
        <4>1. mem[t].attempt \in Attempts
          BY <2>3, <3>2, Facts, AttemptAssumption DEF HasSession, Session, Attempts
        <4> QED  BY <2>3, <2>4, <3>2, <4>1, Facts, OutcomeReported DEF Backed
      <3> QED  BY <2>2, <3>1, <3>2 DEF continue_multi_after_resume
    <2> QED  BY <2>2, <2>4, <2>5 DEF Backed, VerdictBacked
  <1>3. CASE \E c \in Turns : MergeFinalize(c)
    <2>1. PICK c \in Turns : MergeFinalize(c)
      BY <1>3
    <2>2. RowsAll
      BY <2>1, WorkingRows DEF MergeFinalize, Working
    <2>3. UNCHANGED <<job, report>>
      BY <2>1 DEF MergeFinalize, finalize_run, registryVars, threadVars
    <2>4. CompletedReported'
      BY <2>3 DEF Backed, CompletedReported
    <2>5. VerdictBacked'
      <3>1. CASE finalize_run
        BY <2>2, <2>3, <3>1, FinalizeBacked DEF Backed, VerdictBacked
      <3>2. CASE UNCHANGED registryVars
        BY <2>3, <3>2 DEF Backed, VerdictBacked, registryVars
      <3> QED  BY <2>1, <3>1, <3>2 DEF MergeFinalize
    <2> QED  BY <2>4, <2>5 DEF Backed
  <1>4. ASSUME report' = report,
               \/ UNCHANGED job \/ cancel_run
               \/ \E t \in Tasks : create_first_job(t) \/ start_pending_job(t) \/ start_next_job(t),
               run' = run \/ run'.status \in {"pending", "running", "cancelled"}
        PROVE  Backed'
    <2>1. Uneventful
      BY <1>4, Facts, NothingCompleted DEF Uneventful
    <2> QED  BY <1>4, <2>1, UneventfulReported DEF Backed, VerdictBacked
  <1>5. ASSUME NEW c \in Turns,
               \/ BootstrapCreate(c) \/ BootstrapStart(c) \/ BootstrapAgain(c)
               \/ run_framework_jobs(c) \/ PauseTurn(c) \/ MergeReports(c)
               \/ \E t \in Tasks : \/ BootstrapRow(c, t) \/ Launch(c, t) \/ Begin(c, t) \/ Reap(c, t)
                                   \/ aresume(c, t) \/ acontinue(c, t)
        PROVE  Backed'
    <2>1. report' = report
      BY <1>5 DEF BootstrapCreate, BootstrapStart, BootstrapAgain, run_framework_jobs, PauseTurn,
         MergeReports, BootstrapRow, Launch, Begin, Reap, aresume, acontinue, threadVars
    <2>2. CASE \E t \in Tasks : BootstrapRow(c, t) \/ Begin(c, t)
      <3>1. run' = run
        BY <2>2 DEF BootstrapRow, Begin, create_first_job, create_job, start_pending_job, start_next_job, retry_job, registryVars
      <3>2. UNCHANGED job \/ \E t \in Tasks : create_first_job(t) \/ start_pending_job(t) \/ start_next_job(t)
        BY <2>2, BeginCalls DEF BootstrapRow, registryVars
      <3> QED  BY <1>4, <2>1, <3>1, <3>2
    <2>3. CASE \/ BootstrapCreate(c) \/ BootstrapStart(c) \/ \E t \in Tasks : acontinue(c, t)
      <3>1. UNCHANGED job /\ (run' = run \/ run'.status \in {"pending", "running"})
        BY <2>3 DEF BootstrapCreate, BootstrapStart, acontinue, create_run, mark_run_started,
           resume_run, transition_run, RunTo, NoRun, registryVars
      <3> QED  BY <1>4, <2>1, <3>1
    <2>4. CASE \/ BootstrapAgain(c) \/ run_framework_jobs(c) \/ PauseTurn(c) \/ MergeReports(c)
               \/ \E t \in Tasks : Launch(c, t) \/ Reap(c, t) \/ aresume(c, t)
      <3>1. UNCHANGED <<run, job>>
        BY <2>4 DEF BootstrapAgain, run_framework_jobs, PauseTurn, MergeReports, Launch, Reap,
           aresume, registryVars
      <3> QED  BY <1>4, <2>1, <3>1
    <2> QED  BY <1>5, <2>2, <2>3, <2>4
  <1>6. CASE CancelRun
    <2>1. report' = report /\ cancel_run /\ (run' = run \/ run'.status = "cancelled")
      BY <1>6 DEF CancelRun, threadVars, cancel_run, RunTo
    <2> QED  BY <1>4, <2>1
  <1>7. CASE Crash \/ UNCHANGED vars
    <2>1. UNCHANGED <<report, run, job>>
      BY <1>7 DEF Crash, vars, registryVars, threadVars
    <2> QED  BY <1>4, <2>1
  <1> QED  BY <1>1, <1>2, <1>3, <1>5, <1>6, <1>7 DEF Next, TurnStep, NewTurn

\* No path of resuming, retrying, cancelling or crashing closes a run as completed without
\* the report of every task in the evidence store (complete_job after the finalize node,
\* finalize_run).  The bootstrap and the retries create mandatory jobs only.
THEOREM VerdictsBacked == ASSUME Optional = {}
                          PROVE  Spec => []VerdictBacked
  <1>1. Init => Backed
    <2> SUFFICES ASSUME Init  PROVE Backed
      OBVIOUS
    <2>1. run.status = "none" /\ \A t \in Tasks, n \in Attempts : job[t][n].status = "none"
      BY DEF Init, RegistryInit, NoRun, NoJob
    <2> QED  BY <2>1 DEF Backed, CompletedReported, VerdictBacked
  <1>2. RunnerInv /\ Backed /\ [Next]_vars => Backed'
    BY BackedStep
  <1>3. Backed => VerdictBacked
    BY DEF Backed
  <1> QED  BY <1>1, <1>2, <1>3, RunnerAlways, PTL DEF Spec
-----------------------------------------------------------------------------
(* Turns that follow each other, until the process dies.                   *)

Remembering == {t \in Tasks : HasSession(mem, t)}

Fresh == Remembering = {} /\ \A t \in Tasks : ckpt[t] = "none"
Backlog == root = Tasks \/ Remembering # {}

\* The sessions that are left know the queue, and each other.
SessionsAgree == \A t \in Remembering :
    /\ mem[t].siblings = Remembering \ {t}
    /\ mem[t].completed \cup mem[t].remaining \cup Remembering = Tasks

\* The turn c that schedules has the whole queue, and a session for each job that it
\* launched or that waits for the operator.
QueueHeld(c) ==
    /\ turn[c].pending \cup in_flight(c) \cup turn[c].paused \cup turn[c].completed = Tasks
    /\ Remembering = in_flight(c) \cup turn[c].paused
    /\ in_flight(c) \cap turn[c].paused = {}
    /\ run.status \notin ClosedRun

\* Who has the queue, wherever the only turn is.
QueueAt(c) == /\ turn[c].pc = "sched" => QueueHeld(c)
              /\ turn[c].pc # "sched" => SessionsAgree
              /\ turn[c].pc \in {"boot", "rows"} => Fresh /\ run.status \notin ClosedRun
              /\ turn[c].pc \in Graphing => Backlog
              /\ turn[c].pc = "merge" => Remembering = {} /\ root = Tasks
              /\ turn[c].pc = "idle" => Backlog \/ Fresh

QueueInv(c) == /\ QueueAt(c) /\ mem = disk
               /\ run.status = "none" => Fresh /\ turn[c].pc = "idle"
               /\ run.status \in ClosedRun => Remembering = {}
               /\ root # {} => root = Tasks

\* The turn goes on scheduling.
LEMMA QueueGoesOn ==
    ASSUME NEW c \in Turns, QueueInv(c), turn[c].pc = "sched", turn'[c].pc = "sched",
           UNCHANGED <<run, root>>, mem' = disk',
           turn'[c].pending \cup in_flight(c)' \cup turn'[c].paused \cup turn'[c].completed = Tasks,
           Remembering' = in_flight(c)' \cup turn'[c].paused,
           in_flight(c)' \cap turn'[c].paused = {}
    PROVE  QueueInv(c)'
  <1>1. QueueHeld(c)' /\ run.status # "none"
    BY DEF QueueInv, QueueAt, QueueHeld
  <1>2. run.status \notin ClosedRun
    BY DEF QueueInv, QueueAt, QueueHeld
  <1> QED  BY <1>1, <1>2 DEF QueueInv, QueueAt, Graphing

\* A step that leaves the sessions alone.
LEMMA SameRemembering ==
    ASSUME mem' = mem
    PROVE  /\ Remembering' = Remembering
           /\ SessionsAgree' <=> SessionsAgree
  <1>1. Remembering' = Remembering
    BY DEF Remembering, HasSession
  <1> QED  BY <1>1 DEF SessionsAgree

\* bootstrap_jobs keeps the account of the queue.
LEMMA QueueBootstrap ==
    ASSUME NEW c \in Turns, RunnerInv, QueueInv(c), crashes = 0,
           \/ BootstrapCreate(c) \/ BootstrapStart(c) \/ BootstrapAgain(c)
           \/ \E t \in Tasks : BootstrapRow(c, t)
    PROVE  QueueInv(c)'
  <1>1. UNCHANGED <<ckpt, root, mem, disk>> /\ ~BootstrapAgain(c)
    BY DEF BootstrapCreate, BootstrapStart, BootstrapAgain, BootstrapRow, threadVars, sessionVars
  <1>2. turn[c] \in TurnType /\ turn \in [Turns -> TurnType]
    BY Facts
  <1>3. /\ turn'[c].pc \in {"boot", "rows"} /\ run'.status \notin ClosedRun \cup {"none"} /\ Fresh
    <2>1. CASE BootstrapCreate(c)
      BY <1>2, <2>1 DEF BootstrapCreate, create_run, NoRun, ClosedRun, QueueInv
    <2>2. CASE BootstrapStart(c)
      BY <1>2, <2>2 DEF BootstrapStart, mark_run_started, transition_run, RunTo, ClosedRun,
         QueueInv, QueueAt
    <2>3. CASE \E t \in Tasks : BootstrapRow(c, t)
      BY <1>2, <2>3 DEF BootstrapRow, create_first_job, create_job, QueueInv, QueueAt
    <2> QED  BY <1>1, <2>1, <2>2, <2>3
  <1>4. Fresh' /\ SessionsAgree' /\ Remembering' = {}
    BY <1>1, <1>3, SameRemembering DEF Fresh, SessionsAgree
  <1> QED  BY <1>1, <1>3, <1>4 DEF QueueInv, QueueAt, Graphing

\* run_framework_jobs opens the account of the queue.
LEMMA QueueBegins ==
    ASSUME NEW c \in Turns, RunnerInv, QueueInv(c), run_framework_jobs(c)
    PROVE  QueueInv(c)'
  <1> DEFINE x == Scheduling(Tasks, {})
  <1>1. /\ x.pc = "sched" /\ x.pending = Tasks /\ x.paused = {} /\ x.completed = {}
        /\ \A t \in Tasks : x.flight[t] = "no"
    BY IdleIs DEF Scheduling, TurnType
  <1>2. turn' = [turn EXCEPT ![c] = x] /\ UNCHANGED <<run, root, mem, disk>> /\ turn[c].pc = "rows"
    BY DEF run_framework_jobs, registryVars, sessionVars
  <1> HIDE DEF x
  <1>3. turn'[c] = x
    BY <1>2, Facts
  <1>4. in_flight(c)' = {}
    BY <1>1, <1>3 DEF in_flight
  <1>5. Remembering' = {} /\ run.status \notin ClosedRun \cup {"none"}
    BY <1>2, SameRemembering DEF QueueInv, QueueAt, Fresh
  <1>6. QueueHeld(c)'
    BY <1>1, <1>2, <1>3, <1>4, <1>5 DEF QueueHeld
  <1> QED  BY <1>1, <1>2, <1>3, <1>5, <1>6 DEF QueueInv, QueueAt, Graphing

\* A launched job goes from the queue to the running ones.
LEMMA QueueLaunch ==
    ASSUME NEW c \in Turns, NEW t \in Tasks, RunnerInv, QueueInv(c), Launch(c, t)
    PROVE  QueueInv(c)'
  <1>1. /\ turn[c].pc = "sched" /\ turn[c].paused = {} /\ t \in turn[c].pending
        /\ turn' = [turn EXCEPT ![c].pending = @ \ {t}, ![c].flight[t] = "launched"]
        /\ UNCHANGED <<run, root>>
    BY DEF Launch, registryVars, stop_starting
  <1>2. turn[c] \in TurnType /\ turn \in [Turns -> TurnType] /\ mem \in [Tasks -> Session]
    BY Facts
  <1>3. /\ turn'[c].pc = "sched" /\ turn'[c].pending = turn[c].pending \ {t}
        /\ turn'[c].paused = {} /\ turn'[c].completed = turn[c].completed
        /\ \A u \in Tasks : turn'[c].flight[u] = IF u = t THEN "launched" ELSE turn[c].flight[u]
    BY <1>1, <1>2 DEF TurnType
  <1>4. in_flight(c)' = in_flight(c) \cup {t}
    BY <1>3 DEF in_flight
  <1>5. RowsAll
    BY <1>1, WorkingRows DEF Working
  <1>6. PICK n \in {1, last[t]} : remember_multi_session(t,
           session_payload(turn[c].completed, turn[c].pending \ {t}, {}, n))
    BY DEF Launch
  <1>7. mem' = disk' /\ Remembering' = Remembering \cup {t}
    <2> DEFINE s == session_payload(turn[c].completed, turn[c].pending \ {t}, {}, n)
    <2>1. s.attempt > 0
      BY <1>5, Facts DEF session_payload, RowsAll
    <2>2. mem' = [mem EXCEPT ![t] = s] /\ mem' = disk'
      BY <1>6 DEF remember_multi_session, QueueInv
    <2> HIDE DEF s
    <2> QED  BY <1>2, <2>1, <2>2 DEF Remembering, HasSession
  <1>8. QueueHeld(c)
    BY <1>1 DEF QueueInv, QueueAt
  <1> QED  BY <1>1, <1>3, <1>4, <1>7, <1>8, QueueGoesOn DEF QueueHeld

\* A job in flight goes on or ends.
LEMMA QueueFlight ==
    ASSUME NEW c \in Turns, NEW t \in Tasks, RunnerInv, QueueInv(c),
           Begin(c, t) \/ \E out \in Outcomes : WorkerEnds(c, t, out)
    PROVE  QueueInv(c)'
  <1>1. turn[c].flight[t] # "no" /\ UNCHANGED <<run, root, mem, disk>>
    BY DEF Begin, WorkerEnds, sessionVars, registryVars, start_pending_job, start_next_job, retry_job
  <1>2. turn[c] \in TurnType /\ turn \in [Turns -> TurnType] /\ Fits(turn[c], last)
    BY Facts DEF RunnerInv
  <1>3. turn[c].pc = "sched"
    BY <1>1, <1>2 DEF Fits
  <1>4. PICK f \in FlightStates \ {"no"} :
          /\ turn'[c].pc = "sched" /\ turn'[c].pending = turn[c].pending
          /\ turn'[c].paused = turn[c].paused /\ turn'[c].completed = turn[c].completed
          /\ \A u \in Tasks : turn'[c].flight[u] = IF u = t THEN f ELSE turn[c].flight[u]
    <2>1. CASE Begin(c, t)
      BY <1>2, <1>3, <2>1 DEF Begin, TurnType, FlightStates
    <2>2. CASE \E out \in Outcomes : WorkerEnds(c, t, out)
      <3>1. PICK f \in {"hitl", "done"} : turn' = [turn EXCEPT ![c].flight[t] = f]
        BY <2>2 DEF WorkerEnds
      <3>2. f \in FlightStates \ {"no"}
        BY DEF FlightStates
      <3>3. /\ turn'[c].pc = "sched" /\ turn'[c].pending = turn[c].pending
            /\ turn'[c].paused = turn[c].paused /\ turn'[c].completed = turn[c].completed
            /\ \A u \in Tasks : turn'[c].flight[u] = IF u = t THEN f ELSE turn[c].flight[u]
        BY <1>2, <1>3, <3>1 DEF TurnType
      <3> QED  BY <3>2, <3>3
    <2> QED  BY <2>1, <2>2
  <1>5. in_flight(c)' = in_flight(c)
    BY <1>1, <1>4 DEF in_flight
  <1>6. QueueHeld(c) /\ mem' = disk' /\ Remembering' = Remembering
    BY <1>1, <1>3, SameRemembering DEF QueueInv, QueueAt
  <1> QED  BY <1>1, <1>3, <1>4, <1>5, <1>6, QueueGoesOn DEF QueueHeld

\* A reaped job goes from the running ones to the results.
LEMMA QueueReap ==
    ASSUME NEW c \in Turns, NEW t \in Tasks, RunnerInv, QueueInv(c), Reap(c, t)
    PROVE  QueueInv(c)'
  <1>1. turn[c].flight[t] \in {"done", "hitl"} /\ UNCHANGED <<run, root>>
    BY DEF Reap, registryVars
  <1>2. /\ turn[c] \in TurnType /\ turn \in [Turns -> TurnType] /\ Fits(turn[c], last)
        /\ mem \in [Tasks -> Session]
    BY Facts DEF RunnerInv
  <1>3. turn[c].pc = "sched" /\ t \in in_flight(c)
    BY <1>1, <1>2 DEF Fits, in_flight
  <1>4. QueueHeld(c) /\ mem = disk
    BY <1>3 DEF QueueInv, QueueAt
  <1>5. CASE /\ turn' = [turn EXCEPT ![c].flight[t] = "no", ![c].paused = @ \cup {t}]
             /\ UNCHANGED <<mem, disk>>
    <2>1. /\ turn'[c].pc = "sched" /\ turn'[c].pending = turn[c].pending
          /\ turn'[c].paused = turn[c].paused \cup {t} /\ turn'[c].completed = turn[c].completed
          /\ \A u \in Tasks : turn'[c].flight[u] = IF u = t THEN "no" ELSE turn[c].flight[u]
      BY <1>2, <1>3, <1>5 DEF TurnType
    <2>2. in_flight(c)' = in_flight(c) \ {t}
      BY <2>1 DEF in_flight
    <2>3. mem' = disk' /\ Remembering' = Remembering
      BY <1>4, <1>5, SameRemembering
    <2> QED  BY <1>1, <1>3, <1>4, <2>1, <2>2, <2>3, QueueGoesOn DEF QueueHeld
  <1>6. CASE /\ turn' = [turn EXCEPT ![c].flight[t] = "no", ![c].completed = @ \cup {t}]
             /\ forget_multi_session(t)
    <2>1. /\ turn'[c].pc = "sched" /\ turn'[c].pending = turn[c].pending
          /\ turn'[c].paused = turn[c].paused /\ turn'[c].completed = turn[c].completed \cup {t}
          /\ \A u \in Tasks : turn'[c].flight[u] = IF u = t THEN "no" ELSE turn[c].flight[u]
      BY <1>2, <1>3, <1>6 DEF TurnType
    <2>2. in_flight(c)' = in_flight(c) \ {t}
      BY <2>1 DEF in_flight
    <2>3. mem' = [mem EXCEPT ![t] = NoSession] /\ mem' = disk'
      BY <1>4, <1>6 DEF forget_multi_session, remember_multi_session
    <2>4. Remembering' = Remembering \ {t}
      <3>1. ~(NoSession.attempt > 0)
        BY DEF NoSession
      <3> QED  BY <1>2, <2>3, <3>1 DEF Remembering, HasSession
    <2> QED  BY <1>1, <1>3, <1>4, <2>1, <2>2, <2>3, <2>4, QueueGoesOn DEF QueueHeld
  <1> QED  BY <1>5, <1>6 DEF Reap, sessionVars
\* The turn ends with threads that wait for the operator.
LEMMA QueuePauses ==
    ASSUME NEW c \in Turns, RunnerInv, QueueInv(c), PauseTurn(c)
    PROVE  QueueInv(c)'
  <1>1. /\ turn[c].pc = "sched" /\ turn[c].paused # {} /\ in_flight(c) = {}
        /\ mem' = Remembered(mem, c) /\ disk' = Remembered(disk, c)
        /\ turn' = [turn EXCEPT ![c] = Idle] /\ UNCHANGED <<run, root>>
    BY DEF PauseTurn, stop_starting, registryVars
  <1>2. /\ turn[c] \in TurnType /\ turn'[c].pc = "idle" /\ Fits(turn[c], last)
        /\ mem \in [Tasks -> Session] /\ turn[c].paused \subseteq Tasks
    BY <1>1, Facts, IdleIs DEF RunnerInv, TurnType
  <1>3. QueueHeld(c) /\ mem = disk
    BY <1>1 DEF QueueInv, QueueAt
  <1>4. /\ Remembering = turn[c].paused
        /\ turn[c].pending \cup turn[c].paused \cup turn[c].completed = Tasks
    BY <1>1, <1>3 DEF QueueHeld
  <1>5. \A t \in Tasks : mem'[t] = IF t \in turn[c].paused THEN PausePayload(c, t) ELSE mem[t]
    BY <1>1 DEF Remembered
  <1>6. \A t \in turn[c].paused :
          /\ PausePayload(c, t).attempt = turn[c].act[t] /\ turn[c].act[t] > 0
          /\ PausePayload(c, t).siblings = turn[c].paused \ {t}
          /\ PausePayload(c, t).completed = turn[c].completed
          /\ PausePayload(c, t).remaining = turn[c].pending
    BY <1>2 DEF PausePayload, session_payload, Fits
  <1>7. Remembering' = turn[c].paused
    BY <1>2, <1>4, <1>5, <1>6 DEF Remembering, HasSession
  <1>8. SessionsAgree'
    BY <1>2, <1>4, <1>5, <1>6, <1>7 DEF SessionsAgree
  <1>9. mem' = disk' /\ Backlog' /\ run.status \notin ClosedRun \cup {"none"}
    BY <1>1, <1>3, <1>7 DEF Backlog, QueueHeld, QueueInv
  <1> QED  BY <1>1, <1>2, <1>8, <1>9 DEF QueueInv, QueueAt, Graphing

\* The merged reports keep the account of the queue.
LEMMA QueueMerges ==
    ASSUME NEW c \in Turns, RunnerInv, QueueInv(c), MergeReports(c)
    PROVE  QueueInv(c)'
  <1>1. /\ turn[c].pc = "sched" /\ turn[c].paused = {} /\ in_flight(c) = {} /\ turn[c].pending = {}
        /\ root' = turn[c].completed \cup report
        /\ turn' = [turn EXCEPT ![c].pc = "merge"] /\ UNCHANGED <<run, mem, disk>>
    BY DEF MergeReports, stop_starting, registryVars, sessionVars
  <1>2. QueueHeld(c) /\ mem = disk /\ turn'[c].pc = "merge" /\ report \subseteq Tasks
    BY <1>1, Facts DEF QueueInv, QueueAt, TurnType, RunnerTypeOK
  <1>3. root' = Tasks /\ Remembering' = {}
    BY <1>1, <1>2, SameRemembering DEF QueueHeld
  <1>4. SessionsAgree' /\ run.status # "none"
    BY <1>1, <1>3 DEF SessionsAgree, QueueInv
  <1> QED  BY <1>1, <1>2, <1>3, <1>4 DEF QueueInv, QueueAt, Graphing, QueueHeld

\* The finalization of a run keeps the account of the queue.
LEMMA QueueFinalizes ==
    ASSUME NEW c \in Turns, RunnerInv, QueueInv(c), MergeFinalize(c)
    PROVE  QueueInv(c)'
  <1>1. /\ turn[c].pc = "merge" /\ turn' = [turn EXCEPT ![c] = Idle]
        /\ UNCHANGED <<root, mem, disk>>
    BY DEF MergeFinalize, sessionVars
  <1>2. turn'[c].pc = "idle" /\ Remembering = {} /\ root = Tasks /\ mem = disk /\ SessionsAgree
    BY <1>1, Facts, IdleIs DEF QueueInv, QueueAt
  <1>3. run'.status # "none"
    <2>1. CASE finalize_run
      BY <2>1, VerdictType DEF finalize_run, RunTo, ClosedRun
    <2>2. CASE UNCHANGED registryVars
      BY <1>1, <2>2 DEF registryVars, QueueInv
    <2> QED  BY <2>1, <2>2 DEF MergeFinalize
  <1>4. Remembering' = {} /\ SessionsAgree' /\ Backlog'
    BY <1>1, <1>2, SameRemembering DEF Backlog
  <1> QED  BY <1>1, <1>2, <1>3, <1>4 DEF QueueInv, QueueAt, Graphing

\* A thread is resumed or continued: there is something to go on with.
LEMMA QueueResumes ==
    ASSUME NEW c \in Turns, NEW t \in Tasks, RunnerInv, QueueInv(c),
           aresume(c, t) \/ acontinue(c, t)
    PROVE  QueueInv(c)'
  <1>1. /\ turn[c].pc = "idle" /\ (ckpt[t] # "none" \/ t \in Remembering)
        /\ UNCHANGED <<root, disk>> /\ mem = disk
    BY DEF aresume, acontinue, QueueInv, sessionVars, Remembering, HasSession
  <1>2. mem' = mem
    <2>1. Reloaded = mem
      BY <1>1, Facts DEF Reloaded
    <2> QED  BY <2>1 DEF aresume, acontinue, sessionVars
  <1>3. PICK pc \in Graphing : turn' = [turn EXCEPT ![c] = RunsGraph(t, pc)]
    BY DEF aresume, acontinue, Graphing
  <1>4. turn'[c].pc \in Graphing
    BY <1>3, Facts, IdleIs DEF RunsGraph, TurnType
  <1>5. Backlog /\ SessionsAgree /\ run.status # "none"
    <2>1. ~Fresh
      BY <1>1 DEF Fresh
    <2> QED  BY <1>1, <2>1 DEF QueueInv, QueueAt
  <1>6. run'.status # "none" /\ (run'.status \in ClosedRun => run.status \in ClosedRun)
    BY <1>5 DEF aresume, acontinue, registryVars, resume_run, transition_run, RunTo, ClosedRun
  <1>7. Remembering' = Remembering /\ SessionsAgree' /\ Backlog'
    BY <1>1, <1>2, <1>5, SameRemembering DEF Backlog
  <1> QED  BY <1>1, <1>2, <1>4, <1>6, <1>7 DEF QueueInv, QueueAt, Graphing

\* The queue is handed over to the siblings of t, or taken on by the turn.
LEMMA QueueHandedOver ==
    ASSUME NEW c \in Turns, NEW t \in Tasks, RunnerInv, QueueInv(c), turn[c].pc \in Graphing,
           HasSession(mem, t), NEW out, continue_multi_after_resume(c, t, out), UNCHANGED <<run, root>>
    PROVE  QueueInv(c)'
  <1> DEFINE s == mem[t]
  <1>1. /\ mem' = HandOver(mem, t, s) /\ disk' = HandOver(disk, t, s)
        /\ turn' = [turn EXCEPT ![c] = IF Awake(s) # {} THEN Idle
                                       ELSE Scheduling(s.remaining, s.completed \cup {t})]
    BY DEF continue_multi_after_resume
  <1>2. /\ SessionsAgree /\ mem = disk /\ t \in Remembering /\ Remembering \subseteq Tasks
        /\ run.status \notin ClosedRun \cup {"none"}
    BY DEF QueueInv, QueueAt, Graphing, Remembering
  <1>3. /\ Awake(s) = Remembering \ {t}
        /\ s.completed \cup s.remaining \cup Remembering = Tasks
    BY <1>2 DEF SessionsAgree, Awake, Remembering
  <1>4. \A u \in Tasks : u # t /\ u \notin Remembering => mem'[u] = mem[u]
    BY <1>1, <1>3 DEF HandOver
  <1>5. mem'[t] = NoSession
    BY <1>1 DEF HandOver
  <1>6. \A u \in Remembering \ {t} :
          /\ mem'[u].attempt = mem[u].attempt /\ mem'[u].siblings = (Remembering \ {t}) \ {u}
          /\ mem'[u].completed = s.completed \cup {t} /\ mem'[u].remaining = s.remaining
    <2> SUFFICES ASSUME NEW u \in Remembering \ {t}
                 PROVE  /\ mem'[u].attempt = mem[u].attempt
                        /\ mem'[u].siblings = (Remembering \ {t}) \ {u}
                        /\ mem'[u].completed = s.completed \cup {t} /\ mem'[u].remaining = s.remaining
      OBVIOUS
    <2>1. mem'[u] = [mem[u] EXCEPT !.completed = s.completed \cup {t}, !.remaining = s.remaining,
                                   !.siblings = Awake(s) \ {u}]
      BY <1>1, <1>2, <1>3 DEF HandOver
    <2>2. mem[u] \in Session
      BY <1>2, Facts
    <2> HIDE DEF s
    <2> QED  BY <1>3, <2>1, <2>2 DEF Session
  <1> HIDE DEF s
  <1>7. Remembering' = Remembering \ {t}
    <2>1. ~(NoSession.attempt > 0)
      BY DEF NoSession
    <2>2. ASSUME NEW u \in Tasks
          PROVE  mem'[u].attempt > 0 <=> u \in Remembering \ {t}
      <3>1. CASE u = t
        BY <1>5, <2>1, <3>1
      <3>2. CASE u # t /\ u \in Remembering
        BY <1>6, <3>2 DEF Remembering, HasSession
      <3>3. CASE u # t /\ u \notin Remembering
        BY <1>4, <3>3 DEF Remembering, HasSession
      <3> QED  BY <3>1, <3>2, <3>3
    <2> QED  BY <1>2, <2>2 DEF Remembering, HasSession
  <1>8. SessionsAgree'
    BY <1>2, <1>3, <1>6, <1>7 DEF SessionsAgree
  <1>9. mem' = disk'
    BY <1>1, <1>2
  <1>10. CASE Awake(s) # {}
    <2>1. turn'[c].pc = "idle" /\ Backlog'
      BY <1>1, <1>3, <1>7, <1>10, Facts, IdleIs DEF Backlog
    <2> QED  BY <1>2, <1>8, <1>9, <2>1 DEF QueueInv, QueueAt, Graphing
  <1>11. CASE Awake(s) = {}
    <2> DEFINE x == Scheduling(s.remaining, s.completed \cup {t})
    <2>1. /\ x.pc = "sched" /\ x.pending = s.remaining /\ x.paused = {}
          /\ x.completed = s.completed \cup {t} /\ \A u \in Tasks : x.flight[u] = "no"
      BY IdleIs DEF Scheduling, TurnType
    <2>2. turn' = [turn EXCEPT ![c] = x]
      BY <1>1, <1>11
    <2> HIDE DEF x
    <2>3. turn'[c] = x
      BY <2>2, Facts
    <2>4. in_flight(c)' = {}
      BY <2>1, <2>3 DEF in_flight
    <2>5. Remembering = {t} /\ Remembering' = {}
      BY <1>2, <1>3, <1>7, <1>11
    <2>6. QueueHeld(c)'
      BY <1>2, <1>3, <2>1, <2>3, <2>4, <2>5 DEF QueueHeld
    <2> QED  BY <1>2, <1>9, <2>1, <2>3, <2>6 DEF QueueInv, QueueAt, Graphing
  <1> QED  BY <1>10, <1>11

\* The end of a resumed thread keeps the account of the queue.
LEMMA QueueThreadEnds ==
    ASSUME NEW c \in Turns, NEW out \in Outcomes, RunnerInv, QueueInv(c), ThreadEnds(c, out)
    PROVE  QueueInv(c)'
  <1>1. PICK t \in turn[c].thread, on \in HandsOn(c, out) :
          /\ IF on /\ HasSession(mem, t) THEN continue_multi_after_resume(c, t, out)
             ELSE turn' = [turn EXCEPT ![c] = Idle] /\ UNCHANGED <<job, mem, disk>>
          /\ UNCHANGED <<run, root>>
    BY DEF ThreadEnds, sessionVars
  <1>2. t \in Tasks /\ turn[c].pc \in Graphing
    BY <1>1, Facts DEF RunnerInv, Fits, TurnType
  <1>3. CASE HasSession(mem, t) /\ continue_multi_after_resume(c, t, out)
    BY <1>1, <1>2, <1>3, QueueHandedOver
  <1>4. CASE turn' = [turn EXCEPT ![c] = Idle] /\ UNCHANGED <<mem, disk>>
    <2>1. turn'[c].pc = "idle" /\ run.status # "none" /\ Backlog /\ SessionsAgree
      BY <1>2, <1>4, Facts, IdleIs DEF QueueInv, QueueAt, Graphing
    <2>2. Remembering' = Remembering /\ SessionsAgree' /\ Backlog'
      BY <1>1, <1>4, <2>1, SameRemembering DEF Backlog
    <2> QED  BY <1>1, <1>4, <2>1, <2>2 DEF QueueInv, QueueAt, Graphing
  <1> QED  BY <1>1, <1>3, <1>4

\* Cancelling a run leaves the queue alone.
LEMMA QueueCancelled ==
    ASSUME NEW c \in Turns, RunnerInv, QueueInv(c), CancelRun
    PROVE  QueueInv(c)'
  <1>1. UNCHANGED <<ckpt, root, mem, disk, turn>>
    BY DEF CancelRun, threadVars, sessionVars
  <1>2. run'.status \in {run.status, "cancelled"} /\ run.status # "none"
    BY DEF CancelRun, cancel_run, RunTo
  <1>3. /\ Remembering' = Remembering /\ (SessionsAgree' <=> SessionsAgree)
        /\ (Fresh' <=> Fresh) /\ (Backlog' <=> Backlog) /\ in_flight(c)' = in_flight(c)
    BY <1>1, SameRemembering DEF Fresh, Backlog, in_flight
  <1>4. QueueHeld(c) => QueueHeld(c)'
    BY <1>1, <1>2, <1>3 DEF QueueHeld, ClosedRun
  <1> QED  BY <1>1, <1>2, <1>3, <1>4 DEF QueueInv, QueueAt, ClosedRun

\* With one turn and no crash, every step keeps the account of the queue.
LEMMA QueueStep ==
    ASSUME NEW c, Turns = {c}, RunnerInv, QueueInv(c), crashes = 0, [Next]_vars, crashes' = 0
    PROVE  QueueInv(c)'
  <1>1. c \in Turns /\ ~Crash
    BY DEF Crash
  <1>2. CASE TurnStep(c)
    BY <1>1, <1>2, QueueBootstrap, QueueBegins, QueueLaunch, QueueFlight, QueueReap, QueuePauses,
       QueueMerges, QueueFinalizes, QueueThreadEnds DEF TurnStep
  <1>3. CASE NewTurn(c)
    BY <1>1, <1>3, QueueBootstrap, QueueResumes DEF NewTurn
  <1>4. CASE CancelRun
    BY <1>1, <1>4, QueueCancelled
  <1>5. CASE UNCHANGED vars
    <2>1. UNCHANGED <<run, ckpt, root, mem, disk, turn>>
      BY <1>5 DEF vars, registryVars, threadVars, sessionVars
    <2>2. /\ Remembering' = Remembering /\ (SessionsAgree' <=> SessionsAgree)
          /\ (Fresh' <=> Fresh) /\ (Backlog' <=> Backlog) /\ in_flight(c)' = in_flight(c)
      BY <2>1, SameRemembering DEF Fresh, Backlog, in_flight
    <2>3. QueueHeld(c)' <=> QueueHeld(c)
      BY <2>1, <2>2 DEF QueueHeld
    <2> QED  BY <2>1, <2>2, <2>3 DEF QueueInv, QueueAt
  <1> QED  BY <1>1, <1>2, <1>3, <1>4, <1>5 DEF Next

\* The account of the queue holds initially.
LEMMA QueueInit ==
    ASSUME NEW c \in Turns, Init
    PROVE  QueueInv(c)
  <1>1. turn[c].pc = "idle" /\ mem = disk /\ root = {} /\ run.status = "none"
    BY IdleIs DEF Init, RegistryInit, NoRun
  <1>2. Remembering = {} /\ Fresh
    BY DEF Init, Remembering, Fresh, HasSession, NoSession
  <1> QED  BY <1>1, <1>2 DEF QueueInv, QueueAt, SessionsAgree, Graphing, ClosedRun

\* The account of the queue is kept as long as no crash has happened.
LEMMA QueueKept ==
    ASSUME NEW c, Turns = {c}, RunnerInv, crashes = 0 => QueueInv(c), [Next]_vars, crashes' = 0
    PROVE  QueueInv(c)'
  <1>1. crashes = 0
    <2>1. crashes \in Nat
      BY RunnerAssumption DEF RunnerInv, RunnerTypeOK
    <2>2. CASE Crash
      BY <2>1, <2>2 DEF Crash
    <2>3. CASE CancelRun \/ UNCHANGED vars
      BY <2>3 DEF CancelRun, vars, boundVars
    <2>4. ASSUME NEW d \in Turns, TurnStep(d) \/ NewTurn(d)
          PROVE  crashes' = crashes
      BY <2>4 DEF TurnStep, NewTurn, BootstrapCreate, BootstrapStart, BootstrapAgain,
         BootstrapRow, run_framework_jobs, Launch, Begin, WorkerEnds, Reap, PauseTurn,
         MergeReports, MergeFinalize, aresume, acontinue, ThreadEnds, boundVars
    <2> QED  BY <2>2, <2>3, <2>4 DEF Next
  <1> QED  BY <1>1, QueueStep

\* In a chat whose turns follow each other no job is lost from the queue, whatever the order in
\* which pauses are answered, threads continued, jobs retried and the run cancelled and resumed,
\* as long as the process lives (schedule_framework_jobs, continue_multi_after_resume); and the
\* combined report never lacks the section of a planned task (merge_multi_reports).
THEOREM NothingLost == ASSUME NEW CONSTANT chat, Turns = {chat}
                       PROVE  Spec => [](crashes = 0 => TasksAccounted)
  <1>1. RunnerInv /\ QueueInv(chat) => TasksAccounted
    <2> SUFFICES ASSUME RunnerInv, QueueInv(chat)
                 PROVE  TasksAccounted
      OBVIOUS
    <2> DEFINE Held == UNION {HeldByTurn(c) : c \in Turns}
               Kept == UNION {HeldBySession(t) : t \in Tasks}
    <2>0. Tasks \subseteq Held \cup Kept \cup root => TasksAccounted
      <3>1. RunnerTypeOK /\ (root # {} => root = Tasks)
        BY DEF RunnerInv, QueueInv
      <3> QED  BY <3>1 DEF TasksAccounted
    <2>1. CASE turn[chat].pc = "sched"
      <3>1. Tasks \subseteq HeldByTurn(chat)
        BY <2>1 DEF QueueInv, QueueAt, QueueHeld, HeldByTurn
      <3>2. Tasks \subseteq Held
        BY <3>1
      <3> HIDE DEF Held, Kept
      <3> QED  BY <2>0, <3>2
    <2>2. CASE turn[chat].pc # "sched" /\ root = Tasks
      <3> HIDE DEF Held, Kept
      <3> QED  BY <2>0, <2>2
    <2>3. CASE turn[chat].pc # "sched" /\ Remembering # {}
      <3>1. PICK t \in Remembering : TRUE
        BY <2>3
      <3>2. /\ t \in Tasks /\ HasSession(mem, t)
            /\ mem[t].completed \cup mem[t].remaining \cup Remembering = Tasks
        BY <2>3, <3>1 DEF QueueInv, QueueAt, SessionsAgree, Remembering
      <3>3. mem[t].completed \cup mem[t].remaining \subseteq HeldBySession(t)
        BY <3>2 DEF HeldBySession
      <3>4. \A u \in Remembering : u \in Tasks /\ u \in HeldBySession(u)
        BY DEF Remembering, HeldBySession
      <3>5. Tasks \subseteq Kept
        BY <3>2, <3>3, <3>4
      <3> HIDE DEF Held, Kept
      <3> QED  BY <2>0, <3>5
    <2>4. CASE turn[chat].pc # "sched" /\ ~Backlog
      <3>1. Fresh /\ turn[chat].pc \notin {"sched", "graph", "merge"}
        BY <2>4, Facts DEF QueueInv, QueueAt, TurnType, Backlog, Graphing
      <3>2. \A t \in Tasks : ckpt[t] = "none"
        BY <3>1 DEF Fresh
      <3> QED  BY <3>1, <3>2 DEF TasksAccounted, RunnerInv, QueueInv
    <2> QED  BY <2>1, <2>2, <2>3, <2>4 DEF Backlog
  <1>2. Init => QueueInv(chat)
    BY QueueInit
  <1>3. /\ RunnerInv /\ (crashes = 0 => QueueInv(chat)) /\ [Next]_vars
        => (crashes = 0 => QueueInv(chat))'
    BY QueueKept
  <1> QED  BY <1>1, <1>2, <1>3, RunnerAlways, PTL DEF Spec

\* In a chat whose turns follow each other a run is closed only when its queue has been worked
\* off: no session is left on disk that would later resume a job of the closed run, as long as
\* the process lives (finalize_run against session.json).
THEOREM QueueEmptied == ASSUME NEW CONSTANT chat, Turns = {chat}
                        PROVE  Spec => [](crashes = 0 => NothingLeftBehind)
  <1>1. QueueInv(chat) => NothingLeftBehind
    BY DEF QueueInv, NothingLeftBehind, Remembering, HasSession
  <1>2. Init => QueueInv(chat)
    BY QueueInit
  <1>3. /\ RunnerInv /\ (crashes = 0 => QueueInv(chat)) /\ [Next]_vars
        => (crashes = 0 => QueueInv(chat))'
    BY QueueKept
  <1> QED  BY <1>1, <1>2, <1>3, RunnerAlways, PTL DEF Spec
=============================================================================
