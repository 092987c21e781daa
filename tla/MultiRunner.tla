---------------------------- MODULE MultiRunner ----------------------------
(***************************************************************************)
(* One audit run worked off by workflows/multi_runner.py: the bootstrap of *)
(* its rows, the host-exclusive scheduler, human-in-the-loop pauses, the   *)
(* sessions that remember the queue in memory and in session.json, the     *)
(* chat turns that resume or continue a thread (workflows/runner.py), the  *)
(* combined report and the closing of the run, cancellation, and a crash   *)
(* of the process with everything it held in memory.                       *)
(*                                                                         *)
(* A chat turn is a coroutine; it gives way only where it awaits.  What    *)
(* lies between two awaits is one action, except that the loops that       *)
(* create rows and launch jobs take one action per job, so that a crash    *)
(* may fall between two writes.                                            *)
(*                                                                         *)
(* Each job has one LangGraph thread.  What happens inside the thread is   *)
(* the choice of its outcome here; AssessGraph opens it up.                *)
(***************************************************************************)
EXTENDS AuditRegistry, FiniteSets

CONSTANTS Host,       \* Host[t]: the host that task t audits (evidence_host_id)
          Rank,       \* Rank[t]: the place of t in the plan
          Limit,      \* max_parallel_host_jobs
          Turns,      \* chat turns that may be under way at the same time
          MaxStops,  \* bound on pauses, and on failures of a graph that a turn runs itself
          MaxFaults  \* bound on cancellations of the run and crashes of the process, together

ASSUME RunnerAssumption == /\ Limit \in Nat \ {0}
                           /\ Rank \in [Tasks -> Nat]
                           /\ MaxStops \in Nat
                           /\ MaxFaults \in Nat

VARIABLES ckpt,     \* ckpt[t]: the durable checkpoint of the thread of t
          report,   \* the tasks whose report.md is in the evidence store
          root,     \* the sections of the combined report, {} before it is written
          mem,      \* mem[t]: runtime._multi_sessions
          disk,     \* disk[t]: session.json
          turn,     \* turn[c]: the local state of chat turn c
          stops, cancels, crashes

threadVars == <<ckpt, report>>
sessionVars == <<mem, disk>>
boundVars == <<stops, cancels, crashes>>
vars == <<registryVars, threadVars, root, sessionVars, turn, boundVars>>

-----------------------------------------------------------------------------
(* Sessions.  attempt stands for the job_id of the payload, 0 for a thread *)
(* without a session.                                                      *)

Session == [completed : SUBSET Tasks, remaining : SUBSET Tasks,
            siblings : SUBSET Tasks, attempt : 0..MaxAttempt]
NoSession == [completed |-> {}, remaining |-> {}, siblings |-> {}, attempt |-> 0]
HasSession(s, t) == s[t].attempt > 0

session_payload(done, rest, others, n) ==
    [completed |-> done, remaining |-> rest, siblings |-> others, attempt |-> n]

\* remember_multi_session and forget_multi_session keep memory and disk in step.
remember_multi_session(t, s) == /\ mem' = [mem EXCEPT ![t] = s]
                                /\ disk' = [disk EXCEPT ![t] = s]
forget_multi_session(t) == remember_multi_session(t, NoSession)

\* reload_multi_sessions: what memory does not know is taken from disk.
Reloaded == [t \in Tasks |-> IF HasSession(mem, t) THEN mem[t] ELSE disk[t]]

-----------------------------------------------------------------------------
(* Chat turns.  pc is where the coroutine is; thread is the task whose     *)
(* graph the turn itself runs; the other fields are the locals of          *)
(* schedule_framework_jobs.  act[t] is the attempt the worker of t reports *)
(* its outcome for.                                                        *)

FlightStates == {"no", "launched", "running", "done", "hitl"}
TurnType == [pc : {"idle", "boot", "rows", "sched", "graph", "again", "merge"},
             thread : SUBSET Tasks, pending : SUBSET Tasks,
             flight : [Tasks -> FlightStates], act : [Tasks -> 0..MaxAttempt],
             paused : SUBSET Tasks, completed : SUBSET Tasks]
Idle == [pc |-> "idle", thread |-> {}, pending |-> {},
         flight |-> [t \in Tasks |-> "no"], act |-> [t \in Tasks |-> 0],
         paused |-> {}, completed |-> {}]

in_flight(c) == {t \in Tasks : turn[c].flight[t] # "no"}

\* Faulty: a launched job does not make its host busy.
HostsNeverBusy(c) == {Host[t] : t \in in_flight(c) \cap turn[c].pending}

busy_hosts(c) == {Host[t] : t \in in_flight(c)}
stop_starting(c) == turn[c].paused # {}

Scheduling(rest, done) == [Idle EXCEPT !.pc = "sched", !.pending = rest, !.completed = done]

-----------------------------------------------------------------------------
(* Bootstrap of the run (_bootstrap_audit_run).                            *)

Init == /\ RegistryInit
        /\ ckpt = [t \in Tasks |-> "none"]
        /\ report = {}
        /\ root = {}
        /\ mem = [t \in Tasks |-> NoSession]
        /\ disk = [t \in Tasks |-> NoSession]
        /\ turn = [c \in Turns |-> Idle]
        /\ stops = 0 /\ cancels = 0 /\ crashes = 0

BootstrapCreate(c) == /\ turn[c].pc = "idle"
                      /\ create_run
                      /\ turn' = [turn EXCEPT ![c].pc = "boot"]
                      /\ UNCHANGED <<threadVars, root, sessionVars, boundVars>>

BootstrapStart(c) == /\ turn[c].pc = "boot"
                     /\ mark_run_started
                     /\ turn' = [turn EXCEPT ![c].pc = "rows"]
                     /\ UNCHANGED <<threadVars, root, sessionVars, boundVars>>

\* After a crash the intake is replayed: it finds its run by base thread and
\* goes on with it as it is, started or not.
BootstrapAgain(c) == /\ turn[c].pc = "idle"
                     /\ run.status \notin {"none"} \cup ClosedRun
                     /\ crashes > 0
                     /\ \A d \in Turns : turn[d].pc = "idle"
                     /\ \A t \in Tasks : ckpt[t] = "none" /\ ~HasSession(disk, t)
                     /\ turn' = [turn EXCEPT ![c].pc = "rows"]
                     /\ UNCHANGED <<registryVars, threadVars, root, sessionVars, boundVars>>

BootstrapRow(c, t) == /\ turn[c].pc = "rows"
                      /\ create_first_job(t)
                      /\ UNCHANGED <<threadVars, root, sessionVars, turn, boundVars>>

run_framework_jobs(c) == /\ turn[c].pc = "rows"
                         /\ Planned = Tasks
                         /\ turn' = [turn EXCEPT ![c] = Scheduling(Tasks, {})]
                         /\ UNCHANGED <<registryVars, threadVars, root, sessionVars, boundVars>>

-----------------------------------------------------------------------------
(* The scheduler (schedule_framework_jobs).                                *)

\* The first pending job whose host is free.  The job_id of the payload is the
\* one the bootstrap put into the queue, or that of a later attempt if a turn of
\* this process has begun one meanwhile: the queues share their job dicts.
Launch(c, t) ==
    /\ turn[c].pc = "sched" /\ ~stop_starting(c)
    /\ Cardinality(in_flight(c)) < Limit
    /\ t \in turn[c].pending /\ Host[t] \notin busy_hosts(c)
    /\ \A u \in turn[c].pending : Rank[u] < Rank[t] => Host[u] \in busy_hosts(c)
    /\ \E n \in {1, last[t]} : remember_multi_session(t,
          session_payload(turn[c].completed, turn[c].pending \ {t}, {}, n))
    /\ turn' = [turn EXCEPT ![c].pending = @ \ {t}, ![c].flight[t] = "launched"]
    /\ UNCHANGED <<registryVars, threadVars, root, boundVars>>

\* _run_one up to the graph: the running attempt is taken over, a lost one is
\* retried, on any other a start is asked for; arun_one starts the thread afresh.
Begin(c, t) ==
    /\ turn[c].flight[t] = "launched"
    /\ \/ LatestStatus(t) = "running" /\ UNCHANGED registryVars
       \/ LatestStatus(t) \in {"failed", "cancelled"} /\ retry_job(t)
       \/ /\ LatestStatus(t) \notin {"running", "failed", "cancelled"}
          /\ start_pending_job(t) \/ start_next_job(t)
    /\ turn' = [turn EXCEPT ![c].flight[t] = "running", ![c].act[t] = last'[t]]
    /\ ckpt' = [ckpt EXCEPT ![t] = "live"]
    /\ UNCHANGED <<report, root, sessionVars, boundVars>>

\* The graph of t ends.  What the checkpoint then holds, and the report that the
\* finalize node leaves in the evidence store.
Outcomes == {"ok", "error", "raise", "hitl"}
Stop(outs, out) == /\ out \in outs => stops < MaxStops
                   /\ stops' = IF out \in outs THEN stops + 1 ELSE stops
GraphEnds(t, out) ==
    /\ ckpt' = [ckpt EXCEPT ![t] = CASE out \in {"ok", "error"} -> "ended"
                                     [] out = "hitl" -> "paused"
                                     [] OTHER -> "live"]
    /\ report' = IF out = "ok" THEN report \cup {t} ELSE report

\* Faulty: the outcome is written whatever became of the attempt.
OutcomeUnchecked(t, n, out) ==
    IF out = "hitl" THEN job
    ELSE [job EXCEPT ![t][n] = JobTo(@, IF out = "ok" THEN "completed" ELSE "failed", out # "ok")]

\* Faulty: a graph that ends with an error counts as completed.
OutcomeIgnoresError(t, n, out) ==
    LET new == IF out \in {"ok", "error"} THEN "completed" ELSE "failed" IN
    IF out # "hitl" /\ validate_job_transition(job[t][n].status, new)
      THEN [job EXCEPT ![t][n] = JobTo(@, new, out = "raise")] ELSE job

\* An outcome is written if the attempt may still take it; otherwise the call
\* raises and the scheduler treats the job as one that raised.
Outcome(t, n, out) ==
    LET new == IF out = "ok" THEN "completed" ELSE "failed" IN
    IF out # "hitl" /\ validate_job_transition(job[t][n].status, new)
      THEN [job EXCEPT ![t][n] = JobTo(@, new, out # "ok")] ELSE job

\* The rest of _run_one.
WorkerEnds(c, t, out) ==
    /\ turn[c].flight[t] = "running"
    /\ GraphEnds(t, out)
    /\ Stop({"hitl"}, out)
    /\ job' = Outcome(t, turn[c].act[t], out)
    /\ turn' = [turn EXCEPT ![c].flight[t] = IF out = "hitl" THEN "hitl" ELSE "done"]
    /\ UNCHANGED <<run, last, root, sessionVars, cancels, crashes>>

\* Faulty: the session of a job that ended is kept.
ReapKeepsSession(c, t) ==
    /\ turn[c].flight[t] \in {"done", "hitl"}
    /\ turn' = [turn EXCEPT ![c].flight[t] = "no",
                            ![c].paused = IF turn[c].flight[t] = "hitl" THEN @ \cup {t} ELSE @,
                            ![c].completed = IF turn[c].flight[t] = "done" THEN @ \cup {t} ELSE @]
    /\ UNCHANGED <<registryVars, threadVars, root, sessionVars, boundVars>>

\* asyncio.wait returned the task of t.
Reap(c, t) ==
    /\ turn[c].flight[t] \in {"done", "hitl"}
    /\ IF turn[c].flight[t] = "hitl"
         THEN /\ turn' = [turn EXCEPT ![c].flight[t] = "no", ![c].paused = @ \cup {t}]
              /\ UNCHANGED sessionVars
         ELSE /\ turn' = [turn EXCEPT ![c].flight[t] = "no", ![c].completed = @ \cup {t}]
              /\ forget_multi_session(t)
    /\ UNCHANGED <<registryVars, threadVars, root, boundVars>>

\* The loop has drained with threads waiting for the operator: each of them
\* remembers the whole queue and its siblings, and the turn ends.
PausePayload(c, t) == session_payload(turn[c].completed, turn[c].pending,
                                       turn[c].paused \ {t}, turn[c].act[t])
Remembered(s, c) == [t \in Tasks |-> IF t \in turn[c].paused THEN PausePayload(c, t) ELSE s[t]]
PauseTurn(c) ==
    /\ turn[c].pc = "sched" /\ stop_starting(c) /\ in_flight(c) = {}
    /\ mem' = Remembered(mem, c)
    /\ disk' = Remembered(disk, c)
    /\ turn' = [turn EXCEPT ![c] = Idle]
    /\ UNCHANGED <<registryVars, threadVars, root, boundVars>>

\* merge_multi_reports up to the packaging of the archive: the combined report
\* has a section for every completed job and for every report in the store.
MergeReports(c) ==
    /\ turn[c].pc = "sched" /\ ~stop_starting(c)
    /\ turn[c].pending = {} /\ in_flight(c) = {}
    /\ root' = turn[c].completed \cup report
    /\ turn' = [turn EXCEPT ![c].pc = "merge"]
    /\ UNCHANGED <<registryVars, threadVars, sessionVars, boundVars>>

\* The rest of merge_multi_reports; finalize_run raises on a run that was
\* cancelled, closed or never started, and so ends the turn with an error.
FinalizeRaises == ~validate_run_transition(run.status, resolve_terminal_run_status)

\* Faulty: leaves a run with failed jobs open.
MergeKeepsFailedOpen(c) ==
    /\ turn[c].pc = "merge"
    /\ IF resolve_terminal_run_status = "completed" THEN finalize_run ELSE UNCHANGED registryVars
    /\ turn' = [turn EXCEPT ![c] = Idle]
    /\ UNCHANGED <<threadVars, root, sessionVars, boundVars>>

MergeFinalize(c) ==
    /\ turn[c].pc = "merge"
    /\ finalize_run \/ (FinalizeRaises /\ UNCHANGED registryVars)
    /\ turn' = [turn EXCEPT ![c] = Idle]
    /\ UNCHANGED <<threadVars, root, sessionVars, boundVars>>

-----------------------------------------------------------------------------
(* Resuming a thread (aresume, acontinue, continue_multi_after_resume).    *)

RunsGraph(t, pc) == [Idle EXCEPT !.pc = pc, !.thread = {t}]

\* aresume: the operator answers a paused thread.  Neither the status of the run
\* nor session.json is looked at.
aresume(c, t) == /\ turn[c].pc = "idle"
                 /\ ckpt[t] = "paused"
                 /\ ckpt' = [ckpt EXCEPT ![t] = "live"]
                 /\ turn' = [turn EXCEPT ![c] = RunsGraph(t, "graph")]
                 /\ UNCHANGED <<registryVars, report, root, sessionVars, boundVars>>

\* acontinue: a cancelled run is resumed, sessions are reloaded, and the thread
\* goes on from its checkpoint or, when that has ended, from its evidence.
acontinue(c, t) ==
    /\ turn[c].pc = "idle"
    /\ run.status # "none"
    /\ ckpt[t] # "none" \/ HasSession(disk, t)
    /\ IF run.status = "cancelled" THEN resume_run ELSE UNCHANGED registryVars
    /\ mem' = Reloaded
    /\ ckpt' = [ckpt EXCEPT ![t] = "live"]
    /\ turn' = [turn EXCEPT ![c] = RunsGraph(t, IF ckpt[t] = "ended" THEN "again" ELSE "graph")]
    /\ UNCHANGED <<report, root, disk, boundVars>>

\* continue_multi_after_resume, for the session s of thread t: the job is closed
\* if its attempt is still running, paused siblings take over the queue, and
\* without siblings the rest of the queue is scheduled.
Awake(s) == {u \in s.siblings : HasSession(mem, u)}

\* Faulty: the siblings do not learn what has been completed.
HandOverForgetsDone(sess, t, s) == [u \in Tasks |-> IF u = t THEN NoSession ELSE sess[u]]

HandOver(sess, t, s) == [u \in Tasks |->
    IF u = t THEN NoSession
    ELSE IF u \in Awake(s)
      THEN [mem[u] EXCEPT !.completed = s.completed \cup {t}, !.remaining = s.remaining,
                          !.siblings = Awake(s) \ {u}]
    ELSE sess[u]]

continue_multi_after_resume(c, t, out) ==
    LET s == mem[t] IN
    /\ job' = IF job[t][s.attempt].status = "running" THEN Outcome(t, s.attempt, out) ELSE job
    /\ mem' = HandOver(mem, t, s)
    /\ disk' = HandOver(disk, t, s)
    /\ turn' = [turn EXCEPT ![c] = IF Awake(s) # {} THEN Idle
                                   ELSE Scheduling(s.remaining, s.completed \cup {t})]

\* The graph that the turn runs itself has ended.  It paused again or raised: the
\* turn is over.  It finished: the queue of its session goes on, if memory has it.
\* A thread re-entered from complete evidence goes on even when it paused.
HandsOn(c, out) == IF turn[c].pc = "again" /\ out = "hitl" THEN BOOLEAN
                   ELSE {out \in {"ok", "error"}}
ThreadEnds(c, out) == \E t \in turn[c].thread, on \in HandsOn(c, out) :
    /\ GraphEnds(t, out)
    /\ Stop({"hitl", "raise"}, out)
    /\ IF on /\ HasSession(mem, t)
         THEN continue_multi_after_resume(c, t, out)
         ELSE turn' = [turn EXCEPT ![c] = Idle] /\ UNCHANGED <<job, sessionVars>>
    /\ UNCHANGED <<run, last, root, cancels, crashes>>

-----------------------------------------------------------------------------
(* The operator cancels the run (cancel_audit_run); the process dies.      *)

CancelRun == /\ cancels + crashes < MaxFaults
             /\ cancel_run
             /\ cancels' = cancels + 1
             /\ UNCHANGED <<threadVars, root, sessionVars, turn, stops, crashes>>

Crash == /\ cancels + crashes < MaxFaults
         /\ crashes' = crashes + 1
         /\ mem' = [t \in Tasks |-> NoSession]
         /\ turn' = [c \in Turns |-> Idle]
         /\ UNCHANGED <<registryVars, threadVars, root, disk, stops, cancels>>

\* What a turn does once it is under way.
TurnStep(c) == \/ BootstrapStart(c) \/ run_framework_jobs(c)
               \/ PauseTurn(c) \/ MergeReports(c) \/ MergeFinalize(c)
               \/ \E out \in Outcomes : ThreadEnds(c, out)
               \/ \E t \in Tasks :
                    \/ BootstrapRow(c, t) \/ Launch(c, t) \/ Begin(c, t) \/ Reap(c, t)
                    \/ \E out \in Outcomes : WorkerEnds(c, t, out)

\* A new turn.
NewTurn(c) == \/ BootstrapCreate(c) \/ BootstrapAgain(c)
              \/ \E t \in Tasks : aresume(c, t) \/ acontinue(c, t)

Next == (\E c \in Turns : TurnStep(c) \/ NewTurn(c)) \/ CancelRun \/ Crash

Spec == Init /\ [][Next]_vars

\* A coroutine that can go on does: the event loop starves no task, and every
\* graph invocation ends by its own timeouts.  While there are pauses the operator
\* answers one now and then, and continues some thread that stopped with work on disk.
Fairness == /\ \A c \in Turns : WF_vars(TurnStep(c))
            /\ SF_vars(\E c \in Turns, t \in Tasks : aresume(c, t))
            /\ SF_vars(\E c \in Turns, t \in Tasks : HasSession(disk, t) /\ acontinue(c, t))

FairSpec == Spec /\ Fairness

-----------------------------------------------------------------------------
(* Properties.                                                             *)

\* Types of the runner's own state.
RunnerTypeOK == /\ ckpt \in [Tasks -> {"none", "live", "paused", "ended"}]
                /\ report \subseteq Tasks /\ root \subseteq Tasks
                /\ mem \in [Tasks -> Session] /\ disk \in [Tasks -> Session]
                /\ turn \in [Turns -> TurnType]
                /\ stops \in 0..MaxStops /\ cancels \in 0..MaxFaults
                /\ crashes \in 0..MaxFaults

\* Of one turn at most one job per host is under way, through pauses, hand-overs
\* and the turns that go on with its queue (busy_hosts, and the docstring of
\* schedule_framework_jobs).  Two turns that work on the run at the same time do not
\* know each other's hosts.
HostExclusive == \A c \in Turns, t, u \in Tasks :
    /\ {t, u} \subseteq in_flight(c) \cup turn[c].thread
    /\ Host[t] = Host[u]
    => t = u

\* What the docstring of schedule_framework_jobs says of all jobs, whichever turn runs
\* them.  It fails with two turns at once: busy_hosts is a local variable of a turn.
HostExclusiveAcrossTurns == \A c, d \in Turns, t, u \in Tasks :
    /\ t \in in_flight(c) \cup turn[c].thread
    /\ u \in in_flight(d) \cup turn[d].thread
    /\ Host[t] = Host[u]
    => c = d /\ t = u

HeldByTurn(c) == turn[c].pending \cup in_flight(c) \cup turn[c].paused
                   \cup turn[c].completed \cup turn[c].thread
HeldBySession(t) == IF HasSession(mem, t)
                      THEN {t} \cup mem[t].remaining \cup mem[t].completed ELSE {}

\* Types hold, and no job is ever lost from the queue: each planned task is in the hands of a
\* turn, or remembered by some session, or has its section in the combined
\* report, whatever the order in which pauses are answered; and the combined report,
\* once it is there, has a section for every planned task (merge_multi_reports).
TasksAccounted ==
    /\ RunnerTypeOK
    /\ (\E c \in Turns : turn[c].pc \in {"sched", "graph", "merge"})
         \/ (\E t \in Tasks : ckpt[t] # "none")
       => Tasks \subseteq (UNION {HeldByTurn(c) : c \in Turns})
                             \cup (UNION {HeldBySession(t) : t \in Tasks}) \cup root
    /\ root # {} => root = Tasks

\* A run is closed as completed only with the report of every task in the
\* evidence store: no path of resuming, retrying, cancelling or crashing counts a
\* job that never finished (complete_job, finalize_run).
VerdictBacked == run.status = "completed" => report = Tasks

\* Once the run is closed nothing is left in the queue (finalize_run against
\* session.json).
NothingLeftBehind == run.status \in ClosedRun =>
    \A t \in Tasks : ~HasSession(disk, t)

\* Each step of the runner is a call of the registry or leaves it alone.
CallsRegistry == RegistrySpec

\* A running run is closed in the end (or cancelled), if the operator answers.
RunCloses == run.status = "running" ~> run.status # "running"
=============================================================================
