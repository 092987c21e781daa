------------------------------ MODULE FollowUp ------------------------------
(***************************************************************************)
(* Where verdicts are kept: the assessment jobs and the operator's          *)
(* follow-up commands (followup.py) writing the evidence folder on disk     *)
(* (evidence_store.py) and, after it, the warehouse (ResultsStore).         *)
(*                                                                         *)
(* Jobs of a run are concurrent with each other, with the jobs of other     *)
(* runs of the client and with the follow-ups of one operator: nothing in   *)
(* the code keeps a follow-up from a run that is still assessed.            *)
(***************************************************************************)
EXTENDS ResultsStore

CONSTANTS Plans,         \* the confirmed plans: run -> the hosts it assesses
          Legacy,        \* the run, if any, whose session is older than run ids
          MaxWrites,     \* writes of one finding.json that the model follows
          MaxEvents      \* follow-up commands, lost warehouse calls, crashes,
                         \* cancellations and resets, together

ASSUME FollowUpAssumption ==
    /\ IsFiniteSet(Runs) /\ IsFiniteSet(Hosts) /\ IsFiniteSet(Reqs)
    /\ Plans \subseteq [Runs -> SUBSET Hosts] /\ Reqs # {}
    /\ {"none", Unowned} \cap Runs = {}       \* run ids are UUIDs
    /\ Legacy \subseteq Runs /\ \A r, s \in Legacy : r = s
    /\ {MaxSession, MaxWrites, MaxEvents} \subseteq Nat

VARIABLES plan,      \* the plans of this client's runs: {} for a run that never starts
          disk,      \* run, host, requirement -> finding.json
          meta,      \* run -> meta.json: session number, asset, revised requirements
          evidence,  \* run, host -> requirements with tool logs
          job,       \* run, host -> where the thread is
          worker,    \* run, host, requirement -> the worker and its finding
          known,     \* run, host -> findings of the thread's state
          begun,     \* run -> whether start_session was called
          follow,    \* the operator's follow-up
          events     \* how many of the bounded events have happened

evidenceVars == <<disk, meta, evidence>>
jobVars      == <<plan, job, worker, known, begun>>
vars         == <<warehouse, evidenceVars, jobVars, follow, events>>

NoMeta   == [num |-> 0, asset |-> "none", revised |-> {}]
Idle     == [at |-> "idle", found |-> NoFinding]
Todo     == [at |-> "todo", found |-> NoFinding]
NoFollow == [at |-> "none", run |-> "none", host |-> "none", asked |-> {},
             reqs |-> {}, found |-> Nothing, meta |-> NoMeta, left |-> {},
             session |-> 0, status |-> "none"]

Findings == [id : {NoId} \cup (Hosts \X (1 .. MaxWrites)), n : 0 .. MaxWrites,
             asset : Hosts \cup {"none"}, skip : BOOLEAN]

\* One type invariant for the module and the tables it extends.
TypeOK ==
    /\ \A s \in Numbers :
          /\ sessions[s].run \in Runs \cup {Unowned, "none"}
          /\ sessions[s].status \in {"none", "running", "interrupted", "completed"}
          /\ \A h \in Hosts : rows[s][h].source \in Sources \cup {"none"}
    /\ \A c \in calls : c.run \in Runs /\ c.num \in Numbers
    /\ \A r \in Runs, h \in Hosts :
          /\ disk[r][h] \in [Reqs -> Findings] /\ known[r][h] \in [Reqs -> Findings]
          /\ job[r][h] \in {"none", "assess", "stopped", "raised", "done"}
          /\ \A q \in Reqs : worker[r][h][q].at \in {"idle", "todo", "saving"}
    /\ follow.at \in {"none", "fill", "saving", "render", "picked"}

\* A client without audits, or with a session from before runs had ids that
\* the meta.json of one run names.
Init ==
    /\ WarehouseInit(Legacy # {})
    /\ plan \in Plans
    /\ disk     = [r \in Runs |-> [h \in Hosts |-> Nothing]]
    /\ meta     = [r \in Runs |-> IF r \in Legacy THEN [NoMeta EXCEPT !.num = 1] ELSE NoMeta]
    /\ evidence = [r \in Runs |-> [h \in Hosts |-> {}]]
    /\ job      = [r \in Runs |-> [h \in Hosts |-> "none"]]
    /\ worker   = [r \in Runs |-> [h \in Hosts |-> [q \in Reqs |-> Idle]]]
    /\ known    = [r \in Runs |-> [h \in Hosts |-> Nothing]]
    /\ begun    = [r \in Runs |-> FALSE]
    /\ follow   = NoFollow
    /\ events   = 0

Happens == events < MaxEvents /\ events' = events + 1

-----------------------------------------------------------------------------
(* The evidence folder.                                                    *)

\* new_result_id: unlike any id given before for this requirement of the run.
FreshId(r, h, q) == <<h, disk[r][h][q].n + 1>>

\* attach_result_identity: the id of finding.json, else a new one.
BoundId(r, h, q) == IF disk[r][h][q] # NoFinding THEN disk[r][h][q].id ELSE FreshId(r, h, q)

\* A finding about to be the next content of finding.json.
Written(r, h, q, id, asset) == [id |-> id, n |-> disk[r][h][q].n + 1,
                                asset |-> asset, skip |-> FALSE]

\* Faulty: an error of the write is only logged.
write_finding_maybe(r, h, q, f) ==
    /\ f.n <= MaxWrites
    /\ \/ disk' = [disk EXCEPT ![r][h][q] = f]
       \/ UNCHANGED disk

\* EvidenceStore.write_finding: identity is complete, so the file is replaced.
write_finding(r, h, q, f) ==
    /\ f.n <= MaxWrites
    /\ disk' = [disk EXCEPT ![r][h][q] = f]

\* EvidenceStore.write_tool_result and write_requirement of gather_evidence.
Logged(r, h, qs) == evidence' = [evidence EXCEPT ![r][h] = @ \cup qs]

-----------------------------------------------------------------------------
(* The audit: start_frameworks_after_intake and the jobs of one run.       *)

\* start_session_safe, called once the run is known.
StartSession(r) ==
    /\ plan[r] # {} /\ ~begun[r]
    /\ begun' = [begun EXCEPT ![r] = TRUE]
    /\ Call(r, "none", "start", Nothing, 0)
    /\ UNCHANGED <<sessions, rows, cells, evidenceVars, plan, job, worker, known, follow, events>>

\* arun_one and the head of assess_parallel: the thread puts its asset in the
\* run's meta.json and takes the checklist to the warehouse.
JobStart(r, h) ==
    /\ h \in plan[r] /\ begun[r] /\ Open(r, "none", "start") = {} /\ job[r][h] = "none"
    /\ job'    = [job EXCEPT ![r][h] = "assess"]
    /\ worker' = [worker EXCEPT ![r][h] = [q \in Reqs |-> Todo]]
    /\ meta'   = [meta EXCEPT ![r].asset = h]
    /\ Call(r, h, "assess_start", Nothing, meta[r].num)
    /\ UNCHANGED <<sessions, rows, cells, disk, evidence, known, plan, begun, follow, events>>

Assessing(r, h) == job[r][h] = "assess" /\ Open(r, h, "assess_start") = {}

\* _worker: evidence, the fill model, finding.json, then the live upsert.
WorkerStore(r, h, q) ==
    /\ Assessing(r, h) /\ worker[r][h][q].at = "todo"
    /\ LET f == Written(r, h, q, BoundId(r, h, q), h)
       IN /\ write_finding(r, h, q, f)
          /\ worker' = [worker EXCEPT ![r][h][q] = [at |-> "saving", found |-> f]]
          /\ Call(r, h, "live", [Nothing EXCEPT ![q] = f], meta[r].num)
    /\ Logged(r, h, {q})
    /\ UNCHANGED <<sessions, rows, cells, meta, job, known, plan, begun, follow, events>>

\* merge_result_maps refuses a second result_id for one logical key.
Conflict(r, h, q) == /\ known[r][h][q] # NoFinding
                     /\ known[r][h][q].id # worker[r][h][q].found.id

\* The end of assess_parallel: the workers' findings join the thread's state.
AssessEnd(r, h) ==
    LET ended == {q \in Reqs : worker[r][h][q].at = "saving"}
    IN /\ Assessing(r, h) /\ ended # {} /\ Open(r, h, "live") = {}
       /\ \A q \in Reqs : worker[r][h][q].at # "todo"
       /\ IF \E q \in ended : Conflict(r, h, q)
          THEN /\ job' = [job EXCEPT ![r][h] = "raised"]
               /\ UNCHANGED known
          ELSE /\ known' = [known EXCEPT ![r][h] = [q \in Reqs |->
                               IF q \in ended THEN worker[r][h][q].found ELSE @[q]]]
               /\ UNCHANGED job
       /\ worker' = [worker EXCEPT ![r][h] = [q \in Reqs |-> Idle]]
       /\ UNCHANGED <<warehouse, evidenceVars, plan, begun, follow, events>>

Assessed(r, h) == Assessing(r, h) /\ \A q \in Reqs : worker[r][h][q].at = "idle"

\* hitl_gate: the operator skips a requirement.  The finding of the thread's
\* state is marked; finding.json and the warehouse cell stay as they are.
GateSkip(r, h, q) ==
    /\ Assessed(r, h) /\ ~known[r][h][q].skip
    /\ known' = [known EXCEPT ![r][h][q].skip = TRUE]
    /\ UNCHANGED <<warehouse, evidenceVars, job, worker, plan, begun, follow, events>>

\* reconnect_session or the operator's retry: requirements go round again, while
\* the bound on writes allows another finding; assess_parallel, entered again,
\* takes the checklist to the warehouse first.
Requeue(r, h, qs) ==
    /\ Assessed(r, h) /\ \A q \in qs : ~known[r][h][q].skip /\ disk[r][h][q].n < MaxWrites
    /\ worker' = [worker EXCEPT ![r][h] = [q \in Reqs |-> IF q \in qs THEN Todo ELSE @[q]]]
    /\ Call(r, h, "assess_start", Nothing, meta[r].num)
    /\ UNCHANGED <<sessions, rows, cells, evidenceVars, job, known, plan, begun, follow, events>>

\* finalize: report.md from the state of the thread, then the warehouse.
Finalize(r, h) ==
    /\ Assessed(r, h)
    /\ job' = [job EXCEPT ![r][h] = "done"]
    /\ Call(r, h, "finalize", known[r][h], meta[r].num)
    /\ UNCHANGED <<sessions, rows, cells, evidenceVars, worker, known, plan, begun, follow, events>>

\* The stream is cancelled during assess_parallel: the session row named by
\* meta.json becomes interrupted (sync_session_status_from_run_meta).
Cancel(r, h) ==
    /\ Assessing(r, h) /\ Happens
    /\ job'    = [job EXCEPT ![r][h] = "stopped"]
    /\ worker' = [worker EXCEPT ![r][h] = [q \in Reqs |-> Idle]]
    /\ calls'  = calls \ Open(r, h, "live")
    /\ SetStatus(meta[r].num, "interrupted")
    /\ UNCHANGED <<rows, cells, evidenceVars, known, plan, begun, follow>>

\* continue: assess_parallel again, for what the checkpoint does not hold; with
\* nothing pending it returns before the warehouse is called.
Resume(r, h) ==
    /\ job[r][h] = "stopped"
    /\ job'    = [job EXCEPT ![r][h] = "assess"]
    /\ worker' = [worker EXCEPT ![r][h] = [q \in Reqs |->
                    IF known[r][h][q] = NoFinding THEN Todo
                    ELSE Idle]]
    /\ IF \E q \in Reqs : known[r][h][q] = NoFinding
       THEN Call(r, h, "assess_start", Nothing, meta[r].num)
       ELSE UNCHANGED calls
    /\ UNCHANGED <<sessions, rows, cells, evidenceVars, known, plan, begun, follow, events>>

-----------------------------------------------------------------------------
(* The operator's follow-ups.  Each opens the run's folder by an explicit    *)
(* run id (resolve_target, open_existing) and reads meta.json then.          *)

Ready(r) == begun[r] /\ follow.at = "none"
Ask(r)   == Ready(r) /\ Happens

\* run_revise_req without "revise": tools are run and logged, the findings
\* stay, meta.json remembers the requirements.
Gather(r, h, qs) ==
    /\ Ask(r) /\ h \in plan[r]
    /\ Logged(r, h, qs)
    /\ meta' = [meta EXCEPT ![r].revised = qs]
    /\ UNCHANGED <<warehouse, disk, jobVars, follow>>

\* run_revise_req with "revise": fill_requirement_cells is called without a
\* state, so write_finding refuses the finding and the command fails there.
ReviseFull(r, h, q) ==
    /\ Ask(r) /\ h \in plan[r]
    /\ Logged(r, h, {q})
    /\ UNCHANGED <<warehouse, disk, meta, jobVars, follow>>

\* run_refill_finding: the requirements named, or those gathered last; the
\* stored evidence goes to the fill model.
Refill(r, h, qs) ==
    LET about == IF qs = {} THEN meta[r].revised ELSE qs
    IN /\ Ask(r) /\ h \in plan[r]
       /\ follow' = IF about = {} THEN follow
                    ELSE [NoFollow EXCEPT !.at = "fill", !.run = r, !.host = h, !.asked = about,
                            !.reqs = about \cap evidence[r][h], !.meta = meta[r]]
       /\ UNCHANGED <<warehouse, evidenceVars, jobVars>>

\* One answer of the fill model: a new result_id, the asset of meta.json;
\* finding.json first, then the warehouse.
RefillWrite(q) ==
    LET r == follow.run
        h == follow.host
        f == Written(r, h, q, FreshId(r, h, q), follow.meta.asset)
    IN /\ follow.at = "fill" /\ q \in follow.reqs
       /\ Open(r, h, "refill") = {} /\ f.asset # "none"
       /\ write_finding(r, h, q, f)
       /\ Call(r, h, "refill", [Nothing EXCEPT ![q] = f], follow.meta.num)
       /\ follow' = [follow EXCEPT !.reqs = @ \ {q}, !.left = @ \cup {q}]
       /\ UNCHANGED <<sessions, rows, cells, meta, evidence, jobVars, events>>

\* ensure_persistable: no thread has put an asset in meta.json yet.
RefillRefused ==
    /\ follow.at = "fill" /\ follow.reqs # {} /\ follow.meta.asset = "none"
    /\ follow' = NoFollow
    /\ UNCHANGED <<warehouse, evidenceVars, jobVars, events>>

\* Every requirement is refilled: meta.json remembers them.
RefillEnd ==
    /\ follow.at = "fill" /\ follow.reqs = {}
    /\ Open(follow.run, follow.host, "refill") = {}
    /\ meta'   = [meta EXCEPT ![follow.run].revised =
                    IF follow.left = {} THEN follow.asked ELSE follow.left]
    /\ follow' = NoFollow
    /\ UNCHANGED <<warehouse, disk, evidence, jobVars, events>>

\* run_update_report: the frameworks with evidence, one after the other.
UpdateReport(r) ==
    LET found == {h \in Hosts : evidence[r][h] # {}}
    IN /\ Ask(r)
       /\ follow' = IF found = {} THEN follow
                    ELSE [NoFollow EXCEPT !.at = "render", !.run = r, !.left = found]
       /\ UNCHANGED <<warehouse, evidenceVars, jobVars>>

\* load_findings and meta.json of the next framework; the summary model runs.
UpdateLoad(h) ==
    /\ follow.at = "render" /\ follow.host = "none" /\ h \in follow.left
    /\ follow' = [follow EXCEPT !.host = h, !.found = disk[follow.run][h],
                                !.meta = meta[follow.run], !.left = @ \ {h}]
    /\ UNCHANGED <<warehouse, evidenceVars, jobVars, events>>

\* write_report and record_results_safe of what was loaded.
UpdateRecord ==
    /\ follow.at = "render" /\ follow.host # "none"
    /\ Call(follow.run, follow.host, "update_report", follow.found, follow.meta.num)
    /\ follow' = [follow EXCEPT !.at = "saving"]
    /\ UNCHANGED <<sessions, rows, cells, evidenceVars, jobVars, events>>

\* The next framework, or the archive and the end of the command.
UpdateNext ==
    /\ follow.at = "saving" /\ Open(follow.run, follow.host, "update_report") = {}
    /\ follow' = IF follow.left = {} THEN NoFollow
                 ELSE [follow EXCEPT !.at = "render", !.host = "none"]
    /\ UNCHANGED <<warehouse, evidenceVars, jobVars, events>>

\* resolve_session_evidence: the folder of the session's run and its thread.
Locates(s) == sessions[s].run \in Runs /\ \E h \in Hosts : job[sessions[s].run][h] # "none"

\* resolve_continue_target, "continue session N": the row as it is now.
PickSession(s) ==
    /\ Happens /\ follow.at = "none" /\ Locates(s)
    /\ follow' = [NoFollow EXCEPT !.at = "picked", !.session = s, !.status = sessions[s].status]
    /\ UNCHANGED <<warehouse, evidenceVars, jobVars>>

\* ... whose status is then written back with the resume pointers.
PickWrite ==
    /\ follow.at = "picked"
    /\ SetStatus(follow.session, follow.status)
    /\ follow' = NoFollow
    /\ UNCHANGED <<rows, cells, calls, evidenceVars, jobVars, events>>

-----------------------------------------------------------------------------
(* The warehouse answers, or does not.                                     *)

\* start_session_safe returned a session: meta.json takes its number.
Commit(c) ==
    /\ calls' = calls \ {c}
    /\ IF Commits(c)
       THEN /\ Apply(c)
            /\ meta' = IF c.source = "start" THEN [meta EXCEPT ![c.run].num = c.num] ELSE meta
       ELSE UNCHANGED <<sessions, rows, cells, meta>>
    /\ UNCHANGED <<disk, evidence, jobVars, follow, events>>

\* The connection is lost before or after COMMIT: the caller sees an error.
Lose(c) ==
    /\ Happens
    /\ calls' = calls \ {c}
    /\ \/ Commits(c) /\ Apply(c)
       \/ UNCHANGED <<sessions, rows, cells>>
    /\ UNCHANGED <<evidenceVars, jobVars, follow>>

\* The warehouse is replaced by an empty database.
Reset ==
    /\ Happens /\ Taken # {}
    /\ sessions' = [s \in Numbers |-> NoSession]
    /\ rows'  = [s \in Numbers |-> [h \in Hosts |-> NoRow]]
    /\ cells' = [s \in Numbers |-> [h \in Hosts |-> [q \in Reqs |-> NoCell]]]
    /\ calls' = {}
    /\ UNCHANGED <<evidenceVars, jobVars, follow>>

\* The process dies: open transactions roll back, threads keep their checkpoint.
Crash ==
    /\ Happens
    /\ calls'  = {}
    /\ job'    = [r \in Runs |-> [h \in Hosts |->
                    IF job[r][h] = "assess" \/ Open(r, h, "finalize") # {} THEN "stopped"
                    ELSE job[r][h]]]
    /\ worker' = [r \in Runs |-> [h \in Hosts |-> [q \in Reqs |-> Idle]]]
    /\ follow' = NoFollow
    /\ UNCHANGED <<sessions, rows, cells, evidenceVars, known, plan, begun>>

Next ==
    \/ \E r \in Runs : StartSession(r) \/ UpdateReport(r)
    \/ \E r \in Runs, h \in Hosts :
          \/ JobStart(r, h) \/ AssessEnd(r, h) \/ Finalize(r, h) \/ Cancel(r, h) \/ Resume(r, h)
          \/ \E q \in Reqs : WorkerStore(r, h, q) \/ GateSkip(r, h, q) \/ ReviseFull(r, h, q)
          \/ \E qs \in SUBSET Reqs : \/ Refill(r, h, qs)
                                     \/ qs # {} /\ (Gather(r, h, qs) \/ Requeue(r, h, qs))
    \/ \E q \in Reqs : RefillWrite(q)
    \/ \E h \in Hosts : UpdateLoad(h)
    \/ RefillRefused \/ RefillEnd \/ UpdateRecord \/ UpdateNext
    \/ \E c \in calls : Commit(c) \/ Lose(c)
    \/ \E s \in Taken : PickSession(s)
    \/ PickWrite \/ Reset \/ Crash

Spec == Init /\ [][Next]_vars

-----------------------------------------------------------------------------
(* Properties.                                                             *)

\* Every cell lies in a session of the run it was assessed for: a session
\* number read from a meta.json that is older than the database never files a
\* verdict under another run (_resolve_session_row).
OwnSession == \A s \in Numbers, h \in Hosts, q \in Reqs :
    cells[s][h][q] # NoCell => cells[s][h][q].run = sessions[s].run

\* The warehouse is never ahead of the disk: whatever was lost, cancelled or
\* crashed, a cell holds a verdict that finding.json of its host has held, and
\* the newest one only as it is there (disk first, warehouse second).
NeverAhead == TypeOK /\ \A s \in Numbers, h \in Hosts, q \in Reqs :
    cells[s][h][q] # NoCell =>
       LET c == cells[s][h][q]
           d == disk[c.run][h][q]
       IN c.n <= d.n /\ (c.n = d.n => <<c.id, c.asset>> = <<d.id, d.asset>>)

\* What /list-results shows as the aggregates of a host is what its listed
\* cells add up to, in every row that a live write, a refill or finalize wrote
\* last and whose cells were all assessed on that host.
ListsAgree == \A s \in Numbers, h \in Hosts :
    /\ rows[s][h].source \in {"live", "refill", "finalize"}
    /\ \A q \in ListedReady(s, h) : cells[s][h][q].asset = h
    => ListedCounts(s, h) = ListedCells(s, h)

\* A cell keeps its result_id: neither a retry nor a refill nor a rebuilt
\* report replaces the identity of a stored verdict.
CellKept == [][\A s \in Numbers, h \in Hosts, q \in Reqs :
    cells[s][h][q] # NoCell => cells'[s][h][q].id \in {NoId, cells[s][h][q].id}]_vars
=============================================================================
