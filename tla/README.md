# TLA+ verification of psql_auditor

psql_auditor is a chat-driven audit agent.  An operator starts an audit of a
client's hosts against one or more frameworks (checklists of requirements); the
agent plans one job per host and framework, works the jobs off in parallel with
LangGraph graphs that call tools over SSH and MCP, stops for human decisions,
writes evidence and reports to disk, and keeps a registry of runs, jobs and
results.  The orchestration is asynchronous Python on one event loop, with its
state spread over SQLite tables, JSON files, LangGraph checkpoints and memory;
the process may be restarted at any time.  That orchestration is what this
project verifies.

## Inventory

| component | source | state | operations |
|---|---|---|---|
| audit registry | `audit_registry.py`, `domain/audit_models.py` | `audit_runs`, `audit_jobs` | create, start, cancel, resume, finalize a run; create, start, retry, complete, fail a job |
| multi-host runner | `workflows/multi_runner.py`, `session_store.py` | job queue, in-flight tasks, `_multi_sessions`, `session.json` | bootstrap, schedule, pause, continue the queue, merge reports |
| thread runner | `workflows/runner.py` | LangGraph checkpoints, leases on per-run checkpointers | run, resume, continue a thread; acquire, release, close, reconnect a checkpointer |
| assessment graph | `workflows/assessment.py`, `hitl.py`, `finalize.py`, `builder.py` | findings, pending requirements, retry counts, skip lists | assess, reconnect, ask the operator, finalize |
| result identity | `domain/result_identity.py`, `result_identity_bind.py`, `state.py` | `result_id`s of findings | bind, validate, merge maps of findings |
| evidence store | `evidence_store.py` | one folder per run: `finding.json`, tool logs, `meta.json` | write and load findings, logs, reports |
| results warehouse, follow-ups | `results_store.py`, `followup.py` | sessions, host rows and cells in Postgres | start a session, upsert live, record at finalize; gather, refill, revise, update the report, continue a session |
| task registry, application runtime | `task_registry.py`, `application_runtime.py`, `graph.py` | tracked asyncio tasks, startup and shutdown state | track, cancel, drain, start, close |
| MCP pool | `tools/mcp_client.py` | pooled connections, leases | acquire, release, reconnect, close |
| audit plan revisions | `inventory/plan_store.py`, `inventory/service.py`, `inventory/plan.py` | immutable revisions, `latest.json`, effective inventory, pointer, preflight | analyze, publish, roll back, decide, start |
| intake | `workflows/intake.py`, `intake.py`, `domain/audit_request.py` | one LangGraph node with interrupts, its replies, `PLAN.md`, the run it binds | ask for client, access and scope, discover, trim, confirm, hand over |
| chat API | `api/openai_compat.py`, `hitl.py`, `intent.py` | markers in the chat history, `.active_intake.json` | route a message to a thread, retry a turn, start or resume |
| inventory and discovery | `inventory/service.py`, `collectors.py`, `normalize.py`, `discovery.py`, `detect.py`, `tool_discovery.py` | inventory rows, facts of hosts, capability snapshots, preflight | load, probe with retries, reconcile, detect, snapshot |
| selection and discovery plans | `domain/applicability.py`, `inventory/dynamic_select.py`, `framework_candidates.py`, `discovery_plan.py` | none: functions of facts, catalog and tools | evaluate frameworks, choose variants and targets, plan the missing facts |
| tool registry and policies | `tool_registry.py`, `tools/ssh_policy.py`, `workflows/tool_execution.py` | cached registry, bound tools, pins of a plan | load, authorize, hash, invoke |

How they interact: a chat message becomes a *turn*, a coroutine that starts an
audit (intake, bootstrap, scheduler), answers a pause (`aresume`) or continues a
stopped thread (`acontinue`).  The scheduler starts one graph per job; a graph
ends, fails, or pauses for the operator.  Every outcome is written to the
registry.  What is still to be done is remembered per thread in memory and in
`session.json`, and whichever turn finishes the last thread merges the reports
and closes the run.  Turns share the registry, the sessions, the checkpoints and
the evidence store without locks of their own.

What is hard: outcomes that arrive after a cancellation or a retry; pauses of
several hosts at once, answered in any order; the queue surviving a restart; two
turns working on one run; leases on a checkpointer that is being closed;
shutdown while streams are still running; stale plan revisions; identity of a
finding that is assessed twice; replies that LangGraph gives out again to a node
that has gone on; disk and warehouse written one after the other; files that are
edited between analysis, confirmation and start; probes that fail half way.

What makes each part correct:

* registry: one open attempt per task, final outcomes, a verdict that follows
  from the latest attempts, rows that agree with their status;
* runner: one job per host in a turn, no job lost or run without a section in the
  report, a run that closes, and nothing left in the queue when it has;
* leases: no connection closed under a user, none leaked;
* shutdown: nothing tracked is forgotten, a failed close can be retried;
* assessment: one finding with one id per requirement, on disk as in the report,
  gathered on the right host, no failure without a decision of the operator;
* pool: no session lost, shared or bound to another target, no waiter forgotten;
* intake and chat: one run and one discovery per intake, and the audit that starts
  is the one the operator saw and confirmed;
* stores: a verdict in the session of its run, never in the warehouse before it is
  on disk, aggregates that add up, ids that stay;
* inventory: what runs on a host is audited whatever the probes lose, every gap is
  planned for, no host is audited twice by one family, and what starts is current;
* plans: pointer and views that name whole revisions and agree, decisions that
  are kept and only taken on the current revision.

## Modules

| module | models | how state and actions correspond |
|---|---|---|
| `RunLifecycle` | what callers may rely on | abstract: the phase of one run and, per task, the state of its work |
| `AuditRegistry` | `audit_registry.py`, `domain/audit_models.py` | the rows of one run; one action per registry method, which is synchronous and so atomic on the event loop; timestamps are "set" or not |
| `MultiRunner` | `workflows/multi_runner.py`, the turns of `workflows/runner.py`, `session_store.py` | composed with `AuditRegistry` (an extension: its actions call the registry's); scheduler, in-flight jobs, sessions in memory and on disk; an action is what runs between two awaits; a crash empties what is in memory |
| `CheckpointLeases` | `runner.py` 1119-1428 | scope lock with its queue, cached bundle, lease counts; acquire, release, close, reconnect, eviction; cancellation at every suspension |
| `McpPool` | `tools/mcp_client.py` | pool state, free and active sessions, lock and binding of each session, condition waiters; query, connect, reconnect, close |
| `RuntimeShutdown` | `application_runtime.py`, `task_registry.py`, `graph.aclose_runtime_resources` | tracked streams, untracked host jobs, stages of a close with its deadlines; leases and pool only as the shutdown sees them |
| `AssessGraph` | `workflows/assessment.py`, `hitl.py`, `finalize.py`, `builder.py`, result identity, evidence directory | one LangGraph thread per host: node, checkpointed state, workers inside the assess node, `finding.json`; replies, cancellations, crashes, fatal write errors |
| `Intake`, `ChatRouting` | `workflows/intake.py`, `intake.py`, `domain/audit_request.py`, `api/openai_compat.py`, `hitl.py` | the intake node as a walk over the replies recorded so far, entered again from the start for each reply; `PLAN.md`, run rows and the state persisted by the node; routing by marker, by pointer or as a new intake; retries of a turn, failing model calls, crashes |
| `ResultsStore`, `FollowUp` | `results_store.py`; `followup.py`, the writes of `workflows/assessment.py`, `hitl.py`, `finalize.py`, `evidence_store.py` | warehouse tables as functions of session, host and requirement, a call as one transaction; jobs with workers, follow-ups step by step between awaits, disk first and warehouse second; lost calls, refused transactions, cancellations, crashes, a replaced database |
| `Applicability`, `Collectors`, `ToolPolicy`, `Selection`, `DiscoveryPlan` | `domain/applicability.py`; `inventory/collectors.py`, `normalize.py`, `discovery.py`, `detect.py`; `tool_registry.py`, `tools/ssh_policy.py`; `inventory/dynamic_select.py`; `inventory/framework_candidates.py`, `discovery_plan.py` | operators without state: three-valued evaluation, a probe as a sequence of commands that answer or fail, reconciliation of declared and discovered facts, authorized tools and hashes, variants and targets, merged steps of a discovery plan |
| `Inventory` | `inventory/service.py`, `plan.py`, `preflight.py`, `application_runtime.py`, `workflows/tool_execution.py` | composes the five: an analysis probes host by host and publishes a plan, which is confirmed, started and worked under a policy, while rows, catalog and tool files are edited and the process restarts |
| `PlanStore` | `inventory/plan_store.py`, `service.py`, `plan.py`, `preflight.py`, `api/inventory_routes.py`, `cli.py` | files of one client and concurrent processes under one `flock`; publication file by file, rollback, checks, decision, start; failing writes and deaths |

`MultiRunner` treats what happens inside a thread as the choice of an outcome;
`AssessGraph` opens it up, and `FollowUp` looks at the same jobs as writers of
verdicts.  `PlanStore` is about the files of a plan whose content is one value,
`Inventory` about that content.  `RuntimeShutdown` likewise looks at leases and pool
from outside.  A definition whose comment begins with `Faulty:` is a variant of
a definition below it with a plausible mistake; no specification uses them.
`PROJECT.json` names for each property the variant that breaks it: it shows that
the property depends on that piece of the code.

## Runs

| run | bounds | distinct states | shows |
|---|---|---|---|
| `registry` | a mandatory and an optional task, 3 attempts | 31,360 | the inductive invariant of the proofs, and the tables implement `RunLifecycle` |
| `queue` | 4 jobs on 3 hosts, 3 at a time, 3 pauses or failures, fair | 115,400 | one job per host in a turn, no job and no section of the report lost, nothing left behind, the run closes |
| `queue_faults` | 2 jobs, 2 turns at once, 1 stop, 1 cancellation or crash | 2,349,593 | no verdict without the reports behind it; the registry is used by its rules |
| `leases` | 3 coroutines, 1 death of the connection, 1 cancellation, fair | 62,436 | leases counted, one connection, never closed under a user, nobody waits for ever |
| `pool` | 2 sessions, 2 queries and a connect for two targets, a reconnect, a close, 1 cancellation, fair | 310,163 | sessions accounted for, no lost wake-up, bound to the caller, closed means drained and down, waiters served |
| `shutdown` | 2 streams, 2 host jobs, any number of deadlines, fair | 40,270 | nothing closed under its user, no cancelled task forgotten, the shutdown ends |
| `assess` | 1 host, 2 requirements, 1 reconnect, 2 replies, 2 faults, fair | 240,174 | ids stay, no silent failure, disk agrees with the report, verdicts are kept, every invocation ends |
| `plan` | 2 processes, 2 inventories, 2 findings, 3 operations, 1 change, 2 failing writes, 1 death | 338,521 | revisions are whole, views agree, decisions are kept and current |
| `chat` | 1 chat, 2 intakes, 2 jobs, 5 messages, 3 faults (edit, failing call, crash) | 3.4 million | one run and one discovery per intake; what starts was shown and confirmed |
| `stores` | 2 runs, 2 hosts, 1 requirement, 2 writes of a finding, 2 events (follow-up, lost call, crash, cancellation, reset) | 1.5 million | verdicts stay in their run, the disk stays ahead, listed aggregates add up, ids are kept |
| `discovery` | 2 hosts (declared or not, with and without PostgreSQL), 2 catalogs, 3 sets of tool files, 2 analyses (one may be the refresh of a start), 2 mishaps (edit, disturbed probe, failing write, crash) | 106,961 | PostgreSQL is audited where it runs, every gap is planned, verdicts are stable, one variant per family, snapshots and pins agree, what starts is current |
| `resume_target` | 2 hosts, 1 reply | finding | see below |

The bounds let each hard case happen at least once together with another: a
third job competes for a busy host while two others are paused; the one crash or
cancellation may fall at every step, also on what an earlier failure left; a third
operation on the plans can publish between the check and the write of the second,
which works on what the first has published; five messages take an intake through
client, access and a trimmed plan to its confirmation; two follow-ups meet a
job at any of its steps, or one meets it and a crash; a probe is disturbed from any command to any
other while a file is edited or a snapshot is not written, and the second analysis sees
what the first left.
`queue_faults`, `chat`, `stores` and `plan` reduce by symmetry (turns; chats, threads
and jobs; hosts; processes, inventories, findings); no run with a liveness property
does.  `TypeOK` predicates are conjuncts of one invariant of a module and so
are checked with it.

Deadlock is checked except in `pool` and `shutdown`, where each coroutine performs
one operation and the system ends, and in `stores` and `discovery`, where the jobs
and commands of the instance run out.

## Fairness

* `MultiRunner`: the event loop runs every coroutine that is ready (weak fairness
  of a turn).  Strong fairness of answering and continuing is the operator's: a
  thread that waits is answered in the end.  Without an operator a paused run
  stays paused, which is intended.
* `CheckpointLeases`, `McpPool`: the event loop; uses and calls end, since every
  call has a timeout.
* `RuntimeShutdown`: the loop; work ends after its cancellation or by itself; the
  owner of the runtime calls `close` again while it is closing.
* `Intake`, `ResultsStore`, `FollowUp`, `Inventory`, `PlanStore`: safety only, no
  fairness; nothing in them goes on without the operator.
* `AssessGraph`: tools and model calls have timeouts, so every step of a thread is
  taken.

## Findings

* `resume_target` (`runner.py:573`, also 876, 1027, 1053): a resumed thread binds
  the client's default SSH target, not that of its job.  A requirement retried on
  another host is assessed on the first host and recorded for the other.

## Known exceptions

Expectations of docs or docstrings which the code meets only under the
restrictions of the runs above.  Those of the table can be reproduced by a change
of a cfg.

| expectation | where it fails | how to see it |
|---|---|---|
| session state on disk lets an audit be resumed after a restart (`session_store.py:3`) | a session saved at launch lists the pending jobs and no siblings (`multi_runner.py:85`), and `aresume` never reloads `session.json`, only `acontinue` does (`runner.py:826`, `multi_runner.py:798`): jobs in flight beside the continued one belong to no queue, and the run is closed with their attempts open | `NothingLeftBehind` in `MCMultiRunnerFaults.cfg` with `Tasks <- ThreeTasks`, `Turns = {c1}` |
| a completed run's combined report has every section (`multi_runner.py:575`) | a second turn finalizes while the first has not merged its section; after a crash it stays so | `VerdictBacked` with "every reported task is in `root`" for completed runs, in `MCMultiRunnerFaults.cfg` |
| host-exclusive scheduling (`multi_runner.py:62-64`) | `busy_hosts` is a local variable of a turn (`multi_runner.py:83`): two turns on one run do not know each other's hosts | `HostExclusiveAcrossTurns` in `MCMultiRunnerFaults.cfg` |
| a continued run closes (`audit_models.py:64`) | a cancelled run resumed by `acontinue` is not finalized (`multi_runner.py:757`, `runner.py:773`) | `RunCloses` as the only property, with `MaxFaults = 1`, `MaxAttempt = 2`, `Tasks <- TwoTasks` in `MCMultiRunner.cfg` |
| a lease is always given back (`runner.py:1412`) | a cancellation that hits the release in `finally` loses it (`runner.py:1424`) | `FinalCancels = 1` in `MCCheckpointLeases.cfg` |
| a closed pool has no subprocess (`mcp_client.py:437-441`) | `close` does not wait for a reconnect (`mcp_client.py:481`), and a close cancelled after the drain is not taken up again | drop the exceptions from `ClosedIsDown` |
| a query runs on its caller's database (`mcp_client.py:200-202`) | `connect_db` on a pooled session changes the database for the next borrower (`mcp_client.py:619`) | `OwnDatabase` in `MCMcpPool.cfg` |
| nothing holds a lease once the runtime has stopped (`application_runtime.py:177`) | host jobs are tracked nowhere and outlive their stream (`multi_runner.py:210`) | `StoppedHasNoLease` in `MCRuntimeShutdown.cfg` |
| a runtime that is closing takes no work (`application_runtime.py:94`) | a request that passed `require_open` creates its task later (`openai_compat.py:1196`) | `NoWorkWhileClosing` as a PROPERTY of `MCRuntimeShutdown.cfg` |
| findings lie in their host's directory (`evidence_store.py:58`) | `aresume` does not bind the host segment (`runner.py:573`) | `OwnDirectory` in `MCResumeTarget.cfg`; with `MaxReplies = 0` it holds |
| assessment "does **not** start until the operator explicitly **confirms**" (`docs/pre-audit-intake.md:99`) | one failed model call, or one retry of a turn (`openai_compat.py:775`), and an answer about access is asked for again; on the replay the second "yes" is taken by the scope question and confirms a plan that was never shown (`workflows/intake.py:331`, `587`) | `ConfirmedAtScope` in `MCChatRouting.cfg` |
| `absent` means that "discovery succeeded with no evidence of the technology" (`inventory/detect.py:23`) | a host whose OS family is known and whose PostgreSQL commands all timed out or were denied is `absent`, and the PostgreSQL framework is not selected (`inventory/detect.py:155`) | `AbsentIsSeen` in `MCInventory.cfg` |
| the synchronization "ensures snapshot technology statuses match framework-selection evidence" (`tool_discovery.py:404-408`) | a failure in its loop ends it and is passed over (`inventory/service.py:195-206`): the plan is published, the snapshots of the remaining hosts stay as older analyses or the probe left them | `SnapshotsAgree` for all hosts instead of `plan.synced`, in `MCInventory.cfg` |
| an invocation is rejected when the pinned hashes "diverge from the live registry" (`tool_execution.py:45`) | nothing writes the pins to the meta data of a run, so after a restart it goes on under an edited policy | `RunsPinnedPolicy` without `~run.restarted` in `MCInventory.cfg` |

Of the plans: a rejected revision can be confirmed and started afterwards, since a
plan is always loaded from its immutable revision, where it is a draft; excluded
hosts live in `latest.json` only and are not excluded by a start (a comment of
`inventory_routes.py` announces derived revisions for that); and an analysis that
began earlier and ends later becomes the latest.  The model allows all three; no
property forbids them.

Of chat and intake: the plan that a confirmation starts is read from `PLAN.md` again
and may have changed since it was shown; a trim whose reply was not recorded because
of a crash takes effect unseen; an old `[AUDIT_INTAKE:...]` marker starts the
frameworks of its intake again; `.active_intake.json` is shared by all chats and may
stay on an intake that has ended; an intake without a plan closes its run as
completed without an assessment, where `docs/pre-audit-intake.md:103` promises a
choice of domains; a crash between `create_run` and `mark_run_started` leaves a
pending run that no code looks for.

Of the stores: a refill always gets a new `result_id`
(`followup.py:548-575`), so the warehouse refuses it and the transaction of the next
`update_report` fails as a whole, although `docs/results-database.md` lists both as
sources; the refill takes the asset of the run's last writer; a refill while the
thread is paused makes the thread fail with a duplicate key; `revise` in its full
mode always fails, since the cells are filled without a state
(`docs/owui-slash-commands.md:90`); `update_report` beside a live job records stale
aggregates and completes the session, as does the first of several jobs to finalize;
an operator's skip is in the thread's state only, so a report rebuilt from disk has
the error again; `continue` writes a status it read earlier
(`results_store.py:2980-2993`).  `ListsAgree` and `CellKept` are stated so that they
hold beside these.

Of the inventory: a macOS host is taken for a Windows host ("win" occurs in
"darwin"); an address that matches a credential row without a secret beats an id that
matches one with a secret; a policy edited between the start of the process and its
first use is cached although the tools were bound under the older one; WinRM hosts
only have the snapshot that the inventory writes; a crash in an analysis leaves
snapshots that are newer than the plan; an audit started with `refresh_discovery` is
compared with the inventory file before the new analysis and not after it
(`inventory/service.py:524-553`), so that an edit in between is not seen;
a preflight that cannot be recorded (`inventory/service.py:224-232`) leaves the one
before it, by which the newest plan is refused as stale, or a file cut short, which
a confirmation takes for none.

## Hazards without a property

Listed here because the project states no property about them: two turns that work on
one host (`multi_runner.py:83`: no code prevents it, see the table); an analysis that
began earlier and becomes the latest (`inventory/service.py:150`: nothing forbids it);
of others only a part is covered, as the notes in `PROJECT.json` say (a session left
stale by a crash, a cancelled run that is continued, a PostgreSQL missed because its own
commands failed, snapshots beyond a failed write); two processes that
insert the same attempt (`audit_registry.py:437`: one process serves one database);
host jobs no registry tracks and requests accepted just before a shutdown
(`multi_runner.py:210`, `openai_compat.py:1196`: see the table); the gate's second
question, whose first reply is interpreted again on replay (`workflows/hitl.py:109`:
replies of the gate are chosen as interpreted decisions); a thread continued from
files without a checkpoint (`runner.py:938`); `preflight/latest.json` rewritten
outside the lock (`preflight.py:204`: both readers are modelled, nothing is promised);
numbers of tool logs counted per `EvidenceStore` object (`evidence_store.py:750`);
`meta.json` rewritten in place (`evidence_store.py:659`); a crash in `rebind_run_id`
(`evidence_store.py:212`); playbooks replaced by DELETE and INSERT
(`results_store.py:2127`).

## Proofs

Checked by TLAPS for every value of the constants that the assumptions of the
modules admit.  Each safety property rests on an inductive invariant, which TLC has
checked on the instance of the run; a proof shows that it holds at first, that every
action keeps it (a lemma per action or group of actions, preceded by lemmas on which
actions change which variable at all), and that it implies the property.

`MultiRunnerProofs`, first part, on the registry alone (`MaxAttempt` is a positive
number): `RegistryInv`, which the run checks too, with its parts `RegistryTypeOK`,
`OneOpenAttempt` and `TimestampsAgree`, and the action properties `ClosedRunFinal` and
`OutcomeFinal`.  None of the parts is inductive alone: whether a retry leaves
one open attempt needs the numbering of the attempts, whether a resumption clears
the right fields needs the types.  `NextStep` proves the conjunction and, in the same
pass, that no step rewrites an outcome, one case per method.  Then
`RegistrySpec => ImplementsLifecycle`: the mapping takes the status of the run and,
per task, the worth of its latest attempt.  A call on a superseded attempt is a
stuttering step, which needs `OutcomeFinal` and the numbering from `RegistryInv`; a
finalization is the abstract closing with the verdict of the latest attempts.

Second part, on the runner.  For any turns, cancellations and crashes: every step is a
legal call of the registry (`CallsRegistry`), so that all of the first part holds of
runs, and a run is closed as completed only with its reports (`VerdictBacked`).
`RunnerInv` adds that each attempt a worker reports for is that of a row, and that
rows come before everything else.  `VerdictsBacked` assumes `Optional = {}`: the
runner creates every job as mandatory (`multi_runner.py:145`, 155, 488).  Of each turn
at most one job per host is under way (`HostExclusive`), also for any turns,
cancellations and crashes.  For a chat
whose turns follow each other (`Turns = {chat}`), and until the process dies (`crashes = 0`): no job is lost
(`TasksAccounted`) and a closed run leaves nothing (`NothingLeftBehind`).  These
hypotheses are those of the run `queue`; without them the properties fail (see the
table above).  `QueueInv` says that the sessions of paused and stopped threads agree
on what is completed and what remains (`SessionsAgree`), and that those that wait, what
is completed and what remains are all tasks.

`PlanStoreProofs` (assumes that bounds are natural numbers and that `None` and
`Bad` differ): `PointerPublished`, `ViewsAgree`, `DecisionKept` and
`DecidesCurrent` for any number of processes, operations, failing writes and
deaths.  The inductive invariant `PlanInv` adds who has the lock (`LockOK`: one
publisher), what an operation has in hand at each place (`OpOK`: a revision that
exists before it is published, remembered files that named revisions), and how far
a publication has come (`StageOK`: which files are new and that the rest, with the
memory, is what the files were).  The last part is what makes a rollback restore an
agreement and a decision.  Steps of processes that do not publish share the lemma
`Quiet`, those of the publisher `PublisherGoes` and `PublisherLeaves`.

`InventoryProofs` (every row of the inventory is that of a host, and ids of frameworks
are ordered, as Python orders strings).  A definite verdict on a framework, with or
without its required facts, is the same with any further facts, for every
specification and all facts, as long as no value of the wrong type comes with them
(`DefiniteIsKept`, `RequiredIsKept`).  It follows from what a group can lose when facts
are added: only results "missing_evidence" (`ResultStays`, `CompleteStays`), on which
no definite result of a group rests (`GroupStays`); `DefiniteStays` follows.  Of the
commands: `InventoryInv` says that the registry of the process is the one the audit is
pinned to until a restart (`PolicyInForce`), and that a revision is what its rows,
answers and catalog make of it (`PlansMade`), which with the check at the start gives
`StartedIsCurrent` and `RunsPinnedPolicy`.  `SnapshotsAgree` is a conjunct: what a
publication leaves on the hosts it reached, however its writes end, later edits and
starts leave alone, and the next publication replaces the plan with the snapshots.
`OneVariant`: frameworks of one family that pass the checks have the same scope, so
that the choice for a host is a minimum of one set, which exists because the order of
ids is well-founded.

`RuntimeProofs`, first part, on the checkpointer of a run (finitely many coroutines):
`NoUseAfterClose` whatever is cancelled, and `LeaseCount` while no release is cancelled
at its lock (`FinalCancels = 0`; else a lease is lost, see the table).  That a bundle
may be closed when its count is zero needs that the count is never too small
(`Counted`), and that what was true when the close began still is when SQLite has
answered needs that the coroutine has the lock all the while (`AloneInside`).

Second part, on the shutdown (no assumptions): `NeverUnderWork` for any number of
streams, host jobs, deadlines and renewed closes.  The inductive invariant `ShutInv`
adds why it holds: whoever opens the bundle is alone and finds none there, until the
scope's locks are forgotten with the graph (`OpeningAlone`), the bundle is marked
exactly while a close is past the leases (`ScopeIsClosing`), which is before the graph
is gone (`ClosingHasGraph`), sessions are in the hands of those with a lease (`BorrowersLease`), a cancelled task is
registered or done (`CancelledAccounted`).

`McpPoolProofs` (any coroutines, sessions, targets and cancellations):
`SessionsAccounted`, `BoundToCaller` and `ClosedIsDown`.  What is in `_active` is what
somebody is about (`ActiveBorrowed`), who is inside the lock of a session is alone there
(`LockAlone`), and a close that took the sessions out still has those before it that are
not down (`CloseGoesOn`).

`AssessGraphProofs` (finitely many hosts, requirements that the code can sort).  For any
hosts: `NoSilentError`, from `GraphInv`, which says of every node what the state that is
checkpointed before it is like (`StateOK`: settled requirements, failures only before the
gate, retries left before a reconnection) and that workers are those of the pending
requirements (`WorkersOK`).  `IdsAgree`, `DiskAgrees` and `VerdictKept` are proved for
threads that write to their own directories (`KeptApart`): the run has one host, whatever
happens to it, or several of which none is cut off or resumed.  The condition is what the
code gives: TLC finds `IdsAgree` violated with two hosts after a crash, and `DiskAgrees`
after a reply, because a resumed thread writes where the last node of any thread has
pointed the store (the `OwnDirectory` row of the table above).  `HomeInv` relates, per
requirement, what is on disk to what the state, the workers and the orphans hold
(`FactsOK`); that a fresh id exists counts the files (`FreshIsId`); that undisturbed
threads stay in the context of `arun_one` needs that no merge is refused (`NoConflict`).

`ChatRoutingProofs` (any chats, threads, jobs, messages and faults): `OneRunPerIntake`,
`DiscoveredOnce` and `ConfirmedIsShown`.  `ChatInv` has, per thread, what the evidence
says of the progress (`Saved`, `Probed`, `Ended`), and runs of different threads
(`RunsDiffer`).  `ConfirmedIsShown` is about replays: the node enters again from the
start with all replies so far, and must end with the plan that was shown.  `Trace`
gives the plan after each reply, as a function whose existence is part of the
invariant: each reply extends it by a value, so that no induction over the replies is
needed.  `Settled` says that the shown plan is its last value and that a replay from
there is on the trace or already at its end (`Agrees`): leaving out jobs a second time
leaves them out, and whatever stands before the last table does not matter.

`FollowUpProofs` (finitely many runs, hosts and requirements; run ids are UUIDs, and at
most one run is older than they are): `OwnSession`, `NeverAhead`, `ListsAgree` and
`CellKept` for any jobs, follow-ups, lost calls, cancellations, crashes and resets.
`StoresInv` says that a call that found its session found its run's and only the old
run adopts one (`SessionsOK`), and that each finding a thread holds, a call carries, a
follow-up has loaded or a cell stores is that of `finding.json` or an older one of it
(`ThreadsOK`, `CallsOK`, `LoadedOK`, `CellsOK`).  A thread has a finding for every
requirement without a worker, so that the cells of a finalization are as many as it
counts.

Only model-checked: of `Inventory`, what is audited and what is planned for
(`PostgresIsAudited`, `EveryGapPlanned`), which are claims on the given commands and
catalogs; the queue of `MultiRunner` after a crash; and all liveness, which needs
fairness and `ENABLED` and is out of the prover's reach.

## Not modelled

Wording, formatting and parsing (inventories, checklists, command output, LLM
prompts, the grammar of shell commands); HTTP and SSH; reporting queries and schema
migrations of the warehouse; playbooks; archives and the text of reports; clients,
assets, secrets and settings, which are files the operator edits; the chat front end
under `openwebui/`.  Inside the modelled parts: a cancellation inside
`_release` of the pool; `release_run_resources` (used by tests only); the disk
fallback of `acontinue` without a checkpoint; two concurrent invocations of one
thread, also of an intake; a start without a revision id or with an already confirmed
plan (no command makes one); the older selection by
technology preferences; ad-hoc commands; the deterministic audits of `workflows/assessment.py`
(156-194), which are one more source of an answer; the cancellation of a turn by a client
that disconnects (`openai_compat.py:1199` shields the turn from it); what a reply or a probe says is a free choice
among what the code tells apart.

## Plan

1. Proofs: `EveryGapPlanned` and `PostgresIsAudited` of `Inventory`, for the catalogs in
   which they hold; the queue of `MultiRunner` after a crash.
2. The gate's dialogue with its replays, as `Intake` does it for the intake, and the
   disk fallback of `acontinue`, composed with `FollowUp`.
3. The arithmetic of compliance scores against a reference definition.
