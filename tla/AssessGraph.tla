---------------------------- MODULE AssessGraph ----------------------------
(***************************************************************************)
(* The assessment graph (workflows/assessment.py, hitl.py, finalize.py,    *)
(* discovery.load_framework and collect_host_facts, and the entry points   *)
(* arun_one, aresume and acontinue of workflows/runner.py).                *)
(*                                                                         *)
(* One thread per host works through the requirements Reqs of one          *)
(* framework:                                                              *)
(*                                                                         *)
(*   load -> facts -> assess -> reconnect -> assess                        *)
(*                           -> human_gate -> assess | human_gate          *)
(*                           -> finalize                                   *)
(*                                                                         *)
(* LangGraph checkpoints the state st[h] and the next node[h] between      *)
(* nodes.  Inside assess one worker per pending requirement gathers        *)
(* evidence and writes finding.json; the findings reach the state only     *)
(* when every worker is done.  All hosts of a run share one EvidenceStore, *)
(* whose directory is chosen by a context variable bound by arun_one or,   *)
(* where that is unbound, by the store's mutable host_segment.             *)
(*                                                                         *)
(* A finding is [id, status, asset, seen]: its result_id, its status       *)
(* ("ok" for every verdict, "error", "transport" for an error that looks   *)
(* like a dead session, "skipped"), the host in its logical key, and the   *)
(* host whose credentials the tools used.                                  *)
(***************************************************************************)
EXTENDS Integers, FiniteSets, Sequences, FiniteSetsExt

CONSTANTS
    Hosts,          \* the hosts of the run, one thread each
    Default,        \* the host whose row the client's credentials resolve to
    Reqs,           \* requirement ids, as numbers: the code sorts them
    HitlEnabled,    \* settings.hitl_enabled
    MaxParallel,    \* settings.max_parallel_assessments
    MaxRetries,     \* settings.max_session_retries
    MaxReplies,     \* bound: replies of the operator
    MaxFaults       \* bound: crashes, cancellations and fatal write errors

ASSUME AssessAssumption ==
    /\ Default \in Hosts /\ IsFiniteSet(Hosts)
    /\ Reqs \subseteq Nat /\ IsFiniteSet(Reqs) /\ Reqs # {}
    /\ HitlEnabled \in BOOLEAN
    /\ MaxParallel \in Nat \ {0}
    /\ {MaxRetries, MaxReplies, MaxFaults} \subseteq Nat

VARIABLES
    inv,        \* "none", "run" (a coroutine drives it), "paused", "stopped", "done"
    node,       \* the node the checkpoint says comes next
    st,         \* the checkpointed state of the graph
    bound,      \* TRUE while the invocation runs under arun_one's context
    worker,     \* worker[h][r]: the worker of the running assess node
    orphans,    \* <<h, r, context>>: workers that outlived their node
    seg,        \* EvidenceStore.host_segment of the shared store
    disk,       \* disk[h][r]: finding.json in the directory of host h
    late,       \* <<h, r>>: findings on disk last written by an orphan
    asked,      \* asked[h]: the replies LangGraph replays into human_gate
    replies, faults

vars == <<inv, node, st, bound, worker, orphans, seg, disk, late, asked, replies, faults>>

None    == [id |-> 0, status |-> "none"]
NoHost  == "none"
Errors  == {"error", "transport"}
Actions == {"skip", "retry", "skip_all", "retry_all"}
Ids     == 1 .. (Cardinality(Hosts) * Cardinality(Reqs) + 2)

Findings == {None} \cup [id : Ids, status : {"ok", "skipped"} \cup Errors,
                         asset : Hosts, seen : Hosts]

AssessTypeOK ==
    /\ inv \in [Hosts -> {"none", "run", "paused", "stopped", "done"}]
    /\ node \in [Hosts -> {"load", "facts", "assess", "reconnect", "human_gate", "finalize", "end"}]
    /\ \A h \in Hosts : /\ \A r \in Reqs : st[h].findings[r] \in Findings
                        /\ st[h].pending \subseteq Reqs
                        /\ st[h].retry \in 0 .. MaxRetries
                        /\ st[h].skipped \subseteq Reqs
    /\ bound \in [Hosts -> BOOLEAN]
    /\ \A h \in Hosts, r \in Reqs : /\ worker[h][r].at \in {"none", "ready", "busy", "stored", "done"}
                                    /\ worker[h][r].result \in Findings
                                    /\ disk[h][r] \in Findings
    /\ orphans \subseteq Hosts \X Reqs \X BOOLEAN
    /\ seg \in Hosts \cup {NoHost}
    /\ late \subseteq Hosts \X Reqs
    /\ \A h \in Hosts : asked[h] \in {<<>>} \cup {<<w>> : w \in Actions \cup {"vague"}}
    /\ replies \in 0 .. MaxReplies /\ faults \in 0 .. MaxFaults

NoWorker  == [at |-> "none", result |-> None]
NoWorkers == [r \in Reqs |-> NoWorker]

Init ==
    /\ inv = [h \in Hosts |-> "none"]
    /\ node = [h \in Hosts |-> "load"]
    /\ st = [h \in Hosts |-> [findings |-> [r \in Reqs |-> None], pending |-> {},
                              retry |-> 0, skipped |-> {}]]
    /\ bound = [h \in Hosts |-> FALSE]
    /\ worker = [h \in Hosts |-> NoWorkers]
    /\ orphans = {}
    /\ seg = NoHost
    /\ disk = [h \in Hosts |-> [r \in Reqs |-> None]]
    /\ late = {}
    /\ asked = [h \in Hosts |-> <<>>]
    /\ replies = 0 /\ faults = 0

-----------------------------------------------------------------------------
(* What a coroutine sees of its surroundings. *)

\* effective_host_segment: the context variable, else the store's attribute.
Dir(h, ctx) == IF ctx THEN h ELSE seg

\* target_scope: arun_one binds the job's own SSH target; aresume and
\* acontinue bind the client's credentials and no target.
Target(h, ctx) == IF ctx THEN h ELSE Default

\* new_result_id: an id that occurs nowhere.
UsedIds == {disk[h][r].id : h \in Hosts, r \in Reqs}
           \cup {st[h].findings[r].id : h \in Hosts, r \in Reqs}
           \cup {worker[h][r].result.id : h \in Hosts, r \in Reqs}
FreshId == Min(Ids \ UsedIds)

\* Faulty: the finding on disk is ignored.
BoundIdNew(d, r) == FreshId

\* _bind_finding and attach_result_identity: the id of the finding already
\* on disk is kept, else a new one is given out.
BoundId(d, r) == IF disk[d][r] # None THEN disk[d][r].id ELSE FreshId

\* The finding a worker of h stores for r: bound and written in one stretch
\* of code without an await, after gathering and the model have answered.  For two
\* requirements of the IT audit the verdict comes from the files of the intake instead
\* (deterministic_it_audit_finding), without an await before it is stored; seen then
\* says nothing.
Filled(h, r, ctx, status) ==
    [id |-> BoundId(Dir(h, ctx), r), status |-> status, asset |-> h, seen |-> Target(h, ctx)]

-----------------------------------------------------------------------------
(* The routers and the reducer. *)

\* _is_recoverable_finding
Recoverable(f) == f.status = "transport"

\* _hitl_candidates
Candidates(s) == {r \in Reqs : s.findings[r].status \in Errors /\ r \notin s.skipped}

\* Faulty: the gate is asked only about recoverable failures.
GateOnlyRecoverable(s) ==
    IF s.pending # {} /\ s.retry < MaxRetries THEN "reconnect"
    ELSE IF HitlEnabled /\ s.pending # {} THEN "human_gate"
    ELSE "finalize"

route_after_assess(s) ==
    IF s.pending # {} /\ s.retry < MaxRetries THEN "reconnect"
    ELSE IF HitlEnabled /\ Candidates(s) # {} THEN "human_gate"
    ELSE "finalize"

route_after_hitl(s) ==
    IF s.pending # {} THEN "assess"
    ELSE IF HitlEnabled /\ Candidates(s) # {} THEN "human_gate"
    ELSE "finalize"

\* merge_result_maps refuses a second id for a requirement the map knows.
Conflict(known, new) == \E r \in Reqs : /\ known[r] # None /\ new[r] # None
                                        /\ known[r].id # new[r].id
Merge(known, new) == [r \in Reqs |-> IF new[r] = None THEN known[r] ELSE new[r]]

\* A node of h returns the state s: it is checkpointed with the next node.
Return(h, s, next) ==
    /\ st' = [st EXCEPT ![h] = s]
    /\ node' = [node EXCEPT ![h] = next]

\* A node of h raises: the checkpoint stays where it is.
Raise(h) ==
    /\ inv' = [inv EXCEPT ![h] = "stopped"]
    /\ UNCHANGED <<st, node>>

At(h, n) == inv[h] = "run" /\ node[h] = n

-----------------------------------------------------------------------------
(* Entry points. *)

\* arun_one: a new thread, or a job of the queue run once more on its thread.
\* The graph starts from its entry with a fresh retry count and skip list;
\* the reducer keeps the findings the thread already had.
Start(h) ==
    /\ inv[h] \in {"none", "stopped"}
    /\ inv' = [inv EXCEPT ![h] = "run"]
    /\ bound' = [bound EXCEPT ![h] = TRUE]
    /\ seg' = h
    /\ node' = [node EXCEPT ![h] = "load"]
    /\ st' = [st EXCEPT ![h].retry = 0, ![h].skipped = {}]
    /\ UNCHANGED <<worker, orphans, disk, late, asked, replies, faults>>

\* aresume and acontinue invoke the graph without arun_one's context.
Invoke(h) ==
    /\ inv' = [inv EXCEPT ![h] = "run"]
    /\ bound' = [bound EXCEPT ![h] = FALSE]

\* acontinue of a thread that stopped between two checkpoints.
Continue(h) ==
    /\ inv[h] = "stopped"
    /\ Invoke(h)
    /\ UNCHANGED <<node, st, worker, orphans, seg, disk, late, asked, replies, faults>>

-----------------------------------------------------------------------------
(* Nodes before the assessment. *)

\* load_framework reuses every finding on disk, whatever its status.
load_framework(h) ==
    /\ At(h, "load")
    /\ seg' = h
    /\ LET found == disk[h]
           s     == [st[h] EXCEPT !.findings = Merge(@, found),
                                  !.pending = {r \in Reqs : found[r] = None}]
       IN IF Conflict(st[h].findings, found)
          THEN Raise(h)
          ELSE Return(h, s, "facts") /\ inv' = inv
    /\ UNCHANGED <<bound, worker, orphans, disk, late, asked, replies, faults>>

\* collect_host_facts: only its assignments to host_segment matter here.
collect_host_facts(h) ==
    /\ At(h, "facts")
    /\ seg' = h
    /\ Return(h, st[h], "assess")
    /\ UNCHANGED <<inv, bound, worker, orphans, disk, late, asked, replies, faults>>

-----------------------------------------------------------------------------
(* assess_parallel *)

Working(h) == {r \in Reqs : worker[h][r].at # "none"}

\* Nothing pending: the node returns at once.
AssessNothing(h) ==
    /\ At(h, "assess") /\ st[h].pending = {}
    /\ Return(h, st[h], route_after_assess(st[h]))
    /\ UNCHANGED <<inv, bound, worker, orphans, seg, disk, late, asked, replies, faults>>

\* One task per pending requirement.
AssessBegin(h) ==
    /\ At(h, "assess") /\ st[h].pending # {} /\ Working(h) = {}
    /\ seg' = h
    /\ worker' = [worker EXCEPT ![h] = [r \in Reqs |->
                     IF r \in st[h].pending THEN [NoWorker EXCEPT !.at = "ready"] ELSE NoWorker]]
    /\ UNCHANGED <<inv, node, st, bound, orphans, disk, late, asked, replies, faults>>

\* async with sem
WorkerStart(h, r) ==
    /\ worker[h][r].at = "ready"
    /\ Cardinality({q \in Reqs : worker[h][q].at \in {"busy", "stored"}}) < MaxParallel
    /\ worker' = [worker EXCEPT ![h][r].at = "busy"]
    /\ UNCHANGED <<inv, node, st, bound, orphans, seg, disk, late, asked, replies, faults>>

\* Faulty: a finding already on disk is not written again.
WorkerStoreOnce(h, r, status) ==
    /\ worker[h][r].at = "busy"
    /\ LET f == Filled(h, r, bound[h], status)
           d == Dir(h, bound[h])
       IN /\ disk' = [disk EXCEPT ![d][r] = IF @ = None THEN f ELSE @]
          /\ late' = late \ {<<d, r>>}
          /\ worker' = [worker EXCEPT ![h][r] = [at |-> "stored", result |-> f]]
    /\ UNCHANGED <<inv, node, st, bound, orphans, seg, asked, replies, faults>>

\* The evidence is in, or gathering it raised, or none is needed: the finding is written.
WorkerStore(h, r, status) ==
    /\ worker[h][r].at = "busy"
    /\ LET f == Filled(h, r, bound[h], status)
           d == Dir(h, bound[h])
       IN /\ disk' = [disk EXCEPT ![d][r] = f]
          /\ late' = late \ {<<d, r>>}
          /\ worker' = [worker EXCEPT ![h][r] = [at |-> "stored", result |-> f]]
    /\ UNCHANGED <<inv, node, st, bound, orphans, seg, asked, replies, faults>>

\* warehouse_live_upsert returned; the semaphore is released.
WorkerDone(h, r) ==
    /\ worker[h][r].at = "stored"
    /\ worker' = [worker EXCEPT ![h][r].at = "done"]
    /\ UNCHANGED <<inv, node, st, bound, orphans, seg, disk, late, asked, replies, faults>>

\* Every worker returned: merge the findings, keep the recoverable ones pending.
AssessEnd(h) ==
    /\ At(h, "assess") /\ Working(h) # {}
    /\ \A r \in Working(h) : worker[h][r].at = "done"
    /\ LET new == [r \in Reqs |-> worker[h][r].result]
           s   == [st[h] EXCEPT !.findings = Merge(@, new),
                                !.pending = {r \in Reqs : Recoverable(new[r])}]
       IN IF Conflict(st[h].findings, new)
          THEN Raise(h)
          ELSE Return(h, s, route_after_assess(s)) /\ inv' = inv
    /\ worker' = [worker EXCEPT ![h] = NoWorkers]
    /\ UNCHANGED <<bound, orphans, seg, disk, late, asked, replies, faults>>

\* Faulty: the attempt is not counted.
ReconnectUncounted(h) ==
    /\ At(h, "reconnect")
    /\ Return(h, st[h], "assess")
    /\ UNCHANGED <<inv, bound, worker, orphans, seg, disk, late, asked, replies, faults>>

reconnect_session(h) ==
    /\ At(h, "reconnect")
    /\ Return(h, [st[h] EXCEPT !.retry = @ + 1], "assess")
    /\ UNCHANGED <<inv, bound, worker, orphans, seg, disk, late, asked, replies, faults>>

-----------------------------------------------------------------------------
(* human_gate *)

\* interrupt(payload): the invocation ends, the thread waits for the operator.
GatePause(h) ==
    /\ At(h, "human_gate")
    /\ inv' = [inv EXCEPT ![h] = "paused"]
    /\ UNCHANGED <<node, st, bound, worker, orphans, seg, disk, late, asked, replies, faults>>

\* parse_hitl_decision: the keywords; any other text is "vague" here.
Parsed(raw) == IF raw \in Actions THEN raw ELSE "unknown"

\* interpret_hitl_decision: what was not parsed is the model's guess.
Meaning(raw) == IF Parsed(raw) # "unknown" THEN {Parsed(raw)} ELSE Actions \cup {"unknown"}

skipped_finding(f) == [f EXCEPT !.status = "skipped"]

\* Faulty: "retry all" queues every requirement.
DecidedRetriesAll(s, action) ==
    LET all   == Candidates(s)
        about == IF action \in {"skip", "retry"} THEN {Min(all)}
                 ELSE IF action = "retry_all" THEN Reqs ELSE all
    IN IF action \in {"skip", "skip_all"}
       THEN [s EXCEPT !.findings = [r \in Reqs |-> IF r \in about THEN skipped_finding(@[r]) ELSE @[r]],
                      !.skipped = @ \cup about,
                      !.pending = {}]
       ELSE [s EXCEPT !.pending = about, !.retry = 0]

\* What the gate returns for a decision about the first candidate or all.
Decided(s, action) ==
    LET all   == Candidates(s)
        about == IF action \in {"skip", "retry"} THEN {Min(all)} ELSE all
    IN IF action \in {"skip", "skip_all"}
       THEN [s EXCEPT !.findings = [r \in Reqs |-> IF r \in about THEN skipped_finding(@[r]) ELSE @[r]],
                      !.skipped = @ \cup about,
                      !.pending = {}]
       ELSE [s EXCEPT !.pending = about, !.retry = 0]

\* aresume (and acontinue of a paused thread, which replies "continue"): the
\* node runs again from its start and is given the replies so far.  A reply
\* that is not understood is asked for once more; the second time that fails
\* the gate skips everything.  On the second run the first reply is
\* interpreted anew, and the second is read only if that fails again.
Answer(h, raw) ==
    /\ inv[h] = "paused" /\ replies < MaxReplies
    /\ replies' = replies + 1
    /\ \E first \in Meaning(Append(asked[h], raw)[1]) :
          IF first = "unknown" /\ asked[h] = <<>>
          THEN /\ asked' = [asked EXCEPT ![h] = <<raw>>]
               /\ UNCHANGED <<inv, node, st, bound>>
          ELSE \E next \in (IF first = "unknown" THEN Meaning(raw) ELSE {first}) :
                  LET s == Decided(st[h], IF next = "unknown" THEN "skip_all" ELSE next)
                  IN /\ Return(h, s, route_after_hitl(s))
                     /\ Invoke(h)
                     /\ asked' = [asked EXCEPT ![h] = <<>>]
    /\ UNCHANGED <<worker, orphans, seg, disk, late, faults>>

-----------------------------------------------------------------------------
\* finalize: the report of the thread is rendered from its state.
Finalize(h) ==
    /\ At(h, "finalize")
    /\ seg' = h
    /\ Return(h, [st[h] EXCEPT !.pending = {}], "end")
    /\ inv' = [inv EXCEPT ![h] = "done"]
    /\ UNCHANGED <<bound, worker, orphans, disk, late, asked, replies, faults>>

-----------------------------------------------------------------------------
(* Failures. *)

\* The turn of h is cancelled: its workers are cancelled and awaited.  A node that has
\* none and raises, such as reconnect_session when the reconnect does, stops in the same way.
Cancel(h) ==
    /\ inv[h] = "run" /\ faults < MaxFaults
    /\ faults' = faults + 1
    /\ Raise(h)
    /\ worker' = [worker EXCEPT ![h] = NoWorkers]
    /\ UNCHANGED <<bound, orphans, seg, disk, late, asked, replies>>

\* A worker cannot write its finding, nor the error finding that reports it.
\* The node raises; the other workers are neither awaited nor cancelled.
WorkerFatal(h, r) ==
    /\ worker[h][r].at = "busy" /\ faults < MaxFaults
    /\ faults' = faults + 1
    /\ Raise(h)
    /\ orphans' = orphans \cup {<<h, q, bound[h]>> : q \in
                    {q \in Reqs \ {r} : worker[h][q].at \in {"ready", "busy"}}}
    /\ worker' = [worker EXCEPT ![h] = NoWorkers]
    /\ UNCHANGED <<bound, seg, disk, late, asked, replies>>

\* An orphan writes its finding after its node has raised.
OrphanStore(o, status) ==
    /\ o \in orphans
    /\ orphans' = orphans \ {o}
    /\ LET d == Dir(o[1], o[3])
       IN /\ disk' = [disk EXCEPT ![d][o[2]] = Filled(o[1], o[2], o[3], status)]
          /\ late' = late \cup {<<d, o[2]>>}
    /\ UNCHANGED <<inv, node, st, bound, worker, seg, asked, replies, faults>>

\* The process dies.  Checkpoints and files survive; pauses are checkpoints.
Crash ==
    /\ faults < MaxFaults /\ \E h \in Hosts : inv[h] = "run"
    /\ faults' = faults + 1
    /\ inv' = [h \in Hosts |-> IF inv[h] = "run" THEN "stopped" ELSE inv[h]]
    /\ bound' = [h \in Hosts |-> FALSE]
    /\ worker' = [h \in Hosts |-> NoWorkers]
    /\ orphans' = {}
    /\ seg' = NoHost
    /\ UNCHANGED <<node, st, disk, late, asked, replies>>

-----------------------------------------------------------------------------
\* cells_to_finding and the handler of a worker: a verdict, an error, or an
\* error forced because the evidence reads like a transport failure.
WorkerStatuses == {"ok", "error", "transport"}

\* What the event loop does for a running invocation without anyone's help.
Step(h) ==
    \/ load_framework(h) \/ collect_host_facts(h)
    \/ AssessNothing(h) \/ AssessBegin(h) \/ AssessEnd(h)
    \/ reconnect_session(h) \/ GatePause(h) \/ Finalize(h)
    \/ \E r \in Reqs : \/ WorkerStart(h, r) \/ WorkerDone(h, r)
                       \/ \E s \in WorkerStatuses : WorkerStore(h, r, s)

\* Nothing runs and nobody is obliged to act.
Rest == /\ \A h \in Hosts : inv[h] \notin {"none", "run"}
        /\ UNCHANGED vars

Next ==
    \/ \E h \in Hosts :
         \/ Step(h)
         \/ Start(h) \/ Continue(h) \/ Cancel(h)
         \/ \E raw \in Actions \cup {"vague"} : Answer(h, raw)
         \/ \E r \in Reqs : WorkerFatal(h, r)
    \/ \E o \in orphans, s \in WorkerStatuses : OrphanStore(o, s)
    \/ Crash
    \/ Rest

Spec == Init /\ [][Next]_vars

\* Tools and model calls have timeouts, so an invocation keeps moving.
FairSpec == Spec /\ \A h \in Hosts : WF_vars(Step(h))

-----------------------------------------------------------------------------
(* Properties. *)

\* Types hold, and the id a requirement has in a thread's state is the id in that thread's
\* finding.json, through retries, cancellations, crashes and workers that
\* outlive their node: so merge_result_maps never refuses a result.
IdsAgree == AssessTypeOK /\ \A h \in Hosts, r \in Reqs :
    st[h].findings[r] # None => st[h].findings[r].id = disk[h][r].id

\* A finished thread has a finding for every requirement, and with the gate
\* enabled no failure is left in it that the operator did not skip.
NoSilentError == \A h \in Hosts : inv[h] = "done" =>
    \A r \in Reqs : /\ st[h].findings[r] # None
                    /\ HitlEnabled => st[h].findings[r].status \notin Errors
                    /\ st[h].findings[r].status = "skipped" <=> r \in st[h].skipped

\* What a finished thread reported is what is on disk for the follow-up to
\* rebuild the report from, except where the operator skipped a failure
\* (human_gate does not write) and where an orphaned worker wrote last.
DiskAgrees == \A h \in Hosts, r \in Reqs :
    (inv[h] = "done" /\ <<h, r>> \notin late) =>
        \/ disk[h][r] = st[h].findings[r]
        \/ disk[h][r].status \in Errors /\ r \in st[h].skipped

\* Neither retrying nor resuming reassesses a requirement with a verdict:
\* only a job run again from the start may replace it, from disk.
VerdictKept == [][\A h \in Hosts, r \in Reqs :
    (st[h].findings[r].status = "ok" /\ node[h] # "load") =>
        st'[h].findings[r] = st[h].findings[r]]_vars

\* An invocation ends, pauses or stops: reconnecting cannot go on for ever.
InvocationEnds == \A h \in Hosts : inv[h] = "run" ~> inv[h] # "run"

\* A host's directory holds findings of that host.
OwnDirectory == \A h \in Hosts, r \in Reqs :
    disk[h][r] # None => disk[h][r].asset = h

\* A finding was gathered on the host it is about, wherever it is stored.
OwnEvidence == \A h \in Hosts, r \in Reqs :
    disk[h][r] # None => disk[h][r].seen = disk[h][r].asset
=============================================================================
