------------------------------- MODULE Intake -------------------------------
(***************************************************************************)
(* The questionnaire before an audit: the node intake_gate of the intake   *)
(* graph (workflows/intake.py, intake.py), one graph thread per intake.    *)
(*                                                                         *)
(* LangGraph runs the node from its first line on every resume and gives   *)
(* the recorded replies to its interrupts in the order of the calls.  The  *)
(* reply of this turn is recorded when the node stops at the next          *)
(* interrupt: a crash before that loses it.  What the node saves in the    *)
(* evidence meta data is there at once, and is read again by the next      *)
(* replay.  A language model reads the replies; a call of it may fail.     *)
(*                                                                         *)
(* One client; a job is a pair of a host and a framework.                  *)
(***************************************************************************)
EXTENDS Naturals, Sequences, FiniteSets

CONSTANTS Threads, Jobs, None,
          MaxRuns, MaxFaults    \* bounds

ASSUME IntakeAssumption == {MaxRuns, MaxFaults} \subseteq Nat

VARIABLES runs,      \* the registry: runs[r] is the thread and the status of run r
          meta,      \* meta[t]: progress saved in the evidence of t
          tape,      \* tape[t]: the replies in the checkpoint of t
          cp,        \* cp[t]: where the checkpoint of t stands
          node,      \* node[t]: the invocation of t that is running
          sessions,  \* threads in _multi_sessions
          planFile,  \* PLAN.md: its jobs, none without a file
          handed,    \* handed over to the multi-host runner
          shown,     \* shown[t]: the plan of the last scope prompt
          quiet,     \* quiet[t]: since that prompt nothing came between
          probes,    \* probes[t]: how often the hosts were discovered
          failures, crashes, edits

intakeVars == <<runs, meta, tape, cp, node, sessions, planFile, handed, shown, quiet, probes,
                failures, crashes, edits>>
history == <<shown, quiet, probes>>

Steps == {"client", "access", "scope"}
Words == {"name", "ok", "no", "vague", "placed", "trim", "paste"}
\* trim: the jobs that stay; paste: the jobs of the table; asked: the question it answers.
Reply == [word : Words, jobs : SUBSET Jobs, asked : Steps]
RunIds == 1 .. MaxRuns

NoMeta == [run |-> 0, found |-> FALSE, jobs |-> {}]
NoCp == [state |-> "none", step |-> "client", selected |-> {}, by |-> "scope"]
Idle == [pc |-> "idle", at |-> 0, heard |-> <<>>, run |-> 0, jobs |-> {}, found |-> FALSE,
         access |-> FALSE, selected |-> {}, by |-> "scope", fresh |-> TRUE]

IntakeInit == /\ runs = <<>> /\ handed = {}
              /\ meta = [t \in Threads |-> NoMeta] /\ tape = [t \in Threads |-> <<>>]
              /\ cp = [t \in Threads |-> NoCp] /\ node = [t \in Threads |-> Idle]
              /\ sessions = {} /\ planFile = {}
              /\ shown = [t \in Threads |-> None] /\ quiet = [t \in Threads |-> FALSE]
              /\ probes = [t \in Threads |-> 0]
              /\ failures = 0 /\ crashes = 0 /\ edits = 0

-----------------------------------------------------------------------------
(* Replies.                                                                *)

\* What an operator says to a question.
Sensible(step) ==
    [word : CASE step = "client" -> {"name", "vague"} [] step = "access" -> {"ok", "no", "vague"}
              [] step = "scope" -> {"ok", "vague", "placed"},
     jobs : {{}}, asked : {step}]
    \cup IF step = "scope" THEN [word : {"trim", "paste"}, jobs : (SUBSET Jobs) \ {Jobs}, asked : {step}]
                           ELSE {}

\* What a reply says: the name of the client; yes or no; a Host | Frameworks table; a file
\* put in place; jobs to leave out or to keep; agreement.
Names(r) == r.word = "name"
YesNo(r) == r.word \in {"ok", "no"}
Table(r) == IF r.word = "paste" THEN r.jobs ELSE {}
Notice(r) == r.word = "placed"
Trims(r) == r.word = "trim"
Confirms(r) == r.word = "ok"

\* The reply that the next interrupt of the invocation returns, if there is one.
Answered(t) == node[t].at < Len(node[t].heard)
Heard(t) == node[t].heard[node[t].at + 1]

\* Faulty: every invocation starts without what the evidence says.
EnterBlank(t, heard) == [Idle EXCEPT !.pc = "client", !.heard = heard]

\* load_intake_progress: identity, discovery and plan come from disk, answers never.
Enter(t, heard) == [Idle EXCEPT !.pc = "client", !.heard = heard, !.run = meta[t].run,
                                !.jobs = meta[t].jobs, !.found = meta[t].found]

Goes(t, pc) == node' = [node EXCEPT ![t].pc = pc]
Takes(t, pc) == node' = [node EXCEPT ![t].pc = pc, ![t].at = @ + 1]

\* The call of the model behind intake_llm_json works or, for a while, does not.
\* failures counts these and those of the saver's connection; MaxFaults bounds them,
\* the crashes and the changes of PLAN.md together.
Disturbed == failures + crashes + edits < MaxFaults
Understood == UNCHANGED failures
NotUnderstood == Disturbed /\ failures' = failures + 1

-----------------------------------------------------------------------------
(* The node.                                                               *)

\* interrupt() without a reply left: the invocation ends, its replies are recorded.
Asks(t, step) ==
    /\ node[t].pc = step /\ ~Answered(t)
    /\ tape' = [tape EXCEPT ![t] = node[t].heard]
    /\ cp' = [cp EXCEPT ![t] = [NoCp EXCEPT !.state = "paused", !.step = step]]
    /\ node' = [node EXCEPT ![t] = Idle]
    /\ shown' = [shown EXCEPT ![t] = IF step = "scope" THEN node[t].jobs ELSE @]
    /\ quiet' = [quiet EXCEPT ![t] = step = "scope" /\ node[t].fresh]
    /\ UNCHANGED <<runs, meta, sessions, planFile, handed, probes, failures, crashes, edits>>

\* The name of the client.  Without the model the reply is parsed as it is.
Client(t) ==
    /\ node[t].pc = "client" /\ Answered(t)
    /\ Takes(t, IF Names(Heard(t)) THEN "bind" ELSE "client")
    /\ UNCHANGED <<runs, meta, tape, cp, sessions, planFile, handed, history, failures, crashes, edits>>

RunsOf(t) == {r \in DOMAIN runs : runs[r].thread = t}

\* Faulty: a run is made whenever the evidence names none.
BindNew(t) ==
    /\ node[t].pc = "bind"
    /\ IF node[t].run # 0
         THEN Goes(t, "store") /\ UNCHANGED runs
         ELSE /\ Len(runs) < MaxRuns
              /\ runs' = Append(runs, [thread |-> t, status |-> "pending"])
              /\ node' = [node EXCEPT ![t].pc = "start", ![t].run = Len(runs) + 1]
    /\ UNCHANGED <<meta, tape, cp, sessions, planFile, handed, history, failures, crashes, edits>>

\* The run: as saved, or the one of this thread (find_run_by_base_thread), or a new one.
Bind(t) ==
    /\ node[t].pc = "bind"
    /\ \/ /\ node[t].run # 0 /\ Goes(t, "store") /\ UNCHANGED runs
       \/ /\ node[t].run = 0 /\ RunsOf(t) # {}
          /\ node' = [node EXCEPT ![t].pc = "store",
                                  ![t].run = CHOOSE r \in RunsOf(t) : \A s \in RunsOf(t) : r <= s]
          /\ UNCHANGED runs
       \/ /\ node[t].run = 0 /\ RunsOf(t) = {} /\ Len(runs) < MaxRuns
          /\ runs' = Append(runs, [thread |-> t, status |-> "pending"])
          /\ node' = [node EXCEPT ![t].pc = "start", ![t].run = Len(runs) + 1]
    /\ UNCHANGED <<meta, tape, cp, sessions, planFile, handed, history, failures, crashes, edits>>

\* mark_run_started, a transaction of its own; only the invocation that made the run gets here.
Start(t) ==
    /\ node[t].pc = "start"
    /\ runs' = [runs EXCEPT ![node[t].run].status = "running"] /\ Goes(t, "store")
    /\ UNCHANGED <<meta, tape, cp, sessions, planFile, handed, history, failures, crashes, edits>>

\* The evidence moves to the directory of the run, which is where progress is saved.
Store(t) ==
    /\ node[t].pc = "store"
    /\ meta' = [meta EXCEPT ![t].run = node[t].run] /\ Goes(t, "access")
    /\ UNCHANGED <<runs, tape, cp, sessions, planFile, handed, history, failures, crashes, edits>>

\* Faulty: an answer that an earlier replay has had is taken from the disk, without a call
\* of interrupt.
AccessRestored(t) ==
    /\ node[t].pc = "access"
    /\ \/ /\ meta[t].found
          /\ node' = [node EXCEPT ![t].pc = "discover", ![t].access = TRUE]
       \/ /\ ~meta[t].found /\ Answered(t)
          /\ LET yes == Heard(t).word = "ok"
             IN IF yes \/ Heard(t).word = "no"
                  THEN node' = [node EXCEPT ![t].pc = "discover", ![t].at = @ + 1, ![t].access = yes]
                  ELSE Takes(t, "access")
    /\ UNCHANGED <<runs, meta, tape, cp, sessions, planFile, handed, history, failures, crashes, edits>>

\* Can the agent reach the hosts: the model says yes, no or unknown.
Access(t) ==
    /\ node[t].pc = "access" /\ Answered(t)
    /\ \/ /\ YesNo(Heard(t)) /\ Understood
          /\ node' = [node EXCEPT ![t].pc = "discover", ![t].at = @ + 1,
                                  ![t].access = Heard(t).word = "ok"]
       \/ ~YesNo(Heard(t)) /\ Understood /\ Takes(t, "access")
       \/ NotUnderstood /\ Takes(t, "access")
    /\ UNCHANGED <<runs, meta, tape, cp, sessions, planFile, handed, history, crashes, edits>>

\* What discovery finds, or nothing without access; not done again once it is saved.
Discover(t) ==
    /\ node[t].pc = "discover"
    /\ IF node[t].found
         THEN Goes(t, "plan") /\ UNCHANGED probes
         ELSE \E found \in IF node[t].access THEN SUBSET Jobs ELSE {{}} :
                /\ node' = [node EXCEPT ![t].pc = "save", ![t].jobs = found, ![t].found = TRUE]
                /\ probes' = [probes EXCEPT ![t] = @ + IF node[t].access THEN 1 ELSE 0]
    /\ UNCHANGED <<runs, meta, tape, cp, sessions, planFile, handed, shown, quiet, failures, crashes, edits>>

\* persist_intake_progress, once all hosts are done.
Save(t) ==
    /\ node[t].pc = "save" /\ Goes(t, "plan")
    /\ meta' = [meta EXCEPT ![t].jobs = node[t].jobs, ![t].found = TRUE]
    /\ UNCHANGED <<runs, tape, cp, sessions, planFile, handed, history, failures, crashes, edits>>

\* The table of PLAN.md, under the directory of the client or the inventory's.
load_client_audit_plan == planFile

\* PLAN.md, if there is one, takes the place of what was
\* discovered or agreed, in every replay.  Nothing to propose: nothing to ask.
LoadPlan(t) ==
    /\ node[t].pc = "plan"
    /\ LET jobs == IF load_client_audit_plan # {} THEN load_client_audit_plan ELSE node[t].jobs
       IN /\ node' = [node EXCEPT ![t].jobs = jobs, ![t].pc = IF jobs = {} THEN "finish" ELSE "scope"]
          /\ meta' = [meta EXCEPT ![t].jobs = jobs]
    /\ UNCHANGED <<runs, tape, cp, sessions, planFile, handed, history, failures, crashes, edits>>

Replans(t, jobs) == /\ node' = [node EXCEPT ![t].jobs = jobs, ![t].at = @ + 1]
                    /\ meta' = [meta EXCEPT ![t].jobs = jobs]

\* A reply to the plan.  A table and the word that PLAN.md is there are seen without the
\* model; a change is saved, and shown, before it can be confirmed; one that leaves
\* nothing is not made.
Scope(t) ==
    /\ node[t].pc = "scope" /\ Answered(t)
    /\ LET r == Heard(t)
           jobs == IF Table(r) # {} THEN Table(r) ELSE IF Notice(r) THEN load_client_audit_plan
                   ELSE IF Trims(r) THEN node[t].jobs \cap r.jobs ELSE {}
       IN \/ /\ ~Confirms(r) /\ jobs # {} /\ Understood /\ Replans(t, jobs)
          \/ /\ ~Confirms(r) /\ jobs = {} /\ Understood /\ Takes(t, "scope") /\ UNCHANGED meta
          \/ /\ Confirms(r) /\ Understood /\ UNCHANGED meta
             /\ node' = [node EXCEPT ![t].pc = "finish", ![t].at = @ + 1, ![t].selected = node[t].jobs,
                                     ![t].by = r.asked]
          \/ /\ Table(r) = {} /\ ~Notice(r) /\ NotUnderstood /\ Takes(t, "scope") /\ UNCHANGED meta
    /\ UNCHANGED <<runs, tape, cp, sessions, planFile, handed, history, crashes, edits>>

\* The node returns: the state of the thread is final.
Finish(t) ==
    /\ node[t].pc = "finish"
    /\ cp' = [cp EXCEPT ![t] = [state |-> "ended", step |-> "scope",
                                    selected |-> node[t].selected, by |-> node[t].by]]
    /\ tape' = [tape EXCEPT ![t] = node[t].heard]
    /\ Goes(t, "handoff")
    /\ UNCHANGED <<runs, meta, sessions, planFile, handed, history, failures, crashes, edits>>

\* Without a confirmed plan the queue takes the intake for its last job and closes the
\* run, if the process still knows the intake (continue_multi_after_resume).
NoPlan(t) ==
    /\ node[t].pc = "handoff" /\ cp[t].selected = {}
    /\ runs' = IF t \in sessions /\ runs[node[t].run].status = "running"
                 THEN [runs EXCEPT ![node[t].run].status = "completed"] ELSE runs
    /\ sessions' = sessions \ {t} /\ node' = [node EXCEPT ![t] = Idle]
    /\ UNCHANGED <<meta, tape, cp, planFile, handed, history, failures, crashes, edits>>

\* start_frameworks_after_intake: the jobs of the plan go to the multi-host runner.
HandOff(t) ==
    /\ node[t].pc = "handoff" /\ cp[t].selected # {}
    /\ handed' = handed \cup {[thread |-> t, run |-> node[t].run, jobs |-> cp[t].selected,
                               shown |-> shown[t], quiet |-> quiet[t] /\ failures = 0,
                               by |-> cp[t].by]}
    /\ sessions' = sessions \ {t} /\ node' = [node EXCEPT ![t] = Idle]
    /\ UNCHANGED <<runs, meta, tape, cp, planFile, history, failures, crashes, edits>>

\* The request built from the plan names a host, a framework or a credential that does not
\* exist (validate_audit_request_semantics): the run has failed.
Rejected(t) ==
    /\ node[t].pc = "handoff" /\ cp[t].selected # {}
    /\ runs' = [runs EXCEPT ![node[t].run].status = "failed"]
    /\ sessions' = sessions \ {t} /\ node' = [node EXCEPT ![t] = Idle]
    /\ UNCHANGED <<meta, tape, cp, planFile, handed, history, failures, crashes, edits>>

NodeStep(t) == Client(t) \/ Bind(t) \/ Start(t) \/ Store(t) \/ Access(t) \/ Discover(t) \/ Save(t)
               \/ LoadPlan(t) \/ Scope(t) \/ Finish(t)

-----------------------------------------------------------------------------
(* Around the node.                                                        *)

\* arun: a new thread, asked its first question.
Begins(t) == /\ cp[t].state = "none" /\ node[t].pc = "idle"
             /\ node' = [node EXCEPT ![t] = Enter(t, <<>>)] /\ sessions' = sessions \cup {t}
             /\ UNCHANGED <<runs, meta, tape, cp, planFile, handed, history, failures, crashes, edits>>

\* aresume with a reply.  A thread that has ended is not run again: what its state says
\* is done once more.
Resumes(t, r) ==
    /\ node[t].pc = "idle" /\ cp[t].state # "none"
    /\ node' = [node EXCEPT ![t] =
                  IF cp[t].state = "ended" THEN [Idle EXCEPT !.pc = "handoff", !.run = meta[t].run]
                  ELSE Enter(t, Append(tape[t], r))]
    /\ UNCHANGED <<runs, meta, tape, cp, sessions, planFile, handed, history, failures, crashes, edits>>

\* The operator writes PLAN.md, or takes it away.
Edit == /\ Disturbed /\ edits' = edits + 1
        /\ planFile' \in (SUBSET Jobs) \ {planFile}
        /\ quiet' = [t \in Threads |-> FALSE]
        /\ node' = [t \in Threads |-> IF node[t].pc = "idle" THEN node[t]
                                       ELSE [node[t] EXCEPT !.fresh = FALSE]]
        /\ UNCHANGED <<runs, meta, tape, cp, sessions, handed, shown, probes, failures, crashes>>

\* The process dies.  The checkpoints are kept by the SQLite saver, lost by the one in memory.
Dies == /\ Disturbed /\ crashes' = crashes + 1
        /\ node' = [t \in Threads |-> Idle] /\ sessions' = {}
        /\ quiet' = [t \in Threads |-> FALSE]
        /\ \/ UNCHANGED <<tape, cp>>
           \/ tape' = [t \in Threads |-> <<>>] /\ cp' = [t \in Threads |-> NoCp]
        /\ UNCHANGED <<runs, meta, planFile, handed, shown, probes, failures, edits>>
=============================================================================
