------------------------------ MODULE PlanStore ------------------------------
(***************************************************************************)
(* Plan revisions of one client (inventory/plan_store.py) and what works   *)
(* on them: analyses, decisions of the operator and starts of an audit     *)
(* (inventory/service.py, api/inventory_routes.py, cli.py).  Every command *)
(* and every API worker is a process of its own; the files are shared, and *)
(* all but the preflight are written under one flock.  A process may die   *)
(* at any point, which gives the lock back, and a write may fail.          *)
(*                                                                         *)
(* The id of a revision is a hash of what the plan is made from: here the  *)
(* pair of the inventory and of the facts that discovery found.            *)
(***************************************************************************)
EXTENDS Naturals

CONSTANTS Procs,       \* processes
          Invs,        \* versions of the inventory file
          Facts,       \* what discovery may find
          None,        \* a file that does not exist
          Bad,         \* a file cut off in the middle of a write
          MaxOps, MaxChanges, MaxFaults, MaxCrashes   \* bounds

ASSUME PlanAssumption == /\ {MaxOps, MaxChanges, MaxFaults, MaxCrashes} \subseteq Nat
                         /\ None # Bad

Rev == [inv : Invs, facts : Facts]
ASSUME FileAssumption == {None, Bad} \cap (Rev \cup Invs \cup Facts) = {}

VARIABLES source,    \* the inventory file
          facts,     \* the facts that a discovery would find
          revs,      \* revisions/<id>
          latest,    \* latest.json: the revision and the status of the plan
          view,      \* effective.inventory.json
          pointer,   \* latest.pointer.json
          preflight, \* preflight/latest.json
          lock,      \* who has the flock
          op,        \* op[p]: the operation of process p
          started,   \* revisions that audits were started with
          torn,      \* a publication was cut off, and none has been made since
          decision,  \* the last decision since the last publication
          ops, changes, faults, crashes

files == <<revs, latest, view, pointer>>
world == <<source, facts, changes>>
history == <<started, torn, decision>>
planVars == <<files, preflight, lock, op, world, history, ops, faults, crashes>>

\* A plan is declined when it is rejected, or superseded by a request to reanalyze;
\* adjustments leave it a draft.
Statuses == {"draft", "confirmed", "declined"}
File == Rev \cup {None, Bad}
PlanFile == [rev : File, status : Statuses]
NoPlan == [rev |-> None, status |-> "draft"]

\* kind "analyze", "decide", "start" or "refresh" (a start that runs discovery first);
\* rev is the revision the operator names, status the decision, new what the analysis
\* makes, before what the files were when the publication began.
Publishing == {"dir", "latest", "view", "pointer"}
Undoing == {"undoLatest", "undoView", "undoPointer"}
Pc == {"idle", "source", "fresh", "load", "discover", "save", "saved", "lock", "match",
       "current", "source2", "current2", "fresh2", "claim", "run"} \cup Publishing \cup Undoing
NoRev == [inv |-> None, facts |-> None]
New == [inv : Invs \cup {None}, facts : Facts \cup {None}]
Before == [latest : PlanFile, view : File, pointer : File]
Op == [pc : Pc, kind : {"analyze", "decide", "start", "refresh"}, rev : Rev \cup {NoRev},
       status : Statuses, new : New,
       before : Before]

Idle == [pc |-> "idle", kind |-> "analyze", rev |-> NoRev, status |-> "draft",
         new |-> NoRev, before |-> [latest |-> NoPlan, view |-> None, pointer |-> None]]

PlanInit == /\ source \in Invs /\ facts \in Facts
            /\ revs = {} /\ latest = NoPlan /\ view = None /\ pointer = None
            /\ preflight = None /\ lock = {}
            /\ op = [p \in Procs |-> Idle]
            /\ started = {} /\ torn = FALSE /\ decision = None
            /\ ops = 0 /\ changes = 0 /\ faults = 0 /\ crashes = 0

Goes(p, pc) == op' = [op EXCEPT ![p].pc = pc]
GoesWith(p, pc, new) == op' = [op EXCEPT ![p].pc = pc, ![p].new = new]
Remembers(p, pc, before) == op' = [op EXCEPT ![p].pc = pc, ![p].before = before]
Ends(p) == op' = [op EXCEPT ![p] = Idle]
bounds == <<ops, faults, crashes>>

-----------------------------------------------------------------------------
(* What an operation begins with.                                          *)

Begin(p, o) == /\ op[p].pc = "idle" /\ ops < MaxOps /\ ops' = ops + 1
               /\ op' = [op EXCEPT ![p] = o]
               /\ UNCHANGED <<files, preflight, lock, world, history, faults, crashes>>

analyze(p) == Begin(p, [Idle EXCEPT !.pc = "load"])

\* confirm_plan without start, and audit start --reject: the revision is loaded.
decide(p, r, s) ==
    r \in revs /\ Begin(p, [Idle EXCEPT !.pc = "current", !.kind = "decide", !.rev = r, !.status = s])

\* astart_confirmed_audit: the plan comes from the revision, where it is a draft.
start(p, r, k) ==
    r \in revs /\ Begin(p, [Idle EXCEPT !.pc = "source", !.kind = k, !.rev = r, !.status = "confirmed"])

-----------------------------------------------------------------------------
(* analyze_client_inventory.                                               *)

Load(p) == /\ op[p].pc = "load"
           /\ GoesWith(p, "discover", [inv |-> source, facts |-> None])
           /\ UNCHANGED <<files, preflight, lock, world, history, bounds>>

\* Discovery takes its time; the plan is made from what it has found.
Discover(p) == /\ op[p].pc = "discover"
               /\ GoesWith(p, "save", [inv |-> op[p].new.inv, facts |-> facts])
               /\ UNCHANGED <<files, preflight, lock, world, history, bounds>>

\* persist_preflight_revision truncates the file and writes it, without a lock; an
\* error is swallowed.
SavePreflight(p) ==
    /\ op[p].pc \in {"save", "saved"}
    /\ \/ /\ op[p].pc = "save" /\ preflight' = Bad /\ Goes(p, "saved")
          /\ UNCHANGED faults
       \/ /\ op[p].pc = "saved" /\ preflight' = op[p].new /\ Goes(p, "lock")
          /\ UNCHANGED faults
       \/ /\ faults < MaxFaults /\ faults' = faults + 1
          /\ Goes(p, "lock") /\ UNCHANGED preflight
    /\ UNCHANGED <<files, lock, world, history, ops, crashes>>

-----------------------------------------------------------------------------
(* persist_revision.                                                       *)

\* The lock is there: a revision that exists is published again, a new one is first
\* written to a directory of its own.
Locked(p) == /\ op[p].pc = "lock" /\ lock = {}
             /\ lock' = {p}
             /\ Remembers(p, IF op[p].new \in revs THEN "latest" ELSE "dir",
                          [latest |-> latest, view |-> view, pointer |-> pointer])
             /\ UNCHANGED <<files, preflight, world, history, bounds>>

\* _publish_existing_or_raise: the revision that exists has other contents, of a kind that
\* its id does not cover, or cannot be read.
Collides(p) == /\ op[p].pc = "lock" /\ lock = {} /\ op[p].new \in revs
               /\ Ends(p)
               /\ UNCHANGED <<files, preflight, lock, world, history, bounds>>

\* _publish_new_revision_dir: the rename makes the directory appear as a whole.
PublishDir(p) == /\ op[p].pc = "dir"
                 /\ revs' = revs \cup {op[p].new} /\ Goes(p, "latest")
                 /\ UNCHANGED <<latest, view, pointer, preflight, lock, world, history, bounds>>

\* _publish_latest_unlocked: the views first, the pointer last.
ReplaceLatest(p) == /\ op[p].pc = "latest"
                    /\ latest' = [rev |-> op[p].new, status |-> "draft"] /\ Goes(p, "view")
                    /\ UNCHANGED <<revs, view, pointer, preflight, lock, world, history, bounds>>
ReplaceView(p) == /\ op[p].pc = "view"
                  /\ view' = op[p].new /\ Goes(p, "pointer")
                  /\ UNCHANGED <<revs, latest, pointer, preflight, lock, world, history, bounds>>
ReplacePointer(p) == /\ op[p].pc = "pointer"
                     /\ pointer' = op[p].new /\ lock' = {}
                     /\ torn' = FALSE /\ decision' = None
                     /\ IF op[p].kind = "analyze" THEN Ends(p) ELSE Goes(p, "match")
                     /\ UNCHANGED <<revs, latest, view, preflight, world, started, bounds>>

\* Faulty: a publication that fails takes the directory of the revision away.
FailRemovesDir(p) ==
    /\ op[p].pc \in Publishing
    /\ faults < MaxFaults /\ faults' = faults + 1
    /\ revs' = revs \ {op[p].new}
    /\ IF op[p].pc = "dir" THEN Ends(p) /\ lock' = {} ELSE Goes(p, "undoLatest") /\ UNCHANGED lock
    /\ UNCHANGED <<latest, view, pointer, preflight, world, history, ops, crashes>>

\* A write fails.  The directory, the staged files and the write of a decision are made
\* aside: nothing has happened yet.  Once the replacing has begun the files are restored.
WriteFails(p) ==
    /\ faults < MaxFaults /\ faults' = faults + 1
    /\ \/ op[p].pc \in {"dir", "latest", "claim"} /\ Ends(p) /\ lock' = lock \ {p}
       \/ op[p].pc \in Publishing \ {"dir"} /\ Goes(p, "undoLatest") /\ UNCHANGED lock
    /\ UNCHANGED <<files, preflight, world, history, ops, crashes>>

\* Faulty: latest.json is made again from the revision, where the plan is a draft.
UndoAsDraft(p) == /\ op[p].pc = "undoLatest"
                  /\ latest' = [op[p].before.latest EXCEPT !.status = "draft"] /\ Goes(p, "undoView")
                  /\ UNCHANGED <<revs, view, pointer, preflight, lock, world, history, bounds>>

\* Faulty: the view is left as the publication made it.
UndoNoView(p) == /\ op[p].pc = "undoView" /\ Goes(p, "undoPointer")
                 /\ UNCHANGED <<files, preflight, lock, world, history, bounds>>

\* _restore_bytes: each file gets the bytes it had.
UndoLatest(p) == /\ op[p].pc = "undoLatest"
                 /\ latest' = op[p].before.latest /\ Goes(p, "undoView")
                 /\ UNCHANGED <<revs, view, pointer, preflight, lock, world, history, bounds>>
UndoView(p) == /\ op[p].pc = "undoView"
               /\ view' = op[p].before.view /\ Goes(p, "undoPointer")
               /\ UNCHANGED <<revs, latest, pointer, preflight, lock, world, history, bounds>>
UndoPointer(p) == /\ op[p].pc = "undoPointer"
                  /\ pointer' = op[p].before.pointer
                  /\ lock' = {} /\ Ends(p)
                  /\ UNCHANGED <<revs, latest, view, preflight, world, history, bounds>>

-----------------------------------------------------------------------------
(* What confirm_audit_plan and astart_confirmed_audit check.  Each check   *)
(* reads the files as they are; one that fails ends the operation.         *)

Check(p, holds, pc) == /\ IF holds THEN Goes(p, pc) ELSE Ends(p)
                       /\ UNCHANGED <<files, preflight, lock, world, history, bounds>>

\* _assert_current_unlocked; the lock is taken for it.
Current(r) == IF pointer = None THEN latest.rev = r ELSE pointer = r /\ r \in revs

\* assert_plan_matches_preflight against the latest preflight of that inventory.
\* A file that cannot be read is an error for a start and no objection to a
\* confirmation.
Fresh(r) == preflight \in Rev /\ preflight.inv = r.inv => preflight.facts = r.facts

CheckSource(p) ==
    \/ /\ op[p].pc = "source"
       /\ Check(p, op[p].rev.inv = source, IF op[p].kind = "refresh" THEN "load" ELSE "fresh")
    \/ op[p].pc = "source2" /\ Check(p, op[p].rev.inv = source, "current2")
CheckFresh(p) ==
    \/ op[p].pc = "fresh" /\ Check(p, preflight # Bad /\ Fresh(op[p].rev), "current")
    \/ op[p].pc = "fresh2" /\ Check(p, Fresh(op[p].rev), "claim")
CheckMatch(p) == op[p].pc = "match" /\ Check(p, op[p].rev.facts = op[p].new.facts, "current")
CheckCurrent(p) ==
    /\ lock = {}
    /\ \/ /\ op[p].pc = "current"
          /\ Check(p, Current(op[p].rev), IF op[p].status = "confirmed" THEN "source2" ELSE "claim")
       \/ op[p].pc = "current2" /\ Check(p, Current(op[p].rev), "fresh2")

\* The plan has no active target, or the tools or the frameworks have changed.
Refused(p) == /\ op[p].pc \in {"source", "fresh2"} /\ Ends(p)
              /\ UNCHANGED <<files, preflight, lock, world, history, bounds>>

\* Faulty: what the operation has checked is not checked again.
ClaimUnchecked(p) ==
    /\ op[p].pc = "claim" /\ lock = {}
    /\ latest' = [rev |-> op[p].rev, status |-> op[p].status]
    /\ decision' = latest'
    /\ IF op[p].kind = "decide" THEN Ends(p) ELSE Goes(p, "run")
    /\ UNCHANGED <<revs, view, pointer, preflight, lock, world, started, torn, bounds>>

\* persist_latest_materialized_plan: checked again under the lock that the write has.
Claim(p) ==
    /\ op[p].pc = "claim" /\ lock = {}
    /\ IF Current(op[p].rev)
         THEN /\ latest' = [rev |-> op[p].rev, status |-> op[p].status]
              /\ decision' = latest'
              /\ IF op[p].kind = "decide" THEN Ends(p) ELSE Goes(p, "run")
         ELSE Ends(p) /\ UNCHANGED <<latest, decision>>
    /\ UNCHANGED <<revs, view, pointer, preflight, lock, world, started, torn, bounds>>

\* The audit request is built from the claimed plan and executed.
Run(p) == /\ op[p].pc = "run"
          /\ started' = started \cup {op[p].rev} /\ Ends(p)
          /\ UNCHANGED <<files, preflight, lock, world, torn, decision, bounds>>

-----------------------------------------------------------------------------
(* Around the operations.                                                  *)

\* The operator edits the inventory, or the hosts change.
Change == /\ changes < MaxChanges /\ changes' = changes + 1
          /\ \/ source' \in Invs \ {source} /\ UNCHANGED facts
             \/ facts' \in Facts \ {facts} /\ UNCHANGED source
          /\ UNCHANGED <<files, preflight, lock, op, history, bounds>>

\* A process dies, or a restore fails.  The restore of a file is no replace: the file may
\* be cut off, and the files after it stay as they are.
CutOff(p, pc, f, old) == f' \in {f} \cup (IF op[p].pc = pc /\ old # None THEN {Bad} ELSE {})
Crash(p) ==
    /\ \/ /\ op[p].pc # "idle"
          /\ crashes < MaxCrashes /\ crashes' = crashes + 1 /\ UNCHANGED faults
       \/ /\ op[p].pc \in Undoing
          /\ faults < MaxFaults /\ faults' = faults + 1 /\ UNCHANGED crashes
    /\ Ends(p) /\ lock' = lock \ {p}
    /\ torn' = (torn \/ op[p].pc \in {"view", "pointer"} \cup Undoing)
    /\ CutOff(p, "undoView", view, op[p].before.view)
    /\ CutOff(p, "undoPointer", pointer, op[p].before.pointer)
    /\ \/ UNCHANGED latest
       \/ /\ op[p].pc = "undoLatest" /\ op[p].before.latest.rev # None
          /\ latest' = [NoPlan EXCEPT !.rev = Bad]
    /\ UNCHANGED <<revs, preflight, world, started, decision, ops>>

Step(p) == \/ Load(p) \/ Discover(p) \/ SavePreflight(p)
           \/ Locked(p) \/ Collides(p) \/ PublishDir(p)
           \/ ReplaceLatest(p) \/ ReplaceView(p) \/ ReplacePointer(p)
           \/ WriteFails(p) \/ UndoLatest(p) \/ UndoView(p) \/ UndoPointer(p)
           \/ CheckSource(p) \/ CheckFresh(p) \/ CheckMatch(p) \/ CheckCurrent(p)
           \/ Refused(p) \/ Claim(p) \/ Run(p)

Command(p) == \/ analyze(p)
              \/ \E r \in Rev : \/ \E s \in Statuses : decide(p, r, s)
                                \/ \E k \in {"start", "refresh"} : start(p, r, k)

\* Everything has come to its end.  Any other state without a step is a deadlock: a
\* process that waits for a lock which nobody gives back.
Finished == /\ ops = MaxOps /\ \A p \in Procs : op[p].pc = "idle"
            /\ UNCHANGED planVars

PlanNext == (\E p \in Procs : Command(p) \/ Step(p) \/ Crash(p)) \/ Change \/ Finished

PlanSpec == PlanInit /\ [][PlanNext]_planVars

-----------------------------------------------------------------------------
(* Properties.                                                             *)

\* Types of the state.
PlanTypeOK == /\ source \in Invs /\ facts \in Facts
              /\ revs \subseteq Rev /\ latest \in PlanFile /\ view \in File /\ pointer \in File
              /\ preflight \in File /\ lock \subseteq Procs
              /\ op \in [Procs -> Op]
              /\ started \subseteq Rev /\ torn \in BOOLEAN /\ decision \in PlanFile \cup {None}
              /\ ops \in 0..MaxOps /\ changes \in 0..MaxChanges
              /\ faults \in 0..MaxFaults /\ crashes \in 0..MaxCrashes

\* Types hold and, whatever fails and whoever dies, the pointer and the views name revisions that
\* are there as a whole (_publish_new_revision_dir before _publish_latest_unlocked,
\* and the rollback).
PointerPublished == PlanTypeOK /\ {pointer, view, latest.rev} \subseteq revs \cup {None, Bad}

\* With nobody publishing, the views show the revision of the pointer, unless a
\* publication was cut off by a crash: then until the next one
\* (_publish_latest_unlocked and its rollback).
ViewsAgree == lock = {} /\ ~torn => latest.rev = pointer /\ view = pointer

\* A decision of the operator stays in latest.json until the next publication: the
\* rollback of a publication that failed does not bring back what was there before.
DecisionKept == lock = {} /\ ~torn /\ decision # None => latest = decision

\* A decision is taken on the revision that is current at that moment, whatever was
\* published since the operation checked (persist_latest_materialized_plan).
DecidesCurrent == [][decision' # decision /\ decision' # None => Current(decision'.rev)]_planVars
=============================================================================
