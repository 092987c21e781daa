-------------------------- MODULE AssessGraphProofs --------------------------
(***************************************************************************)
(* Theorems about the assessment graph, for any requirements, any limits   *)
(* of retries and workers and any number of replies and faults.            *)
(*                                                                         *)
(* For any hosts: a thread does not finish with a requirement forgotten or *)
(* with a failure nobody decided about (NothingSilent).  For threads that  *)
(* write to their own directories, because the run has one host or its     *)
(* threads are neither disturbed nor resumed: results keep their ids and   *)
(* are never refused (IdsKept), the disk agrees with the report            *)
(* (ReportOnDisk), and verdicts are not assessed again (VerdictsStand).    *)
(***************************************************************************)
EXTENDS AssessGraph, TLAPS, FiniteSetTheorems, WellFoundedInduction

-----------------------------------------------------------------------------
(* The invariant of the graph.                                             *)

\* Types, whatever number is given out as an id when all are used.
Tokens == Ids \cup {Min(S) : S \in SUBSET Ids}
Finding == [id : Tokens, status : {"ok", "skipped"} \cup Errors, asset : Hosts, seen : Hosts]
FindingType == Finding \cup {None}
StateType == [findings : [Reqs -> FindingType], pending : SUBSET Reqs,
              retry : 0 .. MaxRetries, skipped : SUBSET Reqs]
WorkerType == [at : {"none", "ready", "busy", "stored", "done"}, result : FindingType]
Phases == {"none", "run", "paused", "stopped", "done"}
After == {"reconnect", "human_gate", "finalize", "end"}
Nodes == {"load", "facts", "assess"} \cup After

ThreadTypes == /\ inv \in [Hosts -> Phases] /\ node \in [Hosts -> Nodes]
               /\ st \in [Hosts -> StateType] /\ worker \in [Hosts -> [Reqs -> WorkerType]]
               /\ bound \in [Hosts -> BOOLEAN]
DiskTypes == /\ disk \in [Hosts -> [Reqs -> FindingType]] /\ late \subseteq Hosts \X Reqs
             /\ orphans \subseteq Hosts \X Reqs \X BOOLEAN /\ seg \in Hosts \cup {NoHost}
ReplyTypes == /\ \A h \in Hosts : asked[h] \in {<<>>} \cup {<<w>> : w \in Actions \cup {"vague"}}
              /\ DOMAIN asked = Hosts
              /\ replies \in 0 .. MaxReplies /\ faults \in 0 .. MaxFaults
TypesOK == ThreadTypes /\ DiskTypes /\ ReplyTypes

\* The requirement has a finding, and it was skipped if it says so.
Settled(s, r) == s.findings[r] # None /\ (s.findings[r].status = "skipped" <=> r \in s.skipped)

\* The state that is checkpointed before node n.
StateOK(n, s) ==
    /\ n = "load" => s.skipped = {}
    /\ n # "load" => s.pending \cap s.skipped = {}
    /\ n \in {"facts", "assess"} => \A r \in Reqs \ s.pending : Settled(s, r)
    /\ n \in After => \A r \in Reqs : Settled(s, r)
    /\ n = "reconnect" => s.retry < MaxRetries
    /\ n = "human_gate" => Candidates(s) # {}
    /\ n \in {"finalize", "end"} /\ HitlEnabled => Candidates(s) = {}

\* Workers are those of the pending requirements, in a running assess node, and have a
\* result when it is on disk.
Busy(w) == {r \in Reqs : w[r].at # "none"}
WorkersOK(i, n, s, w) ==
    /\ Busy(w) # {} => i = "run" /\ n = "assess" /\ Busy(w) = s.pending
    /\ \A r \in Reqs : IF w[r].at \in {"stored", "done"} THEN w[r].result.status \in WorkerStatuses
                       ELSE w[r].result = None

ThreadOK(i, n, s, w) == /\ StateOK(n, s) /\ WorkersOK(i, n, s, w)
                        /\ i = "done" => n = "end"
                        /\ i = "paused" => n = "human_gate"

\* Findings on disk come from workers, which have a directory.
DiskOK == /\ \A h \in Hosts, r \in Reqs : disk[h][r] # None => disk[h][r].status \in WorkerStatuses
          /\ (orphans # {} \/ \E h \in Hosts : Working(h) # {}) => seg \in Hosts

GraphInv == /\ TypesOK /\ DiskOK
            /\ \A h \in Hosts : ThreadOK(inv[h], node[h], st[h], worker[h])

-----------------------------------------------------------------------------
(* Findings, ids and states.                                               *)

\* A finding is told from none by its status.
LEMMA NoneIs == None \in FindingType /\ \A f \in FindingType : f = None <=> f.status = "none"
  BY DEF FindingType, Finding, None, Errors

\* A set of natural numbers that is not empty has its minimum.
LEMMA MinIs ==
    ASSUME NEW S, S \subseteq Nat, S # {}
    PROVE  Min(S) \in S /\ \A y \in S : Min(S) <= y
  <1> DEFINE R == OpToRel(<, Nat)
  <1>1. IsWellFoundedOn(R, Nat)
    BY NatLessThanWellFounded
  <1>2. \A x, y \in Nat : x < y => <<x, y>> \in R
    BY DEF OpToRel
  <1> HIDE DEF R
  <1>3. PICK x \in S : \A y \in S : ~(<<y, x>> \in R)
    BY <1>1, WFMin
  <1>4. ASSUME NEW y \in S  PROVE x <= y
    <2>1. x \in Nat /\ y \in Nat
      OBVIOUS
    <2>2. ~(y < x)
      BY <1>2, <1>3, <2>1, Zenon
    <2> QED  BY <2>1, <2>2
  <1> QED  BY <1>4 DEF Min

\* What is given out as an id is one of the tokens.
LEMMA FreshToken == FreshId \in Tokens
  BY DEF FreshId, Tokens

\* What a worker or an orphan stores in the directory d.
LEMMA FilledType ==
    ASSUME GraphInv, NEW h \in Hosts, NEW r \in Reqs, NEW ctx \in BOOLEAN,
           NEW status \in WorkerStatuses, Dir(h, ctx) \in Hosts
    PROVE  /\ Filled(h, r, ctx, status) \in FindingType
           /\ Filled(h, r, ctx, status) # None
           /\ Filled(h, r, ctx, status).status = status
  <1> DEFINE d == Dir(h, ctx)
  <1>1. disk[d][r] \in FindingType
    BY DEF GraphInv, TypesOK, DiskTypes
  <1>2. BoundId(d, r) \in Tokens
    <2>1. CASE disk[d][r] = None
      BY <2>1, FreshToken DEF BoundId
    <2>2. CASE disk[d][r] # None
      BY <1>1, <2>2 DEF BoundId, FindingType, Finding
    <2> QED  BY <2>1, <2>2
  <1>3. Target(h, ctx) \in Hosts
    BY AssessAssumption DEF Target
  <1>4. Filled(h, r, ctx, status) = [id |-> BoundId(d, r), status |-> status, asset |-> h,
                                     seen |-> Target(h, ctx)]
    BY DEF Filled
  <1> HIDE DEF d
  <1>5. Filled(h, r, ctx, status) \in Finding
    BY <1>2, <1>3, <1>4 DEF Finding, WorkerStatuses, Errors
  <1> QED  BY <1>4, <1>5 DEF FindingType, None, WorkerStatuses

\* Merging maps of findings.
LEMMA MergeIs ==
    ASSUME NEW known \in [Reqs -> FindingType], NEW new \in [Reqs -> FindingType]
    PROVE  /\ Merge(known, new) \in [Reqs -> FindingType]
           /\ \A r \in Reqs : Merge(known, new)[r] = IF new[r] = None THEN known[r] ELSE new[r]
  BY DEF Merge

\* The node after an assessment.
LEMMA RouteAssess ==
    ASSUME NEW s \in StateType, s.pending \cap s.skipped = {}, \A r \in Reqs : Settled(s, r)
    PROVE  route_after_assess(s) \in Nodes \ {"load", "facts", "assess"}
           /\ StateOK(route_after_assess(s), s)
  BY AssessAssumption DEF route_after_assess, StateOK, After, Nodes, StateType

\* The node after a reply of the operator.
LEMMA RouteHitl ==
    ASSUME NEW s \in StateType, s.pending \cap s.skipped = {}, \A r \in Reqs : Settled(s, r)
    PROVE  route_after_hitl(s) \in Nodes /\ StateOK(route_after_hitl(s), s)
  BY AssessAssumption DEF route_after_hitl, StateOK, After, Nodes, StateType

\* A decision is about failures: each of them is skipped, or all that are asked for are
\* pending again.
LEMMA DecidedIs ==
    ASSUME NEW s \in StateType, Candidates(s) # {}, s.pending \cap s.skipped = {},
           \A r \in Reqs : Settled(s, r), NEW a \in Actions
    PROVE  LET t == Decided(s, a) IN
             /\ t \in StateType /\ t.pending \cap t.skipped = {}
             /\ \A r \in Reqs : Settled(t, r)
             /\ \A r \in Reqs : \/ t.findings[r] = s.findings[r]
                                \/ r \in Candidates(s) /\ r \in t.skipped
             /\ \A r \in Reqs : t.findings[r].id = s.findings[r].id
             /\ s.skipped \subseteq t.skipped /\ t.pending \subseteq Candidates(s)
  <1> DEFINE all   == Candidates(s)
             about == IF a \in {"skip", "retry"} THEN {Min(all)} ELSE all
             marked == [r \in Reqs |-> IF r \in about THEN skipped_finding(s.findings[r])
                                       ELSE s.findings[r]]
  <1>1. about \subseteq all /\ all \subseteq Reqs
    <2>1. all \subseteq Reqs /\ all # {} /\ all \subseteq Nat
      BY AssessAssumption DEF Candidates
    <2>2. Min(all) \in all
      BY <2>1, MinIs
    <2> QED  BY <2>1, <2>2
  <1>2. \A r \in about : s.findings[r] \in Finding /\ s.findings[r].status \in Errors
                         /\ r \notin s.skipped
    BY <1>1 DEF Candidates, StateType, FindingType, None, Errors
  <1>3. \A r \in about : /\ skipped_finding(s.findings[r]) \in Finding
                         /\ skipped_finding(s.findings[r]).status = "skipped"
                         /\ skipped_finding(s.findings[r]).id = s.findings[r].id
    BY <1>2 DEF skipped_finding, Finding, Errors
  <1>4. /\ Decided(s, a) = IF a \in {"skip", "skip_all"}
                           THEN [s EXCEPT !.findings = marked, !.skipped = @ \cup about,
                                               !.pending = {}]
                           ELSE [s EXCEPT !.pending = about, !.retry = 0]
    BY DEF Decided
  <1> HIDE DEF about
  <1>5. marked \in [Reqs -> FindingType]
    BY <1>1, <1>3 DEF StateType, FindingType
  <1>6. \A r \in about : marked[r] # None /\ marked[r].status = "skipped"
    BY <1>1, <1>3 DEF None
  <1>7. /\ \A r \in Reqs \ about : marked[r] = s.findings[r]
        /\ \A r \in Reqs : marked[r].id = s.findings[r].id
    BY <1>3
  <1> HIDE DEF marked
  <1>8. CASE a \in {"skip", "skip_all"}
    <2> DEFINE t == Decided(s, a)
    <2> DEFINE skip == s.skipped \cup about
    <2>a. t = [s EXCEPT !.findings = marked, !.skipped = skip, !.pending = {}]
      BY <1>4, <1>8
    <2>b. skip \in SUBSET Reqs
      BY <1>1 DEF StateType
    <2>1. /\ t \in StateType /\ t.findings = marked /\ t.skipped = s.skipped \cup about
          /\ t.pending = {}
      <3> HIDE DEF t
      <3> QED  BY <1>5, <2>a, <2>b DEF StateType
    <2> HIDE DEF t
    <2>2. \A r \in Reqs : Settled(t, r)
      BY <1>6, <1>7, <2>1 DEF Settled
    <2>3. \A r \in Reqs : t.findings[r] = s.findings[r] \/ (r \in all /\ r \in t.skipped)
      BY <1>1, <1>7, <2>1
    <2> QED  BY <1>7, <2>1, <2>2, <2>3 DEF t
  <1>9. CASE a \notin {"skip", "skip_all"}
    <2> DEFINE t == Decided(s, a)
    <2>a. t = [s EXCEPT !.pending = about, !.retry = 0]
      BY <1>4, <1>9
    <2>b. about \in SUBSET Reqs /\ 0 \in 0 .. MaxRetries
      BY <1>1, AssessAssumption
    <2>1. /\ t \in StateType /\ t.findings = s.findings /\ t.skipped = s.skipped
          /\ t.pending = about
      <3> HIDE DEF t
      <3> QED  BY <2>a, <2>b DEF StateType
    <2> HIDE DEF t
    <2>2. \A r \in Reqs : Settled(t, r)
      BY <2>1 DEF Settled
    <2> QED  BY <1>1, <1>2, <2>1, <2>2 DEF t
  <1> QED  BY <1>8, <1>9

\* The state after loading the findings on disk.
LEMMA LoadedIs ==
    ASSUME NEW s \in StateType, s.skipped = {}, NEW found \in [Reqs -> FindingType],
           \A r \in Reqs : found[r] # None => found[r].status \in WorkerStatuses
    PROVE  LET t == [s EXCEPT !.findings = Merge(@, found),
                              !.pending = {r \in Reqs : found[r] = None}]
           IN t \in StateType /\ StateOK("facts", t)
  <1> DEFINE t == [s EXCEPT !.findings = Merge(@, found),
                            !.pending = {r \in Reqs : found[r] = None}]
  <1>1. /\ t \in StateType /\ t.findings = Merge(s.findings, found) /\ t.skipped = {}
        /\ t.pending = {r \in Reqs : found[r] = None}
    BY MergeIs DEF StateType
  <1> HIDE DEF t
  <1>2. ASSUME NEW r \in Reqs \ t.pending
        PROVE  Settled(t, r)
    <2>1. t.findings[r] = found[r] /\ found[r] # None
      BY <1>1, <1>2, MergeIs DEF StateType
    <2> QED  BY <1>1, <2>1 DEF Settled, WorkerStatuses
  <1>3. StateOK("facts", t)
    BY <1>1, <1>2 DEF StateOK, After
  <1> QED  BY <1>1, <1>3 DEF t

\* What the assess node returns for the state s and the findings of its workers.
Assessed(s, new) == [s EXCEPT !.findings = Merge(@, new),
                              !.pending = {r \in Reqs : Recoverable(new[r])}]

\* The state after all workers of the pending requirements are done.
LEMMA AssessedIs ==
    ASSUME NEW s \in StateType, StateOK("assess", s), NEW new \in [Reqs -> FindingType],
           \A r \in Reqs : IF r \in s.pending THEN new[r].status \in WorkerStatuses
                           ELSE new[r] = None
    PROVE  LET t == Assessed(s, new) IN
           /\ t \in StateType /\ t.pending \cap t.skipped = {} /\ \A r \in Reqs : Settled(t, r)
           /\ t.skipped = s.skipped /\ t.pending \subseteq s.pending
           /\ \A r \in Reqs : t.findings[r] = IF r \in s.pending THEN new[r] ELSE s.findings[r]
           /\ \A r \in t.pending : t.findings[r].status = "transport"
  <1> DEFINE t == Assessed(s, new)
  <1>1. /\ t \in StateType /\ t.findings = Merge(s.findings, new) /\ t.skipped = s.skipped
        /\ t.pending = {r \in Reqs : Recoverable(new[r])}
    BY MergeIs DEF StateType, Assessed
  <1> HIDE DEF t
  <1>2. t.pending \subseteq s.pending
    BY <1>1 DEF Recoverable, None
  <1>3. \A r \in Reqs : t.findings[r] = IF r \in s.pending THEN new[r] ELSE s.findings[r]
    <2>1. \A r \in s.pending : new[r] # None
      BY DEF StateType, None, WorkerStatuses
    <2>2. \A r \in Reqs : t.findings[r] = IF new[r] = None THEN s.findings[r] ELSE new[r]
      BY <1>1 DEF Merge
    <2> QED  BY <2>1, <2>2
  <1>4. \A r \in Reqs : Settled(t, r)
    <2> SUFFICES ASSUME NEW r \in Reqs  PROVE Settled(t, r)
      OBVIOUS
    <2>1. CASE r \in s.pending
      BY <1>1, <1>3, <2>1 DEF Settled, StateOK, None, WorkerStatuses
    <2>2. CASE r \notin s.pending
      BY <1>1, <1>3, <2>2 DEF Settled, StateOK
    <2> QED  BY <2>1, <2>2
  <1>5. \A r \in t.pending : t.findings[r].status = "transport"
    BY <1>1, <1>2, <1>3 DEF Recoverable, StateType
  <1> QED  BY <1>1, <1>2, <1>3, <1>4, <1>5 DEF t, StateOK

-----------------------------------------------------------------------------
(* Steps keep the invariant of the graph.                                  *)

\* What the coroutines of h, its operator and their faults do.
ThreadStep(h) == \/ Step(h) \/ Start(h) \/ Continue(h) \/ Cancel(h)
                 \/ \E raw \in Actions \cup {"vague"} : Answer(h, raw)
                 \/ \E r \in Reqs : WorkerFatal(h, r)

\* Another thread stays as it is.
Same(g) == /\ inv'[g] = inv[g] /\ node'[g] = node[g] /\ st'[g] = st[g]
           /\ worker'[g] = worker[g] /\ bound'[g] = bound[g]

\* A step of a thread leaves the other threads alone.
LEMMA OthersStay ==
    ASSUME GraphInv, NEW h \in Hosts, ThreadStep(h), NEW g \in Hosts \ {h}
    PROVE  Same(g)
  <1> USE DEF GraphInv, TypesOK, ThreadTypes, Same, Return, Raise
  <1>1. CASE load_framework(h) \/ collect_host_facts(h)
    BY <1>1 DEF load_framework, collect_host_facts
  <1>2. CASE AssessNothing(h) \/ AssessBegin(h)
    BY <1>2 DEF AssessNothing, AssessBegin
  <1>3. CASE AssessEnd(h)
    BY <1>3 DEF AssessEnd
  <1>4. CASE reconnect_session(h) \/ GatePause(h) \/ Finalize(h)
    BY <1>4 DEF reconnect_session, GatePause, Finalize
  <1>5. ASSUME NEW r \in Reqs, \/ WorkerStart(h, r) \/ WorkerDone(h, r)
                               \/ \E s \in WorkerStatuses : WorkerStore(h, r, s)
        PROVE  Same(g)
    BY <1>5 DEF WorkerStart, WorkerDone, WorkerStore
  <1>6. CASE Start(h) \/ Continue(h)
    BY <1>6 DEF Start, Continue, Invoke
  <1>7. CASE Cancel(h) \/ \E r \in Reqs : WorkerFatal(h, r)
    BY <1>7 DEF Cancel, WorkerFatal
  <1>8. ASSUME NEW raw \in Actions \cup {"vague"}, Answer(h, raw)
        PROVE  Same(g)
    BY <1>8 DEF Answer, Invoke
  <1> QED  BY <1>1, <1>2, <1>3, <1>4, <1>5, <1>6, <1>7, <1>8 DEF ThreadStep, Step

\* The thread h after a step is as it should be.
Moves(h) == /\ ThreadTypes' /\ ThreadOK(inv'[h], node'[h], st'[h], worker'[h])

\* Loading the framework and collecting the facts of the host.
LEMMA LoadMoves ==
    ASSUME GraphInv, NEW h \in Hosts, load_framework(h) \/ collect_host_facts(h)
    PROVE  Moves(h)
  <1>0. ThreadTypes /\ DiskTypes /\ DiskOK /\ ThreadOK(inv[h], node[h], st[h], worker[h])
    BY DEF GraphInv, TypesOK
  <1>1. inv[h] = "run" /\ worker' = worker /\ bound' = bound
    BY DEF load_framework, collect_host_facts, At
  <1>2. node[h] # "assess"
    BY DEF load_framework, collect_host_facts, At
  <1>3. \A n, s : Busy(worker[h]) = {} /\ WorkersOK("run", n, s, worker[h])
                  /\ WorkersOK("stopped", n, s, worker[h])
    BY <1>0, <1>2 DEF ThreadOK, WorkersOK
  <1>4. CASE collect_host_facts(h)
    <2>1. inv' = inv /\ st' = [st EXCEPT ![h] = st[h]] /\ node' = [node EXCEPT ![h] = "assess"]
          /\ node[h] = "facts"
      BY <1>4 DEF collect_host_facts, Return, At
    <2>2. StateOK("assess", st[h])
      BY <1>0, <2>1 DEF ThreadOK, StateOK, After
    <2>3. inv'[h] = "run" /\ node'[h] = "assess" /\ st'[h] = st[h] /\ worker'[h] = worker[h]
      BY <1>0, <1>1, <2>1 DEF ThreadTypes
    <2>4. ThreadTypes'
      BY <1>0, <1>1, <2>1 DEF ThreadTypes, Nodes
    <2> QED  BY <1>3, <2>2, <2>3, <2>4 DEF Moves, ThreadOK
  <1>5. CASE load_framework(h)
    <2> DEFINE s == [st[h] EXCEPT !.findings = Merge(@, disk[h]),
                                  !.pending = {r \in Reqs : disk[h][r] = None}]
    <2>1. node[h] = "load" /\ (Raise(h) \/ (Return(h, s, "facts") /\ inv' = inv))
      BY <1>5 DEF load_framework, At
    <2>2. s \in StateType /\ StateOK("facts", s)
      <3>1. st[h] \in StateType /\ st[h].skipped = {}
        BY <1>0, <2>1 DEF ThreadTypes, ThreadOK, StateOK
      <3>2. /\ disk[h] \in [Reqs -> FindingType]
            /\ \A r \in Reqs : disk[h][r] # None => disk[h][r].status \in WorkerStatuses
        BY <1>0 DEF DiskTypes, DiskOK
      <3> QED  BY <3>1, <3>2, LoadedIs
    <2> HIDE DEF s
    <2>3. CASE Raise(h)
      <3>1. /\ ThreadTypes' /\ inv'[h] = "stopped" /\ node'[h] = node[h] /\ st'[h] = st[h]
            /\ worker'[h] = worker[h]
        BY <1>0, <1>1, <2>3 DEF Raise, ThreadTypes, Phases
      <3> QED  BY <1>0, <1>3, <3>1 DEF Moves, ThreadOK
    <2>4. CASE Return(h, s, "facts") /\ inv' = inv
      <3>1. /\ ThreadTypes' /\ inv'[h] = "run" /\ node'[h] = "facts" /\ st'[h] = s
            /\ worker'[h] = worker[h]
        BY <1>0, <1>1, <2>2, <2>4 DEF Return, ThreadTypes, Nodes
      <3> QED  BY <1>3, <2>2, <3>1 DEF Moves, ThreadOK
    <2> QED  BY <2>1, <2>3, <2>4
  <1> QED  BY <1>4, <1>5

\* The assessment begins, or there is nothing to assess.
LEMMA AssessMoves ==
    ASSUME GraphInv, NEW h \in Hosts, AssessNothing(h) \/ AssessBegin(h)
    PROVE  Moves(h)
  <1>0. ThreadTypes /\ ThreadOK(inv[h], node[h], st[h], worker[h])
    BY DEF GraphInv, TypesOK
  <1>1. /\ inv[h] = "run" /\ node[h] = "assess" /\ inv' = inv /\ bound' = bound
        /\ st[h] \in StateType
    BY <1>0 DEF AssessNothing, AssessBegin, At, ThreadTypes
  <1>2. CASE AssessNothing(h)
    <2>1. /\ st[h].pending = {} /\ worker' = worker
          /\ st' = [st EXCEPT ![h] = st[h]]
          /\ node' = [node EXCEPT ![h] = route_after_assess(st[h])]
      BY <1>2 DEF AssessNothing, Return
    <2>2. \A r \in Reqs : Settled(st[h], r)
      BY <1>0, <1>1, <2>1 DEF ThreadOK, StateOK
    <2>3. /\ route_after_assess(st[h]) \in Nodes \ {"load", "facts", "assess"}
          /\ StateOK(route_after_assess(st[h]), st[h])
      BY <1>1, <2>1, <2>2, RouteAssess
    <2>4. Busy(worker[h]) = {} /\ WorkersOK("run", route_after_assess(st[h]), st[h], worker[h])
      BY <1>0, <1>1, <2>1 DEF ThreadOK, WorkersOK
    <2>5. /\ ThreadTypes' /\ inv'[h] = "run" /\ node'[h] = route_after_assess(st[h])
          /\ st'[h] = st[h] /\ worker'[h] = worker[h]
      BY <1>0, <1>1, <2>1, <2>3 DEF ThreadTypes
    <2> QED  BY <2>3, <2>4, <2>5 DEF Moves, ThreadOK
  <1>3. CASE AssessBegin(h)
    <2> DEFINE w == [r \in Reqs |-> IF r \in st[h].pending THEN [NoWorker EXCEPT !.at = "ready"]
                                    ELSE NoWorker]
    <2>1. worker' = [worker EXCEPT ![h] = w] /\ node' = node /\ st' = st
      BY <1>3 DEF AssessBegin
    <2>2. /\ w \in [Reqs -> WorkerType]
          /\ \A r \in Reqs : /\ w[r].at = IF r \in st[h].pending THEN "ready" ELSE "none"
                             /\ w[r].result = None
      BY NoneIs DEF NoWorker, WorkerType
    <2> HIDE DEF w
    <2>3. WorkersOK("run", "assess", st[h], w)
      BY <1>1, <2>2 DEF WorkersOK, Busy, StateType
    <2>4. ThreadTypes' /\ worker'[h] = w
      BY <1>0, <1>1, <2>1, <2>2 DEF ThreadTypes
    <2> QED  BY <1>0, <1>1, <2>1, <2>3, <2>4 DEF Moves, ThreadOK
  <1> QED  BY <1>2, <1>3

\* A worker becomes w, which is not idle: what it has, if it has stored it, is a finding.
LEMMA WorkerMoves ==
    ASSUME GraphInv, NEW h \in Hosts, NEW r \in Reqs, NEW x \in WorkerType,
           worker[h][r].at # "none", x.at # "none",
           IF x.at \in {"stored", "done"} THEN x.result.status \in WorkerStatuses
           ELSE x.result = None,
           worker' = [worker EXCEPT ![h][r] = x],
           UNCHANGED <<inv, node, st, bound>>
    PROVE  Moves(h) /\ Busy(worker'[h]) = Busy(worker[h])
  <1>0. ThreadTypes /\ ThreadOK(inv[h], node[h], st[h], worker[h])
    BY DEF GraphInv, TypesOK
  <1>1. /\ worker' \in [Hosts -> [Reqs -> WorkerType]] /\ worker'[h][r] = x
        /\ \A q \in Reqs \ {r} : worker'[h][q] = worker[h][q]
    BY <1>0 DEF ThreadTypes
  <1>2. Busy(worker'[h]) = Busy(worker[h])
    BY <1>1 DEF Busy
  <1>3. \A q \in Reqs : IF worker'[h][q].at \in {"stored", "done"}
                        THEN worker'[h][q].result.status \in WorkerStatuses
                        ELSE worker'[h][q].result = None
    BY <1>0, <1>1 DEF ThreadOK, WorkersOK
  <1>4. WorkersOK(inv[h], node[h], st[h], worker'[h])
    BY <1>0, <1>2, <1>3 DEF ThreadOK, WorkersOK
  <1>5. ThreadTypes'
    BY <1>0, <1>1 DEF ThreadTypes
  <1> QED  BY <1>0, <1>2, <1>4, <1>5 DEF Moves, ThreadOK

\* A worker starts, stores its finding or is done.
LEMMA WorkMoves ==
    ASSUME GraphInv, NEW h \in Hosts, NEW r \in Reqs,
           \/ WorkerStart(h, r) \/ WorkerDone(h, r)
           \/ \E s \in WorkerStatuses : WorkerStore(h, r, s)
    PROVE  Moves(h) /\ Busy(worker'[h]) = Busy(worker[h])
  <1>0. /\ worker \in [Hosts -> [Reqs -> WorkerType]] /\ worker[h][r] \in WorkerType
        /\ WorkersOK(inv[h], node[h], st[h], worker[h])
    BY DEF GraphInv, TypesOK, ThreadTypes, ThreadOK
  <1>1. CASE WorkerStart(h, r) \/ WorkerDone(h, r)
    <2>1. PICK to \in {"busy", "done"} :
            /\ worker' = [worker EXCEPT ![h][r].at = to]
            /\ worker[h][r].at = IF to = "busy" THEN "ready" ELSE "stored"
      BY <1>1 DEF WorkerStart, WorkerDone
    <2> DEFINE x == [worker[h][r] EXCEPT !.at = to]
    <2>2. worker' = [worker EXCEPT ![h][r] = x]
      BY <1>0, <2>1
    <2>3. x \in WorkerType /\ x.at = to /\ x.result = worker[h][r].result
      BY <1>0 DEF WorkerType
    <2>4. IF to = "done" THEN x.result.status \in WorkerStatuses ELSE x.result = None
      BY <1>0, <2>1, <2>3 DEF WorkersOK
    <2>5. UNCHANGED <<inv, node, st, bound>>
      BY <1>1 DEF WorkerStart, WorkerDone
    <2> HIDE DEF x
    <2> QED  BY <2>1, <2>2, <2>3, <2>4, <2>5, WorkerMoves
  <1>2. ASSUME NEW status \in WorkerStatuses, WorkerStore(h, r, status)
        PROVE  Moves(h) /\ Busy(worker'[h]) = Busy(worker[h])
    <2> DEFINE f == Filled(h, r, bound[h], status)
               x == [at |-> "stored", result |-> f]
    <2>1. worker[h][r].at = "busy" /\ worker' = [worker EXCEPT ![h][r] = x]
          /\ UNCHANGED <<inv, node, st, bound>>
      BY <1>2 DEF WorkerStore
    <2>2. bound[h] \in BOOLEAN /\ Dir(h, bound[h]) \in Hosts
      <3>1. h \in Hosts /\ Working(h) # {}
        BY <2>1 DEF Working
      <3> QED  BY <3>1 DEF GraphInv, TypesOK, ThreadTypes, DiskOK, Dir
    <2>3. f \in FindingType /\ f.status = status
      BY <2>2, FilledType
    <2> HIDE DEF f
    <2>4. x \in WorkerType /\ x.at = "stored" /\ x.result.status \in WorkerStatuses
      BY <2>3 DEF WorkerType
    <2> HIDE DEF x
    <2> QED  BY <2>1, <2>4, WorkerMoves
  <1> QED  BY <1>1, <1>2

\* All workers are done: the findings are merged, or refused.
LEMMA AssessedMoves ==
    ASSUME GraphInv, NEW h \in Hosts, AssessEnd(h)
    PROVE  Moves(h)
  <1>0. ThreadTypes /\ ThreadOK(inv[h], node[h], st[h], worker[h])
    BY DEF GraphInv, TypesOK
  <1>1. /\ inv[h] = "run" /\ node[h] = "assess" /\ st[h] \in StateType /\ bound' = bound
        /\ worker' = [worker EXCEPT ![h] = NoWorkers]
        /\ \A r \in Busy(worker[h]) : worker[h][r].at = "done"
        /\ Busy(worker[h]) # {}
    BY <1>0 DEF AssessEnd, At, ThreadTypes, Working, Busy
  <1> DEFINE new == [r \in Reqs |-> worker[h][r].result]
             s   == [st[h] EXCEPT !.findings = Merge(@, new),
                                  !.pending = {r \in Reqs : Recoverable(new[r])}]
  <1>2. Raise(h) \/ (Return(h, s, route_after_assess(s)) /\ inv' = inv)
    BY DEF AssessEnd
  <1>3. /\ new \in [Reqs -> FindingType]
        /\ \A r \in Reqs : IF r \in st[h].pending THEN new[r].status \in WorkerStatuses
                           ELSE new[r] = None
    BY <1>0, <1>1 DEF ThreadTypes, WorkerType, ThreadOK, WorkersOK, Busy
  <1> HIDE DEF new
  <1>4. s \in StateType /\ s.pending \cap s.skipped = {} /\ \A r \in Reqs : Settled(s, r)
    <2>1. StateOK("assess", st[h])
      BY <1>0, <1>1 DEF ThreadOK
    <2>2. s = Assessed(st[h], new)
      BY DEF Assessed
    <2>3. st[h] \in StateType /\ new \in [Reqs -> FindingType]
      BY <1>1, <1>3
    <2>4. \A r \in Reqs : IF r \in st[h].pending THEN new[r].status \in WorkerStatuses
                          ELSE new[r] = None
      BY <1>3
    <2> HIDE DEF s
    <2> QED  BY <2>1, <2>2, <2>3, <2>4, AssessedIs
  <1> HIDE DEF s
  <1>5. NoWorkers \in [Reqs -> WorkerType] /\ \A i, n, t : WorkersOK(i, n, t, NoWorkers)
    BY NoneIs DEF NoWorkers, NoWorker, WorkerType, WorkersOK, Busy
  <1>6. CASE Raise(h)
    <2>1. /\ ThreadTypes' /\ inv'[h] = "stopped" /\ node'[h] = node[h] /\ st'[h] = st[h]
          /\ worker'[h] = NoWorkers
      BY <1>0, <1>1, <1>5, <1>6 DEF Raise, ThreadTypes, Phases
    <2> QED  BY <1>0, <1>5, <2>1 DEF Moves, ThreadOK
  <1>7. CASE Return(h, s, route_after_assess(s)) /\ inv' = inv
    <2>1. /\ route_after_assess(s) \in Nodes \ {"load", "facts", "assess"}
          /\ StateOK(route_after_assess(s), s)
      BY <1>4, RouteAssess
    <2>2. /\ ThreadTypes' /\ inv'[h] = "run" /\ node'[h] = route_after_assess(s)
          /\ st'[h] = s /\ worker'[h] = NoWorkers
      BY <1>0, <1>1, <1>4, <1>5, <1>7, <2>1 DEF Return, ThreadTypes
    <2> QED  BY <1>5, <2>1, <2>2 DEF Moves, ThreadOK
  <1> QED  BY <1>2, <1>6, <1>7

\* Reconnecting, pausing at the gate and finalizing.
LEMMA QuietMoves ==
    ASSUME GraphInv, NEW h \in Hosts, reconnect_session(h) \/ GatePause(h) \/ Finalize(h)
    PROVE  Moves(h)
  <1>0. ThreadTypes /\ ThreadOK(inv[h], node[h], st[h], worker[h]) /\ st[h] \in StateType
    BY DEF GraphInv, TypesOK, ThreadTypes
  <1>1. /\ inv[h] = "run" /\ node[h] \in {"reconnect", "human_gate", "finalize"}
        /\ worker' = worker /\ bound' = bound
    BY DEF reconnect_session, GatePause, Finalize, At
  <1>2. \A i, n, s : WorkersOK(i, n, s, worker[h])
    BY <1>0, <1>1 DEF ThreadOK, WorkersOK
  <1>3. CASE reconnect_session(h)
    <2> DEFINE s == [st[h] EXCEPT !.retry = @ + 1]
    <2>1. /\ node[h] = "reconnect" /\ inv' = inv /\ st' = [st EXCEPT ![h] = s]
          /\ node' = [node EXCEPT ![h] = "assess"]
      BY <1>3 DEF reconnect_session, Return, At
    <2>2. /\ s \in StateType /\ s.findings = st[h].findings /\ s.pending = st[h].pending
          /\ s.skipped = st[h].skipped
      BY <1>0, <2>1, AssessAssumption DEF StateType, ThreadOK, StateOK
    <2> HIDE DEF s
    <2>3. StateOK("assess", s)
      BY <1>0, <2>1, <2>2 DEF ThreadOK, StateOK, Settled, After
    <2>4. /\ ThreadTypes' /\ inv'[h] = "run" /\ node'[h] = "assess" /\ st'[h] = s
          /\ worker'[h] = worker[h]
      BY <1>0, <1>1, <2>1, <2>2 DEF ThreadTypes, Nodes
    <2> QED  BY <1>2, <2>3, <2>4 DEF Moves, ThreadOK
  <1>4. CASE GatePause(h)
    <2>1. /\ ThreadTypes' /\ inv'[h] = "paused" /\ node'[h] = node[h] /\ st'[h] = st[h]
          /\ worker'[h] = worker[h] /\ node[h] = "human_gate"
      BY <1>0, <1>1, <1>4 DEF GatePause, ThreadTypes, Phases, At
    <2> QED  BY <1>0, <1>2, <2>1 DEF Moves, ThreadOK
  <1>5. CASE Finalize(h)
    <2> DEFINE s == [st[h] EXCEPT !.pending = {}]
    <2>1. /\ node[h] = "finalize" /\ inv' = [inv EXCEPT ![h] = "done"]
          /\ st' = [st EXCEPT ![h] = s] /\ node' = [node EXCEPT ![h] = "end"]
      BY <1>5 DEF Finalize, Return, At
    <2>2. /\ s \in StateType /\ s.findings = st[h].findings /\ s.pending = {}
          /\ s.skipped = st[h].skipped
      BY <1>0 DEF StateType
    <2> HIDE DEF s
    <2>3. Candidates(s) = Candidates(st[h])
      BY <2>2 DEF Candidates
    <2>4. StateOK("end", s)
      BY <1>0, <2>1, <2>2, <2>3 DEF ThreadOK, StateOK, Settled, After
    <2>5. /\ ThreadTypes' /\ inv'[h] = "done" /\ node'[h] = "end" /\ st'[h] = s
          /\ worker'[h] = worker[h]
      BY <1>0, <1>1, <2>1, <2>2 DEF ThreadTypes, Nodes, After, Phases
    <2> QED  BY <1>2, <2>4, <2>5 DEF Moves, ThreadOK
  <1> QED  BY <1>3, <1>4, <1>5

\* What a reply does: it is asked for once more, or the thread goes on as decided.
LEMMA AnswerIs ==
    ASSUME NEW h \in Hosts, NEW raw \in Actions \cup {"vague"}, Answer(h, raw)
    PROVE  \/ UNCHANGED <<inv, node, st, bound>>
           \/ \E a \in Actions :
                /\ Return(h, Decided(st[h], a), route_after_hitl(Decided(st[h], a)))
                /\ Invoke(h)
  <1>1. \A x : Meaning(x) \subseteq Actions \cup {"unknown"}
    BY DEF Meaning, Parsed
  <1>2. "skip_all" \in Actions
    BY DEF Actions
  <1>3. ASSUME NEW next \in Actions \cup {"unknown"},
               LET s == Decided(st[h], IF next = "unknown" THEN "skip_all" ELSE next)
               IN Return(h, s, route_after_hitl(s)) /\ Invoke(h)
        PROVE  \E a \in Actions :
                  /\ Return(h, Decided(st[h], a), route_after_hitl(Decided(st[h], a)))
                  /\ Invoke(h)
    <2>1. (IF next = "unknown" THEN "skip_all" ELSE next) \in Actions
      BY <1>2
    <2> QED  BY <1>3, <2>1
  <1> QED  BY <1>1, <1>3 DEF Answer

\* A reply of the operator.
LEMMA AnswerMoves ==
    ASSUME GraphInv, NEW h \in Hosts, NEW raw \in Actions \cup {"vague"}, Answer(h, raw)
    PROVE  Moves(h)
  <1>0. ThreadTypes /\ ThreadOK(inv[h], node[h], st[h], worker[h]) /\ st[h] \in StateType
    BY DEF GraphInv, TypesOK, ThreadTypes
  <1>1. inv[h] = "paused" /\ worker' = worker
    BY DEF Answer
  <1>2. \A i, n, s : WorkersOK(i, n, s, worker[h])
    BY <1>0, <1>1 DEF ThreadOK, WorkersOK
  <1>3. CASE UNCHANGED <<inv, node, st, bound>>
    BY <1>0, <1>1, <1>3 DEF Moves, ThreadTypes
  <1>4. ASSUME NEW a \in Actions, Invoke(h),
               Return(h, Decided(st[h], a), route_after_hitl(Decided(st[h], a)))
        PROVE  Moves(h)
    <2> DEFINE s == Decided(st[h], a)
    <2>1. node[h] = "human_gate"
      BY <1>0, <1>1 DEF ThreadOK
    <2>2. /\ Candidates(st[h]) # {} /\ st[h].pending \cap st[h].skipped = {}
          /\ \A r \in Reqs : Settled(st[h], r)
      BY <1>0, <2>1 DEF ThreadOK, StateOK, After
    <2>3. s \in StateType /\ s.pending \cap s.skipped = {} /\ \A r \in Reqs : Settled(s, r)
      BY <1>0, <2>2, DecidedIs
    <2>4. inv' = [inv EXCEPT ![h] = "run"] /\ bound' = [bound EXCEPT ![h] = FALSE]
          /\ st' = [st EXCEPT ![h] = s] /\ node' = [node EXCEPT ![h] = route_after_hitl(s)]
      BY <1>4 DEF Invoke, Return
    <2> HIDE DEF s
    <2>5. route_after_hitl(s) \in Nodes /\ StateOK(route_after_hitl(s), s)
      BY <2>3, RouteHitl
    <2>6. /\ ThreadTypes' /\ inv'[h] = "run" /\ node'[h] = route_after_hitl(s) /\ st'[h] = s
          /\ worker'[h] = worker[h]
      BY <1>0, <1>1, <2>3, <2>4, <2>5 DEF ThreadTypes, Phases
    <2> QED  BY <1>2, <2>5, <2>6 DEF Moves, ThreadOK
  <1> QED  BY <1>3, <1>4, AnswerIs

\* A thread is started, continued, cancelled or stopped by a write that fails.
LEMMA EntryMoves ==
    ASSUME GraphInv, NEW h \in Hosts,
           Start(h) \/ Continue(h) \/ Cancel(h) \/ \E r \in Reqs : WorkerFatal(h, r)
    PROVE  Moves(h)
  <1>0. ThreadTypes /\ ThreadOK(inv[h], node[h], st[h], worker[h]) /\ st[h] \in StateType
    BY DEF GraphInv, TypesOK, ThreadTypes
  <1>1. NoWorkers \in [Reqs -> WorkerType] /\ \A i, n, t : WorkersOK(i, n, t, NoWorkers)
    BY NoneIs DEF NoWorkers, NoWorker, WorkerType, WorkersOK, Busy
  <1>2. inv[h] # "run" => \A i, n, s : WorkersOK(i, n, s, worker[h])
    BY <1>0 DEF ThreadOK, WorkersOK
  <1>3. CASE Start(h)
    <2> DEFINE s == [st[h] EXCEPT !.retry = 0, !.skipped = {}]
    <2>1. /\ inv[h] \in {"none", "stopped"} /\ inv' = [inv EXCEPT ![h] = "run"]
          /\ bound' = [bound EXCEPT ![h] = TRUE] /\ node' = [node EXCEPT ![h] = "load"]
          /\ st' = [st EXCEPT ![h] = s] /\ worker' = worker
      BY <1>0, <1>3 DEF Start, ThreadTypes, StateType
    <2>2. s \in StateType /\ s.skipped = {}
      <3>1. 0 \in 0 .. MaxRetries /\ {} \in SUBSET Reqs
        BY AssessAssumption
      <3> QED  BY <1>0, <3>1 DEF StateType
    <2> HIDE DEF s
    <2>3. StateOK("load", s)
      BY <2>2 DEF StateOK, After
    <2>4. /\ ThreadTypes' /\ inv'[h] = "run" /\ node'[h] = "load" /\ st'[h] = s
          /\ worker'[h] = worker[h]
      BY <1>0, <2>1, <2>2 DEF ThreadTypes, Nodes, Phases
    <2> QED  BY <1>2, <2>1, <2>3, <2>4 DEF Moves, ThreadOK
  <1>4. CASE Continue(h)
    <2>1. /\ inv[h] = "stopped" /\ inv' = [inv EXCEPT ![h] = "run"]
          /\ bound' = [bound EXCEPT ![h] = FALSE] /\ node' = node /\ st' = st /\ worker' = worker
      BY <1>4 DEF Continue, Invoke
    <2>2. /\ ThreadTypes' /\ inv'[h] = "run" /\ node'[h] = node[h] /\ st'[h] = st[h]
          /\ worker'[h] = worker[h]
      BY <1>0, <2>1 DEF ThreadTypes, Phases
    <2> QED  BY <1>0, <1>2, <2>1, <2>2 DEF Moves, ThreadOK
  <1>5. CASE Cancel(h) \/ \E r \in Reqs : WorkerFatal(h, r)
    <2>1. /\ inv' = [inv EXCEPT ![h] = "stopped"] /\ node' = node /\ st' = st /\ bound' = bound
          /\ worker' = [worker EXCEPT ![h] = NoWorkers]
      BY <1>5 DEF Cancel, WorkerFatal, Raise
    <2>2. /\ ThreadTypes' /\ inv'[h] = "stopped" /\ node'[h] = node[h] /\ st'[h] = st[h]
          /\ worker'[h] = NoWorkers
      BY <1>0, <1>1, <2>1 DEF ThreadTypes, Phases
    <2> QED  BY <1>0, <1>1, <2>2 DEF Moves, ThreadOK
  <1> QED  BY <1>3, <1>4, <1>5

\* So is it after every step.
LEMMA ThreadMoves ==
    ASSUME GraphInv, NEW h \in Hosts, ThreadStep(h)
    PROVE  ThreadTypes' /\ \A g \in Hosts : ThreadOK(inv'[g], node'[g], st'[g], worker'[g])
  <1>1. Moves(h)
    BY LoadMoves, AssessMoves, WorkMoves, AssessedMoves, QuietMoves, AnswerMoves, EntryMoves
       DEF ThreadStep, Step
  <1>2. ASSUME NEW g \in Hosts \ {h}
        PROVE  ThreadOK(inv'[g], node'[g], st'[g], worker'[g])
    <2>1. Same(g)
      BY OthersStay
    <2>2. ThreadOK(inv[g], node[g], st[g], worker[g])
      BY DEF GraphInv
    <2> QED  BY <2>1, <2>2 DEF Same
  <1> QED  BY <1>1, <1>2 DEF Moves

\* What a worker or an orphan writes.
LEMMA StoreKeeps ==
    ASSUME GraphInv, NEW h \in Hosts, NEW r \in Reqs, NEW ctx \in BOOLEAN, NEW s \in WorkerStatuses,
           Dir(h, ctx) \in Hosts,
           disk' = [disk EXCEPT ![Dir(h, ctx)][r] = Filled(h, r, ctx, s)]
    PROVE  /\ disk' \in [Hosts -> [Reqs -> FindingType]]
           /\ \A g \in Hosts, q \in Reqs :
                disk'[g][q] # None => disk'[g][q].status \in WorkerStatuses
           /\ disk'[Dir(h, ctx)][r] = Filled(h, r, ctx, s)
           /\ \A g \in Hosts, q \in Reqs : g # Dir(h, ctx) \/ q # r => disk'[g][q] = disk[g][q]
  <1> DEFINE d == Dir(h, ctx)
             f == Filled(h, r, ctx, s)
  <1>1. f \in FindingType /\ f.status = s
    BY FilledType
  <1>2. disk \in [Hosts -> [Reqs -> FindingType]]
        /\ \A g \in Hosts, q \in Reqs : disk[g][q] # None => disk[g][q].status \in WorkerStatuses
    BY DEF GraphInv, TypesOK, DiskTypes, DiskOK
  <1> HIDE DEF d, f
  <1>3. disk' = [disk EXCEPT ![d][r] = f] /\ d \in Hosts
    BY DEF d, f
  <1>4. /\ disk' \in [Hosts -> [Reqs -> FindingType]] /\ disk'[d][r] = f
        /\ \A g \in Hosts, q \in Reqs : g # d \/ q # r => disk'[g][q] = disk[g][q]
    BY <1>1, <1>2, <1>3
  <1>5. \A g \in Hosts, q \in Reqs : disk'[g][q] # None => disk'[g][q].status \in WorkerStatuses
    BY <1>1, <1>2, <1>4
  <1> QED  BY <1>4, <1>5 DEF d, f

\* What else a step of a thread changes.
LEMMA Around ==
    ASSUME GraphInv, NEW h \in Hosts, ThreadStep(h)
    PROVE  /\ seg' \in {h, seg}
           /\ Busy(worker'[h]) # {} => seg' = h \/ Busy(worker[h]) # {}
           /\ orphans' = orphans \/ \E r \in Reqs : WorkerFatal(h, r)
           /\ UNCHANGED <<disk, late>> \/ \E r \in Reqs, s \in WorkerStatuses : WorkerStore(h, r, s)
           /\ ReplyTypes'
  <1> DEFINE P == /\ seg' \in {h, seg}
                  /\ Busy(worker'[h]) # {} => seg' = h \/ Busy(worker[h]) # {}
                  /\ orphans' = orphans \/ \E r \in Reqs : WorkerFatal(h, r)
                  /\ \/ UNCHANGED <<disk, late>>
                     \/ \E r \in Reqs, s \in WorkerStatuses : WorkerStore(h, r, s)
                  /\ ReplyTypes'
  <1> SUFFICES P
    OBVIOUS
  <1>0. ThreadTypes /\ ReplyTypes
    BY DEF GraphInv, TypesOK
  <1>a. Busy(NoWorkers) = {}
    BY DEF Busy, NoWorkers, NoWorker
  <1>1. CASE load_framework(h) \/ collect_host_facts(h)
    BY <1>0, <1>1 DEF load_framework, collect_host_facts, ReplyTypes
  <1>2. CASE AssessNothing(h) \/ AssessBegin(h)
    BY <1>0, <1>2 DEF AssessNothing, AssessBegin, ReplyTypes
  <1>3. CASE AssessEnd(h)
    BY <1>0, <1>a, <1>3 DEF AssessEnd, ReplyTypes, ThreadTypes
  <1>4. CASE reconnect_session(h) \/ GatePause(h) \/ Finalize(h)
    BY <1>0, <1>4 DEF reconnect_session, GatePause, Finalize, ReplyTypes
  <1>5. ASSUME NEW r \in Reqs, \/ WorkerStart(h, r) \/ WorkerDone(h, r)
                               \/ \E s \in WorkerStatuses : WorkerStore(h, r, s)
        PROVE  P
    <2>1. Busy(worker'[h]) = Busy(worker[h])
      BY <1>5, WorkMoves
    <2> QED  BY <1>0, <1>5, <2>1 DEF WorkerStart, WorkerDone, WorkerStore, ReplyTypes
  <1>6. CASE Start(h) \/ Continue(h)
    BY <1>0, <1>6 DEF Start, Continue, ReplyTypes
  <1>7. CASE Cancel(h) \/ \E r \in Reqs : WorkerFatal(h, r)
    <2>1. /\ worker' = [worker EXCEPT ![h] = NoWorkers] /\ seg' = seg /\ UNCHANGED <<disk, late>>
          /\ faults < MaxFaults /\ faults' = faults + 1 /\ UNCHANGED <<asked, replies>>
          /\ orphans' = orphans \/ \E r \in Reqs : WorkerFatal(h, r)
      BY <1>7 DEF Cancel, WorkerFatal
    <2>2. ReplyTypes'
      BY <1>0, <2>1, AssessAssumption DEF ReplyTypes
    <2> QED  BY <1>0, <1>a, <2>1, <2>2 DEF ThreadTypes
  <1>8. ASSUME NEW raw \in Actions \cup {"vague"}, Answer(h, raw)
        PROVE  P
    <2>1. /\ UNCHANGED <<worker, orphans, seg, disk, late, faults>>
          /\ replies < MaxReplies /\ replies' = replies + 1
          /\ \/ asked' = [asked EXCEPT ![h] = <<raw>>]
             \/ asked' = [asked EXCEPT ![h] = <<>>]
      BY <1>8 DEF Answer
    <2>2. ReplyTypes'
      BY <1>0, <2>1, AssessAssumption DEF ReplyTypes
    <2> QED  BY <2>1, <2>2
  <1> HIDE DEF P
  <1> QED  BY <1>1, <1>2, <1>3, <1>4, <1>5, <1>6, <1>7, <1>8 DEF ThreadStep, Step

\* The disk after a step of a thread.
LEMMA DiskMoves ==
    ASSUME GraphInv, NEW h \in Hosts, ThreadStep(h)
    PROVE  DiskTypes' /\ DiskOK'
  <1>0. DiskTypes /\ DiskOK /\ ThreadTypes
    BY DEF GraphInv, TypesOK
  <1>1. \A g \in Hosts \ {h} : worker'[g] = worker[g]
    BY OthersStay DEF Same
  <1>2. /\ disk' \in [Hosts -> [Reqs -> FindingType]] /\ late' \subseteq Hosts \X Reqs
        /\ \A g \in Hosts, q \in Reqs : disk'[g][q] # None => disk'[g][q].status \in WorkerStatuses
    <2>1. CASE UNCHANGED <<disk, late>>
      BY <1>0, <2>1 DEF DiskTypes, DiskOK
    <2>2. ASSUME NEW r \in Reqs, NEW s \in WorkerStatuses, WorkerStore(h, r, s)
          PROVE  /\ disk' \in [Hosts -> [Reqs -> FindingType]] /\ late' \subseteq Hosts \X Reqs
                 /\ \A g \in Hosts, q \in Reqs :
                      disk'[g][q] # None => disk'[g][q].status \in WorkerStatuses
      <3>1. bound[h] \in BOOLEAN /\ Working(h) # {}
        BY <1>0, <2>2 DEF WorkerStore, Working, ThreadTypes
      <3>2. Dir(h, bound[h]) \in Hosts
        BY <1>0, <3>1 DEF DiskOK, Dir
      <3>3. /\ disk' = [disk EXCEPT ![Dir(h, bound[h])][r] = Filled(h, r, bound[h], s)]
            /\ late' \subseteq late
        BY <2>2 DEF WorkerStore
      <3> QED  BY <1>0, <3>1, <3>2, <3>3, StoreKeeps DEF DiskTypes
    <2> QED  BY <2>1, <2>2, Around
  <1>3. /\ orphans' \subseteq Hosts \X Reqs \X BOOLEAN
        /\ orphans' # {} => orphans # {} \/ Working(h) # {}
    <2>1. CASE orphans' = orphans
      BY <1>0, <2>1 DEF DiskTypes
    <2>2. ASSUME NEW r \in Reqs, WorkerFatal(h, r)
          PROVE  /\ orphans' \subseteq Hosts \X Reqs \X BOOLEAN /\ Working(h) # {}
      <3>1. worker[h][r].at = "busy" /\ bound[h] \in BOOLEAN
        BY <1>0, <2>2 DEF WorkerFatal, ThreadTypes
      <3>2. orphans' = orphans \cup {<<h, q, bound[h]>> : q \in
                    {q \in Reqs \ {r} : worker[h][q].at \in {"ready", "busy"}}}
        BY <2>2 DEF WorkerFatal
      <3> QED  BY <1>0, <3>1, <3>2 DEF DiskTypes, Working
    <2> QED  BY <2>1, <2>2, Around
  <1>4. (orphans' # {} \/ \E g \in Hosts : Busy(worker'[g]) # {}) => seg' \in Hosts
    <2>1. seg' = h \/ seg' = seg
      BY Around
    <2>2. CASE seg' = h
      BY <2>2
    <2>3. CASE seg' = seg /\ seg' # h
      <3>1. \A g \in Hosts : Busy(worker'[g]) # {} => Busy(worker[g]) # {}
        BY <1>1, <2>3, Around
      <3>2. \A g \in Hosts : Busy(worker[g]) = Working(g)
        BY DEF Busy, Working
      <3> QED  BY <1>0, <1>3, <2>3, <3>1, <3>2 DEF DiskOK
    <2> QED  BY <2>1, <2>2, <2>3
  <1>5. seg' \in Hosts \cup {NoHost}
    BY <1>0, Around DEF DiskTypes
  <1>6. \A g \in Hosts : Busy(worker'[g]) = Working(g)'
    BY DEF Busy, Working
  <1> QED  BY <1>2, <1>3, <1>4, <1>5, <1>6 DEF DiskTypes, DiskOK

\* An orphan writes.
LEMMA OrphanMoves ==
    ASSUME GraphInv, NEW o \in orphans, NEW s \in WorkerStatuses, OrphanStore(o, s)
    PROVE  GraphInv'
  <1>0. DiskTypes /\ DiskOK /\ ThreadTypes /\ ReplyTypes
    BY DEF GraphInv, TypesOK
  <1>1. PICK h \in Hosts, r \in Reqs, ctx \in BOOLEAN : o = <<h, r, ctx>>
    BY <1>0 DEF DiskTypes
  <1>2. Dir(h, ctx) \in Hosts
    BY <1>0 DEF DiskOK, Dir
  <1>3. /\ disk' = [disk EXCEPT ![Dir(h, ctx)][r] = Filled(h, r, ctx, s)]
        /\ late' = late \cup {<<Dir(h, ctx), r>>} /\ orphans' \subseteq orphans
        /\ UNCHANGED <<inv, node, st, bound, worker, seg, asked, replies, faults>>
    BY <1>1 DEF OrphanStore
  <1>4. DiskTypes'
    <2>1. disk' \in [Hosts -> [Reqs -> FindingType]]
      BY <1>2, <1>3, StoreKeeps
    <2>2. <<Dir(h, ctx), r>> \in Hosts \X Reqs
      BY <1>2
    <2> QED  BY <1>0, <1>3, <2>1, <2>2 DEF DiskTypes
  <1>5. \A g \in Hosts, q \in Reqs : disk'[g][q] # None => disk'[g][q].status \in WorkerStatuses
    BY <1>2, <1>3, StoreKeeps
  <1>6. \A g \in Hosts : Working(g)' = Working(g)
    BY <1>3 DEF Working
  <1>7. DiskOK'
    BY <1>0, <1>3, <1>5, <1>6 DEF DiskOK
  <1>8. ThreadTypes' /\ ReplyTypes'
    BY <1>0, <1>3 DEF ThreadTypes, ReplyTypes
  <1>9. \A g \in Hosts : ThreadOK(inv'[g], node'[g], st'[g], worker'[g])
    BY <1>3 DEF GraphInv
  <1> QED  BY <1>4, <1>7, <1>8, <1>9 DEF GraphInv, TypesOK

\* The process dies.
LEMMA CrashMoves == ASSUME GraphInv, Crash  PROVE GraphInv'
  <1>0. DiskTypes /\ DiskOK /\ ThreadTypes /\ ReplyTypes
    BY DEF GraphInv, TypesOK
  <1>1. /\ inv' = [h \in Hosts |-> IF inv[h] = "run" THEN "stopped" ELSE inv[h]]
        /\ bound' = [h \in Hosts |-> FALSE] /\ worker' = [h \in Hosts |-> NoWorkers]
        /\ orphans' = {} /\ seg' = NoHost /\ faults < MaxFaults /\ faults' = faults + 1
        /\ UNCHANGED <<node, st, disk, late, asked, replies>>
    BY DEF Crash
  <1>2. /\ NoWorkers \in [Reqs -> WorkerType] /\ \A i, n, t : WorkersOK(i, n, t, NoWorkers)
        /\ Busy(NoWorkers) = {}
    BY NoneIs DEF NoWorkers, NoWorker, WorkerType, WorkersOK, Busy
  <1>3. ThreadTypes' /\ ReplyTypes' /\ DiskTypes'
    <2>1. ThreadTypes'
      BY <1>0, <1>1, <1>2 DEF ThreadTypes, Phases
    <2>2. ReplyTypes'
      BY <1>0, <1>1, AssessAssumption DEF ReplyTypes
    <2> QED  BY <1>0, <1>1, <2>1, <2>2 DEF DiskTypes
  <1>4. \A g \in Hosts : ThreadOK(inv'[g], node'[g], st'[g], worker'[g])
    <2> SUFFICES ASSUME NEW g \in Hosts  PROVE ThreadOK(inv'[g], node'[g], st'[g], worker'[g])
      OBVIOUS
    <2>1. /\ ThreadOK(inv[g], node[g], st[g], worker[g])
          /\ inv'[g] = IF inv[g] = "run" THEN "stopped" ELSE inv[g]
          /\ node'[g] = node[g] /\ st'[g] = st[g] /\ worker'[g] = NoWorkers
      BY <1>1 DEF GraphInv
    <2> QED  BY <1>2, <2>1 DEF ThreadOK
  <1>5. \A g \in Hosts : Working(g)' = {}
    BY <1>1, <1>2 DEF Working, Busy
  <1>6. DiskOK'
    BY <1>0, <1>1, <1>5 DEF DiskOK
  <1> QED  BY <1>3, <1>4, <1>6 DEF GraphInv, TypesOK

\* A new run.
LEMMA GraphInit == Init => GraphInv
  <1> SUFFICES ASSUME Init  PROVE GraphInv
    OBVIOUS
  <1>1. /\ NoWorkers \in [Reqs -> WorkerType] /\ \A i, n, t : WorkersOK(i, n, t, NoWorkers)
        /\ Busy(NoWorkers) = {}
    BY NoneIs DEF NoWorkers, NoWorker, WorkerType, WorkersOK, Busy
  <1> DEFINE s == [findings |-> [r \in Reqs |-> None], pending |-> {}, retry |-> 0, skipped |-> {}]
  <1>2. s \in StateType /\ StateOK("load", s)
    BY NoneIs, AssessAssumption DEF StateType, StateOK, After
  <1> HIDE DEF s
  <1>3. /\ inv = [h \in Hosts |-> "none"] /\ node = [h \in Hosts |-> "load"]
        /\ st = [h \in Hosts |-> s] /\ worker = [h \in Hosts |-> NoWorkers]
        /\ bound = [h \in Hosts |-> FALSE]
    BY DEF Init, s
  <1>4. ThreadTypes
    BY <1>1, <1>2, <1>3 DEF ThreadTypes, Phases, Nodes
  <1>5. \A g \in Hosts : ThreadOK(inv[g], node[g], st[g], worker[g])
    BY <1>1, <1>2, <1>3 DEF ThreadOK
  <1>6. DiskTypes /\ ReplyTypes
    BY NoneIs, AssessAssumption DEF Init, DiskTypes, ReplyTypes
  <1>7. DiskOK
    <2>1. \A g \in Hosts : Working(g) = {}
      BY <1>1, <1>3 DEF Working, Busy
    <2> QED  BY <2>1 DEF Init, DiskOK
  <1> QED  BY <1>4, <1>5, <1>6, <1>7 DEF GraphInv, TypesOK

\* The invariant of the graph holds after every step.
LEMMA GraphStep == GraphInv /\ [Next]_vars => GraphInv'
  <1> SUFFICES ASSUME GraphInv, [Next]_vars  PROVE GraphInv'
    OBVIOUS
  <1>1. ASSUME NEW h \in Hosts, ThreadStep(h)  PROVE GraphInv'
    BY <1>1, ThreadMoves, DiskMoves, Around DEF GraphInv, TypesOK
  <1>2. CASE UNCHANGED vars
    BY <1>2 DEF vars, GraphInv, TypesOK, ThreadTypes, DiskTypes, ReplyTypes, DiskOK, Working
  <1> QED  BY <1>1, <1>2, OrphanMoves, CrashMoves DEF Next, ThreadStep, Rest

\* The invariant of the graph holds in every behaviour.
LEMMA GraphAlways == Spec => []GraphInv
  BY GraphInit, GraphStep, PTL DEF Spec

\* A thread never finishes with a requirement forgotten or, with the gate enabled, with a
\* failure that the operator did not skip: whatever the workers answer, however often they
\* are retried, cancelled or cut off, on any number of hosts (route_after_assess,
\* route_after_hitl, human_gate).
THEOREM NothingSilent == Spec => []NoSilentError
  <1>1. GraphInv => NoSilentError
    <2> SUFFICES ASSUME GraphInv, NEW h \in Hosts, inv[h] = "done", NEW r \in Reqs
                 PROVE  /\ st[h].findings[r] # None
                        /\ HitlEnabled => st[h].findings[r].status \notin Errors
                        /\ st[h].findings[r].status = "skipped" <=> r \in st[h].skipped
      BY DEF NoSilentError
    <2>1. StateOK("end", st[h])
      BY DEF GraphInv, ThreadOK
    <2>2. Settled(st[h], r) /\ (HitlEnabled => r \notin Candidates(st[h]))
      BY <2>1 DEF StateOK, After
    <2> QED  BY <2>2 DEF Settled, Candidates, Errors
  <1> QED  BY <1>1, GraphAlways, PTL

-----------------------------------------------------------------------------
(* Threads that keep to their own directories.                             *)

\* The run has one host, or its threads are neither disturbed nor resumed: then each of them
\* runs in the context of arun_one, which names its directory.
KeptApart == (\A g, h \in Hosts : g = h) \/ (MaxReplies = 0 /\ MaxFaults = 0)

\* Workers and orphans write to the directory of their own host.
AtHome == /\ \A h \in Hosts : Working(h) # {} => Dir(h, bound[h]) = h
          /\ \A o \in orphans : Dir(o[1], o[3]) = o[1]

\* Threads that are never disturbed run in the context of arun_one.
Undisturbed == /\ orphans = {}
               /\ \A h \in Hosts : inv[h] # "stopped" /\ (inv[h] = "run" => bound[h] = TRUE)

\* A finding f of the thread is the one on disk, d, or an earlier one with its id.
Anchored(f, d) == f # None => d # None /\ f.id = d.id

\* The thread holds what was assessed last, which is on disk unless it was skipped since.
Now(n, s, r) == n \in After \/ (n \in {"facts", "assess"} /\ r \notin s.pending)
Reported(f, d, skip) == d = f \/ (d.status \in Errors /\ skip)

\* A thread before node n with the state s and the workers w, the findings d on disk, of
\* which those of the requirements l are by orphans.  What is to be assessed again is no
\* verdict.
FactsOK(n, s, w, d, l) == \A r \in Reqs :
    /\ d[r] # None => d[r].id \in Ids
    /\ Anchored(s.findings[r], d[r]) /\ Anchored(w[r].result, d[r])
    /\ r \notin l /\ w[r].at \in {"stored", "done"} => w[r].result = d[r]
    /\ r \notin l /\ Now(n, s, r) => Reported(s.findings[r], d[r], r \in s.skipped)
    /\ n # "load" /\ r \in s.pending => s.findings[r].status # "ok"

Late(h) == {r \in Reqs : <<h, r>> \in late}
Facts(h) == FactsOK(node[h], st[h], worker[h], disk[h], Late(h))
HomeInv == \A h \in Hosts : Facts(h)

\* There is always an id that is not used: those in use are on disk.
LEMMA FreshIsId == ASSUME GraphInv, HomeInv  PROVE FreshId \in Ids
  <1> DEFINE D == Hosts \X Reqs
             g == [x \in D |-> disk[x[1]][x[2]].id]
             I == {g[x] : x \in D}
             n == Cardinality(Hosts) * Cardinality(Reqs)
  <1>1. /\ Cardinality(Hosts) \in Nat /\ Cardinality(Reqs) \in Nat
        /\ IsFiniteSet(D) /\ Cardinality(D) = n
    BY AssessAssumption, FS_CardinalityType, FS_Product
  <1>2. n \in Nat /\ Ids = 1 .. (n + 2)
    BY <1>1 DEF Ids
  <1>3. IsFiniteSet(Ids) /\ Cardinality(Ids) = n + 2
    <2> HIDE DEF n
    <2> QED  BY <1>2, FS_Interval
  <1>4. IsFiniteSet(I) /\ Cardinality(I) <= n
    <2>1. g \in Surjection(D, I)
      BY DEF Surjection
    <2> HIDE DEF D, I, g, n
    <2> QED  BY <1>1, <2>1, FS_Surjection
  <1>5. UsedIds \subseteq I \cup {0}
    <2>1. \A h \in Hosts, r \in Reqs : disk[h][r].id \in I
      <3> SUFFICES ASSUME NEW h \in Hosts, NEW r \in Reqs  PROVE disk[h][r].id \in I
        OBVIOUS
      <3>1. <<h, r>> \in D /\ g[<<h, r>>] = disk[h][r].id
        OBVIOUS
      <3> HIDE DEF D, g
      <3> QED  BY <3>1
    <2> HIDE DEF I
    <2>2. \A h \in Hosts, r \in Reqs : st[h].findings[r].id \in I \cup {0}
      BY <2>1 DEF HomeInv, Facts, FactsOK, Anchored, None
    <2>3. \A h \in Hosts, r \in Reqs : worker[h][r].result.id \in I \cup {0}
      BY <2>1 DEF HomeInv, Facts, FactsOK, Anchored, None
    <2> QED  BY <2>1, <2>2, <2>3 DEF UsedIds
  <1> HIDE DEF I, D, n
  <1>6. Ids \ UsedIds # {}
    <2> SUFFICES ASSUME Ids \subseteq UsedIds  PROVE FALSE
      OBVIOUS
    <2>1. Ids \subseteq I
      BY <1>2, <1>5
    <2>2. Cardinality(Ids) <= Cardinality(I)
      BY <1>4, <2>1, FS_Subset
    <2>3. Cardinality(I) \in Nat
      BY <1>4, FS_CardinalityType
    <2> QED  BY <1>2, <1>3, <1>4, <2>2, <2>3
  <1>7. Ids \ UsedIds \subseteq Nat
    BY <1>2
  <1>8. Min(Ids \ UsedIds) \in Ids \ UsedIds
    BY <1>6, <1>7, MinIs
  <1> QED  BY <1>8 DEF FreshId

\* What h writes at home keeps the id that is there.
LEMMA FilledKeeps ==
    ASSUME GraphInv, HomeInv, NEW h \in Hosts, NEW r \in Reqs, NEW ctx \in BOOLEAN,
           NEW s \in WorkerStatuses, Dir(h, ctx) = h,
           NEW f, f = Filled(h, r, ctx, s)
    PROVE  /\ f # None /\ f.id \in Ids
           /\ disk[h][r] # None => f.id = disk[h][r].id
  <1>1. f # None /\ f.id = BoundId(h, r)
    BY FilledType DEF Filled
  <1>2. disk[h][r] # None => f.id = disk[h][r].id /\ f.id \in Ids
    BY <1>1 DEF BoundId, HomeInv, Facts, FactsOK
  <1>3. disk[h][r] = None => f.id \in Ids
    BY <1>1, FreshIsId DEF BoundId
  <1> QED  BY <1>1, <1>2, <1>3

\* Workers that are gone disturb nothing.
LEMMA FactsIdle ==
    ASSUME NEW n, NEW s, NEW w, NEW d, NEW l, FactsOK(n, s, w, d, l)
    PROVE  FactsOK(n, s, NoWorkers, d, l)
  BY DEF FactsOK, NoWorkers, NoWorker, Anchored

\* A step of a thread leaves the other hosts' findings alone.
LEMMA FactsElsewhere ==
    ASSUME GraphInv, AtHome, HomeInv, NEW h \in Hosts, ThreadStep(h), NEW g \in Hosts \ {h}
    PROVE  Facts(g)'
  <1>1. Same(g)
    BY OthersStay
  <1>2. disk'[g] = disk[g] /\ Late(g)' = Late(g)
    <2>1. CASE UNCHANGED <<disk, late>>
      BY <2>1 DEF Late
    <2>2. ASSUME NEW r \in Reqs, NEW s \in WorkerStatuses, WorkerStore(h, r, s)
          PROVE  disk'[g] = disk[g] /\ Late(g)' = Late(g)
      <3>1. Dir(h, bound[h]) = h
        BY <2>2 DEF AtHome, WorkerStore, Working
      <3>2. late' = late \ {<<h, r>>} /\ \E f : disk' = [disk EXCEPT ![h][r] = f]
        BY <2>2, <3>1 DEF WorkerStore
      <3>3. disk \in [Hosts -> [Reqs -> FindingType]]
        BY DEF GraphInv, TypesOK, DiskTypes
      <3> QED  BY <3>2, <3>3 DEF Late
    <2> QED  BY <2>1, <2>2, Around
  <1>3. FactsOK(node[g], st[g], worker[g], disk[g], Late(g))
    BY DEF HomeInv, Facts
  <1>4. /\ Facts(g)' = FactsOK(node'[g], st'[g], worker'[g], disk'[g], Late(g)')
    BY DEF Facts
  <1> QED  BY <1>1, <1>2, <1>3, <1>4 DEF Same

\* What a step that writes nothing has to show for its own host.
LEMMA FactsHere ==
    ASSUME NEW h \in Hosts, UNCHANGED <<disk, late>>,
           FactsOK(node'[h], st'[h], worker'[h], disk[h], Late(h))
    PROVE  Facts(h)'
  BY DEF Facts, Late

\* What is loaded is what is on disk.
LEMMA FactsLoad ==
    ASSUME GraphInv, HomeInv, NEW h \in Hosts, load_framework(h) \/ collect_host_facts(h)
    PROVE  Facts(h)'
  <1>0. /\ ThreadTypes /\ st[h] \in StateType /\ disk[h] \in [Reqs -> FindingType]
        /\ FactsOK(node[h], st[h], worker[h], disk[h], Late(h))
    BY DEF GraphInv, TypesOK, ThreadTypes, DiskTypes, HomeInv, Facts
  <1>1. UNCHANGED <<worker, disk, late>>
    BY DEF load_framework, collect_host_facts
  <1>2. CASE collect_host_facts(h)
    <2>1. node[h] = "facts" /\ node'[h] = "assess" /\ st'[h] = st[h] /\ worker'[h] = worker[h]
      BY <1>0, <1>1, <1>2 DEF collect_host_facts, At, Return, ThreadTypes
    <2>2. FactsOK("assess", st[h], worker[h], disk[h], Late(h))
      BY <1>0, <2>1 DEF FactsOK, Now, After
    <2> QED  BY <1>1, <2>1, <2>2, FactsHere
  <1>3. CASE load_framework(h)
    <2> DEFINE s == [st[h] EXCEPT !.findings = Merge(@, disk[h]),
                                  !.pending = {r \in Reqs : disk[h][r] = None}]
    <2>1. Raise(h) \/ (Return(h, s, "facts") /\ inv' = inv)
      BY <1>3 DEF load_framework
    <2>2. CASE Raise(h)
      <3>1. node'[h] = node[h] /\ st'[h] = st[h] /\ worker'[h] = worker[h]
        BY <1>1, <2>2 DEF Raise
      <3> QED  BY <1>0, <1>1, <3>1, FactsHere
    <2>3. CASE Return(h, s, "facts")
      <3>1. /\ s.findings = Merge(st[h].findings, disk[h]) /\ s.skipped = st[h].skipped
            /\ s.pending = {r \in Reqs : disk[h][r] = None}
        BY <1>0 DEF StateType
      <3> HIDE DEF s
      <3>2. node'[h] = "facts" /\ st'[h] = s /\ worker'[h] = worker[h]
        BY <1>0, <1>1, <2>3 DEF Return, ThreadTypes
      <3>3. \A r \in Reqs : s.findings[r] = disk[h][r]
        BY <1>0, <3>1 DEF Merge, FactsOK, Anchored
      <3>4. FactsOK("facts", s, worker[h], disk[h], Late(h))
        <4> SUFFICES ASSUME NEW r \in Reqs
                     PROVE  /\ disk[h][r] # None => disk[h][r].id \in Ids
                            /\ Anchored(s.findings[r], disk[h][r])
                            /\ Anchored(worker[h][r].result, disk[h][r])
                            /\ (r \notin Late(h) /\ worker[h][r].at \in {"stored", "done"}
                                => worker[h][r].result = disk[h][r])
                            /\ Reported(s.findings[r], disk[h][r], r \in s.skipped)
                            /\ (r \in s.pending => s.findings[r].status # "ok")
          BY DEF FactsOK
        <4>1. r \in s.pending => s.findings[r] = None
          BY <3>1, <3>3
        <4> QED  BY <1>0, <3>3, <4>1 DEF FactsOK, Anchored, Reported, None
      <3> QED  BY <1>1, <3>2, <3>4, FactsHere
    <2> QED  BY <2>1, <2>2, <2>3
  <1> QED  BY <1>2, <1>3

\* The assessment begins, or there is nothing to assess.
LEMMA FactsAssess ==
    ASSUME GraphInv, HomeInv, NEW h \in Hosts, AssessNothing(h) \/ AssessBegin(h)
    PROVE  Facts(h)'
  <1>0. /\ ThreadTypes /\ FactsOK(node[h], st[h], worker[h], disk[h], Late(h))
    BY DEF GraphInv, TypesOK, HomeInv, Facts
  <1>1. UNCHANGED <<disk, late>> /\ node[h] = "assess" /\ st'[h] = st[h]
    BY <1>0 DEF AssessNothing, AssessBegin, At, Return, ThreadTypes
  <1>2. CASE AssessNothing(h)
    <2>1. st[h].pending = {} /\ worker'[h] = worker[h]
      BY <1>2 DEF AssessNothing
    <2>2. FactsOK(node'[h], st[h], worker[h], disk[h], Late(h))
      BY <1>0, <1>1, <2>1 DEF FactsOK, Now
    <2> QED  BY <1>1, <2>1, <2>2, FactsHere
  <1>3. CASE AssessBegin(h)
    <2>1. /\ node'[h] = "assess"
          /\ \A r \in Reqs : worker'[h][r].at \in {"ready", "none"} /\ worker'[h][r].result = None
      BY <1>0, <1>1, <1>3 DEF AssessBegin, NoWorker, ThreadTypes
    <2>2. FactsOK("assess", st[h], worker'[h], disk[h], Late(h))
      BY <1>0, <1>1, <2>1 DEF FactsOK, Anchored
    <2> QED  BY <1>1, <2>1, <2>2, FactsHere
  <1> QED  BY <1>2, <1>3

\* A worker starts, is done, or writes its finding at home.
LEMMA FactsWork ==
    ASSUME GraphInv, AtHome, HomeInv, NEW h \in Hosts, NEW r \in Reqs,
           \/ WorkerStart(h, r) \/ WorkerDone(h, r)
           \/ \E s \in WorkerStatuses : WorkerStore(h, r, s)
    PROVE  Facts(h)'
  <1>0. /\ ThreadTypes /\ FactsOK(node[h], st[h], worker[h], disk[h], Late(h))
        /\ ThreadOK(inv[h], node[h], st[h], worker[h])
    BY DEF GraphInv, TypesOK, HomeInv, Facts
  <1>1. node'[h] = node[h] /\ st'[h] = st[h]
    BY DEF WorkerStart, WorkerDone, WorkerStore
  <1>2. CASE WorkerStart(h, r) \/ WorkerDone(h, r)
    <2>1. UNCHANGED <<disk, late>>
      BY <1>2 DEF WorkerStart, WorkerDone
    <2>a. PICK to \in {"busy", "done"} : /\ worker' = [worker EXCEPT ![h][r].at = to]
                                         /\ to = "done" => worker[h][r].at = "stored"
      BY <1>2 DEF WorkerStart, WorkerDone
    <2>b. /\ worker'[h][r] = [worker[h][r] EXCEPT !.at = to]
          /\ \A q \in Reqs \ {r} : worker'[h][q] = worker[h][q]
      BY <1>0, <2>a DEF ThreadTypes
    <2>c. worker[h][r] \in WorkerType
      BY <1>0 DEF ThreadTypes
    <2>d. worker'[h][r].at = to /\ worker'[h][r].result = worker[h][r].result
      BY <2>b, <2>c DEF WorkerType
    <2>2. FactsOK(node[h], st[h], worker'[h], disk[h], Late(h))
      <3>1. \A q \in Reqs : /\ worker'[h][q].result = worker[h][q].result
                            /\ worker'[h][q].at \in {"stored", "done"}
                               => worker[h][q].at \in {"stored", "done"}
        BY <2>a, <2>b, <2>d
      <3> QED  BY <1>0, <3>1 DEF FactsOK
    <2> QED  BY <1>1, <2>1, <2>2, FactsHere
  <1>3. ASSUME NEW s \in WorkerStatuses, WorkerStore(h, r, s)
        PROVE  Facts(h)'
    <2> DEFINE f == Filled(h, r, bound[h], s)
    <2>1. Dir(h, bound[h]) = h /\ bound[h] \in BOOLEAN
      BY <1>0, <1>3 DEF AtHome, WorkerStore, Working, ThreadTypes
    <2>2. /\ worker' = [worker EXCEPT ![h][r] = [at |-> "stored", result |-> f]]
          /\ disk' = [disk EXCEPT ![Dir(h, bound[h])][r] = f] /\ late' = late \ {<<h, r>>}
          /\ worker[h][r].at = "busy"
      BY <1>3, <2>1 DEF WorkerStore
    <2>3. /\ disk'[h][r] = f /\ \A q \in Reqs \ {r} : disk'[h][q] = disk[h][q]
          /\ f # None /\ f.id \in Ids /\ (disk[h][r] # None => f.id = disk[h][r].id)
      <3>1. disk' = [disk EXCEPT ![h][r] = f] /\ disk \in [Hosts -> [Reqs -> FindingType]]
        BY <2>1, <2>2 DEF GraphInv, TypesOK, DiskTypes
      <3>2. f = Filled(h, r, bound[h], s)
        OBVIOUS
      <3> HIDE DEF f
      <3>3. f # None /\ f.id \in Ids /\ (disk[h][r] # None => f.id = disk[h][r].id)
        BY <2>1, <3>2, FilledKeeps
      <3> QED  BY <3>1, <3>3
    <2> HIDE DEF f
    <2>4. /\ worker'[h][r] = [at |-> "stored", result |-> f]
          /\ \A q \in Reqs \ {r} : worker'[h][q] = worker[h][q]
      BY <1>0, <2>2 DEF ThreadTypes
    <2>5. r \in st[h].pending /\ node[h] = "assess"
      BY <1>0, <2>2 DEF ThreadOK, WorkersOK, Busy
    <2>6. Late(h)' = Late(h) \ {r}
      BY <2>2 DEF Late
    <2>7. FactsOK(node[h], st[h], worker'[h], disk'[h], Late(h)')
      <3> SUFFICES ASSUME NEW q \in Reqs
                   PROVE  /\ disk'[h][q] # None => disk'[h][q].id \in Ids
                          /\ Anchored(st[h].findings[q], disk'[h][q])
                          /\ Anchored(worker'[h][q].result, disk'[h][q])
                          /\ q \notin Late(h)' /\ worker'[h][q].at \in {"stored", "done"}
                             => worker'[h][q].result = disk'[h][q]
                          /\ q \notin Late(h)' /\ Now(node[h], st[h], q)
                             => Reported(st[h].findings[q], disk'[h][q], q \in st[h].skipped)
                          /\ node[h] # "load" /\ q \in st[h].pending
                             => st[h].findings[q].status # "ok"
        BY DEF FactsOK
      <3>1. CASE q = r
        <4>1. ~Now(node[h], st[h], r)
          BY <2>5 DEF Now, After
        <4>2. Anchored(st[h].findings[r], f) /\ Anchored(worker'[h][r].result, f)
          BY <1>0, <2>3, <2>4 DEF FactsOK, Anchored
        <4> QED  BY <1>0, <2>3, <2>4, <3>1, <4>1, <4>2 DEF FactsOK
      <3>2. CASE q # r
        BY <1>0, <2>3, <2>4, <2>6, <3>2 DEF FactsOK
      <3> QED  BY <3>1, <3>2
    <2> QED  BY <1>1, <2>7 DEF Facts
  <1> QED  BY <1>2, <1>3

\* The findings of the workers are those on disk.
LEMMA FactsAssessed ==
    ASSUME GraphInv, HomeInv, NEW h \in Hosts, AssessEnd(h)
    PROVE  Facts(h)'
  <1>0. /\ ThreadTypes /\ FactsOK(node[h], st[h], worker[h], disk[h], Late(h))
        /\ ThreadOK(inv[h], node[h], st[h], worker[h]) /\ st[h] \in StateType
    BY DEF GraphInv, TypesOK, HomeInv, Facts, ThreadTypes
  <1> DEFINE new == [r \in Reqs |-> worker[h][r].result]
             s   == Assessed(st[h], new)
  <1>1. /\ UNCHANGED <<disk, late>> /\ worker' = [worker EXCEPT ![h] = NoWorkers]
        /\ node[h] = "assess" /\ Busy(worker[h]) # {}
        /\ \A r \in Busy(worker[h]) : worker[h][r].at = "done"
        /\ Raise(h) \/ Return(h, s, route_after_assess(s))
    BY DEF AssessEnd, At, Working, Busy, Assessed
  <1>2. worker'[h] = NoWorkers
    BY <1>0, <1>1 DEF ThreadTypes
  <1>3. Busy(worker[h]) = st[h].pending
    BY <1>0, <1>1 DEF ThreadOK, WorkersOK
  <1>4. CASE Raise(h)
    <2>1. node'[h] = node[h] /\ st'[h] = st[h]
      BY <1>4 DEF Raise
    <2>2. FactsOK(node[h], st[h], NoWorkers, disk[h], Late(h))
      BY <1>0, FactsIdle
    <2> QED  BY <1>1, <1>2, <2>1, <2>2, FactsHere
  <1>5. CASE Return(h, s, route_after_assess(s))
    <2>1. new \in [Reqs -> FindingType]
      BY <1>0 DEF ThreadTypes, WorkerType
    <2>2. \A r \in Reqs : new[r] = worker[h][r].result
      OBVIOUS
    <2> HIDE DEF new
    <2>3. \A r \in Reqs : IF r \in st[h].pending THEN new[r].status \in WorkerStatuses
                          ELSE new[r] = None
      BY <1>0, <1>1, <1>3, <2>2 DEF ThreadOK, WorkersOK, Busy
    <2>4. StateOK("assess", st[h])
      BY <1>0, <1>1 DEF ThreadOK
    <2>5. /\ s \in StateType /\ s.pending \cap s.skipped = {} /\ \A r \in Reqs : Settled(s, r)
          /\ s.skipped = st[h].skipped /\ s.pending \subseteq st[h].pending
          /\ \A r \in Reqs : s.findings[r] = IF r \in st[h].pending THEN new[r]
                                             ELSE st[h].findings[r]
          /\ \A r \in s.pending : s.findings[r].status = "transport"
      BY <1>0, <2>1, <2>3, <2>4, AssessedIs
    <2> HIDE DEF s
    <2>6. node'[h] = route_after_assess(s) /\ st'[h] = s
      BY <1>0, <1>5 DEF Return, ThreadTypes
    <2>7. ASSUME NEW r \in Reqs
          PROVE  /\ Anchored(s.findings[r], disk[h][r])
                 /\ r \notin Late(h) => Reported(s.findings[r], disk[h][r], r \in s.skipped)
      <3>1. CASE r \in st[h].pending
        <4>1. s.findings[r] = worker[h][r].result /\ worker[h][r].at = "done"
          BY <1>1, <1>3, <2>2, <2>5, <3>1
        <4> QED  BY <1>0, <4>1 DEF FactsOK, Reported
      <3>2. CASE r \notin st[h].pending
        <4>1. Now(node[h], st[h], r) /\ s.findings[r] = st[h].findings[r]
          BY <1>1, <2>5, <3>2 DEF Now
        <4> QED  BY <1>0, <2>5, <4>1 DEF FactsOK
      <3> QED  BY <3>1, <3>2
    <2>8. FactsOK(node'[h], s, worker[h], disk[h], Late(h))
      BY <1>0, <2>5, <2>7 DEF FactsOK
    <2>9. FactsOK(node'[h], s, NoWorkers, disk[h], Late(h))
      BY <2>8, FactsIdle
    <2> QED  BY <1>1, <1>2, <2>6, <2>9, FactsHere
  <1> QED  BY <1>1, <1>4, <1>5

\* Reconnecting, pausing at the gate, finalizing, starting, continuing and stopping.
LEMMA FactsQuiet ==
    ASSUME GraphInv, HomeInv, NEW h \in Hosts,
           \/ reconnect_session(h) \/ GatePause(h) \/ Finalize(h)
           \/ Start(h) \/ Continue(h) \/ Cancel(h) \/ \E r \in Reqs : WorkerFatal(h, r)
    PROVE  Facts(h)'
  <1>0. /\ ThreadTypes /\ FactsOK(node[h], st[h], worker[h], disk[h], Late(h))
        /\ st[h] \in StateType
    BY DEF GraphInv, TypesOK, HomeInv, Facts, ThreadTypes
  <1>1. UNCHANGED <<disk, late>>
    BY DEF reconnect_session, GatePause, Finalize, Start, Continue, Cancel, WorkerFatal
  <1>2. CASE reconnect_session(h) \/ Finalize(h)
    <2>1. PICK n, s :
            /\ node[h] \in After /\ worker' = worker /\ n # "load"
            /\ node' = [node EXCEPT ![h] = n] /\ st' = [st EXCEPT ![h] = s]
            /\ s.findings = st[h].findings /\ s.pending \subseteq st[h].pending
            /\ s.skipped = st[h].skipped
      <3>1. CASE reconnect_session(h)
        <4>1. LET s == [st[h] EXCEPT !.retry = @ + 1] IN
                /\ st' = [st EXCEPT ![h] = s] /\ s.findings = st[h].findings
                /\ s.pending = st[h].pending /\ s.skipped = st[h].skipped
          BY <1>0, <3>1 DEF reconnect_session, Return, StateType
        <4> QED  BY <3>1, <4>1 DEF reconnect_session, Return, At, After, Nodes
      <3>2. CASE Finalize(h)
        <4>1. LET s == [st[h] EXCEPT !.pending = {}] IN
                /\ st' = [st EXCEPT ![h] = s] /\ s.findings = st[h].findings
                /\ s.pending = {} /\ s.skipped = st[h].skipped
          BY <1>0, <3>2 DEF Finalize, Return, StateType
        <4> QED  BY <3>2, <4>1 DEF Finalize, Return, At, After, Nodes
      <3> QED  BY <1>2, <3>1, <3>2
    <2>2. node'[h] = n /\ st'[h] = s /\ worker'[h] = worker[h]
      BY <1>0, <2>1 DEF ThreadTypes
    <2>3. node[h] # "load"
      BY <2>1 DEF After
    <2>4. FactsOK(n, s, worker[h], disk[h], Late(h))
      BY <1>0, <2>1, <2>3 DEF FactsOK, Now
    <2> QED  BY <1>1, <2>2, <2>4, FactsHere
  <1>3. CASE Start(h)
    <2> DEFINE s == [st[h] EXCEPT !.retry = 0, !.skipped = {}]
    <2>1. /\ node'[h] = "load" /\ st'[h] = s /\ worker'[h] = worker[h]
          /\ s.findings = st[h].findings
      BY <1>0, <1>3 DEF Start, ThreadTypes, StateType
    <2> HIDE DEF s
    <2>2. FactsOK("load", s, worker[h], disk[h], Late(h))
      BY <1>0, <2>1 DEF FactsOK, Now, After
    <2> QED  BY <1>1, <2>1, <2>2, FactsHere
  <1>4. CASE GatePause(h) \/ Continue(h)
    <2>1. node'[h] = node[h] /\ st'[h] = st[h] /\ worker'[h] = worker[h]
      BY <1>4 DEF GatePause, Continue
    <2> QED  BY <1>0, <1>1, <2>1, FactsHere
  <1>5. CASE Cancel(h) \/ \E r \in Reqs : WorkerFatal(h, r)
    <2>1. node'[h] = node[h] /\ st'[h] = st[h] /\ worker' = [worker EXCEPT ![h] = NoWorkers]
      BY <1>5 DEF Cancel, WorkerFatal, Raise
    <2>2. worker'[h] = NoWorkers
      BY <1>0, <2>1 DEF ThreadTypes
    <2>3. FactsOK(node[h], st[h], NoWorkers, disk[h], Late(h))
      BY <1>0, FactsIdle
    <2> QED  BY <1>1, <2>1, <2>2, <2>3, FactsHere
  <1> QED  BY <1>2, <1>3, <1>4, <1>5

\* A reply changes what is reported only to say that a failure was skipped.
LEMMA FactsAnswer ==
    ASSUME GraphInv, HomeInv, NEW h \in Hosts, NEW raw \in Actions \cup {"vague"}, Answer(h, raw)
    PROVE  Facts(h)'
  <1>0. /\ ThreadTypes /\ FactsOK(node[h], st[h], worker[h], disk[h], Late(h))
        /\ ThreadOK(inv[h], node[h], st[h], worker[h]) /\ st[h] \in StateType
    BY DEF GraphInv, TypesOK, HomeInv, Facts, ThreadTypes
  <1>1. UNCHANGED <<worker, disk, late>> /\ inv[h] = "paused"
    BY DEF Answer
  <1>2. CASE UNCHANGED <<inv, node, st, bound>>
    BY <1>0, <1>1, <1>2, FactsHere
  <1>3. ASSUME NEW a \in Actions,
               Return(h, Decided(st[h], a), route_after_hitl(Decided(st[h], a)))
        PROVE  Facts(h)'
    <2> DEFINE s == Decided(st[h], a)
               n == route_after_hitl(s)
    <2>1. node[h] = "human_gate"
      BY <1>0, <1>1 DEF ThreadOK
    <2>2. /\ Candidates(st[h]) # {} /\ st[h].pending \cap st[h].skipped = {}
          /\ \A r \in Reqs : Settled(st[h], r)
      BY <1>0, <2>1 DEF ThreadOK, StateOK, After
    <2>3. /\ s.pending \cap s.skipped = {} /\ \A r \in Reqs : Settled(s, r)
          /\ \A r \in Reqs : \/ s.findings[r] = st[h].findings[r]
                             \/ r \in Candidates(st[h]) /\ r \in s.skipped
          /\ \A r \in Reqs : s.findings[r].id = st[h].findings[r].id
          /\ st[h].skipped \subseteq s.skipped /\ s.pending \subseteq Candidates(st[h])
      BY <1>0, <2>2, DecidedIs
    <2>4. node'[h] = n /\ st'[h] = s /\ worker'[h] = worker[h]
      BY <1>0, <1>1, <1>3 DEF Return, ThreadTypes
    <2> HIDE DEF n, s
    <2>5. \A r \in Candidates(st[h]) : /\ st[h].findings[r].status \in Errors
                                       /\ r \notin st[h].skipped
      BY DEF Candidates
    <2>6. ASSUME NEW r \in Reqs
          PROVE  /\ Anchored(s.findings[r], disk[h][r])
                 /\ r \notin Late(h) => Reported(s.findings[r], disk[h][r], r \in s.skipped)
                 /\ r \in s.pending => s.findings[r].status # "ok"
      <3>1. st[h].findings[r] # None /\ Anchored(st[h].findings[r], disk[h][r])
        BY <1>0, <2>2 DEF FactsOK, Settled
      <3>2. r \notin Late(h) => Reported(st[h].findings[r], disk[h][r], r \in st[h].skipped)
        BY <1>0, <2>1 DEF FactsOK, Now, After
      <3>3. Anchored(s.findings[r], disk[h][r])
        BY <2>3, <3>1 DEF Anchored
      <3>4. r \notin Late(h) => Reported(s.findings[r], disk[h][r], r \in s.skipped)
        BY <2>3, <2>5, <3>2 DEF Reported
      <3>5. r \in s.pending => s.findings[r].status # "ok"
        BY <2>3, <2>5 DEF Errors
      <3> QED  BY <3>3, <3>4, <3>5
    <2>7. FactsOK(n, s, worker[h], disk[h], Late(h))
      BY <1>0, <2>6 DEF FactsOK
    <2> QED  BY <1>1, <2>4, <2>7, FactsHere
  <1> QED  BY <1>2, <1>3, AnswerIs

\* An orphan keeps the id that is there, and is known to have written last.
LEMMA FactsOrphan ==
    ASSUME GraphInv, AtHome, HomeInv, NEW o \in orphans, NEW s \in WorkerStatuses,
           OrphanStore(o, s), NEW g \in Hosts
    PROVE  Facts(g)'
  <1>0. FactsOK(node[g], st[g], worker[g], disk[g], Late(g)) /\ DiskTypes
    BY DEF GraphInv, TypesOK, HomeInv, Facts
  <1>1. PICK h \in Hosts, r \in Reqs, ctx \in BOOLEAN : o = <<h, r, ctx>>
    BY <1>0 DEF DiskTypes
  <1>2. Dir(h, ctx) = h
    BY <1>1 DEF AtHome
  <1> DEFINE f == Filled(h, r, ctx, s)
  <1>3. /\ disk' = [disk EXCEPT ![h][r] = f] /\ late' = late \cup {<<h, r>>}
        /\ UNCHANGED <<node, st, worker>>
    BY <1>1, <1>2 DEF OrphanStore
  <1>4. f = Filled(h, r, ctx, s)
    OBVIOUS
  <1> HIDE DEF f
  <1>5. f # None /\ f.id \in Ids /\ (disk[h][r] # None => f.id = disk[h][r].id)
    BY <1>2, <1>4, FilledKeeps
  <1>6. /\ disk'[h][r] = f /\ \A q \in Reqs \ {r} : disk'[h][q] = disk[h][q]
        /\ g # h => disk'[g] = disk[g] /\ Late(g)' = Late(g)
        /\ Late(h)' = Late(h) \cup {r}
    BY <1>0, <1>3 DEF DiskTypes, Late
  <1>7. FactsOK(node[g], st[g], worker[g], disk'[g], Late(g)')
    <2>1. CASE g # h
      BY <1>0, <1>6, <2>1
    <2>2. CASE g = h
      <3>1. \A q \in Reqs : /\ disk'[h][q] # None => disk'[h][q].id \in Ids
                            /\ disk[h][q] # None => /\ disk'[h][q] # None
                                                    /\ disk'[h][q].id = disk[h][q].id
                            /\ q \notin Late(h)' => disk'[h][q] = disk[h][q] /\ q \notin Late(h)
        BY <1>0, <1>5, <1>6, <2>2 DEF FactsOK
      <3> QED  BY <1>0, <2>2, <3>1 DEF FactsOK, Anchored
    <2> QED  BY <2>1, <2>2
  <1> QED  BY <1>3, <1>7 DEF Facts

\* Every step of threads that write to their own directories keeps their findings right.
LEMMA HomeStep ==
    ASSUME GraphInv, AtHome, HomeInv, [Next]_vars
    PROVE  HomeInv'
  <1>1. ASSUME NEW h \in Hosts, ThreadStep(h)
        PROVE  HomeInv'
    <2>1. Facts(h)'
      BY <1>1, FactsLoad, FactsAssess, FactsWork, FactsAssessed, FactsQuiet, FactsAnswer
         DEF ThreadStep, Step
    <2> QED  BY <1>1, <2>1, FactsElsewhere DEF HomeInv
  <1>2. ASSUME NEW o \in orphans, NEW s \in WorkerStatuses, OrphanStore(o, s)
        PROVE  HomeInv'
    BY <1>2, FactsOrphan DEF HomeInv
  <1>3. CASE Crash
    <2> SUFFICES ASSUME NEW g \in Hosts  PROVE Facts(g)'
      BY DEF HomeInv
    <2>1. /\ UNCHANGED <<disk, late>> /\ node'[g] = node[g] /\ st'[g] = st[g]
          /\ worker'[g] = NoWorkers
      BY <1>3 DEF Crash
    <2>2. FactsOK(node[g], st[g], NoWorkers, disk[g], Late(g))
      BY FactsIdle DEF HomeInv, Facts
    <2> QED  BY <2>1, <2>2, FactsHere
  <1>4. CASE UNCHANGED vars
    BY <1>4 DEF vars, HomeInv, Facts, Late
  <1> QED  BY <1>1, <1>2, <1>3, <1>4 DEF Next, ThreadStep, Rest

\* Nothing that a thread merges is refused.
LEMMA NoConflict ==
    ASSUME HomeInv, NEW h \in Hosts
    PROVE  /\ ~Conflict(st[h].findings, disk[h])
           /\ ~Conflict(st[h].findings, [r \in Reqs |-> worker[h][r].result])
  <1>1. \A r \in Reqs : /\ Anchored(st[h].findings[r], disk[h][r])
                        /\ Anchored(worker[h][r].result, disk[h][r])
    BY DEF HomeInv, Facts, FactsOK
  <1> QED  BY <1>1 DEF Conflict, Anchored

\* Without replies and faults no thread is stopped or resumed.
LEMMA UndisturbedStep ==
    ASSUME GraphInv, HomeInv, Undisturbed, MaxReplies = 0, MaxFaults = 0, [Next]_vars
    PROVE  Undisturbed'
  <1>0. ThreadTypes /\ ~(replies < MaxReplies) /\ ~(faults < MaxFaults)
    BY DEF GraphInv, TypesOK, ReplyTypes
  <1>1. ASSUME NEW h \in Hosts, ThreadStep(h)
        PROVE  Undisturbed'
    <2> SUFFICES /\ orphans' = orphans
                 /\ \/ inv' = inv /\ bound' = bound
                    \/ inv' = [inv EXCEPT ![h] = "run"] /\ bound' = [bound EXCEPT ![h] = TRUE]
                    \/ \E i \in {"paused", "done"} : inv' = [inv EXCEPT ![h] = i] /\ bound' = bound
      BY <1>0 DEF Undisturbed, ThreadTypes
    <2>1. CASE load_framework(h) \/ collect_host_facts(h)
      BY <2>1, NoConflict DEF load_framework, collect_host_facts
    <2>2. CASE AssessNothing(h) \/ AssessBegin(h)
      BY <2>2 DEF AssessNothing, AssessBegin
    <2>3. CASE AssessEnd(h)
      BY <2>3, NoConflict DEF AssessEnd
    <2>4. CASE reconnect_session(h) \/ GatePause(h) \/ Finalize(h)
      BY <2>4 DEF reconnect_session, GatePause, Finalize
    <2>5. ASSUME NEW r \in Reqs, \/ WorkerStart(h, r) \/ WorkerDone(h, r)
                                 \/ \E s \in WorkerStatuses : WorkerStore(h, r, s)
          PROVE  orphans' = orphans /\ inv' = inv /\ bound' = bound
      BY <2>5 DEF WorkerStart, WorkerDone, WorkerStore
    <2>6. CASE Start(h)
      BY <2>6 DEF Start
    <2>7. ~Continue(h)
      BY DEF Continue, Undisturbed
    <2>8. ~Cancel(h) /\ \A r \in Reqs : ~WorkerFatal(h, r)
      BY <1>0 DEF Cancel, WorkerFatal
    <2>9. \A raw \in Actions \cup {"vague"} : ~Answer(h, raw)
      BY <1>0 DEF Answer
    <2> QED  BY <1>1, <2>1, <2>2, <2>3, <2>4, <2>5, <2>6, <2>7, <2>8, <2>9 DEF ThreadStep, Step
  <1>2. \A o \in orphans : FALSE
    BY DEF Undisturbed
  <1>3. ~Crash
    BY <1>0 DEF Crash
  <1>4. CASE UNCHANGED vars
    BY <1>4 DEF vars, Undisturbed
  <1> QED  BY <1>1, <1>2, <1>3, <1>4 DEF Next, ThreadStep, Rest

\* The whole invariant of threads that write to their own directories.
HomeFull == GraphInv /\ HomeInv /\ (MaxReplies = 0 /\ MaxFaults = 0 => Undisturbed)

\* Such threads write to their own directories.
LEMMA HomeThere == KeptApart /\ HomeFull => AtHome
  <1> SUFFICES ASSUME KeptApart, HomeFull  PROVE AtHome
    OBVIOUS
  <1>0. /\ DiskTypes /\ DiskOK /\ \A h \in Hosts : Working(h) # {} => inv[h] = "run"
    <2>1. \A h \in Hosts : Working(h) = Busy(worker[h])
      BY DEF Working, Busy
    <2> QED  BY <2>1 DEF HomeFull, GraphInv, TypesOK, ThreadOK, WorkersOK
  <1>1. CASE \A g, h \in Hosts : g = h
    <2>1. \A o \in orphans : o[1] \in Hosts /\ seg \in Hosts
      BY <1>0 DEF DiskTypes, DiskOK
    <2>2. \A h \in Hosts : Working(h) # {} => seg \in Hosts
      BY <1>0 DEF DiskOK
    <2> QED  BY <1>1, <2>1, <2>2 DEF AtHome, Dir
  <1>2. CASE MaxReplies = 0 /\ MaxFaults = 0
    BY <1>0, <1>2 DEF HomeFull, Undisturbed, AtHome, Dir
  <1> QED  BY <1>1, <1>2 DEF KeptApart

\* Nothing is found or written in a new run.
LEMMA HomeInit == Init => HomeFull
  <1> SUFFICES ASSUME Init  PROVE HomeFull
    OBVIOUS
  <1>1. GraphInv
    BY GraphInit
  <1>2. HomeInv
    <2> SUFFICES ASSUME NEW h \in Hosts  PROVE FactsOK(node[h], st[h], worker[h], disk[h], Late(h))
      BY DEF HomeInv, Facts
    <2>1. /\ node[h] = "load" /\ \A r \in Reqs : /\ st[h].findings[r] = None /\ disk[h][r] = None
                                                 /\ worker[h][r].at = "none"
                                                 /\ worker[h][r].result = None
      BY DEF Init, NoWorkers, NoWorker
    <2> QED  BY <2>1 DEF FactsOK, Anchored, Now, After
  <1>3. Undisturbed
    BY DEF Init, Undisturbed
  <1> QED  BY <1>1, <1>2, <1>3 DEF HomeFull

\* The whole invariant holds after every step.
LEMMA HomeFullStep == KeptApart /\ HomeFull /\ [Next]_vars => HomeFull'
  <1> SUFFICES ASSUME KeptApart, HomeFull, [Next]_vars  PROVE HomeFull'
    OBVIOUS
  <1>1. AtHome
    BY HomeThere
  <1>2. GraphInv /\ HomeInv
    BY DEF HomeFull
  <1>3. GraphInv' /\ HomeInv'
    BY <1>1, <1>2, GraphStep, HomeStep
  <1>4. ASSUME MaxReplies = 0, MaxFaults = 0  PROVE Undisturbed'
    BY <1>2, <1>4, UndisturbedStep DEF HomeFull
  <1> QED  BY <1>3, <1>4 DEF HomeFull

\* It gives the types of the model, with ids that are ids.
LEMMA HomeTypes == HomeFull => AssessTypeOK
  <1> SUFFICES ASSUME HomeFull  PROVE AssessTypeOK
    OBVIOUS
  <1>0. ThreadTypes /\ DiskTypes /\ ReplyTypes /\ HomeInv
    BY DEF HomeFull, GraphInv, TypesOK
  <1>1. ASSUME NEW f \in FindingType, f # None => f.id \in Ids  PROVE f \in Findings
    BY <1>1 DEF FindingType, Finding, Findings
  <1>2. ASSUME NEW h \in Hosts, NEW r \in Reqs
        PROVE  st[h].findings[r] \in Findings /\ worker[h][r].result \in Findings
               /\ disk[h][r] \in Findings
    <2>1. /\ st[h].findings[r] \in FindingType /\ worker[h][r].result \in FindingType
          /\ disk[h][r] \in FindingType
      BY <1>0 DEF ThreadTypes, DiskTypes, StateType, WorkerType
    <2>2. /\ disk[h][r] # None => disk[h][r].id \in Ids
          /\ Anchored(st[h].findings[r], disk[h][r]) /\ Anchored(worker[h][r].result, disk[h][r])
      BY <1>0 DEF HomeInv, Facts, FactsOK
    <2> QED  BY <1>1, <2>1, <2>2 DEF Anchored
  <1>3. \A h \in Hosts : /\ st[h].pending \subseteq Reqs /\ st[h].retry \in 0 .. MaxRetries
                         /\ st[h].skipped \subseteq Reqs
    BY <1>0 DEF ThreadTypes, StateType
  <1>4. \A h \in Hosts, r \in Reqs :
          worker[h][r].at \in {"none", "ready", "busy", "stored", "done"}
    BY <1>0 DEF ThreadTypes, WorkerType
  <1>5. /\ inv \in [Hosts -> {"none", "run", "paused", "stopped", "done"}]
        /\ node \in [Hosts -> {"load", "facts", "assess", "reconnect", "human_gate",
                               "finalize", "end"}]
        /\ bound \in [Hosts -> BOOLEAN]
    BY <1>0 DEF ThreadTypes, Phases, Nodes, After
  <1> QED  BY <1>0, <1>2, <1>3, <1>4, <1>5 DEF AssessTypeOK, DiskTypes, ReplyTypes

\* What the whole invariant says of ids, of the disk and of a step.
LEMMA HomeSays ==
    HomeFull => /\ IdsAgree /\ DiskAgrees
                /\ \A h \in Hosts, r \in Reqs :
                     st[h].findings[r].status = "ok" /\ node[h] # "load"
                     => r \notin st[h].pending /\ r \notin Candidates(st[h])
  <1> SUFFICES ASSUME HomeFull
               PROVE  /\ IdsAgree /\ DiskAgrees
                      /\ \A h \in Hosts, r \in Reqs :
                           st[h].findings[r].status = "ok" /\ node[h] # "load"
                           => r \notin st[h].pending /\ r \notin Candidates(st[h])
    OBVIOUS
  <1>1. \A h \in Hosts : FactsOK(node[h], st[h], worker[h], disk[h], Late(h))
    BY DEF HomeFull, HomeInv, Facts
  <1>2. IdsAgree
    BY <1>1, HomeTypes DEF IdsAgree, FactsOK, Anchored
  <1>3. DiskAgrees
    <2> SUFFICES ASSUME NEW h \in Hosts, NEW r \in Reqs, inv[h] = "done", <<h, r>> \notin late
                 PROVE  \/ disk[h][r] = st[h].findings[r]
                        \/ disk[h][r].status \in Errors /\ r \in st[h].skipped
      BY DEF DiskAgrees
    <2>1. node[h] = "end" /\ r \notin Late(h)
      BY DEF HomeFull, GraphInv, ThreadOK, Late
    <2> QED  BY <1>1, <2>1 DEF FactsOK, Now, After, Reported
  <1>4. \A h \in Hosts, r \in Reqs : st[h].findings[r].status = "ok" /\ node[h] # "load"
          => r \notin st[h].pending /\ r \notin Candidates(st[h])
    BY <1>1 DEF FactsOK, Candidates, Errors
  <1> QED  BY <1>2, <1>3, <1>4

\* Where threads keep apart, the id of a result is that of its finding.json through every
\* retry, cancellation, crash and orphan, so merge_result_maps refuses nothing: a worker
\* keeps the id it finds (_bind_finding), and a fresh id is given out only where there is
\* neither a finding on disk nor one in the state.
THEOREM IdsKept == ASSUME KeptApart  PROVE Spec => []IdsAgree
  <1>1. HomeFull /\ [Next]_vars => HomeFull'
    BY HomeFullStep
  <1>2. HomeFull => IdsAgree
    BY HomeSays
  <1> QED  BY <1>1, <1>2, HomeInit, PTL DEF Spec

\* Where threads keep apart, the report of a finished thread is what is on disk, but for
\* failures the operator skipped and findings that an orphaned worker wrote last.
THEOREM ReportOnDisk == ASSUME KeptApart  PROVE Spec => []DiskAgrees
  <1>1. HomeFull /\ [Next]_vars => HomeFull'
    BY HomeFullStep
  <1>2. HomeFull => DiskAgrees
    BY HomeSays
  <1> QED  BY <1>1, <1>2, HomeInit, PTL DEF Spec

\* A step of a thread leaves its verdicts alone, once they are loaded.
LEMMA VerdictsStay ==
    ASSUME GraphInv, NEW h \in Hosts, ThreadStep(h), NEW r \in Reqs, node[h] # "load",
           r \notin st[h].pending, r \notin Candidates(st[h])
    PROVE  st'[h].findings[r] = st[h].findings[r]
  <1>0. /\ ThreadTypes /\ ThreadOK(inv[h], node[h], st[h], worker[h]) /\ st[h] \in StateType
    BY DEF GraphInv, TypesOK, ThreadTypes
  <1>1. ~load_framework(h)
    BY DEF load_framework, At
  <1>2. CASE collect_host_facts(h) \/ AssessNothing(h) \/ AssessBegin(h) \/ GatePause(h)
    BY <1>0, <1>2 DEF collect_host_facts, AssessNothing, AssessBegin, GatePause, Return, ThreadTypes
  <1>3. CASE reconnect_session(h) \/ Finalize(h) \/ Start(h)
    <2>1. /\ [st[h] EXCEPT !.retry = @ + 1].findings = st[h].findings
          /\ [st[h] EXCEPT !.pending = {}].findings = st[h].findings
          /\ [st[h] EXCEPT !.retry = 0, !.skipped = {}].findings = st[h].findings
      BY <1>0 DEF StateType
    <2>2. CASE reconnect_session(h)
      BY <1>0, <2>1, <2>2 DEF reconnect_session, Return, ThreadTypes
    <2>3. CASE Finalize(h)
      BY <1>0, <2>1, <2>3 DEF Finalize, Return, ThreadTypes
    <2>4. CASE Start(h)
      BY <1>0, <2>1, <2>4 DEF Start, ThreadTypes
    <2> QED  BY <1>3, <2>2, <2>3, <2>4
  <1>4. ASSUME NEW q \in Reqs, \/ WorkerStart(h, q) \/ WorkerDone(h, q)
                               \/ \E s \in WorkerStatuses : WorkerStore(h, q, s)
        PROVE  st'[h].findings[r] = st[h].findings[r]
    BY <1>4 DEF WorkerStart, WorkerDone, WorkerStore
  <1>5. CASE Continue(h) \/ Cancel(h) \/ \E q \in Reqs : WorkerFatal(h, q)
    BY <1>5 DEF Continue, Cancel, WorkerFatal, Raise
  <1>6. CASE AssessEnd(h)
    <2> DEFINE new == [q \in Reqs |-> worker[h][q].result]
               s   == Assessed(st[h], new)
    <2>1. (Raise(h) \/ Return(h, s, route_after_assess(s))) /\ node[h] = "assess"
      BY <1>6 DEF AssessEnd, Assessed, At
    <2>2. worker[h][r].at = "none"
      BY <1>0, <1>6 DEF AssessEnd, Working, ThreadOK, WorkersOK, Busy
    <2>3. new[r] = None
      BY <1>0, <2>2 DEF ThreadOK, WorkersOK
    <2>4. s.findings[r] = st[h].findings[r]
      <3> HIDE DEF new
      <3>1. s.findings = Merge(st[h].findings, new)
        BY <1>0 DEF Assessed, StateType
      <3> QED  BY <2>3, <3>1 DEF Merge
    <2> HIDE DEF s
    <2> QED  BY <1>0, <2>1, <2>4 DEF Raise, Return, ThreadTypes
  <1>7. ASSUME NEW raw \in Actions \cup {"vague"}, Answer(h, raw)
        PROVE  st'[h].findings[r] = st[h].findings[r]
    <2>1. node[h] = "human_gate"
      BY <1>0, <1>7 DEF Answer, ThreadOK
    <2>2. /\ Candidates(st[h]) # {} /\ st[h].pending \cap st[h].skipped = {}
          /\ \A q \in Reqs : Settled(st[h], q)
      BY <1>0, <2>1 DEF ThreadOK, StateOK, After
    <2>3. \A a \in Actions : Decided(st[h], a).findings[r] = st[h].findings[r]
      BY <1>0, <2>2, DecidedIs
    <2>4. CASE UNCHANGED <<inv, node, st, bound>>
      BY <2>4
    <2>5. ASSUME NEW a \in Actions,
                 Return(h, Decided(st[h], a), route_after_hitl(Decided(st[h], a)))
          PROVE  st'[h] = Decided(st[h], a)
      BY <1>0, <2>5 DEF Return, ThreadTypes
    <2> QED  BY <1>7, <2>3, <2>4, <2>5, AnswerIs
  <1> QED  BY <1>1, <1>2, <1>3, <1>4, <1>5, <1>6, <1>7 DEF ThreadStep, Step

\* Where threads keep apart, neither a retry, nor a resumption, nor a reply of the operator
\* assesses again what has a verdict (VerdictKept): what is pending once the findings are
\* loaded is no verdict, and the gate is about failures only.
THEOREM VerdictsStand == ASSUME KeptApart  PROVE Spec => VerdictKept
  <1> DEFINE Kept == \A h \in Hosts, r \in Reqs :
                       (st[h].findings[r].status = "ok" /\ node[h] # "load") =>
                         st'[h].findings[r] = st[h].findings[r]
  <1>1. HomeFull /\ [Next]_vars => HomeFull'
    BY HomeFullStep
  <1>2. HomeFull /\ [Next]_vars => [Kept]_vars
    <2> SUFFICES ASSUME HomeFull, Next, NEW h \in Hosts, NEW r \in Reqs,
                        st[h].findings[r].status = "ok", node[h] # "load"
                 PROVE  st'[h].findings[r] = st[h].findings[r]
      OBVIOUS
    <2>1. GraphInv /\ r \notin st[h].pending /\ r \notin Candidates(st[h])
      BY HomeSays DEF HomeFull
    <2>2. ASSUME NEW g \in Hosts, ThreadStep(g)
          PROVE  st'[h].findings[r] = st[h].findings[r]
      <3>1. CASE g = h
        BY <2>1, <2>2, <3>1, VerdictsStay
      <3>2. CASE g # h
        <4>1. Same(h)
          BY <2>1, <2>2, <3>2, OthersStay
        <4> QED  BY <4>1 DEF Same
      <3> QED  BY <3>1, <3>2
    <2>3. CASE (\E o \in orphans, s \in WorkerStatuses : OrphanStore(o, s)) \/ Crash \/ Rest
      BY <2>3 DEF OrphanStore, Crash, Rest, vars
    <2> QED  BY <2>2, <2>3 DEF Next, ThreadStep
  <1> QED  BY <1>1, <1>2, HomeInit, PTL DEF Spec, VerdictKept
=============================================================================
