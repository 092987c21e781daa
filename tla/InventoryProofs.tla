----------------------------- MODULE InventoryProofs -----------------------------
(***************************************************************************)
(* What the three-valued evaluation of a framework's applicability is for: *)
(* a verdict reached while facts are missing is the verdict one would      *)
(* reach with them, for every specification, every set of facts and every  *)
(* relation between texts.  With it DefiniteStays, for every catalog,      *)
(* every number of hosts and every sequence of analyses, edits, faults and *)
(* crashes.                                                                *)
(*                                                                         *)
(* And what a plan is: made from files that are checked again when it is   *)
(* started (StartsCurrent, PolicyIsPinned), in agreement with the          *)
(* capability snapshots (SnapshotsMatchPlan), and with one variant of a    *)
(* family of frameworks on a host (OneVariantPlanned).                     *)
(***************************************************************************)
EXTENDS Inventory, TLAPS, WellFoundedInduction

-----------------------------------------------------------------------------
(* One framework and one host.                                             *)

\* The same predicate gives the same result when facts are added, unless the
\* fact it asks for was missing.
LEMMA KnownStays ==
    ASSUME NEW p, NEW facts, NEW more, Extends(facts, more),
           EvaluatePredicate(p, facts) # "missing_evidence"
    PROVE  EvaluatePredicate(p, more) = EvaluatePredicate(p, facts)
  BY DEF EvaluatePredicate, Extends

\* A result other than "missing_evidence" stays among the results of its group.
LEMMA ResultStays ==
    ASSUME NEW group, NEW facts, NEW more, Extends(facts, more),
           NEW r \in Results(group, facts), r # "missing_evidence"
    PROVE  r \in Results(group, more)
  <1>1. PICK p \in group : r = EvaluatePredicate(p, facts)
    BY DEF Results
  <1>2. EvaluatePredicate(p, more) = r
    BY <1>1, KnownStays
  <1> QED  BY <1>2 DEF Results

\* A group none of whose facts is missing has the results it had.
LEMMA CompleteStays ==
    ASSUME NEW group, NEW facts, NEW more, Extends(facts, more),
           "missing_evidence" \notin Results(group, facts)
    PROVE  Results(group, more) = Results(group, facts)
  <1>1. \A p \in group : EvaluatePredicate(p, more) = EvaluatePredicate(p, facts)
    BY KnownStays DEF Results
  <1> QED  BY <1>1 DEF Results

\* Each kind of group keeps its definite result when facts are added, as long
\* as no value of the wrong type comes with them.
LEMMA GroupStays ==
    ASSUME NEW group, NEW facts, NEW more, Extends(facts, more),
           "invalid" \notin Results(group, more)
    PROVE  /\ EvalAll(group, facts) \in Definite => EvalAll(group, more) = EvalAll(group, facts)
           /\ EvalAny(group, facts) \in Definite => EvalAny(group, more) = EvalAny(group, facts)
           /\ EvalNone(group, facts) \in Definite => EvalNone(group, more) = EvalNone(group, facts)
  <1> DEFINE old == Results(group, facts)
             new == Results(group, more)
  <1>1. "matched" \in old => "matched" \in new
    BY ResultStays
  <1>2. "not_matched" \in old => "not_matched" \in new
    BY ResultStays
  <1>3. "missing_evidence" \notin old => new = old
    BY CompleteStays
  <1>4. "invalid" \notin new
    OBVIOUS
  <1> HIDE DEF old, new
  <1>5. /\ EvalAll(group, facts) = IF "invalid" \in old THEN "invalid"
                                   ELSE IF "not_matched" \in old THEN "not_matched"
                                   ELSE IF "missing_evidence" \in old THEN "missing_evidence"
                                   ELSE "matched"
        /\ EvalAll(group, more) = IF "not_matched" \in new THEN "not_matched"
                                  ELSE IF "missing_evidence" \in new THEN "missing_evidence"
                                  ELSE "matched"
    BY <1>4 DEF EvalAll, old, new
  <1>6. /\ EvalAny(group, facts) = IF "invalid" \in old THEN "invalid"
                                   ELSE IF "matched" \in old THEN "matched"
                                   ELSE IF "missing_evidence" \in old THEN "missing_evidence"
                                   ELSE "not_matched"
        /\ EvalAny(group, more) = IF "matched" \in new THEN "matched"
                                  ELSE IF "missing_evidence" \in new THEN "missing_evidence"
                                  ELSE "not_matched"
    BY <1>4 DEF EvalAny, old, new
  <1>7. /\ EvalNone(group, facts) = IF "invalid" \in old THEN "invalid"
                                    ELSE IF "matched" \in old THEN "not_matched"
                                    ELSE IF "missing_evidence" \in old THEN "missing_evidence"
                                    ELSE "matched"
        /\ EvalNone(group, more) = IF "matched" \in new THEN "not_matched"
                                   ELSE IF "missing_evidence" \in new THEN "missing_evidence"
                                   ELSE "matched"
    BY <1>4 DEF EvalNone, old, new
  <1> QED  BY <1>1, <1>2, <1>3, <1>5, <1>6, <1>7 DEF Definite

\* Knowing more never reverses a verdict of evaluate_applicability.
THEOREM DefiniteIsKept ==
    ASSUME NEW f, NEW facts, NEW more, Extends(facts, more), WellTyped(f, more),
           EvaluateApplicability(f, facts) \in Definite
    PROVE  EvaluateApplicability(f, more) = EvaluateApplicability(f, facts)
  <1> DEFINE Parts(g) == (IF f.all = {} THEN {} ELSE {EvalAll(f.all, g)})
                         \cup (IF f.any = {} THEN {} ELSE {EvalAny(f.any, g)})
                         \cup (IF f.none = {} THEN {} ELSE {EvalNone(f.none, g)})
  <1>1. \A group \in {f.all, f.any, f.none} : "invalid" \notin Results(group, more)
    BY DEF WellTyped, Results
  <1>2. /\ EvalAll(f.all, facts) \in Definite => EvalAll(f.all, more) = EvalAll(f.all, facts)
        /\ EvalAny(f.any, facts) \in Definite => EvalAny(f.any, more) = EvalAny(f.any, facts)
        /\ EvalNone(f.none, facts) \in Definite => EvalNone(f.none, more) = EvalNone(f.none, facts)
    BY <1>1, GroupStays
  <1>3. /\ EvalAll(f.all, facts) \in PredicateResult
        /\ EvalAny(f.any, facts) \in PredicateResult
        /\ EvalNone(f.none, facts) \in PredicateResult
    BY DEF EvalAll, EvalAny, EvalNone, PredicateResult, Definite
  <1>4. /\ EvalAll(f.all, more) # "invalid"
        /\ EvalAny(f.any, more) # "invalid"
        /\ EvalNone(f.none, more) # "invalid"
    BY <1>1 DEF EvalAll, EvalAny, EvalNone
  <1>5. "invalid" \notin Parts(more)
    BY <1>4
  <1>6. "not_matched" \in Parts(facts) => "not_matched" \in Parts(more)
    BY <1>2 DEF Definite
  <1>7. Parts(facts) \subseteq {"matched"} => Parts(more) = Parts(facts)
    BY <1>2 DEF Definite
  <1>8. Parts(facts) \subseteq PredicateResult
    BY <1>3
  <1>9. /\ EvaluateApplicability(f, facts) = Merge(Parts(facts))
        /\ EvaluateApplicability(f, more) = Merge(Parts(more))
    BY DEF EvaluateApplicability
  <1> HIDE DEF Parts
  <1> QED  BY <1>5, <1>6, <1>7, <1>8, <1>9 DEF Merge, Definite, PredicateResult

\* The same for what selection goes by, the evaluation with the required facts
\* (_finalize_required_facts).
THEOREM RequiredIsKept ==
    ASSUME NEW f, NEW facts, NEW more, Extends(facts, more), WellTyped(f, more),
           FinalizeRequired(f, facts) \in Definite
    PROVE  FinalizeRequired(f, more) = FinalizeRequired(f, facts)
  <1>1. EvaluateApplicability(f, facts) \in Definite
    BY DEF FinalizeRequired, Definite
  <1>2. EvaluateApplicability(f, more) = EvaluateApplicability(f, facts)
    BY <1>1, DefiniteIsKept
  <1> QED  BY <1>2 DEF FinalizeRequired, Extends, Definite

-----------------------------------------------------------------------------
(* Plans.                                                                  *)

\* The facts without one of them are extended by the facts.
LEMMA OneLess ==
    ASSUME NEW facts, NEW k
    PROVE  Extends([x \in DOMAIN facts \ {k} |-> facts[x]], facts)
  BY DEF Extends

\* Whatever a plan was made of, its verdicts do not depend on facts that are
\* still missing (evaluate_applicability on the hosts of a plan).
THEOREM VerdictsStay == Spec => DefiniteStays
  <1> DEFINE Less(facts, k) == [x \in DOMAIN facts \ {k} |-> facts[x]]
  <1>1. ASSUME NEW f, NEW facts, NEW k, WellTyped(f, facts),
               EvaluateApplicability(f, Less(facts, k)) \in Definite
        PROVE  EvaluateApplicability(f, Less(facts, k)) = EvaluateApplicability(f, facts)
    BY <1>1, OneLess, DefiniteIsKept
  <1>2. ASSUME NEW f, NEW facts, NEW asked, WellTyped(f, facts)
        PROVE  {EvaluateApplicability(f, Less(facts, k)) : k \in asked} \cap Definite
                   \subseteq {EvaluateApplicability(f, facts)}
    BY <1>1, <1>2
  <1>3. [plan' # plan =>
           \A h \in Hosts : \A facts \in {HostFacts(h, plan'.hosts[h])} : \A f \in catalog :
              LET asked  == {p.fact : p \in f.all \cup f.any \cup f.none} \cap DOMAIN facts
                  before == {EvaluateApplicability(f, [x \in DOMAIN facts \ {k} |-> facts[x]]) :
                               k \in asked}
              IN  StateOf(f) = "structured" /\ WellTyped(f, facts) =>
                      before \cap Definite \subseteq {EvaluateApplicability(f, facts)}]_vars
    BY <1>2
  <1> QED  BY <1>3, PTL DEF Spec, DefiniteStays

-----------------------------------------------------------------------------
(* Analyses, audits and the process.                                       *)

\* What the steps keep of the shape of the state.
RunRecord == {"started", "targets", "pin", "restarted", "ran"}
JobFields == {"phase", "hosts", "version", "for"}
ShapesOK ==
    /\ DOMAIN rows = Hosts
    /\ catalog \in Catalogs \cup {InitialCatalog}
    /\ spent \in [Kinds \cup {"analysis"} -> Nat]
    /\ job.phase \in {"idle", "probing"}
    /\ job.phase = "probing" => JobFields \subseteq DOMAIN job
    /\ \A v \in DOMAIN snapshots :
          DOMAIN snapshots[v] = Hosts /\ \A h \in Hosts : "pg" \in DOMAIN snapshots[v][h]
    /\ run.started \in BOOLEAN /\ (run.started => DOMAIN run = RunRecord)

\* What a revision says follows from the rows and the answers it was made from.
PlanHosts(p) == [h \in Hosts |-> IF h \in DOMAIN p.facts
                                 THEN ReconcileHost(p.version[h][1], p.facts[h])
                                 ELSE p.version[h][1]]
Made(p) == /\ DOMAIN p.version = Hosts /\ p.hosts = PlanHosts(p)
           /\ p.targets = PlanTargets(p.decisions, p.hosts)
PlansMade == (plan # None => Made(plan)) /\ (claimed # None => Made(claimed))

\* An analysis has the hosts of the version that it goes by, and an audit that waits for
\* it was confirmed for that version.
JobFits == job.phase = "probing" =>
              /\ DOMAIN job.version = Hosts
              /\ \A h \in Hosts : job.hosts[h] = job.version[h][1]
              /\ job.for # None => Made(job.for) /\ job.for.version = job.version

\* The registry of the process is the one that the run is pinned to.
PolicyInForce == run.started /\ ~run.restarted =>
    cached # None /\ SnapshotHash(cached) = run.pin /\ run.ran \subseteq {run.pin}

InventoryInv == ShapesOK /\ JobFits /\ PlansMade /\ PolicyInForce /\ SnapshotsAgree

\* A registry is there once it was loaded.
LEMMA RegistryLoaded == GetRegistry # None /\ (cached # None => GetRegistry = cached)
  <1>1. LoadRegistry(files) # None
    <2>1. "hash" \in DOMAIN LoadRegistry(files)
      BY DEF LoadRegistry
    <2>2. "hash" \notin DOMAIN None
      BY DEF None
    <2> QED  BY <2>1, <2>2
  <1> QED  BY <1>1 DEF GetRegistry

\* The snapshots of a version have the hosts of the inventory.
LEMMA KeptShape ==
    ASSUME ShapesOK, NEW v
    PROVE  DOMAIN Kept(v) = Hosts /\ \A h \in Hosts : "pg" \in DOMAIN Kept(v)[h]
  <1>1. "pg" \in DOMAIN NoSnapshot
    BY DEF NoSnapshot
  <1> QED  BY <1>1 DEF Kept, ShapesOK

\* What a probe does to the analysis and to the snapshots.
LEMMA ProbeDoes ==
    ASSUME Probe
    PROVE  /\ \E n, f, e : job' = [job EXCEPT !.probed = n, !.facts = f, !.heard = e]
           /\ \E h, file : /\ snapshots' = SnapshotsWith(job.version, [Kept(job.version) EXCEPT ![h] = file])
                          /\ (file = Kept(job.version)[h] \/ "pg" \in DOMAIN file)
           /\ \E kinds : Mishaps(kinds)
  <1> DEFINE h    == HostOrder[job.probed + 1]
             host == job.hosts[h]
             t    == IF Route(host) = "winrm" THEN "winrm" ELSE "ssh"
             approved == ApprovedCommands(GetRegistry, AllCommands)
             speaks   == t \in world[h].transports
             befalls  == IF ~speaks THEN {Unreachable(t)}
                         ELSE {Undisturbed} \cup
                              {d \in Disturbances(t) : MishapsSoFar < MaxMishaps}
             old      == Kept(job.version)[h]
             heard(answers, facts) ==
                 /\ facts.transport # "" /\ facts.family # ""
                 /\ \A c \in {"running", "state", "ports", "binaries"} : answers[c] = "ok"
             written(facts) == WritesSnapshot(host, facts)
             new(facts)     == IF written(facts) THEN CollectorSnapshot(host, facts) ELSE old
             found(answers) == DiscoverHost(host, rows[h], world[h],
                                            SshDiscoveryAllowed(GetRegistry), answers)
  <1>1. \E answers \in {Answers(t, approved, d) : d \in befalls},
           calm \in {Answers(t, approved, Undisturbed)} :
        \E facts \in {found(answers)} :
          /\ job' = [job EXCEPT !.probed = @ + 1, !.facts = (h :> facts) @@ @,
                                !.heard = IF heard(answers, facts) THEN @ \cup {h} ELSE @]
          /\ \E file \in {new(facts)} \cup (IF written(facts) THEN {old, TornSnapshot} ELSE {}) :
                /\ snapshots' = SnapshotsWith(job.version, [Kept(job.version) EXCEPT ![h] = file])
                /\ Mishaps((IF speaks /\ answers # calm THEN {"fault"} ELSE {})
                           \cup (IF file # new(facts) THEN {"write"} ELSE {}))
    BY Zenon DEF Probe
  <1> HIDE DEF h, host, t, approved, speaks, befalls, old, heard, written, found
  <1>2. PICK answers, facts, kinds, file :
          /\ job' = [job EXCEPT !.probed = job.probed + 1, !.facts = (h :> facts) @@ job.facts,
                                !.heard = IF heard(answers, facts) THEN job.heard \cup {h}
                                          ELSE job.heard]
          /\ file \in {new(facts)} \cup (IF written(facts) THEN {old, TornSnapshot} ELSE {})
          /\ snapshots' = SnapshotsWith(job.version, [Kept(job.version) EXCEPT ![h] = file])
          /\ Mishaps(kinds)
    <2> HIDE DEF new
    <2> QED  BY <1>1
  <1>3. file = old \/ "pg" \in DOMAIN file
    <2>1. \A x, f : "pg" \in DOMAIN CollectorSnapshot(x, f)
      BY DEF CollectorSnapshot
    <2>2. "pg" \in DOMAIN TornSnapshot
      BY DEF TornSnapshot
    <2> QED  BY <1>2, <2>1, <2>2
  <1>4. \E n, f, e : job' = [job EXCEPT !.probed = n, !.facts = f, !.heard = e]
    BY <1>2, Zenon
  <1>5. \E x, y : /\ snapshots' = SnapshotsWith(job.version, [Kept(job.version) EXCEPT ![x] = y])
                 /\ (y = Kept(job.version)[x] \/ "pg" \in DOMAIN y)
    BY <1>2, <1>3 DEF old
  <1> QED  BY <1>2, <1>4, <1>5

\* Initially every part of the state has its shape.
LEMMA ShapesInit == Init => ShapesOK
  <1> SUFFICES ASSUME Init  PROVE ShapesOK
    OBVIOUS
  <1>1. DOMAIN rows = Hosts
    BY InventoryAssumption DEF Init
  <1>2. spent \in [Kinds \cup {"analysis"} -> Nat]
    BY DEF Init
  <1>3. DOMAIN snapshots = {}
    BY DEF Init
  <1>4. job.phase = "idle" /\ run.started = FALSE /\ catalog = InitialCatalog
    BY DEF Init, Idle, NoRun
  <1> QED  BY <1>1, <1>2, <1>3, <1>4 DEF ShapesOK

\* What the end of an analysis does to the state.
LEMMA FinishDoes ==
    ASSUME FinishAnalysis
    PROVE  \E hosts : \E n \in 0..Len(HostOrder), torn \in BOOLEAN :
              /\ snapshots' = SnapshotsWith(job.version, SyncSnapshots(job.version, hosts, n, torn))
              /\ \E kinds : Mishaps(kinds)
              /\ plan'.synced = Reached(n)
              /\ plan'.version = job.version /\ plan'.facts = job.facts /\ plan'.hosts = hosts
              /\ hosts = [h \in Hosts |-> IF h \in DOMAIN job.facts
                                         THEN ReconcileHost(job.hosts[h], job.facts[h])
                                         ELSE job.hosts[h]]
              /\ plan'.decisions = SelectFrameworks(hosts, catalog, GetRegistry)
              /\ plan'.targets = PlanTargets(plan'.decisions, hosts)
              /\ \/ run' = run
                 \/ /\ job.for # None /\ SelectionCurrent(job.for)
                    /\ PinCurrent(job.for.pin, GetRegistry)
                    /\ run' = AuditOf(job.for)
  <1> DEFINE hosts == [h \in Hosts |-> IF h \in DOMAIN job.facts
                                       THEN ReconcileHost(job.hosts[h], job.facts[h])
                                       ELSE job.hosts[h]]
  <1>1. \E steps : PublishAnalysis(hosts, SelectFrameworks(hosts, catalog, GetRegistry), steps)
    <2>1. \E decisions \in {SelectFrameworks(hosts, catalog, GetRegistry)},
             steps \in {BuildDiscoveryPlan(hosts, catalog, GetRegistry)} :
             PublishAnalysis(hosts, decisions, steps)
      BY Zenon DEF FinishAnalysis
    <2> HIDE DEF hosts
    <2> QED  BY <2>1
  <1>2. \/ run' = run
        \/ /\ job.for # None /\ SelectionCurrent(job.for)
           /\ PinCurrent(job.for.pin, GetRegistry)
           /\ run' = AuditOf(job.for)
    <2>1. run' = IF /\ job.for # None /\ ~run.started
                    /\ job.facts = job.for.facts /\ hosts = job.for.hosts
                    /\ PinCurrent(job.for.pin, GetRegistry) /\ SelectionCurrent(job.for)
                 THEN AuditOf(job.for) ELSE run
      BY Zenon DEF FinishAnalysis
    <2> HIDE DEF hosts
    <2> QED  BY <2>1, Zenon
  <1>3. hosts = [h \in Hosts |-> IF h \in DOMAIN job.facts
                                 THEN ReconcileHost(job.hosts[h], job.facts[h])
                                 ELSE job.hosts[h]]
    OBVIOUS
  <1> HIDE DEF hosts
  <1>4. PICK n \in 0..Len(HostOrder), torn \in BOOLEAN :
          /\ snapshots' = SnapshotsWith(job.version, SyncSnapshots(job.version, hosts, n, torn))
          /\ \E kinds : Mishaps(kinds)
          /\ plan'.synced = Reached(n)
          /\ plan'.version = job.version /\ plan'.facts = job.facts /\ plan'.hosts = hosts
          /\ plan'.decisions = SelectFrameworks(hosts, catalog, GetRegistry)
          /\ plan'.targets = PlanTargets(plan'.decisions, hosts)
    BY <1>1 DEF PublishAnalysis
  <1> QED  BY <1>2, <1>3, <1>4

\* Every step keeps the shapes of the state.
LEMMA ShapesStep == ASSUME ShapesOK, [Next]_vars  PROVE ShapesOK'
  <1>1. DOMAIN rows' = Hosts /\ catalog' \in Catalogs \cup {InitialCatalog}
    BY DEF ShapesOK, Next, vars, disk, StartProcess, Crash, EditRow, EditCatalog, EditTools,
       StartAnalysis, Probe, FinishAnalysis, Confirm, Start, StartRefreshed, InvokeTool
  <1>2. spent' \in [Kinds \cup {"analysis"} -> Nat]
    <2>1. \/ UNCHANGED spent
          \/ spent' = [spent EXCEPT !["analysis"] = @ + 1]
          \/ \E kinds : Mishaps(kinds)
      <3>1. CASE Probe
        BY <3>1, ProbeDoes
      <3>2. CASE FinishAnalysis
        BY <3>2, FinishDoes
      <3>3. CASE ~Probe /\ ~FinishAnalysis
        BY <3>3 DEF Next, vars, StartProcess, Crash, EditRow, EditCatalog, EditTools,
           StartAnalysis, StartRefreshed, BeginAnalysis, Confirm, Start, InvokeTool, Mishap
      <3> QED  BY <3>1, <3>2, <3>3
    <2>2. ASSUME NEW kinds, Mishaps(kinds)  PROVE spent' \in [Kinds \cup {"analysis"} -> Nat]
      BY <2>2 DEF Mishaps, ShapesOK
    <2> QED  BY <2>1, <2>2 DEF ShapesOK
  <1>3. /\ job'.phase \in {"idle", "probing"}
        /\ job'.phase = "probing" => JobFields \subseteq DOMAIN job'
    <2>1. CASE StartAnalysis \/ StartRefreshed
      BY <2>1 DEF StartAnalysis, StartRefreshed, BeginAnalysis, JobFields
    <2>2. CASE Probe
      <3>1. PICK n, f, e : job' = [job EXCEPT !.probed = n, !.facts = f, !.heard = e]
        BY <2>2, ProbeDoes
      <3>2. JobFields \subseteq DOMAIN job /\ job.phase = "probing"
        BY <2>2 DEF Probe, ShapesOK
      <3> QED  BY <3>1, <3>2 DEF JobFields
    <2>3. CASE FinishAnalysis \/ Crash
      BY <2>3 DEF FinishAnalysis, Crash, Idle
    <2>4. CASE UNCHANGED job
      BY <2>4 DEF ShapesOK
    <2> QED  BY <2>1, <2>2, <2>3, <2>4 DEF Next, vars, StartProcess, EditRow, EditCatalog,
                EditTools, Confirm, Start, InvokeTool
  <1>4. \A v \in DOMAIN snapshots' :
           DOMAIN snapshots'[v] = Hosts /\ \A h \in Hosts : "pg" \in DOMAIN snapshots'[v][h]
    <2>1. ASSUME NEW version, NEW now, snapshots' = SnapshotsWith(version, now),
                 DOMAIN now = Hosts, \A h \in Hosts : "pg" \in DOMAIN now[h]
          PROVE  \A v \in DOMAIN snapshots' :
                    DOMAIN snapshots'[v] = Hosts /\ \A h \in Hosts : "pg" \in DOMAIN snapshots'[v][h]
      <3>1. DOMAIN snapshots' = DOMAIN snapshots \cup {version}
        BY <2>1 DEF SnapshotsWith
      <3>2. \A v \in DOMAIN snapshots' : snapshots'[v] = IF v = version THEN now ELSE snapshots[v]
        BY <2>1 DEF SnapshotsWith
      <3> QED  BY <2>1, <3>1, <3>2 DEF ShapesOK
    <2>2. CASE Probe
      <3>1. PICK h, file : /\ snapshots' = SnapshotsWith(job.version, [Kept(job.version) EXCEPT ![h] = file])
                           /\ (file = Kept(job.version)[h] \/ "pg" \in DOMAIN file)
        BY <2>2, ProbeDoes
      <3>2. /\ DOMAIN [Kept(job.version) EXCEPT ![h] = file] = Hosts
            /\ \A x \in Hosts : "pg" \in DOMAIN [Kept(job.version) EXCEPT ![h] = file][x]
        BY <3>1, KeptShape
      <3> QED  BY <2>1, <3>1, <3>2
    <2>3. CASE FinishAnalysis
      <3>1. PICK n, torn, hosts :
              snapshots' = SnapshotsWith(job.version, SyncSnapshots(job.version, hosts, n, torn))
        BY <2>3, FinishDoes
      <3>2. ASSUME NEW old, NEW host, "pg" \in DOMAIN old
            PROVE  "pg" \in DOMAIN SyncSnapshot(old, host)
        BY <3>2 DEF SyncSnapshot
      <3>3. "pg" \in DOMAIN TornSnapshot
        BY DEF TornSnapshot
      <3>4. /\ DOMAIN SyncSnapshots(job.version, hosts, n, torn) = Hosts
            /\ \A h \in Hosts : "pg" \in DOMAIN SyncSnapshots(job.version, hosts, n, torn)[h]
        BY <3>2, <3>3, KeptShape DEF SyncSnapshots
      <3> QED  BY <2>1, <3>1, <3>4
    <2>4. CASE UNCHANGED snapshots
      BY <2>4 DEF ShapesOK
    <2> QED  BY <2>2, <2>3, <2>4 DEF Next, vars, StartProcess, Crash, EditRow, EditCatalog,
                EditTools, StartAnalysis, StartRefreshed, Confirm, Start, InvokeTool
  <1>5. run'.started \in BOOLEAN /\ (run'.started => DOMAIN run' = RunRecord)
    <2>1. CASE Start
      BY <2>1 DEF Start, AuditOf, RunRecord
    <2>4. CASE FinishAnalysis
      <3>1. run' = run \/ run' = AuditOf(job.for)
        BY <2>4, FinishDoes
      <3>2. CASE run' = run
        BY <3>2 DEF ShapesOK
      <3>3. CASE run' = AuditOf(job.for)
        BY <3>3 DEF AuditOf, RunRecord
      <3> QED  BY <3>1, <3>2, <3>3
    <2>2. CASE Crash \/ InvokeTool
      <3>1. UNCHANGED run \/ (run.started /\ \E r, e : \/ run' = [run EXCEPT !.restarted = r, !.ran = e]
                                                      \/ run' = [run EXCEPT !.ran = e])
        BY <2>2 DEF Crash, InvokeTool
      <3> QED  BY <3>1 DEF ShapesOK, RunRecord
    <2>3. CASE UNCHANGED run
      BY <2>3 DEF ShapesOK
    <2> QED  BY <2>1, <2>2, <2>3, <2>4 DEF Next, vars, StartProcess, EditRow, EditCatalog,
                EditTools, StartAnalysis, StartRefreshed, Probe, Confirm
  <1> QED  BY <1>1, <1>2, <1>3, <1>4, <1>5 DEF ShapesOK

\* Every step keeps what a planning job has read in line with the stores.
LEMMA JobStep == ASSUME ShapesOK, JobFits, PlansMade, [Next]_vars  PROVE JobFits'
  <1>1. CASE StartAnalysis \/ StartRefreshed
    <2>1. /\ job'.version = VersionOf(rows)
          /\ job'.hosts = [h \in Hosts |-> NormalizeHost(rows[h])]
      BY <1>1 DEF StartAnalysis, StartRefreshed, BeginAnalysis
    <2>2. job'.for # None => Made(job'.for) /\ job'.for.version = job'.version
      BY <1>1, <2>1 DEF StartAnalysis, StartRefreshed, BeginAnalysis, PlanCurrent, PlansMade
    <2> QED  BY <2>1, <2>2 DEF JobFits, VersionOf, ShapesOK
  <1>2. CASE Probe
    <2>1. PICK n, f, e : job' = [job EXCEPT !.probed = n, !.facts = f, !.heard = e]
      BY <1>2, ProbeDoes
    <2>2. JobFields \subseteq DOMAIN job /\ job.phase = "probing"
      BY <1>2 DEF Probe, ShapesOK
    <2>3. job'.version = job.version /\ job'.hosts = job.hosts /\ job'.for = job.for
      BY <2>1, <2>2 DEF JobFields
    <2> QED  BY <2>2, <2>3 DEF JobFits
  <1>3. CASE FinishAnalysis \/ Crash
    BY <1>3 DEF FinishAnalysis, Crash, Idle, JobFits
  <1>4. CASE UNCHANGED job
    BY <1>4 DEF JobFits
  <1> QED  BY <1>1, <1>2, <1>3, <1>4 DEF Next, vars, StartProcess, EditRow, EditCatalog,
              EditTools, Confirm, Start, InvokeTool

\* What the end of an analysis publishes.
LEMMA Published ==
    ASSUME ShapesOK, JobFits, FinishAnalysis
    PROVE  /\ Made(plan')
           /\ plan'.decisions = SelectFrameworks(plan'.hosts, catalog, GetRegistry)
           /\ DOMAIN plan'.hosts = Hosts
           /\ \A h \in plan'.synced : h \in Hosts /\ \E old :
                 "pg" \in DOMAIN old /\ Kept(plan.version)'[h] = SyncSnapshot(old, plan'.hosts[h])
  <1>1. PICK n, torn, hosts :
          /\ snapshots' = SnapshotsWith(job.version, SyncSnapshots(job.version, hosts, n, torn))
          /\ plan'.synced = Reached(n)
          /\ plan'.version = job.version /\ plan'.facts = job.facts /\ plan'.hosts = hosts
          /\ hosts = [h \in Hosts |-> IF h \in DOMAIN job.facts
                                     THEN ReconcileHost(job.hosts[h], job.facts[h])
                                     ELSE job.hosts[h]]
          /\ plan'.decisions = SelectFrameworks(hosts, catalog, GetRegistry)
          /\ plan'.targets = PlanTargets(plan'.decisions, hosts)
    BY FinishDoes
  <1>2. job.phase = "probing"
    BY DEF FinishAnalysis
  <1>3. DOMAIN job.version = Hosts /\ \A h \in Hosts : job.hosts[h] = job.version[h][1]
    BY <1>2 DEF JobFits
  <1>4. plan'.hosts = PlanHosts(plan')
    BY <1>1, <1>3 DEF PlanHosts
  <1>5. Kept(plan.version)' = SyncSnapshots(job.version, hosts, n, torn)
    <2>1. /\ job.version \in DOMAIN snapshots'
          /\ snapshots'[job.version] = SyncSnapshots(job.version, hosts, n, torn)
      BY <1>1 DEF SnapshotsWith
    <2> QED  BY <1>1, <2>1 DEF Kept
  <1>6. ASSUME NEW h \in plan'.synced
        PROVE  h \in Hosts /\ \E old : "pg" \in DOMAIN old
                                     /\ Kept(plan.version)'[h] = SyncSnapshot(old, plan'.hosts[h])
    <2>1. h \in Hosts /\ h \in Reached(n)
      BY <1>1, <1>6 DEF Reached
    <2>2. Kept(plan.version)'[h] = SyncSnapshot(Kept(job.version)[h], plan'.hosts[h])
      BY <1>1, <1>5, <2>1 DEF SyncSnapshots
    <2>3. "pg" \in DOMAIN Kept(job.version)[h]
      BY <2>1, KeptShape
    <2> QED  BY <2>1, <2>2, <2>3
  <1>7. DOMAIN plan'.hosts = Hosts
    BY <1>1
  <1>8. Made(plan') /\ plan'.decisions = SelectFrameworks(plan'.hosts, catalog, GetRegistry)
    BY <1>1, <1>3, <1>4 DEF Made
  <1> QED  BY <1>6, <1>7, <1>8

\* Every step keeps what a stored plan says made from its rows and answers.
LEMMA PlansStep == ASSUME ShapesOK, JobFits, PlansMade, [Next]_vars  PROVE PlansMade'
  <1>1. CASE FinishAnalysis
    <2>1. Made(plan') /\ UNCHANGED claimed
      BY <1>1, Published DEF FinishAnalysis
    <2> QED  BY <2>1 DEF PlansMade
  <1>2. CASE Confirm
    BY <1>2 DEF Confirm, PlansMade
  <1>3. CASE UNCHANGED <<plan, claimed>>
    BY <1>3 DEF PlansMade
  <1> QED  BY <1>1, <1>2, <1>3 DEF Next, vars, StartProcess, Crash, EditRow, EditCatalog,
              EditTools, StartAnalysis, StartRefreshed, Probe, Start, InvokeTool

\* Every step keeps the snapshots of a plan's inventory as the plan has them.
LEMMA SnapshotsStep ==
    ASSUME ShapesOK, ShapesOK', JobFits, SnapshotsAgree, [Next]_vars
    PROVE  SnapshotsAgree'
  <1>1. CASE StartAnalysis \/ StartRefreshed \/ Probe
    <2>1. job'.phase = "probing"
      <3>1. CASE StartAnalysis \/ StartRefreshed
        BY <3>1 DEF StartAnalysis, StartRefreshed, BeginAnalysis
      <3>2. CASE Probe
        <4>1. PICK n, f, e : job' = [job EXCEPT !.probed = n, !.facts = f, !.heard = e]
          BY <3>2, ProbeDoes
        <4>2. job.phase = "probing" /\ JobFields \subseteq DOMAIN job
          BY <3>2 DEF Probe, ShapesOK
        <4> QED  BY <4>1, <4>2 DEF JobFields
      <3> QED  BY <1>1, <3>1, <3>2
    <2> QED  BY <2>1 DEF Idle, SnapshotsAgree
  <1>2. CASE FinishAnalysis
    <2>1. ASSUME NEW h \in plan'.synced
          PROVE  Kept(plan.version)'[h].pg = PostgresStatus(plan'.hosts[h])
      <3>1. PICK old : /\ "pg" \in DOMAIN old
                       /\ Kept(plan.version)'[h] = SyncSnapshot(old, plan'.hosts[h])
        BY <1>2, <2>1, Published
      <3>2. ASSUME NEW host  PROVE SyncSnapshot(old, host).pg = PostgresStatus(host)
        <4>1. CASE old.by # "none"
          BY <3>1, <4>1 DEF SyncSnapshot
        <4>2. CASE old.by = "none"
          BY <4>2 DEF SyncSnapshot
        <4> QED  BY <4>1, <4>2
      <3> QED  BY <3>1, <3>2
    <2> QED  BY <2>1 DEF SnapshotsAgree
  <1>3. CASE Crash
    <2>1. spent'["crash"] # 0
      BY <1>3 DEF Crash, Mishap, Mishaps, Kinds, ShapesOK
    <2> QED  BY <2>1 DEF SnapshotsAgree
  <1>4. CASE EditRow \/ EditCatalog \/ EditTools
    <2>1. spent'["crash"] = spent["crash"] /\ UNCHANGED <<plan, job, snapshots>>
      BY <1>4 DEF EditRow, EditCatalog, EditTools, Mishap, Mishaps, Kinds, ShapesOK
    <2> QED  BY <2>1 DEF SnapshotsAgree, Kept
  <1>5. CASE UNCHANGED <<plan, job, snapshots, spent>>
    BY <1>5 DEF SnapshotsAgree, Kept
  <1> QED  BY <1>1, <1>2, <1>3, <1>4, <1>5 DEF Next, vars, StartProcess, Confirm, Start, InvokeTool

\* Every step keeps the policy in force the pinned one.
LEMMA PolicyStep == ASSUME ShapesOK, PolicyInForce, [Next]_vars  PROVE PolicyInForce'
  <1>1. CASE Start
    <2>1. cached' # None /\ SnapshotHash(cached') = claimed.pin
      BY <1>1, RegistryLoaded DEF Start, PlanCurrent, PinCurrent
    <2>2. run'.pin = claimed.pin /\ run'.ran = {}
      BY <1>1 DEF Start, AuditOf
    <2> QED  BY <2>1, <2>2 DEF PolicyInForce
  <1>5. CASE FinishAnalysis
    <2>1. cached' = GetRegistry
      BY <1>5 DEF FinishAnalysis
    <2>2. run' = run \/ (PinCurrent(job.for.pin, GetRegistry) /\ run' = AuditOf(job.for))
      BY <1>5, FinishDoes
    <2>3. CASE run' = run
      BY <2>1, <2>3, RegistryLoaded DEF PolicyInForce
    <2>4. CASE PinCurrent(job.for.pin, GetRegistry) /\ run' = AuditOf(job.for)
      <3>1. run'.pin = job.for.pin /\ run'.ran = {}
        BY <2>4 DEF AuditOf
      <3>2. cached' # None /\ SnapshotHash(cached') = job.for.pin
        BY <2>1, <2>4, RegistryLoaded DEF PinCurrent
      <3> QED  BY <3>1, <3>2 DEF PolicyInForce
    <2> QED  BY <2>2, <2>3, <2>4
  <1>2. CASE InvokeTool
    <2>1. /\ run.started /\ run' = [run EXCEPT !.ran = @ \cup {SnapshotHash(GetRegistry)}]
          /\ cached' = GetRegistry /\ DOMAIN run = RunRecord
      BY <1>2 DEF InvokeTool, ShapesOK
    <2>2. /\ run'.pin = run.pin /\ run'.restarted = run.restarted
          /\ run'.ran = run.ran \cup {SnapshotHash(GetRegistry)}
      BY <2>1 DEF RunRecord
    <2> QED  BY <2>1, <2>2, RegistryLoaded DEF PolicyInForce
  <1>3. CASE Crash
    <2>1. run' = IF run.started THEN [run EXCEPT !.restarted = TRUE, !.ran = {}] ELSE run
      BY <1>3 DEF Crash
    <2>2. run'.started => run'.restarted
      BY <2>1 DEF ShapesOK, RunRecord
    <2> QED  BY <2>2 DEF PolicyInForce
  <1>4. CASE UNCHANGED run /\ (cached' = cached \/ cached' = GetRegistry)
    BY <1>4, RegistryLoaded DEF PolicyInForce
  <1> QED  BY <1>1, <1>2, <1>3, <1>4, <1>5 DEF Next, vars, StartProcess, EditRow, EditCatalog,
              EditTools, StartAnalysis, StartRefreshed, Probe, Confirm

\* The inductive invariant holds in every behaviour.
LEMMA InventoryAlways == Spec => []InventoryInv
  <1>1. Init => InventoryInv
    <2> SUFFICES ASSUME Init  PROVE InventoryInv
      OBVIOUS
    <2>1. plan = None /\ claimed = None /\ job.phase = "idle" /\ run.started = FALSE
      BY DEF Init, Idle, NoRun
    <2> QED  BY <2>1, ShapesInit DEF InventoryInv, JobFits, PlansMade, PolicyInForce, SnapshotsAgree
  <1>2. InventoryInv /\ [Next]_vars => InventoryInv'
    <2> SUFFICES ASSUME InventoryInv, [Next]_vars  PROVE InventoryInv'
      OBVIOUS
    <2>1. ShapesOK'
      BY ShapesStep DEF InventoryInv
    <2> QED  BY <2>1, JobStep, PlansStep, SnapshotsStep, PolicyStep DEF InventoryInv
  <1> QED  BY <1>1, <1>2, PTL DEF Spec

\* Until the process restarts every command of an audit runs under the policy that its plan
\* was made and confirmed under, whatever is written into the policy file meanwhile
\* (get_tool_registry keeps what it loaded, astart_confirmed_audit compares it).
THEOREM PolicyIsPinned == Spec => []RunsPinnedPolicy
  <1>1. InventoryInv => RunsPinnedPolicy
    BY DEF InventoryInv, PolicyInForce, RunsPinnedPolicy
  <1> QED  BY <1>1, InventoryAlways, PTL

\* As long as the process does not die, the capability snapshots of the latest plan's inventory
\* say of PostgreSQL what the plan was made from, on every host that the synchronization came
\* to, whichever collector wrote them or none, however often and wherever writes of this or of
\* earlier analyses failed (sync_capability_snapshots_from_detections).
THEOREM SnapshotsMatchPlan == Spec => []SnapshotsAgree
  <1>1. InventoryInv => SnapshotsAgree
    BY DEF InventoryInv
  <1> QED  BY <1>1, InventoryAlways, PTL

\* An audit starts only with the targets that an analysis of the inventory, the catalog and the
\* tool files of this moment would find, given the answers of the hosts, however long ago the
\* plan was made and whatever was edited in between and back; an audit that waited for an
\* analysis, with those for the inventory that this analysis read (astart_confirmed_audit).
THEOREM StartsCurrent == Spec => StartedIsCurrent
  <1> DEFINE p     == IF job' = job THEN claimed ELSE job.for
             read  == IF job' = job THEN VersionOf(rows) ELSE job.version
             hosts == [h \in Hosts |-> IF h \in DOMAIN p.facts
                                       THEN ReconcileHost(read[h][1], p.facts[h])
                                       ELSE read[h][1]]
             goal  == run'.targets = PlanTargets(SelectFrameworks(hosts, catalog, cached'), hosts)
  <1>1. InventoryInv /\ [Next]_vars => [run' # run /\ ~run.started => goal]_vars
    <2> SUFFICES ASSUME InventoryInv, [Next]_vars, run' # run, ~run.started  PROVE goal
      OBVIOUS
    <2>1. Start \/ FinishAnalysis
      BY DEF Next, vars, StartProcess, Crash, EditRow, EditCatalog, EditTools,
         StartAnalysis, StartRefreshed, Probe, Confirm, InvokeTool
    <2>2. CASE Start
      <3>1. job' = job /\ claimed # None /\ PlanCurrent(claimed) /\ SelectionCurrent(claimed)
            /\ run' = AuditOf(claimed) /\ cached' = GetRegistry
        BY <2>2 DEF Start
      <3>2. Made(claimed) /\ claimed.version = VersionOf(rows)
        BY <3>1 DEF PlanCurrent, InventoryInv, PlansMade
      <3>3. p = claimed /\ read = claimed.version
        BY <3>1, <3>2
      <3> HIDE DEF p, read
      <3>4. hosts = claimed.hosts
        BY <3>2, <3>3 DEF Made, PlanHosts
      <3> HIDE DEF hosts
      <3>5. SelectFrameworks(claimed.hosts, catalog, cached') = claimed.decisions
        BY <3>1 DEF SelectionCurrent
      <3>6. run'.targets = claimed.targets
        BY <3>1 DEF AuditOf
      <3> QED  BY <3>2, <3>4, <3>5, <3>6 DEF Made
    <2>3. CASE FinishAnalysis
      <3>1. job.phase = "probing" /\ job' = Idle /\ cached' = GetRegistry
        BY <2>3 DEF FinishAnalysis
      <3>2. job.for # None /\ SelectionCurrent(job.for) /\ run' = AuditOf(job.for)
        BY <2>3, FinishDoes
      <3>3. Made(job.for) /\ job.for.version = job.version
        BY <3>1, <3>2 DEF InventoryInv, JobFits
      <3>4. job' # job
        BY <3>1 DEF Idle
      <3>5. p = job.for /\ read = job.for.version
        BY <3>3, <3>4
      <3> HIDE DEF p, read
      <3>6. hosts = job.for.hosts
        BY <3>3, <3>5 DEF Made, PlanHosts
      <3> HIDE DEF hosts
      <3>7. SelectFrameworks(job.for.hosts, catalog, cached') = job.for.decisions
        BY <3>1, <3>2 DEF SelectionCurrent
      <3>8. run'.targets = job.for.targets
        BY <3>2 DEF AuditOf
      <3> QED  BY <3>3, <3>6, <3>7, <3>8 DEF Made
    <2> QED  BY <2>1, <2>2, <2>3
  <1> QED  BY <1>1, InventoryAlways, PTL DEF Spec, StartedIsCurrent

-----------------------------------------------------------------------------
(* One framework per host and family.                                      *)

\* A set of natural numbers that is not empty has a least element.
LEMMA Smallest ==
    ASSUME NEW S, S \subseteq Nat, S # {}
    PROVE  \E x \in S : \A y \in S : x <= y
  <1> DEFINE R == OpToRel(<, Nat)
  <1>1. IsWellFoundedOn(R, Nat)
    BY NatLessThanWellFounded
  <1>2. \A x, y \in Nat : x < y => <<x, y>> \in R
    BY DEF OpToRel
  <1> HIDE DEF R
  <1>3. PICK x \in S : \A y \in S : ~(<<y, x>> \in R)
    BY <1>1, WFMin
  <1>4. ASSUME NEW y \in S  PROVE x <= y
    <2>1. x \in Nat /\ y \in Nat
      OBVIOUS
    <2>2. ~(y < x)
      BY <1>2, <1>3, <2>1, Zenon
    <2> QED  BY <2>1, <2>2
  <1> QED  BY <1>4

\* The first of a set in name order is in the set.
LEMMA FirstIsThere ==
    ASSUME NEW S, S # {}, S \subseteq Range(NameOrder)
    PROVE  FirstOf(NameOrder, S) \in S
  <1> DEFINE T == {Pos(NameOrder, x) : x \in S}
  <1>1. \A x \in S : Pos(NameOrder, x) \in DOMAIN NameOrder
    BY DEF Pos, Range
  <1>2. T \subseteq Nat /\ T # {}
    BY <1>1, InventoryAssumption
  <1>3. PICK n \in T : \A m \in T : n <= m
    BY <1>2, Smallest
  <1>4. \E x \in S : \A y \in S : Pos(NameOrder, x) <= Pos(NameOrder, y)
    BY <1>3
  <1> QED  BY <1>4 DEF FirstOf

\* A variant is picked from those that are there (_pick_language_variant).
LEMMA PickIsThere ==
    ASSUME NEW variants, variants # {}, NEW languages, DOMAIN languages \subseteq Nat,
           \A v \in variants : v.f.id \in Range(NameOrder)
    PROVE  PickLanguage(variants, languages) \in variants
  <1> DEFINE in(l) == {v \in variants : v.f.lang = l}
             ranks == {i \in DOMAIN languages : in(languages[i]) # {}}
             best  == IF ranks = {} THEN variants ELSE in(languages[Min(ranks)])
             ids   == {w.f.id : w \in best}
  <1>1. best # {} /\ best \subseteq variants
    <2>1. CASE ranks = {}
      BY <2>1
    <2>2. CASE ranks # {}
      <3>1. \E x \in ranks : \A y \in ranks : x <= y
        BY <2>2, Smallest
      <3>2. Min(ranks) \in ranks
        <4> HIDE DEF ranks
        <4> QED  BY <3>1 DEF Min
      <3> QED  BY <2>2, <3>2
    <2> QED  BY <2>1, <2>2
  <1>2. PickLanguage(variants, languages) = CHOOSE v \in best : v.f.id = FirstOf(NameOrder, ids)
    BY DEF PickLanguage
  <1> HIDE DEF best
  <1>3. ids # {} /\ ids \subseteq Range(NameOrder)
    BY <1>1
  <1>4. FirstOf(NameOrder, ids) \in ids
    <2> HIDE DEF ids
    <2> QED  BY <1>3, FirstIsThere
  <1>5. \E v \in best : v.f.id = FirstOf(NameOrder, ids)
    BY <1>4
  <1> QED  BY <1>1, <1>2, <1>5

-----------------------------------------------------------------------------
Structured(frameworks) == {f \in frameworks : StateOf(f) = "structured"}

\* The candidates that are decided on, and the decision on each (select_frameworks_dynamic).
Active(hosts, frameworks, registry) ==
    {c \in Candidates(hosts, frameworks, registry) :
        /\ c.f.family \notin InconsistentFamilies(frameworks)
        /\ ~(c.state = "legacy" /\ c.f.family \in {f.family : f \in Structured(frameworks)})}
OfClient(hosts, frameworks, registry) == {c \in Active(hosts, frameworks, registry) : c.client}
ResolvedOf(hosts, frameworks, registry) ==
    {ResolveHost(c, hosts) :
        c \in Active(hosts, frameworks, registry) \ OfClient(hosts, frameworks, registry)}
    \cup {ResolveClient({c \in OfClient(hosts, frameworks, registry) : c.f = f}, hosts) :
            f \in {c.f : c \in OfClient(hosts, frameworks, registry)}}

\* A decision that selects is about the resolved candidates of one target and one family.
LEMMA Selects ==
    ASSUME NEW hosts, NEW frameworks, NEW registry,
           NEW d \in SelectFrameworks(hosts, frameworks, registry), d.status = "selected"
    PROVE  \E v \in ResolvedOf(hosts, frameworks, registry) :
             d \in DecideFamily({w \in ResolvedOf(hosts, frameworks, registry) :
                                   w.target = v.target /\ w.f.family = v.f.family})
  <1> DEFINE R == ResolvedOf(hosts, frameworks, registry)
             G == {<<v.target, v.f.family>> : v \in R}
             In(g) == {v \in R : <<v.target, v.f.family>> = g}
  <1>1. SelectFrameworks(hosts, frameworks, registry) =
          {InconsistentDecision(frameworks, family) : family \in InconsistentFamilies(frameworks)}
          \cup UNION {DecideFamily(In(g)) : g \in G}
    BY DEF SelectFrameworks, ResolvedOf, Active, OfClient, Structured
  <1> HIDE DEF R
  <1>2. \A family : InconsistentDecision(frameworks, family).status # "selected"
    BY DEF InconsistentDecision
  <1>3. PICK g \in G : d \in DecideFamily(In(g))
    BY <1>1, <1>2
  <1>4. PICK v \in R : g = <<v.target, v.f.family>>
    BY <1>3
  <1>5. In(g) = {w \in R : w.target = v.target /\ w.f.family = v.f.family}
    BY <1>4
  <1> QED  BY <1>3, <1>5 DEF R

\* A decision is about a framework of the catalog, and one that selects it about a structured
\* one, whose scope says what the target is.
Placed(v, frameworks) ==
    /\ v.f \in frameworks
    /\ v.status = "selected" => v.structured
    /\ v.structured =>
         /\ StateOf(v.f) = "structured" /\ v.f.family \notin InconsistentFamilies(frameworks)
         /\ v.f.scope = "client" => v.target = ClientTarget
         /\ v.f.scope = "host" => \E h : v.target = <<"host", h, "">>
         /\ v.f.scope = "service" => \E h : v.target = <<"service", h, v.f.service>>

\* A resolved candidate has a place among the frameworks.
LEMMA Places ==
    ASSUME NEW hosts, NEW frameworks, NEW registry, NEW v \in ResolvedOf(hosts, frameworks, registry)
    PROVE  Placed(v, frameworks)
  <1>1. ASSUME NEW c \in Active(hosts, frameworks, registry)
        PROVE  /\ c.f \in frameworks /\ c.state = StateOf(c.f)
               /\ c.client <=> (c.state = "structured" /\ c.f.scope = "client")
               /\ c.f.family \notin InconsistentFamilies(frameworks)
    <2>1. PICK f \in frameworks : \E h, facts, available : c = Candidate(h, f, facts, available)
      <3>1. PICK h : c \in CandidatesOf(h, hosts[h], frameworks, registry)
        BY DEF Active, Candidates
      <3>2. PICK f \in frameworks :
              c = Candidate(h, f, HostFacts(h, hosts[h]),
                            AvailableCaps(registry, HostFacts(h, hosts[h])))
        BY <3>1 DEF CandidatesOf
      <3> QED  BY <3>2
    <2>2. PICK h, facts, available : c = Candidate(h, f, facts, available)
      BY <2>1
    <2> QED  BY <2>2 DEF Candidate, Active
  <1>2. \A f : StateOf(f) \in {"structured", "invalid", "legacy"}
    BY DEF StateOf, MetaState
  <1>3. ASSUME NEW state \in {"structured", "invalid", "legacy"}, NEW result, NEW ready, NEW weak,
               NEW blocked, Decide(state, result, ready, weak, blocked)[1] = "selected"
        PROVE  state = "structured"
    BY <1>3 DEF Decide
  <1>4. CASE \E c \in Active(hosts, frameworks, registry) \ OfClient(hosts, frameworks, registry) :
               v = ResolveHost(c, hosts)
    <2>1. PICK c \in Active(hosts, frameworks, registry) : ~c.client /\ v = ResolveHost(c, hosts)
      BY <1>4 DEF OfClient
    <2>2. PICK result, ready, weak, blocked :
            /\ v.f = c.f /\ v.target = TargetOf(c) /\ v.structured = (c.state = "structured")
            /\ v.status = Decide(c.state, result, ready, weak, blocked)[1]
      BY <2>1 DEF ResolveHost, Resolved
    <2>3. v.status = "selected" => v.structured
      <3>1. c.state \in {"structured", "invalid", "legacy"}
        BY <1>1, <1>2
      <3>2. Decide(c.state, result, ready, weak, blocked)[1] = "selected" => c.state = "structured"
        BY <1>3, <3>1
      <3> QED  BY <2>2, <3>2
    <2>4. v.structured =>
            /\ v.f.scope # "client"
            /\ v.f.scope = "host" => v.target = <<"host", c.host, "">>
            /\ v.f.scope = "service" => v.target = <<"service", c.host, v.f.service>>
      BY <1>1, <2>1, <2>2 DEF TargetOf
    <2> QED  BY <1>1, <2>2, <2>3, <2>4 DEF Placed
  <1>5. CASE \E f \in {c.f : c \in OfClient(hosts, frameworks, registry)} :
               v = ResolveClient({c \in OfClient(hosts, frameworks, registry) : c.f = f}, hosts)
    <2>1. PICK f \in {c.f : c \in OfClient(hosts, frameworks, registry)} :
               v = ResolveClient({c \in OfClient(hosts, frameworks, registry) : c.f = f}, hosts)
      BY <1>5
    <2> DEFINE group == {c \in OfClient(hosts, frameworks, registry) : c.f = f}
               sample == CHOOSE c \in group : TRUE
    <2>2. sample \in group
      BY <2>1
    <2>3. v.f = sample.f /\ v.target = ClientTarget /\ v.structured = (sample.state = "structured")
      BY <2>1 DEF ResolveClient, Resolved
    <2>4. sample \in Active(hosts, frameworks, registry) /\ sample.client
      BY <2>2 DEF OfClient
    <2> HIDE DEF sample
    <2> QED  BY <1>1, <2>3, <2>4 DEF Placed
  <1> QED  BY <1>4, <1>5 DEF ResolvedOf

Named(frameworks) == \A f \in frameworks : f.id \in Range(NameOrder)

\* A family selects at most one of its variants for a target.
LEMMA FamilySelects ==
    ASSUME NEW frameworks, Named(frameworks),
           NEW variants, \A v \in variants : Placed(v, frameworks),
           NEW d \in DecideFamily(variants), d.status = "selected"
    PROVE  /\ \E v \in variants : v.structured /\ d = Decision(v)
           /\ DecideFamily(variants) = {d}
  <1> DEFINE structured == {v \in variants : v.structured}
             languages == <<PreferredLanguage, "en", "any">>
             of(id) == {v \in variants : v.f.id = id}
  <1>1. DOMAIN languages \subseteq Nat
    OBVIOUS
  <1>2. \A v \in variants : v.f.id \in Range(NameOrder)
    BY DEF Named, Placed
  <1>3. DecideFamily(variants) =
          IF structured # {} THEN {Decision(PickLanguage(structured, languages))}
          ELSE {Decision(PickLanguage(of(id), languages)) : id \in {v.f.id : v \in variants}}
    BY DEF DecideFamily
  <1> HIDE DEF languages
  <1>4. CASE structured # {}
    <2>1. PickLanguage(structured, languages) \in structured
      BY <1>1, <1>2, <1>4, PickIsThere
    <2>2. d = Decision(PickLanguage(structured, languages)) /\ DecideFamily(variants) = {d}
      BY <1>3, <1>4
    <2> QED  BY <2>1, <2>2
  <1>5. CASE structured = {}
    <2>1. PICK id \in {v.f.id : v \in variants} : d = Decision(PickLanguage(of(id), languages))
      BY <1>3, <1>5
    <2>2. of(id) # {} /\ of(id) \subseteq variants
      BY <2>1
    <2>3. PickLanguage(of(id), languages) \in variants
      BY <1>1, <1>2, <2>2, PickIsThere
    <2>4. PickLanguage(of(id), languages).status = "selected"
      BY <2>1 DEF Decision
    <2> QED  BY <1>5, <2>3, <2>4 DEF Placed
  <1> QED  BY <1>4, <1>5

\* The decisions that select a framework say where it applies, and are one for each target
\* and family.
LEMMA SelectedPlaced ==
    ASSUME NEW hosts, NEW frameworks, Named(frameworks), NEW registry,
           NEW d \in SelectFrameworks(hosts, frameworks, registry), d.status = "selected"
    PROVE  \E v \in ResolvedOf(hosts, frameworks, registry) :
             /\ v.structured /\ d = Decision(v)
             /\ DecideFamily({w \in ResolvedOf(hosts, frameworks, registry) :
                               w.target = v.target /\ w.f.family = v.f.family}) = {d}
  <1> DEFINE R == ResolvedOf(hosts, frameworks, registry)
             In(v) == {w \in R : w.target = v.target /\ w.f.family = v.f.family}
  <1>1. PICK v \in R : d \in DecideFamily(In(v))
    BY Selects
  <1>2. \A w \in In(v) : Placed(w, frameworks)
    BY Places
  <1>3. PICK w \in In(v) : w.structured /\ d = Decision(w) /\ DecideFamily(In(v)) = {d}
    <2> HIDE DEF In
    <2> QED  BY <1>1, <1>2, FamilySelects
  <1>4. In(w) = In(v) /\ w \in R
    BY <1>3
  <1> HIDE DEF In
  <1>5. DecideFamily(In(w)) = {d}
    BY <1>3, <1>4
  <1> QED  BY <1>3, <1>4, <1>5 DEF In

\* Two structured frameworks of a family that is not inconsistent have one scope.
LEMMA SameScope ==
    ASSUME NEW frameworks, NEW f \in Structured(frameworks), NEW g \in Structured(frameworks),
           f.family = g.family, f.family \notin InconsistentFamilies(frameworks)
    PROVE  f.scope = g.scope /\ f.service = g.service /\ f.scope \in {"client", "host", "service"}
  <1>1. Fingerprint(f) = Fingerprint(g)
    BY DEF InconsistentFamilies, Structured
  <1>2. ValidTarget(f)
    BY DEF Structured, StateOf, MetaState
  <1> QED  BY <1>1, <1>2 DEF Fingerprint, ValidTarget

\* The target of a host or a service is not the client.
LEMMA OtherTarget ==
    ASSUME NEW scope \in {"host", "service"}, NEW h, NEW service
    PROVE  <<scope, h, service>> # ClientTarget /\ <<scope, h, service>>[2] = h
  <1>1. ClientTarget[1] = "client"
    BY DEF ClientTarget
  <1>2. <<scope, h, service>>[1] = scope /\ <<scope, h, service>>[2] = h
    OBVIOUS
  <1> QED  BY <1>1, <1>2

\* Selection and the making of a plan audit no host twice by one family.
LEMMA TargetsUnique ==
    ASSUME NEW hosts, NEW frameworks, Named(frameworks), NEW registry,
           NEW t \in PlanTargets(SelectFrameworks(hosts, frameworks, registry), hosts),
           NEW u \in PlanTargets(SelectFrameworks(hosts, frameworks, registry), hosts),
           t.host = u.host, t.family = u.family
    PROVE  t = u
  <1> DEFINE D == SelectFrameworks(hosts, frameworks, registry)
             R == ResolvedOf(hosts, frameworks, registry)
             In(v) == {w \in R : w.target = v.target /\ w.f.family = v.f.family}
  <1>1. ASSUME NEW x \in PlanTargets(D, hosts)
        PROVE  \E d \in D : /\ d.status = "selected" /\ x = PlanTarget(d, x.host)
                            /\ d.target = ClientTarget \/ x.host = d.target[2]
    <2>1. PICK d \in D : /\ d.status = "selected"
                         /\ x \in IF d.target = ClientTarget
                                 THEN {PlanTarget(d, h) : h \in {y \in DOMAIN hosts :
                                                           Healthy(hosts[y]) /\ ~hosts[y].device}}
                                 ELSE {PlanTarget(d, h) : h \in {y \in {d.target[2]} :
                                                                    Healthy(hosts[y])}}
      BY <1>1 DEF PlanTargets
    <2>2. PICK h : x = PlanTarget(d, h) /\ (d.target = ClientTarget \/ h = d.target[2])
      BY <2>1
    <2>3. x.host = h
      BY <2>2 DEF PlanTarget
    <2> QED  BY <2>1, <2>2, <2>3
  <1>2. PICK d \in D : /\ d.status = "selected" /\ t = PlanTarget(d, t.host)
                       /\ d.target = ClientTarget \/ t.host = d.target[2]
    BY <1>1
  <1>3. PICK e \in D : /\ e.status = "selected" /\ u = PlanTarget(e, u.host)
                       /\ e.target = ClientTarget \/ u.host = e.target[2]
    BY <1>1
  <1> HIDE DEF D
  <1>4. PICK v \in R : v.structured /\ d = Decision(v) /\ DecideFamily(In(v)) = {d}
    BY <1>2, SelectedPlaced DEF D
  <1>5. PICK w \in R : w.structured /\ e = Decision(w) /\ DecideFamily(In(w)) = {e}
    BY <1>3, SelectedPlaced DEF D
  <1>6. Placed(v, frameworks) /\ Placed(w, frameworks)
    BY Places
  <1>7. v.f.family = w.f.family /\ d.target = v.target /\ e.target = w.target
    BY <1>2, <1>3, <1>4, <1>5 DEF PlanTarget, Decision
  <1>8. /\ v.f.scope = w.f.scope /\ v.f.service = w.f.service
        /\ v.f.scope \in {"client", "host", "service"}
    <2>1. /\ v.f \in Structured(frameworks) /\ w.f \in Structured(frameworks)
          /\ v.f.family \notin InconsistentFamilies(frameworks)
      BY <1>4, <1>5, <1>6 DEF Placed, Structured
    <2> QED  BY <1>7, <2>1, SameScope
  <1> HIDE DEF R
  <1>9. v.target = w.target
    <2>1. CASE v.f.scope = "client"
      BY <1>4, <1>5, <1>6, <1>8, <2>1 DEF Placed
    <2>2. CASE v.f.scope = "host"
      <3>1. PICK h : v.target = <<"host", h, "">>
        BY <1>4, <1>6, <2>2 DEF Placed
      <3>2. PICK k : w.target = <<"host", k, "">>
        BY <1>5, <1>6, <1>8, <2>2 DEF Placed
      <3>3. v.target # ClientTarget /\ w.target # ClientTarget /\ v.target[2] = h /\ w.target[2] = k
        BY <3>1, <3>2, OtherTarget
      <3>4. h = k
        BY <1>2, <1>3, <1>7, <3>3
      <3> QED  BY <3>1, <3>2, <3>4
    <2>3. CASE v.f.scope = "service"
      <3>1. PICK h : v.target = <<"service", h, v.f.service>>
        BY <1>4, <1>6, <2>3 DEF Placed
      <3>2. PICK k : w.target = <<"service", k, v.f.service>>
        BY <1>5, <1>6, <1>8, <2>3 DEF Placed
      <3>3. v.target # ClientTarget /\ w.target # ClientTarget /\ v.target[2] = h /\ w.target[2] = k
        BY <3>1, <3>2, OtherTarget
      <3>4. h = k
        BY <1>2, <1>3, <1>7, <3>3
      <3> QED  BY <3>1, <3>2, <3>4
    <2> QED  BY <1>8, <2>1, <2>2, <2>3
  <1>10. In(v) = In(w)
    BY <1>7, <1>9
  <1> HIDE DEF In
  <1>11. d = e
    BY <1>4, <1>5, <1>10
  <1> QED  BY <1>2, <1>3, <1>11

\* No plan, whatever catalog it was made with, audits a host twice by one family of frameworks:
\* not in two languages, and not once for itself and once for the client
\* (select_frameworks_dynamic, generate_audit_plan).
THEOREM OneVariantPlanned == Spec => []OneVariant
  <1>1. Init => OneVariant
    BY DEF Init, OneVariant
  <1>2. InventoryInv /\ OneVariant /\ [Next]_vars => OneVariant'
    <2> SUFFICES ASSUME InventoryInv, OneVariant, [Next]_vars  PROVE OneVariant'
      OBVIOUS
    <2>1. CASE FinishAnalysis
      <3>1. /\ plan'.targets = PlanTargets(plan'.decisions, plan'.hosts)
            /\ plan'.decisions = SelectFrameworks(plan'.hosts, catalog, GetRegistry)
        BY <2>1, Published DEF InventoryInv, Made
      <3>2. Named(catalog)
        BY InventoryAssumption DEF InventoryInv, ShapesOK, Named
      <3> QED  BY <3>1, <3>2, TargetsUnique DEF OneVariant
    <2>2. CASE UNCHANGED plan
      BY <2>2 DEF OneVariant
    <2> QED  BY <2>1, <2>2 DEF Next, vars, StartProcess, Crash, EditRow, EditCatalog,
                EditTools, StartAnalysis, StartRefreshed, Probe, Confirm, Start, InvokeTool
  <1> QED  BY <1>1, <1>2, InventoryAlways, PTL DEF Spec
=============================================================================
