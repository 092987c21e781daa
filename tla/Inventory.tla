-------------------------------- MODULE Inventory --------------------------------
(***************************************************************************)
(* inventory/service.py with the process that runs it: an analysis loads   *)
(* the client inventory, probes its hosts one by one and ends with a plan; *)
(* the operator confirms the plan, an audit starts from it, and the audit  *)
(* calls tools.  Meanwhile the inventory file, the framework catalog and   *)
(* the tool files may be edited, and the process may die and start again.  *)
(*                                                                         *)
(* Of the plan revisions (module PlanStore) two matter here: the latest    *)
(* one and the one the operator confirmed.  The fields "heard" and         *)
(* "synced" of a plan and "ran" of a run are for the properties only.      *)
(***************************************************************************)
EXTENDS DiscoveryPlan, TLC

CONSTANTS HostOrder,    \* the hosts in the order of the inventory file
          Initial,      \* pairs of an inventory file and the hosts it is about
          Rows(_),      \* the rows an edit may give a host
          Catalogs, ToolFiles, InitialCatalog, InitialTools,
          MaxAnalyses,
          MaxMishaps    \* edits, disturbed probes, failing writes and crashes

VARIABLES rows,         \* the inventory file
          world,        \* what the hosts really are
          catalog,      \* the framework files
          files,        \* the tool files
          up, bound,    \* the process and the tools it bound when it started
          cached,       \* the registry of get_tool_registry
          job,          \* the analysis in progress
          snapshots,    \* the capability snapshots on disk, by inventory version
          preflight,    \* preflight/latest.json
          plan,         \* the latest revision
          claimed,      \* the revision the operator confirmed
          run,          \* the audit that was started
          spent         \* how often each bounded event happened

vars == <<rows, world, catalog, files, up, bound, cached, job, snapshots, preflight, plan, claimed,
          run, spent>>

disk == <<rows, world, catalog, files>>

Hosts == {HostOrder[i] : i \in DOMAIN HostOrder}

\* The inventory file has a row for every host, and names are compared with each other.
ASSUME InventoryAssumption ==
    /\ \A pair \in Initial : DOMAIN pair[1] = Hosts
    /\ DOMAIN NameOrder \subseteq Nat
    /\ \A frameworks \in Catalogs \cup {InitialCatalog} : \A f \in frameworks :
          f.id \in Range(NameOrder)

None == [none |-> TRUE]

Idle == [phase |-> "idle"]

NoRun == [started |-> FALSE]

AllCommands == {Commands("ssh")[i] : i \in DOMAIN Commands("ssh")}

Kinds == {"edit", "fault", "write", "record", "crash"}

MishapsSoFar == spent["edit"] + spent["fault"] + spent["write"] + spent["record"] + spent["crash"]

Mishaps(kinds) ==
    /\ MishapsSoFar + Cardinality(kinds) <= MaxMishaps
    /\ spent' = [k \in DOMAIN spent |-> IF k \in kinds THEN spent[k] + 1 ELSE spent[k]]

Mishap(kind) == Mishaps({kind})

\* preflight/latest.json, when it is missing or cannot be read.
NoPreflight == [version |-> None]

\* The snapshots of a version; a file that is not there is NoSnapshot.
Kept(version) == IF version \in DOMAIN snapshots THEN snapshots[version]
                 ELSE [h \in Hosts |-> NoSnapshot]

\* The snapshots of one version replaced.
SnapshotsWith(version, now) ==
    [v \in DOMAIN snapshots \cup {version} |-> IF v = version THEN now ELSE snapshots[v]]

-----------------------------------------------------------------------------
(* The process.                                                            *)

\* Faulty: the files are read again at every use.
GetRegistryFresh == LoadRegistry(files)

\* get_tool_registry: loaded when it is first asked for, kept for the life of
\* the process.
GetRegistry == IF cached = None THEN LoadRegistry(files) ELSE cached

\* ApplicationRuntime.start: a registry of its own, refused when the tool
\* files are not fit to run with.
StartProcess ==
    /\ ~up
    /\ RuntimeValid(LoadRegistry(files), files)
    /\ up' = TRUE
    /\ bound' = BoundTools(LoadRegistry(files))
    /\ UNCHANGED <<disk, cached, job, snapshots, preflight, plan, claimed, run, spent>>

\* The process ends: an analysis is lost with what it had found, the files it
\* wrote stay.
Crash ==
    /\ up /\ Mishap("crash")
    /\ up' = FALSE /\ bound' = {} /\ cached' = None /\ job' = Idle
    /\ run' = IF run.started THEN [run EXCEPT !.restarted = TRUE, !.ran = {}] ELSE run
    /\ UNCHANGED <<disk, snapshots, preflight, plan, claimed>>

-----------------------------------------------------------------------------
(* Editing.                                                                *)

EditRow ==
    /\ Mishap("edit")
    /\ \E h \in Hosts : \E r \in Rows(h) \ {rows[h]} : rows' = [rows EXCEPT ![h] = r]
    /\ UNCHANGED <<world, catalog, files, up, bound, cached, job, snapshots, preflight, plan,
                   claimed, run>>

EditCatalog ==
    /\ Mishap("edit")
    /\ catalog' \in Catalogs \ {catalog}
    /\ UNCHANGED <<rows, world, files, up, bound, cached, job, snapshots, preflight, plan, claimed,
                   run>>

EditTools ==
    /\ Mishap("edit")
    /\ files' \in ToolFiles \ {files}
    /\ UNCHANGED <<rows, world, catalog, up, bound, cached, job, snapshots, preflight, plan,
                   claimed, run>>

-----------------------------------------------------------------------------
(* The analysis.                                                           *)

\* The analysis reads the inventory.  One error anywhere in it, or
\* discovery=False, and no host is probed.
BeginAnalysis(discovery, for) ==
    /\ up /\ job = Idle
    /\ spent["analysis"] < MaxAnalyses /\ spent' = [spent EXCEPT !["analysis"] = @ + 1]
    /\ LET hosts == [h \in Hosts |-> NormalizeHost(rows[h])]
       IN  job' = [phase |-> "probing", hosts |-> hosts, version |-> VersionOf(rows),
                   probed |-> 0, facts |-> [h \in {} |-> None], heard |-> {}, for |-> for,
                   last |-> IF discovery /\ \A h \in Hosts : Healthy(hosts[h])
                            THEN Len(HostOrder) ELSE 0]

\* analyze_client_inventory, called for itself.
StartAnalysis ==
    /\ \E discovery \in BOOLEAN : BeginAnalysis(discovery, None)
    /\ UNCHANGED <<disk, up, bound, cached, snapshots, preflight, plan, claimed, run>>

\* CompositeDiscoveryCollector.discover, one host: the credentials are those of
\* the file as it is now.  The SSH collector writes a snapshot at once, and goes
\* on when it cannot: the file is as it was, or cut short.
Probe ==
    /\ job.phase = "probing" /\ job.probed < job.last
    /\ LET h    == HostOrder[job.probed + 1]
           host == job.hosts[h]
           t    == IF Route(host) = "winrm" THEN "winrm" ELSE "ssh"
           approved == ApprovedCommands(GetRegistry, AllCommands)
           speaks   == t \in world[h].transports
           befalls  == IF ~speaks THEN {Unreachable(t)}
                       ELSE {Undisturbed} \cup
                            {d \in Disturbances(t) : MishapsSoFar < MaxMishaps}
           old      == Kept(job.version)[h]
       IN  \E answers \in {Answers(t, approved, d) : d \in befalls},
              calm \in {Answers(t, approved, Undisturbed)} :
           \E facts \in {DiscoverHost(host, rows[h], world[h], SshDiscoveryAllowed(GetRegistry),
                                      answers)} :
             LET heard   == /\ facts.transport # "" /\ facts.family # ""
                            /\ \A c \in {"running", "state", "ports", "binaries"} :
                                  answers[c] = "ok"
                 written == WritesSnapshot(host, facts)
                 new     == IF written THEN CollectorSnapshot(host, facts) ELSE old
             IN  /\ job' = [job EXCEPT !.probed = @ + 1, !.facts = (h :> facts) @@ @,
                                       !.heard = IF heard THEN @ \cup {h} ELSE @]
                 /\ \E file \in {new} \cup (IF written THEN {old, TornSnapshot} ELSE {}) :
                       /\ snapshots' = SnapshotsWith(job.version, [Kept(job.version) EXCEPT ![h] = file])
                       /\ Mishaps((IF speaks /\ answers # calm THEN {"fault"} ELSE {})
                                  \cup (IF file # new THEN {"write"} ELSE {}))
    /\ cached' = GetRegistry
    /\ UNCHANGED <<disk, up, bound, preflight, plan, claimed, run>>

\* build_preflight_revision: the hashes of what was discovered and of what it
\* made of the inventory.
PreflightRevision(version, facts, hosts) ==
    [version |-> version, facts |-> facts, hosts |-> hosts]

-----------------------------------------------------------------------------
(* What a plan is compared with.                                           *)

\* Faulty: the plan is compared with the inventory it was made from, never
\* with the file.
PlanCurrentPinnedSource(p) == PinCurrent(p.pin, GetRegistry)

\* assert_plan_matches_inventory with the inventory file, and
\* assert_plan_matches_tool_registry.
PlanCurrent(p) == p.version = VersionOf(rows) /\ PinCurrent(p.pin, GetRegistry)

\* assert_plan_matches_framework_hash and assert_plan_matches_discovery_plan:
\* computed again from the hosts of the revision.
SelectionCurrent(p) ==
    /\ SelectFrameworks(p.hosts, catalog, GetRegistry) = p.decisions
    /\ BuildDiscoveryPlan(p.hosts, catalog, GetRegistry) = p.steps
    /\ CatalogHash(catalog) = p.catalogHash

\* assert_plan_matches_preflight, when the latest preflight is of this version.
PreflightCurrent(p) ==
    preflight.version = p.version => preflight.facts = p.facts /\ preflight.hosts = p.hosts

\* plan_to_audit_request_payload: an audit of the targets, under the pinned policy.
AuditOf(p) == [started |-> TRUE, targets |-> p.targets, pin |-> p.pin, restarted |-> FALSE,
               ran |-> {}]

-----------------------------------------------------------------------------
(* The end of an analysis, confirming and starting.                        *)

\* The first n hosts of the inventory.
Reached(n) == {h \in Hosts : \E i \in 1..n : h = HostOrder[i]}

\* sync_capability_snapshots_from_detections: host by host, up to the one that
\* cannot be written; its file is as it was, or cut short.
SyncSnapshots(version, hosts, n, torn) ==
    [h \in Hosts |-> IF h \in Reached(n) THEN SyncSnapshot(Kept(version)[h], hosts[h])
                     ELSE IF torn /\ h \in Reached(n + 1) THEN TornSnapshot
                     ELSE Kept(version)[h]]

\* The rest of analyze_client_inventory: reconcile, detect, bring the snapshots
\* into line, record the preflight and publish a draft.  Neither a failing
\* snapshot nor a failing record keeps the plan from being published.
PublishAnalysis(hosts, decisions, steps) ==
    \E n \in 0..Len(HostOrder), torn \in BOOLEAN :
    \E record \in {PreflightRevision(job.version, job.facts, hosts)} :
        /\ torn => n < Len(HostOrder)
        /\ snapshots' = SnapshotsWith(job.version, SyncSnapshots(job.version, hosts, n, torn))
        /\ preflight' \in {record, preflight, NoPreflight}
        /\ Mishaps((IF n < Len(HostOrder) THEN {"write"} ELSE {})
                   \cup (IF preflight' # record THEN {"record"} ELSE {}))
        /\ plan' = [version |-> job.version, facts |-> job.facts, hosts |-> hosts,
                    decisions |-> decisions, targets |-> PlanTargets(decisions, hosts),
                    steps |-> steps,
                    catalogHash |-> CatalogHash(catalog), pin |-> SnapshotHash(GetRegistry),
                    heard |-> job.heard, synced |-> Reached(n)]

\* What comes of an analysis: the audit that asked for it starts when the hosts
\* answered as before (the rest of astart_confirmed_audit).
FinishAnalysis ==
    /\ job.phase = "probing" /\ job.probed = job.last
    /\ \E hosts \in {[h \in Hosts |-> IF h \in DOMAIN job.facts
                                       THEN ReconcileHost(job.hosts[h], job.facts[h])
                                       ELSE job.hosts[h]]} :
          /\ \E decisions \in {SelectFrameworks(hosts, catalog, GetRegistry)},
                steps \in {BuildDiscoveryPlan(hosts, catalog, GetRegistry)} :
                PublishAnalysis(hosts, decisions, steps)
          /\ run' = IF /\ job.for # None /\ ~run.started
                       /\ job.facts = job.for.facts /\ hosts = job.for.hosts
                       /\ PinCurrent(job.for.pin, GetRegistry) /\ SelectionCurrent(job.for)
                    THEN AuditOf(job.for) ELSE run
    /\ cached' = GetRegistry
    /\ job' = Idle
    /\ UNCHANGED <<disk, up, bound, claimed>>

\* confirm_audit_plan: nothing to run is nothing to confirm.
Confirm ==
    /\ up /\ plan # None /\ claimed # plan
    /\ plan.targets # {}
    /\ PlanCurrent(plan) /\ PreflightCurrent(plan) /\ SelectionCurrent(plan)
    /\ claimed' = plan
    /\ cached' = GetRegistry
    /\ UNCHANGED <<disk, up, bound, job, snapshots, preflight, plan, run, spent>>

\* astart_confirmed_audit: a confirmed revision stays good when a later analysis
\* finds something else.  A draft is confirmed first, which is a Confirm before
\* this step.
Start ==
    /\ up /\ claimed # None /\ ~run.started
    /\ PlanCurrent(claimed) /\ SelectionCurrent(claimed)
    /\ run' = AuditOf(claimed)
    /\ cached' = GetRegistry
    /\ UNCHANGED <<disk, up, bound, job, snapshots, preflight, plan, claimed, spent>>

\* astart_confirmed_audit with refresh_discovery: the plan is compared with the
\* inventory file, and the audit waits for an analysis of its own.
StartRefreshed ==
    /\ claimed # None /\ ~run.started /\ PlanCurrent(claimed)
    /\ BeginAnalysis(TRUE, claimed)
    /\ cached' = GetRegistry
    /\ UNCHANGED <<disk, up, bound, snapshots, preflight, plan, claimed, run>>

\* invoke_ssh_run: nothing is sent that the policy in force does not approve.
SshRunSends(command) == command \in ApprovedCommands(GetRegistry, AllCommands)

\* execute_tool_calls: a bound tool is called.  The pins of the run are not among
\* its meta data, so they are not compared here.
InvokeTool ==
    /\ up /\ run.started /\ "ssh_run" \in bound
    /\ {c \in AllCommands : SshRunSends(c)} # {}
    /\ run' = [run EXCEPT !.ran = @ \cup {SnapshotHash(GetRegistry)}]
    /\ cached' = GetRegistry
    /\ UNCHANGED <<disk, up, bound, job, snapshots, preflight, plan, claimed, spent>>

-----------------------------------------------------------------------------
Init ==
    /\ \E pair \in Initial : rows = pair[1] /\ world = pair[2]
    /\ catalog = InitialCatalog /\ files = InitialTools
    /\ up = FALSE /\ bound = {} /\ cached = None /\ job = Idle
    /\ snapshots = [v \in {} |-> None]
    /\ preflight = NoPreflight /\ plan = None /\ claimed = None /\ run = NoRun
    /\ spent = [k \in Kinds \cup {"analysis"} |-> 0]

Next ==
    \/ StartProcess \/ Crash
    \/ EditRow \/ EditCatalog \/ EditTools
    \/ StartAnalysis \/ Probe \/ FinishAnalysis
    \/ Confirm \/ Start \/ StartRefreshed \/ InvokeTool

Spec == Init /\ [][Next]_vars

-----------------------------------------------------------------------------
(* Properties.                                                             *)

\* Every plan that an analysis publishes: a PostgreSQL server that a probe could see
\* is audited, and no host is audited for PostgreSQL that has none, whatever
\* declaring, probing, reconciling, detecting and selecting lose or invent on the
\* way.
PostgresIsAudited ==
    [][plan' # plan =>
        \A h \in Hosts :
            LET target  == \E t \in plan'.targets : t.host = h /\ t.service = "postgresql"
                offered == \E f \in catalog :
                              /\ f.service = "postgresql" /\ StateOf(f) = "structured"
                              /\ f.family \notin InconsistentFamilies(catalog)
                host    == plan'.hosts[h]
            IN  /\ target => "postgresql" \in plan'.version[h][1].services
                             \/ world[h].pg # "none"
                /\ (/\ h \in plan'.heard /\ world[h].pg = "running"
                    /\ Healthy(host) /\ ~host.device /\ offered) => target]_vars

\* In every plan that an analysis publishes, each fact that holds up a framework on a
\* host without errors is in exactly one step that the framework asks for, and a
\* step with a tool uses one that is authorized and can reach the host.
EveryGapPlanned ==
    [][plan' # plan =>
        \A registry \in {LoadRegistry(plan'.pin)} :
            /\ \A c \in {d \in Candidates(plan'.hosts, catalog, registry) : NeedsDiscovery(d)} :
                 LET asked == {s \in plan'.steps : s.host = c.host /\ c.f.id \in s.by}
                 IN  /\ c.result = "missing_evidence" =>
                          \A k \in c.missing : Cardinality({s \in asked : k \in s.missing}) = 1
                     /\ \A cap \in c.f.allCaps \ c.available :
                          \E s \in asked : s.capability = cap
            /\ \A s \in plan'.steps :
                 s.status = "planned" =>
                    /\ Healthy(plan'.hosts[s.host]) /\ IsAuthorized(registry, s.op)
                    /\ registry.tools[s.op].manifest.access
                         \subseteq plan'.hosts[s.host].access]_vars

\* Knowing more never reverses a verdict: what a framework is found to be for a
\* host of a plan while one fact is still missing, it is with the fact.
DefiniteStays ==
    [][plan' # plan =>
        \A h \in Hosts : \A facts \in {HostFacts(h, plan'.hosts[h])} : \A f \in catalog :
            LET asked  == {p.fact : p \in f.all \cup f.any \cup f.none} \cap DOMAIN facts
                before == {EvaluateApplicability(f, [x \in DOMAIN facts \ {k} |-> facts[x]]) :
                             k \in asked}
            IN  StateOf(f) = "structured" /\ WellTyped(f, facts) =>
                    before \cap Definite \subseteq {EvaluateApplicability(f, facts)}]_vars

\* No plan audits a host twice by one family of frameworks, in two languages or
\* once for itself and once for the client.
OneVariant ==
    plan # None => \A t, u \in plan.targets : t.host = u.host /\ t.family = u.family => t = u

\* The capability snapshots of a plan's inventory say of PostgreSQL what the plan was
\* made from, on every host that the synchronization came to before a write failed,
\* whatever earlier analyses left there; except while an analysis is at work or after
\* one was cut short.
SnapshotsAgree ==
    plan # None /\ job = Idle /\ spent["crash"] = 0 =>
        \A h \in plan.synced : Kept(plan.version)[h].pg = PostgresStatus(plan.hosts[h])

\* Until the process restarts, every command of an audit runs under the policy that
\* its plan was made and confirmed under, whatever happens to the policy file.
RunsPinnedPolicy == run.started /\ ~run.restarted => run.ran \subseteq {run.pin}

\* What is started is what an analysis would select given the answers the hosts gave:
\* with the catalog and the tools as they are now, and with the inventory file as it is
\* now or, for an audit that waited for an analysis, as that analysis read it.
StartedIsCurrent ==
    [][run' # run /\ ~run.started =>
        LET p     == IF job' = job THEN claimed ELSE job.for
            read  == IF job' = job THEN VersionOf(rows) ELSE job.version
            hosts == [h \in Hosts |-> IF h \in DOMAIN p.facts
                                      THEN ReconcileHost(read[h][1], p.facts[h])
                                      ELSE read[h][1]]
        IN  run'.targets = PlanTargets(SelectFrameworks(hosts, catalog, cached'), hosts)]_vars

\* "absent" is said of PostgreSQL on a host that was probed only when the commands that
\* look for PostgreSQL all answered.
AbsentIsSeen ==
    plan # None => \A h \in DOMAIN plan.facts :
                     PostgresStatus(plan.hosts[h]) = "absent" => h \in plan.heard
=============================================================================
