------------------------------- MODULE Collectors -------------------------------
(***************************************************************************)
(* inventory/normalize.py, collectors.py, tool_discovery.py, discovery.py  *)
(* and detect.py: from one host's row of the client inventory, through the *)
(* read-only probe of the host, to the technologies the audit believes it  *)
(* runs.  Everything here is a pure operator of one host; the order of the *)
(* steps and what is kept on disk are in Inventory.                        *)
(*                                                                         *)
(* A row is what the operator declared: an operating system, access        *)
(* methods, services, credentials.  A world is what is really there: an    *)
(* operating system, the transports it answers on, how much of PostgreSQL  *)
(* is installed, and whether something listens on its port.  The commands  *)
(* of a probe are grouped by what they look at.                            *)
(***************************************************************************)
EXTENDS Naturals, Sequences, FiniteSets, FiniteSetsExt

CONSTANTS RetryCount,     \* DiscoveryHostSettings.retry_count
          Faults          \* the ways a command may fail

ASSUME RetryAssumption == RetryCount \in Nat

ConnectErrors == {"authentication_failed", "connection_timeout", "host_unreachable"}

CommandResults == ConnectErrors \cup {"ok", "noisy", "command_timeout", "discovery_failed"}

ASSUME FaultsAssumption == Faults \subseteq CommandResults \ {"ok"}

-----------------------------------------------------------------------------
(* Normalization of a declared row.                                        *)

\* normalize._os_family: what the declared name says.
DeclaredFamily(os) ==
    CASE os = "none" -> ""
      [] os = "windows" -> "windows"
      [] os \in {"ubuntu", "linux"} -> "linux"
      [] OTHER -> "unknown"

\* normalize_inventory: labels that name no transport are dropped, and
\* without any the access follows from the services and the family.
Connections(row) ==
    LET declared == row.access \ {"bad"}
        family   == DeclaredFamily(row.os)
    IN  IF declared # {} THEN declared
        ELSE (IF "winrm" \in row.services \/ family = "windows" THEN {"winrm"} ELSE {})
             \cup (IF "ssh" \in row.services \/ family = "linux" THEN {"ssh"} ELSE {})
             \cup (row.services \cap {"postgresql"})

\* The issues of level error, which take a host out of the audit.
RowErrors(row) ==
    {e \in {"invalid_ip", "unsupported_connection", "contradictory_service", "duplicate_host"} :
        \/ e = "invalid_ip" /\ row.addr = "bad"
        \/ e = "unsupported_connection" /\ "bad" \in row.access
        \/ e = "contradictory_service" /\ DeclaredFamily(row.os) = "linux"
                                       /\ "winrm" \in row.services
        \/ e = "duplicate_host" /\ row.dup}

\* The InventoryHost of a row.  "conflict" and "failed" stand for the issues
\* and conflicts that discovery may add, "port" for a listening 5432.
NormalizeHost(row) ==
    [os |-> row.os, family |-> DeclaredFamily(row.os), services |-> row.services,
     access |-> Connections(row), device |-> row.device, errors |-> RowErrors(row),
     conflict |-> FALSE, failed |-> FALSE, port |-> FALSE]

\* The content hash covers the normalized rows and the credentials.
VersionOf(rows) == [h \in DOMAIN rows |-> <<NormalizeHost(rows[h]), rows[h].creds>>]

-----------------------------------------------------------------------------
(* The probe.                                                              *)

\* _match_credential: an address match is taken, then an id match with a
\* secret, then an id match without one.
MatchCredential(row, transport) ==
    LET here == {c \in row.creds : c.transport = transport}
        best == <<{c \in here : c.by = "address" /\ c.secret}, {c \in here : c.by = "address"},
                  {c \in here : c.by = "id" /\ c.secret}, {c \in here : c.by = "id"}>>
        ranks == {i \in 1..4 : best[i] # {}}
    IN  IF ranks = {} THEN {} ELSE best[Min(ranks)]

\* CompositeDiscoveryCollector.discover: the collector of a host.
Route(host) ==
    LET winrm == "winrm" \in host.access \/ host.family = "windows"
        ssh   == "ssh" \in host.access \/ (~winrm /\ host.family \in {"", "linux", "unknown"})
    IN  IF winrm /\ ~ssh THEN "winrm" ELSE IF ssh THEN "ssh" ELSE "unsupported"

\* SSH_COMMANDS and WINRM_COMMANDS, in the order in which they run.
Commands(transport) ==
    IF transport = "ssh"
    THEN <<"hostname", "os_release", "uname", "ports", "running", "binaries", "state">>
    ELSE <<"os_release", "hostname", "running", "ports", "state", "binaries">>

\* tool_result_to_command_result and RegistrySshTransport.run: over SSH every
\* failure comes back as a result, so only a timed out command is tried
\* again; over WinRM every failure is raised, and a timeout is one of the
\* connection.
Retried(transport, result) ==
    IF transport = "ssh" THEN result = "command_timeout" ELSE result \notin {"ok", "noisy"}

Reported(transport, result) ==
    IF transport = "winrm" /\ result = "command_timeout" THEN "connection_timeout" ELSE result

\* _run_with_retries over the results of the attempts.
RunWithRetries(transport, attempts) ==
    LET settled == {i \in DOMAIN attempts : ~Retried(transport, attempts[i])}
        last    == IF settled = {} THEN Len(attempts) ELSE Min(settled)
    IN  Reported(transport, attempts[last])

\* What can befall a probe: the commands from one place to another all fail
\* in one way, or fail only the first time they are tried.
Disturbances(transport) ==
    LET n == Len(Commands(transport))
        ways == {way \in Faults \X BOOLEAN : way[2] => Retried(transport, way[1])}
    IN  {[from |-> i, to |-> IF onward THEN n ELSE i, result |-> way[1], flaky |-> way[2]] :
            i \in 1..n, onward \in BOOLEAN, way \in ways}

Undisturbed == [from |-> 1, to |-> 0, result |-> "ok", flaky |-> FALSE]

\* A host that does not speak the transport at all.
Unreachable(transport) ==
    [from |-> 1, to |-> Len(Commands(transport)), result |-> "host_unreachable", flaky |-> FALSE]

\* The answer of each command under a disturbance.  A command that the
\* policy's allow list does not have is denied before it is sent.
Answers(transport, approved, d) ==
    LET at(c) == CHOOSE i \in DOMAIN Commands(transport) : Commands(transport)[i] = c
        tries == [i \in 1..(RetryCount + 1) |-> IF d.flaky /\ i > 1 THEN "ok" ELSE d.result]
        outcome == RunWithRetries(transport, tries)
    IN  [c \in {Commands(transport)[i] : i \in DOMAIN Commands(transport)} |->
            IF transport = "ssh" /\ c \notin approved THEN "discovery_failed"
            ELSE IF at(c) \in d.from..d.to THEN outcome ELSE "ok"]

Outputs(answer) == answer \in {"ok", "noisy"}

\* An SSH command that ends with a non-zero status keeps its output and is an
\* error all the same; over WinRM it is none.
IsError(transport, answer) == answer # "ok" /\ ~(transport = "winrm" /\ answer = "noisy")

\* _os_family_from_name: unlike normalize._os_family it looks for "win"
\* anywhere in the name, and "darwin" has it.
DiscoveredFamily(os) ==
    CASE os = "none" -> ""
      [] os \in {"windows", "darwin"} -> "windows"
      [] os \in {"ubuntu", "linux"} -> "linux"
      [] OTHER -> "unknown"

\* _extract_postgres_linux and _extract_postgres_windows.  A unit that is not
\* running is listed all the same, by "systemctl --all" among the last commands of
\* SSH and by Get-Service in the place of "running" on Windows; a client alone
\* is only a binary.  Products count as packages on Windows, Linux packages are
\* never collected.
Processes(world, a) == Outputs(a["state"]) /\ world.pg = "running"

Services(transport, world, a) ==
    \/ Outputs(a["running"]) /\ world.pg = "running"
    \/ Outputs(a[IF transport = "ssh" THEN "state" ELSE "running"]) /\ world.pg \in {"unit", "running"}

Binaries(world, a) == a["binaries"] = "ok" /\ world.pg # "none"

\* Faulty: a listening port is evidence enough.
PostgresConfirmedByPort(seen, packages, binaries, port) ==
    seen \/ port \/ (packages /\ binaries)

\* postgres_confirmed
PostgresConfirmed(seen, packages, binaries, port) ==
    \/ seen
    \/ (packages \/ binaries) /\ port
    \/ packages /\ binaries

\* The facts of a probe that found nothing out.
NoFacts(code, transport) ==
    [code |-> code, os |-> "none", family |-> "", services |-> {}, port |-> FALSE,
     transport |-> transport]

\* _discover_host of the SSH collector.  Only the first command can find the
\* connection broken; what fails later leaves a partial discovery, and what
\* fails of the PostgreSQL commands leaves no trace.
SshFacts(world, a) ==
    LET first   == a["hostname"]
        named   == a["os_release"] = "ok"
        os      == IF named \/ Outputs(a["uname"]) THEN world.os ELSE "none"
        port    == a["ports"] = "ok" /\ world.port
        partial == \/ IsError("ssh", first) \/ os = "none"
                   \/ IsError("ssh", a["ports"]) \/ IsError("ssh", a["running"])
        pg      == PostgresConfirmed(Processes(world, a) \/ Services("ssh", world, a), FALSE,
                                     Binaries(world, a), port)
    IN  IF first \in ConnectErrors THEN NoFacts(first, "ssh")
        ELSE [code |-> IF partial THEN "partial_discovery" ELSE "", os |-> os,
              family |-> DiscoveredFamily(os),
              services |-> {"ssh"} \cup (IF pg THEN {"postgresql"} ELSE {}), port |-> port,
              transport |-> "ssh"]

\* _discover_host of the WinRM collector.  A host that answers is a Windows
\* host, whatever its first command said.
WinrmFacts(world, a) ==
    LET first   == a["os_release"]
        port    == Outputs(a["ports"]) /\ world.port
        partial == \E c \in DOMAIN a \ {"os_release"} : IsError("winrm", a[c])
        pg      == PostgresConfirmed(Processes(world, a) \/ Services("winrm", world, a),
                                     Outputs(a["binaries"]) /\ world.pg # "none", FALSE, port)
    IN  IF first \in ConnectErrors THEN NoFacts(first, "winrm")
        ELSE [code |-> IF partial THEN "partial_discovery" ELSE "", os |-> "windows",
              family |-> "windows",
              services |-> {"winrm"} \cup (IF pg THEN {"postgresql"} ELSE {}), port |-> port,
              transport |-> "winrm"]

\* SshDiscoveryCollector.discover and WinrmDiscoveryCollector.discover: a
\* network device is recorded and never probed, a policy without the SSH tool
\* fails the host before its credentials are looked up.
DiscoverHost(host, row, world, sshAllowed, answers) ==
    LET t == Route(host)
    IN  IF t = "unsupported" THEN NoFacts("unsupported_transport", "")
        ELSE IF t = "ssh" /\ ~sshAllowed THEN NoFacts("authentication_failed", "")
        ELSE IF t = "ssh" /\ host.device THEN NoFacts("unsupported_transport", "")
        ELSE IF MatchCredential(row, t) = {} THEN NoFacts("authentication_failed", t)
        ELSE IF t = "ssh" THEN SshFacts(world, answers) ELSE WinrmFacts(world, answers)

-----------------------------------------------------------------------------
(* Reconciliation and detection.                                           *)

HardFailure(facts) ==
    facts.code \notin {"", "partial_discovery"} /\ facts.family = "" /\ facts.services = {}

\* reconcile_inventory, the operating system: what was declared stays.  A
\* partial discovery is of medium confidence, which is enough for a family
\* nobody declared; two different families are a conflict.
ReconcileOs(host, facts) ==
    LET fills == host.family = "" /\ facts.family # ""
    IN  [host EXCEPT !.family = IF fills THEN facts.family ELSE @,
                     !.os = IF fills THEN facts.os ELSE @,
                     !.conflict = @ \/ (host.family # "" /\ facts.family # ""
                                        /\ host.family # facts.family)]

\* reconcile_inventory, the services: what was discovered is added.
ReconcileServices(host, facts) == host.services \cup facts.services

\* reconcile_inventory, the access methods: a PostgreSQL server can be
\* connected to, the transport of the probe adds nothing.
ReconcileAccess(host, services) == host.access \cup (services \cap {"postgresql"})

\* reconcile_inventory for one host.  An unsupported transport does not count
\* as a failed discovery.
ReconcileHost(host, facts) ==
    IF HardFailure(facts) THEN [host EXCEPT !.failed = facts.code # "unsupported_transport"]
    ELSE LET services == ReconcileServices(host, facts)
         IN  [ReconcileOs(host, facts) EXCEPT !.services = services,
                                              !.access = ReconcileAccess(host, services),
                                              !.port = facts.port]

\* hosts_without_errors
Healthy(host) == host.errors = {}

\* detect_technologies: the status of PostgreSQL on a host, "" when no
\* detection is made of it.
PostgresStatus(host) ==
    IF host.device \/ ~Healthy(host) THEN ""
    ELSE IF "postgresql" \in host.services THEN "confirmed"
    ELSE IF host.port THEN "suspected"
    ELSE IF host.family \in {"linux", "windows"} /\ ~host.failed THEN "absent"
    ELSE IF host.failed THEN "unknown" ELSE ""

\* detect_technologies: the technology the operating system counts as.
OsTechnology(host) ==
    IF host.device THEN [technology |-> "network_device", status |-> "unsupported"]
    ELSE IF host.conflict THEN [technology |-> "os", status |-> "unknown"]
    ELSE IF host.family = "linux" \/ host.os = "ubuntu"
    THEN [technology |-> IF host.os = "ubuntu" THEN "ubuntu" ELSE "linux", status |-> "confirmed"]
    ELSE IF host.family = "windows" THEN [technology |-> "windows_server", status |-> "confirmed"]
    ELSE IF host.failed /\ host.family = ""
    THEN [technology |-> "os", status |-> "unknown"]
    ELSE [technology |-> "", status |-> ""]

\* All detections of a host, by technology.
Detections(host) ==
    LET os == OsTechnology(host)
        pg == PostgresStatus(host)
        remote == {t \in {"ssh", "winrm"} : t \in host.services \cup host.access}
        others == {t \in {"nginx", "redis", "mysql"} : t \in host.services}
        named == {t \in {os.technology} : t # ""}
                 \cup (IF pg = "" THEN {} ELSE {"postgresql"})
                 \cup (IF host.device THEN {} ELSE remote \cup others)
    IN  [t \in IF Healthy(host) THEN named ELSE {} |-> IF t = os.technology THEN os.status
                         ELSE IF t = "postgresql" THEN pg ELSE "confirmed"]

-----------------------------------------------------------------------------
(* The capability snapshot of a host on disk.                              *)

\* _persist: the SSH collector's own reading of its facts.
CollectorStatus(facts) ==
    IF "postgresql" \in facts.services THEN "confirmed"
    ELSE IF facts.port /\ facts.code = "" THEN "suspected"
    ELSE IF facts.code # "" THEN "unknown" ELSE "absent"

\* build_host_capability_snapshot as _persist and _persist_unsupported call
\* it; WinRM facts have no snapshot.  Of a snapshot count what it says of
\* PostgreSQL and which collector it names.
CollectorSnapshot(host, facts) ==
    IF host.device THEN [pg |-> "", by |-> "unsupported"]
    ELSE [pg |-> CollectorStatus(facts), by |-> "ssh"]

\* Whether the collector writes a snapshot of the host at all: the SSH
\* collector does for everything it looked at.
WritesSnapshot(host, facts) ==
    facts.transport = "ssh" \/ (facts.code = "unsupported_transport" /\ Route(host) = "ssh")

NoSnapshot == [pg |-> "", by |-> "none"]

\* A file that was cut short is read as an empty one.
TornSnapshot == [pg |-> "", by |-> ""]

\* Faulty: a snapshot that exists is left as the collector wrote it.
SyncSnapshotKeeps(old, host) ==
    IF old.by # "none" THEN old ELSE [pg |-> PostgresStatus(host), by |-> "inventory"]

\* sync_capability_snapshots_from_detections: the technologies of a file that
\* exists are rewritten, a missing one is written from the inventory.
SyncSnapshot(old, host) ==
    IF old.by # "none" THEN [old EXCEPT !.pg = PostgresStatus(host)]
    ELSE [pg |-> PostgresStatus(host), by |-> IF host.device THEN "unsupported" ELSE "inventory"]
=============================================================================
