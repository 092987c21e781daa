------------------------------- MODULE MCInventory -------------------------------
(***************************************************************************)
(* Two hosts, one of them Linux and one Windows, the frameworks of agents/ *)
(* and one edited catalog, the shipped tool files and two edited ones.     *)
(***************************************************************************)
EXTENDS Inventory

MCHostOrder == <<"h1", "h2">>

MCNameOrder == <<"discovery.unspecified", "draft", "hardening", "host.execute", "host.read",
                 "host_facts", "host_facts_ru", "net.read", "notes", "postgres_cis",
                 "postgres_cis_ru", "ssh_read_file", "ssh_run", "ubuntu_cis", "ubuntu_cis_ru",
                 "windows_server">>

MCFactOrder == <<<<"access", "postgresql">>, <<"access", "ssh">>, <<"access", "winrm">>,
                 <<"asset", "id">>, <<"os", "family">>, <<"os", "name">>,
                 <<"technology", "postgresql">>>>

MCInfix == {}

-----------------------------------------------------------------------------
Row(os, access, services, creds) ==
    [os |-> os, access |-> access, services |-> services, device |-> FALSE, addr |-> "ok",
     dup |-> FALSE, creds |-> creds]

SshKey == [transport |-> "ssh", by |-> "address", secret |-> TRUE]
SshById == [transport |-> "ssh", by |-> "id", secret |-> FALSE]
WinrmKey == [transport |-> "winrm", by |-> "id", secret |-> TRUE]

Undeclared == Row("none", {}, {}, {SshKey})
WithPostgres == Row("ubuntu", {}, {"ssh", "postgresql"}, {SshById})
Mistaken == Row("windows", {"ssh"}, {}, {SshKey})
Contradictory == Row("linux", {}, {"winrm"}, {SshKey})
Windows == Row("windows", {}, {}, {WinrmKey})
Switch == [Row("none", {"ssh"}, {}, {}) EXCEPT !.device = TRUE]

\* What the operator may write for a host in place of its row.
MCRows(h) == IF h = "h1" THEN {WithPostgres, Contradictory} ELSE {Switch}

Ubuntu(pg, port) == [os |-> "ubuntu", transports |-> {"ssh"}, pg |-> pg, port |-> port]
Server(pg, port) == [os |-> "windows", transports |-> {"winrm"}, pg |-> pg, port |-> port]

Pair(x, y) == ("h1" :> x) @@ ("h2" :> y)

\* An inventory file and the hosts it is about.
MCInitial == {<<Pair(Undeclared, Windows), Pair(Ubuntu("none", TRUE), Server("running", TRUE))>>,
              <<Pair(Mistaken, Windows), Pair(Ubuntu("running", FALSE), Server("unit", TRUE))>>}

-----------------------------------------------------------------------------
Is(fact, value) == [fact |-> fact, operator |-> "equals", value |-> Text(value)]
Exists(fact) == [fact |-> fact, operator |-> "exists", value |-> NoValue]
OneOf(fact, values) == [fact |-> fact, operator |-> "in", value |-> Many(values)]
Has(fact, value) == [fact |-> fact, operator |-> "contains", value |-> Text(value)]

Family == <<"os", "family">>
Name == <<"os", "name">>
Pg == <<"technology", "postgresql">>

Framework(id, family, lang, all, scope, service) ==
    [id |-> id, family |-> family, lang |-> lang, exec |-> TRUE, structured |-> TRUE, all |-> all,
     any |-> {}, none |-> {}, anyCaps |-> {}, allCaps |-> {}, required |-> {p.fact : p \in all},
     scope |-> scope, service |-> service, hints |-> {}]

HostFactsIn(id, lang) ==
    Framework(id, "host_facts", lang, {Exists(<<"asset", "id">>)}, "client", "")

UbuntuIn(id, lang) ==
    Framework(id, "ubuntu_cis", lang, {Is(Family, "linux"), Has(Name, "ubuntu")}, "host", "")

PostgresIn(id, lang) ==
    Framework(id, "postgres_cis", lang,
              {OneOf(Pg, {"confirmed", "suspected", "possible", "probable", "unknown"})},
              "service", "postgresql")

WindowsServer == Framework("windows_server", "windows_server", "en", {Is(Family, "windows")},
                           "host", "")

Shipped == {HostFactsIn("host_facts", "en"), UbuntuIn("ubuntu_cis", "en"),
            UbuntuIn("ubuntu_cis_ru", "ru"),
            PostgresIn("postgres_cis", "en"), PostgresIn("postgres_cis_ru", "ru"), WindowsServer}

Hint(rank, capability, operations, expected) ==
    [rank |-> rank, capability |-> capability, operations |-> operations, expected |-> expected]

\* A framework that asks for everything the discovery planner can meet.
Hardening ==
    [Framework("hardening", "hardening", "en", {Exists(Family), Exists(Name)}, "host", "") EXCEPT
        !.any = {Is(Pg, "confirmed"), Exists(<<"access", "postgresql">>)},
        !.none = {Is(Name, "darwin")},
        !.allCaps = {"net.read"}, !.anyCaps = {"host.execute", "host.read"},
        !.hints = {Hint(1, "host.execute", {"ssh_run"}, {Family, Name}),
                   Hint(2, "host.read", {"ssh_read_file", "ssh_run"}, {Family, Name}),
                   Hint(3, "host.read", {"nmap"}, {Pg}),
                   Hint(4, "net.read", {"ssh_run"}, {Family, Pg})}]

Notes == [Framework("notes", "notes", "any", {}, "", "") EXCEPT !.structured = FALSE]

Unfinished == [Framework("draft", "postgres_cis", "en", {Is(Pg, "confirmed")}, "service", "") EXCEPT
             !.exec = FALSE]

\* Two languages of one framework that differ in scope, one that asks for tools, one
\* without metadata and one that is not finished.
Edited == Shipped \cup {[HostFactsIn("host_facts_ru", "ru") EXCEPT !.scope = "host"], Hardening,
                        Notes, Unfinished}

MCCatalogs == {Shipped, Edited}

-----------------------------------------------------------------------------
Manifest(file, id, caps) ==
    [file |-> file, id |-> id, flawed |-> FALSE, enabled |-> TRUE, transport |-> "ssh",
     readonly |-> TRUE, profiles |-> {"poc"}, access |-> {"ssh"}, caps |-> caps,
     bindable |-> TRUE]

SshRun == Manifest(2, "ssh_run", {"host.execute", "host.read"})
SshReadFile == Manifest(1, "ssh_read_file", {"host.read"})

Policy(denied, allowAll, commands) ==
    [present |-> TRUE, valid |-> TRUE, profile |-> "poc", allowed |-> {"ssh_run", "ssh_read_file"},
     denied |-> denied, transports |-> {"ssh"}, readonlyRequired |-> TRUE, allowAll |-> allowAll,
     commands |-> commands]

MCTools == [manifests |-> {SshRun, SshReadFile}, policy |-> Policy({}, TRUE, {})]

\* The allow list is in force and leaves the package commands out.
Narrowed == [MCTools EXCEPT !.policy = Policy({}, FALSE, AllCommands \ {"state", "binaries"})]

\* A second manifest claims an id.
Doubled == [MCTools EXCEPT !.manifests = @ \cup {[SshReadFile EXCEPT !.file = 3]}]

MCToolFiles == {MCTools, Narrowed, Doubled}
=============================================================================
