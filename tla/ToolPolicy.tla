------------------------------- MODULE ToolPolicy -------------------------------
(***************************************************************************)
(* tool_registry.py and tools/ssh_policy.py: the tool manifests and the    *)
(* capability policy on disk, what a registry loaded from them authorizes, *)
(* and the checks that a pinned registry is still the one in force.        *)
(*                                                                         *)
(* The files are a record of manifests and a policy.  The hash of a        *)
(* registry is taken over the files it was loaded from, so two registries  *)
(* have one hash exactly when they come from the same files.               *)
(***************************************************************************)
EXTENDS Naturals, FiniteSets

CONSTANTS Profile,        \* POC_TOOL_PROFILE
          Required        \* REQUIRED_POC_SSH_TOOL_IDS

-----------------------------------------------------------------------------
(* Loading.                                                                *)

\* _validate_manifest, _with_issue: the ids more than one file claims.
DuplicateIds(files) ==
    {id \in {m.id : m \in files.manifests} :
        Cardinality({m \in files.manifests : m.id = id}) > 1}

\* ToolManifest.executable: enabled and without an error.
ManifestExecutable(files, m) == m.enabled /\ ~m.flawed /\ m.id \notin DuplicateIds(files)

\* load_tool_registry: invalid manifests stay visible, with executable false;
\* of a duplicated id the manifest of the first file has the id.
LoadRegistry(files) ==
    LET ids == {m.id : m \in files.manifests}
        of(id) == {m \in files.manifests : m.id = id}
        first(id) == CHOOSE m \in of(id) : \A n \in of(id) : m.file <= n.file
    IN  [tools |-> [id \in ids |-> [manifest |-> first(id),
                                    executable |-> ManifestExecutable(files, first(id))]],
         policy |-> files.policy, hash |-> files]

\* load_capability_policy and _validate_policy: a missing or malformed file is
\* a policy that is not executable.
PolicyExecutable(policy) == policy.present /\ policy.valid

\* is_authorized.  Empty lists of tools and transports do not restrict.
IsAuthorized(registry, id) ==
    /\ id \in DOMAIN registry.tools /\ registry.tools[id].executable
    /\ PolicyExecutable(registry.policy)
    /\ LET m == registry.tools[id].manifest
           p == registry.policy
       IN  /\ id \notin p.denied
           /\ p.allowed # {} => id \in p.allowed
           /\ p.transports # {} => m.transport \in p.transports
           /\ p.readonlyRequired => m.readonly
           /\ m.profiles # {} => Profile \in m.profiles

\* authorized_tools
AuthorizedTools(registry) == {id \in DOMAIN registry.tools : IsAuthorized(registry, id)}

\* select_discovery_tools, require_ssh_discovery_tool
SshDiscoveryAllowed(registry) ==
    IsAuthorized(registry, "ssh_run") /\ registry.tools["ssh_run"].manifest.transport = "ssh"

\* is_approved_ssh_command: the allow list of the policy, or every command.
ApprovedCommands(registry, commands) ==
    IF registry.policy.allowAll THEN commands ELSE commands \cap registry.policy.commands

\* snapshot_hashes
SnapshotHash(registry) == registry.hash

-----------------------------------------------------------------------------
(* Checks of a registry against the files and of a pin against a registry. *)

\* validate_runtime_tool_registry: the registry is the one on disk, the policy
\* names only tools there are, and the required tools can be bound.
RuntimeValid(registry, files) ==
    /\ PolicyExecutable(registry.policy) /\ registry.policy.profile = Profile
    /\ SnapshotHash(registry) = SnapshotHash(LoadRegistry(files))
    /\ registry.policy.allowed \subseteq DOMAIN registry.tools
    /\ \A id \in Required : IsAuthorized(registry, id) /\ registry.tools[id].manifest.bindable

\* bindable_langchain_tools: what the model may call.
BoundTools(registry) ==
    {id \in AuthorizedTools(registry) : registry.tools[id].manifest.bindable}

\* assert_tool_snapshot_current
PinCurrent(pin, registry) == pin = SnapshotHash(registry)
=============================================================================
