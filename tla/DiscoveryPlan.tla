------------------------------ MODULE DiscoveryPlan ------------------------------
(***************************************************************************)
(* inventory/discovery_plan.py: for every candidate that a missing fact or *)
(* a missing capability holds up, the steps that would settle it: with a   *)
(* tool, by asking the operator, or not at all.                            *)
(*                                                                         *)
(* A hint of a framework is a capability, the operations that offer it and *)
(* the facts it should bring; its rank is its place in the order of the    *)
(* framework's hints.                                                      *)
(***************************************************************************)
EXTENDS Selection

CONSTANT FactOrder      \* the facts, alphabetically

Placeholder == "discovery.unspecified"

StatusRank(status) == Pos(<<"planned", "requires_operator_decision", "blocked">>, status)

FailReasons == <<"unknown_operation", "not_executable", "unauthorized", "capability_mismatch",
                 "access_unavailable">>

\* framework_catalog_hash: neither language nor family is part of it.
CatalogHash(catalog) == {<<f.id, Fingerprint(f), f.hints>> : f \in catalog}

-----------------------------------------------------------------------------
(* One hint.                                                               *)

\* _evaluate_operation: why an operation cannot be used, "" when it can.
EvaluateOperation(op, capability, registry, facts) ==
    IF op \notin DOMAIN registry.tools THEN "unknown_operation"
    ELSE LET tool == registry.tools[op]
         IN  IF ~tool.executable THEN "not_executable"
             ELSE IF ~IsAuthorized(registry, op) THEN "unauthorized"
             ELSE IF capability \notin tool.manifest.caps THEN "capability_mismatch"
             ELSE IF ~AccessOk(tool.manifest, facts) THEN "access_unavailable" ELSE ""

\* _resolve_operation: the first operation that can be used, else the reason
\* that comes first in the ranking of the failures.
ResolveOperation(hint, registry, facts) ==
    LET why(op) == EvaluateOperation(op, hint.capability, registry, facts)
        usable  == {op \in hint.operations : why(op) = ""}
    IN  IF usable # {}
        THEN [op |-> FirstOf(NameOrder, usable), status |-> "planned", reason |-> "planned"]
        ELSE [op |-> "", status |-> "blocked",
              reason |-> IF hint.operations = {} THEN "unknown_operation"
                         ELSE FirstOf(FailReasons, {why(op) : op \in hint.operations})]

\* _evaluate_hint: the alternative a hint offers.
Alternative(hint, covered, options, registry, facts) ==
    LET found == ResolveOperation(hint, registry, facts)
        alt(status, reason, op) ==
            [status |-> status, reason |-> reason, capability |-> hint.capability, op |-> op,
             expected |-> hint.expected, covered |-> covered, options |-> options,
             rank |-> hint.rank]
    IN  IF hint.expected = {} THEN alt("requires_operator_decision", "hint_without_facts", "")
        ELSE alt(found.status, found.reason, found.op)

\* The alternative of a capability that no hint speaks of.
NoHint(capability, options) ==
    [status |-> "requires_operator_decision", reason |-> "no_hint", capability |-> capability,
     op |-> "", expected |-> {}, covered |-> {}, options |-> options, rank |-> 0]

\* _alt_sort_key
AltKey(a) == <<StatusRank(a.status), Pos(NameOrder, a.capability),
               IF a.op = "" THEN 0 ELSE Pos(NameOrder, a.op), a.rank>>

Before(a, b) ==
    \E i \in 1..4 : /\ AltKey(a)[i] < AltKey(b)[i]
                    /\ \A j \in 1..(i - 1) : AltKey(a)[j] = AltKey(b)[j]

Best(alts) == CHOOSE a \in alts : \A b \in alts \ {a} : ~Before(b, a)

-----------------------------------------------------------------------------
(* Steps.                                                                  *)

\* _draft_step
Draft(c, capability, options, op, expected, missing, status, reason) ==
    [host |-> c.host, capability |-> capability, options |-> options, op |-> op,
     expected |-> expected, missing |-> missing, status |-> status, reason |-> reason,
     by |-> {c.f.id}]

\* _draft_from_alt
DraftFrom(c, a, missing) ==
    Draft(c, a.capability, a.options, a.op, a.expected, missing, a.status, a.reason)

\* _candidate_needs_discovery
NeedsFacts(c) == c.result = "missing_evidence" /\ c.missing # {}

NeedsDiscovery(c) ==
    /\ c.state = "structured" /\ c.result \in {"matched", "missing_evidence"}
    /\ NeedsFacts(c) \/ c.missingCaps # {}

LacksAny(c) == c.f.anyCaps # {} /\ c.f.anyCaps \cap c.available = {}

\* _emit_invalid_host_blocks
InvalidHostBlocks(c) ==
    LET block(capability, options, missing) ==
            Draft(c, capability, options, "", {}, missing, "blocked", "host_validation")
    IN  (IF NeedsFacts(c) THEN {block(Placeholder, {}, c.missing)} ELSE {})
        \cup {block(cap, {}, {}) : cap \in c.f.allCaps \ c.available}
        \cup (IF LacksAny(c) THEN {block(FirstOf(NameOrder, c.f.anyCaps), c.f.anyCaps, {})}
              ELSE {})

\* Faulty: every alternative that can be used asks for all it would bring.
PlannedForFactsAll(c, alts) ==
    {DraftFrom(c, a, a.covered) : a \in {b \in alts : b.status = "planned"}}

\* _select_fact_alternatives, the loop over the alternatives that can be used:
\* in their order, each takes what the earlier ones leave.
PlannedForFacts(c, alts) ==
    LET planned  == {a \in alts : a.status = "planned"}
        still(a) == a.covered \ UNION {b.covered : b \in {x \in planned : Before(x, a)}}
    IN  {DraftFrom(c, a, still(a)) : a \in {b \in planned : still(b) # {}}}

\* _select_fact_alternatives, the loop over what is left: from the first fact,
\* by an alternative that is blocked, by a hint without facts, by the operator.
LeftForFacts(c, alts, left) ==
    LET blocked(fact) == {a \in alts : fact \in a.covered /\ a.status # "planned"}
        vague == {h \in c.f.hints : h.expected = {}}
        steps[S \in SUBSET left] ==
            IF S = {} THEN {}
            ELSE LET fact  == FirstOf(FactOrder, S)
                     best  == Best(blocked(fact))
                     hint  == CHOOSE h \in vague : \A o \in vague : h.rank <= o.rank
                     ask(capability, facts, reason) ==
                         Draft(c, capability, {}, "", {}, facts, "requires_operator_decision",
                               reason)
                 IN  IF blocked(fact) # {}
                     THEN {DraftFrom(c, best, best.covered \cap S)} \cup steps[S \ best.covered]
                     ELSE IF vague # {} THEN {ask(hint.capability, S, "hint_without_facts")}
                     ELSE {ask(Placeholder, {fact}, "no_hint")} \cup steps[S \ {fact}]
    IN  steps[left]

\* _select_fact_alternatives
SelectFactAlternatives(c, registry, facts) ==
    LET alts == {Alternative(h, h.expected \cap c.missing, {}, registry, facts) :
                    h \in {x \in c.f.hints : x.expected \cap c.missing # {}}}
        planned == PlannedForFacts(c, alts)
    IN  planned \cup LeftForFacts(c, alts, c.missing \ UNION {d.missing : d \in planned})

\* _resolve_capability_hints: the alternatives for one capability.
CapabilityAlternatives(c, capability, options, registry, facts) ==
    LET hints == {h \in c.f.hints : h.capability = capability}
    IN  IF hints = {} THEN {NoHint(capability, options)}
        ELSE {Alternative(h, {}, options, registry, facts) : h \in hints}

\* _emit_capability_work: each capability of all_of on its own, those of
\* any_of as one group.
CapabilityWork(c, registry, facts) ==
    {DraftFrom(c, Best(CapabilityAlternatives(c, cap, {}, registry, facts)), {}) :
        cap \in c.f.allCaps \ c.available}
    \cup (IF LacksAny(c)
          THEN {DraftFrom(c, Best(UNION {CapabilityAlternatives(c, cap, c.f.anyCaps, registry,
                                                                facts) : cap \in c.f.anyCaps}),
                          {})}
          ELSE {})

\* _merge_drafts: frameworks that ask for the same step share it.
MergeDrafts(drafts) ==
    LET same(d)  == {e \in drafts : [e EXCEPT !.by = {}, !.reason = ""]
                                      = [d EXCEPT !.by = {}, !.reason = ""]}
        first(d) == CHOOSE e \in same(d) : \A o \in same(d) :
                        Pos(NameOrder, CHOOSE id \in e.by : TRUE)
                            <= Pos(NameOrder, CHOOSE id \in o.by : TRUE)
    IN  {[first(d) EXCEPT !.by = UNION {e.by : e \in same(d)}] : d \in drafts}

\* The steps that one candidate asks for: a host with errors is blocked before
\* any hint is looked at.  The candidates and the metadata come from one catalog:
\* that the metadata of a candidate is not found takes an edit within the call.
StepsOf(c, hosts, registry) ==
    LET facts == HostFacts(c.host, hosts[c.host])
    IN  IF ~Healthy(hosts[c.host]) THEN InvalidHostBlocks(c)
        ELSE (IF NeedsFacts(c) THEN SelectFactAlternatives(c, registry, facts) ELSE {})
             \cup CapabilityWork(c, registry, facts)

\* build_capability_discovery_plan
BuildDiscoveryPlan(hosts, catalog, registry) ==
    MergeDrafts(UNION {StepsOf(c, hosts, registry) :
                         c \in {d \in Candidates(hosts, catalog, registry) : NeedsDiscovery(d)}})
=============================================================================
