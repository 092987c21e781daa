-------------------------------- MODULE Selection --------------------------------
(***************************************************************************)
(* domain/normalized_facts.py, inventory/framework_candidates.py,          *)
(* inventory/dynamic_select.py and the targets of inventory/plan.py: the   *)
(* facts of every host, every framework of the catalog as a candidate for  *)
(* every host, one decision per target and framework family, and the       *)
(* targets of the plan.                                                    *)
(*                                                                         *)
(* A fact is a pair such as <<"os", "family">>.  A target is a triple of   *)
(* scope, host and service.  A framework version is part of its id here.   *)
(***************************************************************************)
EXTENDS Applicability, Collectors, ToolPolicy

CONSTANTS PreferredLanguage,  \* the language select_frameworks_dynamic prefers
          NameOrder           \* ids, capabilities and operations, alphabetically

Pos(order, x) == CHOOSE i \in DOMAIN order : order[i] = x

FirstOf(order, S) == CHOOSE x \in S : \A y \in S : Pos(order, x) <= Pos(order, y)

-----------------------------------------------------------------------------
(* Facts.                                                                  *)

Connection(t) == <<"access", t>>
Status(kind, name) == <<kind, name>>

\* The facts whose key ends in ".status".
IsStatus(fact) == fact[1] \in {"service", "technology"}

\* build_host_fact_set with apply_inventory_fact_conflicts: the keys of one
\* host.  A conflict about the family takes only that fact away.
FactKeys(host) ==
    {<<"asset", "id">>}
    \cup {<<"os", "family">> : x \in {y \in {1} : host.family # "" /\ ~host.conflict}}
    \cup {<<"os", "name">> : x \in {y \in {1} : host.os # "none"}}
    \cup {Connection(t) : t \in host.access \cap {"ssh", "winrm", "postgresql"}}
    \cup {Status("service", s) : s \in host.services}
    \cup {Status("technology", t) : t \in DOMAIN Detections(host)}

\* build_inventory_fact_sets, as_value_map
HostFacts(h, host) ==
    LET found == Detections(host)
    IN  [k \in FactKeys(host) |->
        Text(CASE k = <<"asset", "id">> -> h
               [] k = <<"os", "family">> -> host.family
               [] k = <<"os", "name">> -> host.os
               [] k[1] = "access" -> "true"
               [] k[1] = "service" -> "confirmed"
               [] k[1] = "technology" -> found[k[2]])]

-----------------------------------------------------------------------------
(* Candidates.                                                             *)

\* The tool can reach the host: every access it needs is available.
AccessOk(manifest, facts) == \A t \in manifest.access : Connection(t) \in DOMAIN facts

\* available_capabilities_for_host
AvailableCaps(registry, facts) ==
    UNION {registry.tools[id].manifest.caps :
             id \in {i \in AuthorizedTools(registry) : AccessOk(registry.tools[i].manifest, facts)}}

\* _capability_readiness: the capabilities that keep the framework from running.
MissingCaps(f, available) ==
    (f.allCaps \ available)
    \cup (IF f.anyCaps \cap available = {} THEN f.anyCaps ELSE {})

\* The metadata state of a framework in the catalog: one that is not
\* executable is as good as invalid.
StateOf(f) == IF f.structured /\ MetaState(f) = "invalid" THEN "invalid"
              ELSE IF ~f.exec THEN "invalid" ELSE MetaState(f)

\* evaluate_framework_candidates for one host and one framework.  Only a
\* structured framework has a scope, and a legacy one no predicate result.
Candidate(h, f, facts, available) ==
    LET state   == StateOf(f)
        lacking == IF state = "structured" THEN MissingCaps(f, available) ELSE {}
    IN  [host |-> h, f |-> f, state |-> state, available |-> available,
         result |-> CASE state = "structured" -> FinalizeRequired(f, facts)
                      [] state = "invalid" -> "invalid"
                      [] state = "legacy" -> "none",
         matched |-> IF state = "structured" THEN MatchedKeys(f, facts) ELSE {},
         missing |-> IF state = "structured" THEN MissingFacts(f, facts) ELSE {},
         missingCaps |-> lacking, ready |-> state = "structured" /\ lacking = {},
         client |-> state = "structured" /\ f.scope = "client"]

\* The candidates of one host: every framework of the catalog.
CandidatesOf(h, host, catalog, registry) ==
    LET facts     == HostFacts(h, host)
        available == AvailableCaps(registry, facts)
    IN  {Candidate(h, f, facts, available) : f \in catalog}

Candidates(hosts, catalog, registry) ==
    UNION {CandidatesOf(h, hosts[h], catalog, registry) : h \in DOMAIN hosts}

-----------------------------------------------------------------------------
(* Decisions.                                                              *)

\* _weak_status_only: the match rests on a status nobody confirmed.
WeakStatusOnly(matched, factSets) ==
    LET values == UNION {{facts[k].val : k \in {m \in matched \cap DOMAIN facts : IsStatus(m)}} :
                            facts \in factSets}
    IN  "confirmed" \notin values
        /\ values \cap {"suspected", "possible", "probable", "unknown"} # {}

\* _aggregate_client_predicate: one host that disagrees decides for all.
AggregateClient(results) ==
    IF "invalid" \in results \/ "none" \in results THEN "invalid"
    ELSE IF "not_matched" \in results THEN "not_matched"
    ELSE IF "missing_evidence" \in results THEN "missing_evidence"
    ELSE "matched"

\* _decision_fields: status and reason.
Decide(state, result, ready, weak, hostBlocked) ==
    IF state = "invalid" \/ result = "invalid" THEN <<"blocked", "invalid">>
    ELSE IF result = "not_matched" THEN <<"not_applicable", "not_matched">>
    ELSE IF hostBlocked THEN <<"blocked", "host_validation">>
    ELSE IF state = "legacy" THEN <<"requires_operator_decision", "legacy">>
    ELSE IF result = "missing_evidence"
    THEN <<"requires_operator_decision", "missing_evidence">>
    ELSE IF ~ready THEN <<"blocked", "capability">>
    ELSE IF weak THEN <<"requires_operator_decision", "weak_status">>
    ELSE <<"selected", "matched">>

ClientTarget == <<"client", "", "">>

\* _resolve_target_id
TargetOf(c) ==
    IF c.client THEN ClientTarget
    ELSE IF c.state = "structured" /\ c.f.scope = "service"
    THEN <<"service", c.host, c.f.service>> ELSE <<"host", c.host, "">>

Resolved(c, target, decided, missingCaps) ==
    [target |-> target, f |-> c.f, structured |-> c.state = "structured", status |-> decided[1],
     reason |-> decided[2],
     missingCaps |-> IF decided[2] = "capability" THEN missingCaps ELSE {}]

\* _from_candidate for a candidate of one host.
ResolveHost(c, hosts) ==
    LET weak == WeakStatusOnly(c.matched, {HostFacts(c.host, hosts[c.host])})
    IN  Resolved(c, TargetOf(c),
                 Decide(c.state, c.result, c.ready, weak, ~Healthy(hosts[c.host])),
                 c.missingCaps)

\* The decision of a client-scoped framework over the hosts without errors.
ResolveClient(group, hosts) ==
    LET eligible == {c \in group : Healthy(hosts[c.host])}
        sample   == CHOOSE c \in group : TRUE
        weak     == WeakStatusOnly(UNION {c.matched : c \in eligible},
                                   {HostFacts(c.host, hosts[c.host]) : c \in eligible})
        ready    == \A c \in eligible : c.ready
        decided  == IF eligible = {} THEN <<"blocked", "no_eligible_hosts">>
                    ELSE Decide(sample.state, AggregateClient({c.result : c \in eligible}),
                                ready, weak, FALSE)
    IN  Resolved(sample, ClientTarget, decided, UNION {c.missingCaps : c \in eligible})

\* _pick_language_variant and _pick_family_representative
PickLanguage(variants, languages) ==
    LET in(l) == {v \in variants : v.f.lang = l}
        ranks == {i \in DOMAIN languages : in(languages[i]) # {}}
        best  == IF ranks = {} THEN variants ELSE in(languages[Min(ranks)])
    IN  CHOOSE v \in best : v.f.id = FirstOf(NameOrder, {w.f.id : w \in best})

\* _inconsistent_families: two structured variants of a family that say
\* different things about where they apply.
InconsistentFamilies(catalog) ==
    LET structured == {f \in catalog : StateOf(f) = "structured"}
    IN  {f.family : f \in {g \in structured : \E o \in structured :
            o.family = g.family /\ Fingerprint(o) # Fingerprint(g)}}

Decision(v) == [framework |-> v.f.id, family |-> v.f.family, target |-> v.target,
                status |-> v.status, reason |-> v.reason, missingCaps |-> v.missingCaps]

\* The one blocked decision of an inconsistent family.
InconsistentDecision(catalog, family) ==
    LET variants == {[f |-> f] : f \in {g \in catalog : StateOf(g) = "structured"
                                                        /\ g.family = family}}
    IN  [framework |-> PickLanguage(variants, <<"en", "any">>).f.id, family |-> family,
         target |-> ClientTarget, status |-> "blocked", reason |-> "inconsistent_family",
         missingCaps |-> {}]

\* The variants of one target and family: one of the structured ones, or every
\* framework on its own.
DecideFamily(variants) ==
    LET structured == {v \in variants : v.structured}
        languages  == <<PreferredLanguage, "en", "any">>
    IN  IF structured # {} THEN {Decision(PickLanguage(structured, languages))}
        ELSE {Decision(PickLanguage({v \in variants : v.f.id = id}, languages)) :
                id \in {v.f.id : v \in variants}}

\* select_frameworks_dynamic
SelectFrameworks(hosts, catalog, registry) ==
    LET inconsistent == InconsistentFamilies(catalog)
        structured   == {f.family : f \in {g \in catalog : StateOf(g) = "structured"}}
        active   == {c \in Candidates(hosts, catalog, registry) :
                        /\ c.f.family \notin inconsistent
                        /\ ~(c.state = "legacy" /\ c.f.family \in structured)}
        ofClient == {c \in active : c.client}
        resolved == {ResolveHost(c, hosts) : c \in active \ ofClient}
                    \cup {ResolveClient({c \in ofClient : c.f = f}, hosts) :
                            f \in {c.f : c \in ofClient}}
        groups   == {<<v.target, v.f.family>> : v \in resolved}
    IN  {InconsistentDecision(catalog, family) : family \in inconsistent}
        \cup UNION {DecideFamily({v \in resolved : <<v.target, v.f.family>> = g}) : g \in groups}

-----------------------------------------------------------------------------
(* The targets of a plan.                                                  *)

PlanTarget(d, h) == [host |-> h, service |-> d.target[3], framework |-> d.framework,
                     family |-> d.family]

\* generate_audit_plan: a decision for the client becomes one target per host
\* the audit can look at; no target is made for a host with errors.
PlanTargets(decisions, hosts) ==
    UNION {IF d.target = ClientTarget
           THEN {PlanTarget(d, h) : h \in {x \in DOMAIN hosts : Healthy(hosts[x])
                                                               /\ ~hosts[x].device}}
           ELSE {PlanTarget(d, h) : h \in {x \in {d.target[2]} : Healthy(hosts[x])}} :
           d \in {e \in decisions : e.status = "selected"}}
=============================================================================
