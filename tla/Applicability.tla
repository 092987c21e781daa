------------------------------ MODULE Applicability ------------------------------
(***************************************************************************)
(* domain/applicability.py: what a framework's front matter says about the *)
(* hosts it applies to, and how it is evaluated against the facts known of *)
(* one host.  A fact nobody established is absent from the facts, and the  *)
(* evaluation is three-valued: "missing_evidence" is neither a match nor a *)
(* mismatch.                                                               *)
(*                                                                         *)
(* A value is a record of a kind and a content.  Texts are opaque; Infix   *)
(* says which text occurs inside which other one.                          *)
(***************************************************************************)
EXTENDS Naturals, FiniteSets

CONSTANT Infix          \* pairs <<a, b>> of texts: a occurs in b

Text(t) == [kind |-> "text", val |-> t]
Many(s) == [kind |-> "many", val |-> s]
NoValue == [kind |-> "none", val |-> {}]

Operators == {"equals", "not_equals", "in", "not_in", "exists", "contains",
              "greater_than", "less_than"}

Definite == {"matched", "not_matched"}

PredicateResult == Definite \cup {"missing_evidence", "invalid"}

-----------------------------------------------------------------------------
(* Validation of the front matter.                                         *)

\* ApplicabilityPredicate._operator_value_rules: the shape of value each
\* operator takes.
ValidPredicate(p) ==
    CASE p.operator = "exists" -> p.value.kind = "none"
      [] p.operator \in {"equals", "not_equals", "contains"} ->
            p.value.kind \in {"text", "number"}
      [] p.operator \in {"in", "not_in"} -> p.value.kind = "many" /\ p.value.val # {}
      [] p.operator \in {"greater_than", "less_than"} -> p.value.kind = "number"
      [] OTHER -> FALSE

\* FrameworkTargetSpec: only a service-scoped framework names a service.
ValidTarget(f) ==
    /\ f.scope \in {"client", "host", "service"}
    /\ (f.scope = "service") <=> (f.service # "")

\* parse_applicability_meta: never raises.  No structured block leaves a
\* legacy framework, a malformed one an invalid framework.
MetaState(f) ==
    IF ~f.structured THEN "legacy"
    ELSE IF (\A p \in f.all \cup f.any \cup f.none : ValidPredicate(p)) /\ ValidTarget(f)
    THEN "structured" ELSE "invalid"

\* Faulty: the target scope is left out of the fingerprint.
FingerprintNoTarget(f) == <<f.all, f.any, f.none, f.anyCaps, f.allCaps, f.required>>

\* applicability_fingerprint: what selection depends on, language and hints
\* excluded.
Fingerprint(f) == <<f.all, f.any, f.none, f.anyCaps, f.allCaps, f.required, f.scope, f.service>>

-----------------------------------------------------------------------------
(* Evaluation.                                                             *)

Verdict(yes) == IF yes THEN "matched" ELSE "not_matched"

Occurs(a, b) == a = b \/ <<a, b>> \in Infix

\* The comparison of a fact that is present; a value of the wrong type is
\* invalid.
Compare(p, raw) ==
    CASE p.operator = "exists" -> "matched"
      [] p.operator \in {"equals", "not_equals"} ->
            IF raw.kind = "many" THEN "invalid"
            ELSE Verdict((raw = p.value) = (p.operator = "equals"))
      [] p.operator \in {"in", "not_in"} ->
            IF raw.kind = "many" THEN "invalid"
            ELSE Verdict((raw.val \in p.value.val) = (p.operator = "in"))
      [] p.operator = "contains" ->
            IF raw.kind = "many" THEN Verdict(p.value.val \in raw.val)
            ELSE IF raw.kind = "text" /\ p.value.kind = "text"
                 THEN Verdict(Occurs(p.value.val, raw.val))
                 ELSE "invalid"
      [] p.operator \in {"greater_than", "less_than"} ->
            IF raw.kind # "number" THEN "invalid"
            ELSE Verdict(IF p.operator = "greater_than" THEN raw.val > p.value.val
                                                        ELSE raw.val < p.value.val)
      [] OTHER -> "invalid"

EvaluatePredicate(p, facts) ==
    IF p.fact \in DOMAIN facts THEN Compare(p, facts[p.fact]) ELSE "missing_evidence"

\* The results a group of predicates contains.
Results(group, facts) == {EvaluatePredicate(p, facts) : p \in group}

KeysWith(group, facts, result) ==
    {p.fact : p \in {q \in group : EvaluatePredicate(q, facts) = result}}

\* Faulty: a fact nobody established counts as agreeing.
EvalAllLenient(group, facts) ==
    LET r == Results(group, facts)
    IN  IF "invalid" \in r THEN "invalid"
        ELSE IF "not_matched" \in r THEN "not_matched"
        ELSE "matched"

EvalAll(group, facts) ==
    LET r == Results(group, facts)
    IN  IF "invalid" \in r THEN "invalid"
        ELSE IF "not_matched" \in r THEN "not_matched"
        ELSE IF "missing_evidence" \in r THEN "missing_evidence"
        ELSE "matched"

EvalAny(group, facts) ==
    LET r == Results(group, facts)
    IN  IF "invalid" \in r THEN "invalid"
        ELSE IF "matched" \in r THEN "matched"
        ELSE IF "missing_evidence" \in r THEN "missing_evidence"
        ELSE "not_matched"

EvalNone(group, facts) ==
    LET r == Results(group, facts)
    IN  IF "invalid" \in r THEN "invalid"
        ELSE IF "matched" \in r THEN "not_matched"
        ELSE IF "missing_evidence" \in r THEN "missing_evidence"
        ELSE "matched"

\* _merge_eval_parts: the worst part decides.
Merge(parts) ==
    IF "invalid" \in parts THEN "invalid"
    ELSE IF "not_matched" \in parts THEN "not_matched"
    ELSE IF "missing_evidence" \in parts THEN "missing_evidence"
    ELSE "matched"

\* evaluate_applicability: an absent group has no part, an empty
\* specification matches.
EvaluateApplicability(f, facts) ==
    Merge((IF f.all = {} THEN {} ELSE {EvalAll(f.all, facts)})
          \cup (IF f.any = {} THEN {} ELSE {EvalAny(f.any, facts)})
          \cup (IF f.none = {} THEN {} ELSE {EvalNone(f.none, facts)}))

MatchedKeys(f, facts) == KeysWith(f.all \cup f.any \cup f.none, facts, "matched")

MissingKeys(f, facts) == KeysWith(f.all \cup f.any \cup f.none, facts, "missing_evidence")

\* _finalize_required_facts: a match without a required fact is no match.
FinalizeRequired(f, facts) ==
    LET result == EvaluateApplicability(f, facts)
    IN  IF result = "matched" /\ \E k \in f.required : k \notin DOMAIN facts
        THEN "missing_evidence" ELSE result

MissingFacts(f, facts) == MissingKeys(f, facts) \cup {k \in f.required : k \notin DOMAIN facts}

-----------------------------------------------------------------------------
\* One set of facts adds to another.
Extends(f, g) == DOMAIN f \subseteq DOMAIN g /\ \A k \in DOMAIN f : g[k] = f[k]

\* No predicate of the framework meets a value of the wrong type.
WellTyped(f, facts) ==
    \A p \in f.all \cup f.any \cup f.none : EvaluatePredicate(p, facts) # "invalid"
=============================================================================
