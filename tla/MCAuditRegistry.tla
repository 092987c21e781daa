-------------------------- MODULE MCAuditRegistry --------------------------
(* A mandatory and an optional task, up to three attempts of each.         *)
EXTENDS AuditRegistry
=============================================================================
