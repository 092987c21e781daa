------------------------------ MODULE MCMcpPool ------------------------------
(* Two queries and a connect_db for two databases, a reconnect and a close *)
(* on one pool.                                                            *)
EXTENDS McpPool, TLC

CONSTANTS q1, q2, q3, re, sh, t1, t2

Everyone == {q1, q2, q3, re, sh}
Databases == {t1, t2}
MCOps == [c \in Procs |-> CASE c = re -> "reconnect" [] c = sh -> "close"
                           [] c = q3 -> "connect" [] OTHER -> "query"]
MCSettings == [c \in Procs |-> CASE c \in {re, q2} -> {t2} [] OTHER -> {t1}]
=============================================================================
