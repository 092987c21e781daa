------------------------------ MODULE MCStores ------------------------------
\* Two runs of one client, two hosts and one requirement.
EXTENDS FollowUp, TLC

CONSTANTS r1, r2, h1, h2, q1

\* One run that assesses two hosts, or two runs that assess the same host.
MCPlans == {[r \in Runs |-> IF r = r1 THEN Hosts ELSE {}],
            [r \in Runs |-> {h1}], [r \in Runs |-> {h2}]}

HostSymmetry == Permutations({h1, h2})
=============================================================================
