--------------------------- MODULE MCMultiRunner ---------------------------
(* Four jobs on three hosts, or three on two; the first and the last job   *)
(* are on the same host.                                                   *)
EXTENDS MultiRunner, TLC

CONSTANTS a, b, d, e, h1, h2, h3

TurnSymmetry == Permutations(Turns)

FourTasks == {a, b, d, e}
ThreeTasks == {a, b, d}
TwoTasks == {a, b}
HostOf == (a :> h1) @@ (b :> h2) @@ (d :> h1) @@ (e :> h3)
RankOf == (a :> 1) @@ (b :> 2) @@ (d :> 4) @@ (e :> 3)
MCHost == [t \in Tasks |-> HostOf[t]]
MCRank == [t \in Tasks |-> RankOf[t]]
=============================================================================
