-------------------------- MODULE CheckpointLeases --------------------------
(***************************************************************************)
(* The leases on the checkpointer of one audit run (workflows/runner.py,   *)
(* acquire_run_checkpointer to _checkpointer_lease): coroutines share one  *)
(* cached bundle with one SQLite connection, count their leases on it, and *)
(* close or replace it only when no lease is left.  A coroutine may be     *)
(* cancelled wherever it is suspended.                                     *)
(*                                                                         *)
(* Every operation runs under the asyncio lock of the scope.  What a       *)
(* coroutine does from taking the lock to the next await, or to the end of *)
(* the operation, is one action.                                           *)
(***************************************************************************)
EXTENDS Naturals, Sequences, SequencesExt, FiniteSets

CONSTANTS Procs,      \* coroutines
          MaxConns,   \* bound on connections ever opened
          MaxDeaths,  \* bound on connections that die by themselves
          MaxCancels, \* bound on cancellations
          FinalCancels \* bound on cancellations that hit the release in finally

ASSUME LeaseAssumption == /\ IsFiniteSet(Procs)
                          /\ MaxConns \in Nat \ {0}
                          /\ MaxDeaths \in Nat /\ MaxCancels \in Nat /\ FinalCancels \in Nat

VARIABLES lock,      \* the lock of the scope: who holds it, and who waits for it
          cache,     \* the bundle in _scoped_checkpoints, 0 without one
          bundle,    \* bundle[g]: the g-th bundle built
          conns,     \* number of bundles built
          proc,      \* proc[p]: what coroutine p is doing
          deaths, cancels

leaseVars == <<lock, cache, bundle, conns, proc, deaths, cancels>>

Bundles == 1..MaxConns
Bundle == [leases : 0..Cardinality(Procs), state : {"none", "live", "closing", "closed"},
           conn : {"none", "open", "dead"}]
NoBundle == [leases |-> 0, state |-> "none", conn |-> "none"]

(* op is the operation, pc where it is suspended: waiting for the lock     *)
(* ("acquire", "release", "close"), inside it awaiting SQLite ("open",     *)
(* "evict", "closing"), or running with a lease ("use").  own is the       *)
(* bundle the coroutine has a lease on.  Between leaving the lock          *)
(* ("again", "use") and asking for it again, reconnect does not suspend;   *)
(* the model lets others run there.                                        *)
Ops == {"none", "lease", "close", "reconnect"}
Suspended == {"acquire", "release", "close", "open", "evict", "closing", "use", "again"}
Proc == [op : Ops, pc : {"idle"} \cup Suspended, own : 0..MaxConns]
Quiet == [op |-> "none", pc |-> "idle", own |-> 0]

NoLock == [holder |-> {}, queue |-> <<>>]
LeaseInit == /\ lock = NoLock
             /\ cache = 0
             /\ bundle = [g \in Bundles |-> NoBundle]
             /\ conns = 0
             /\ proc = [p \in Procs |-> Quiet]
             /\ deaths = 0
             /\ cancels = 0

-----------------------------------------------------------------------------
(* The lock.  An uncontended acquire does not suspend; with others waiting *)
(* it queues up, even if the lock has just been released.                  *)

Free == lock = NoLock
First(p) == lock.holder = {} /\ lock.queue # <<>> /\ Head(lock.queue) = p

Keep(p, q) == lock' = [holder |-> {p}, queue |-> q]
Leave(q) == lock' = [holder |-> {}, queue |-> q]

\* The operation of p ends, by returning or by raising; or p goes on to pc.
Done(p) == proc' = [proc EXCEPT ![p] = Quiet]
Goto(p, op, pc) == proc' = [proc EXCEPT ![p].op = op, ![p].pc = pc]

-----------------------------------------------------------------------------
(* The operations from taking the lock, whose queue is then q.             *)

Shared == cache # 0 /\ bundle[cache].state = "live" /\ bundle[cache].conn = "open"

\* Faulty: a shared bundle is handed out without counting the lease.
AcquireUncounted(p, op, q) ==
    \/ /\ cache # 0
       /\ proc' = [proc EXCEPT ![p] = [op |-> op, pc |-> "use", own |-> cache]]
       /\ Leave(q) /\ UNCHANGED bundle
    \/ /\ cache = 0
       /\ Goto(p, op, "open") /\ Keep(p, q) /\ UNCHANGED bundle

\* acquire_run_checkpointer: share the bundle, refuse a closing one or a dead one
\* that is still leased, evict a dead idle one, or open a new one.
acquire_run_checkpointer(p, op, q) ==
    \/ /\ Shared
       /\ bundle' = [bundle EXCEPT ![cache].leases = @ + 1]
       /\ proc' = [proc EXCEPT ![p] = [op |-> op, pc |-> "use", own |-> cache]]
       /\ Leave(q)
    \/ /\ cache # 0 /\ ~Shared
       /\ bundle[cache].state # "live" \/ bundle[cache].leases > 0
       /\ Done(p) /\ Leave(q) /\ UNCHANGED bundle
    \/ /\ cache # 0 /\ ~Shared
       /\ bundle[cache].state = "live" /\ bundle[cache].leases = 0
       /\ Goto(p, op, "evict") /\ Keep(p, q) /\ UNCHANGED bundle
    \/ /\ cache = 0
       /\ Goto(p, op, "open") /\ Keep(p, q) /\ UNCHANGED bundle

\* release_run_checkpointer: one lease less on whatever bundle is cached; an
\* unmatched release raises.
release_run_checkpointer(p, q) ==
    /\ bundle' = IF cache # 0 /\ bundle[cache].leases > 0
                   THEN [bundle EXCEPT ![cache].leases = @ - 1] ELSE bundle
    /\ Done(p) /\ Leave(q)

\* Faulty: closes the bundle whoever still has a lease on it.
CloseWhileLeased(p, op, q) ==
    \/ /\ cache = 0
       /\ IF op = "reconnect" THEN Goto(p, op, "again") ELSE Done(p)
       /\ Leave(q) /\ UNCHANGED bundle
    \/ /\ cache # 0
       /\ bundle' = [bundle EXCEPT ![cache].state = "closing"]
       /\ Goto(p, op, "closing") /\ Keep(p, q)

\* close_run_checkpointer, and the first half of reconnect_run_checkpointer: only
\* an idle bundle is closed; reconnecting without one goes straight on to acquire.
close_run_checkpointer(p, op, q) ==
    \/ /\ cache = 0
       /\ IF op = "reconnect" THEN Goto(p, op, "again") ELSE Done(p)
       /\ Leave(q) /\ UNCHANGED bundle
    \/ /\ cache # 0 /\ bundle[cache].leases > 0
       /\ Done(p) /\ Leave(q) /\ UNCHANGED bundle
    \/ /\ cache # 0 /\ bundle[cache].leases = 0
       /\ bundle' = [bundle EXCEPT ![cache].state = "closing"]
       /\ Goto(p, op, "closing") /\ Keep(p, q)

Section(p, op, pc, q) ==
    /\ \/ pc = "acquire" /\ acquire_run_checkpointer(p, op, q)
       \/ pc = "release" /\ release_run_checkpointer(p, q)
       \/ pc = "close" /\ close_run_checkpointer(p, op, q)
    /\ UNCHANGED <<cache, conns, deaths>>

\* p calls the operation that begins with pc: _scope_lock, then the lock.
Call(p, op, pc) ==
    \/ Free /\ Section(p, op, pc, <<>>)
    \/ /\ ~Free
       /\ Goto(p, op, pc)
       /\ lock' = [lock EXCEPT !.queue = Append(@, p)]
       /\ UNCHANGED <<cache, bundle, conns, deaths>>

\* p is next in the queue and gets the lock.
Wake(p) == /\ First(p)
           /\ Section(p, proc[p].op, proc[p].pc, Tail(lock.queue))
           /\ UNCHANGED cancels

-----------------------------------------------------------------------------
(* Coroutines.                                                             *)

\* _checkpointer_lease, close_run_checkpointer or reconnect_run_checkpointer.
Start(p, op) == /\ proc[p].pc = "idle"
                /\ Call(p, op, IF op = "lease" THEN "acquire" ELSE "close")
                /\ UNCHANGED cancels

\* The body of the lease has ended, or reconnect lets go of what it acquired.
EndUse(p) == /\ proc[p].pc = "use"
             /\ Call(p, proc[p].op, "release")
             /\ UNCHANGED cancels

\* The second half of reconnect_run_checkpointer.
Reacquire(p) == /\ proc[p].pc = "again"
                /\ Call(p, "reconnect", "acquire")
                /\ UNCHANGED cancels

Unlock == Leave(lock.queue)

\* AsyncSqliteSaver was entered and both graphs are compiled.
Opened(p) == /\ proc[p].pc = "open" /\ conns < MaxConns
             /\ conns' = conns + 1
             /\ bundle' = [bundle EXCEPT ![conns + 1] =
                             [leases |-> 1, state |-> "live", conn |-> "open"]]
             /\ cache' = conns + 1
             /\ proc' = [proc EXCEPT ![p].pc = "use", ![p].own = conns + 1]
             /\ Unlock
             /\ UNCHANGED <<deaths, cancels>>

\* Faulty: opening is tried again for ever, under the lock.
OpenRetries(p) == /\ proc[p].pc = "open"
                  /\ UNCHANGED leaseVars

\* Opening or compiling failed: CheckpointInitError, with SQLite closed again.
OpenFails(p) == /\ proc[p].pc = "open"
                /\ Done(p) /\ Unlock
                /\ UNCHANGED <<cache, bundle, conns, deaths, cancels>>

\* _close_sqlite_cm has closed the connection of the cached bundle.
Gone == [bundle EXCEPT ![cache].state = "closed", ![cache].conn = "none"]

\* The dead bundle is closed and dropped; the same coroutine opens a new one.
Evicted(p) == /\ proc[p].pc = "evict"
              /\ bundle' = Gone /\ cache' = 0
              /\ proc' = [proc EXCEPT ![p].pc = "open"]
              /\ UNCHANGED <<lock, conns, deaths, cancels>>

\* SQLite is closed: the bundle is dropped.
Closed(p) == /\ proc[p].pc = "closing"
             /\ bundle' = Gone /\ cache' = 0
             /\ IF proc[p].op = "reconnect" THEN Goto(p, "reconnect", "again") ELSE Done(p)
             /\ Unlock
             /\ UNCHANGED <<conns, deaths, cancels>>

\* The connection of a bundle breaks.
Dies(g) == /\ deaths < MaxDeaths
           /\ bundle[g].conn = "open"
           /\ bundle' = [bundle EXCEPT ![g].conn = "dead"]
           /\ deaths' = deaths + 1
           /\ UNCHANGED <<lock, cache, conns, proc, cancels>>

\* CancelledError at the await where p is suspended.  A lease in use is released
\* in finally; one that is being released is lost; a bundle that is being closed
\* stays marked as closing.
Unqueue(p) == \E i \in DOMAIN lock.queue : /\ lock.queue[i] = p
                                           /\ lock' = [lock EXCEPT !.queue = RemoveAt(@, i)]
Cancel(p) ==
    /\ cancels < IF proc[p].pc = "release" THEN FinalCancels ELSE MaxCancels
    /\ cancels' = cancels + 1
    /\ \/ /\ proc[p].pc \in {"acquire", "close", "release"}
          /\ Unqueue(p) /\ Done(p)
          /\ UNCHANGED <<cache, bundle, conns, deaths>>
       \/ /\ proc[p].pc \in {"open", "evict", "closing"}
          /\ Unlock /\ Done(p)
          /\ UNCHANGED <<cache, bundle, conns, deaths>>
       \/ /\ proc[p].pc = "use"
          /\ Call(p, proc[p].op, "release")

\* What a suspended coroutine does when its await is over.
Advance(p) == \/ Wake(p) \/ Reacquire(p) \/ Opened(p) \/ OpenFails(p)
              \/ Evicted(p) \/ Closed(p)

LeaseNext == \/ \E p \in Procs : \/ \E op \in Ops \ {"none"} : Start(p, op)
                                 \/ Advance(p) \/ EndUse(p) \/ Cancel(p)
             \/ \E g \in Bundles : Dies(g)

LeaseSpec == LeaseInit /\ [][LeaseNext]_leaseVars

\* SQLite answers, and a coroutine that was given the lock runs.
LeaseFair == LeaseSpec /\ \A p \in Procs : WF_leaseVars(Advance(p)) /\ WF_leaseVars(EndUse(p))

-----------------------------------------------------------------------------
(* Properties.                                                             *)

\* Types, and the shape of a lock: a holder is not queued.
LeaseTypeOK == /\ lock \in [holder : SUBSET Procs, queue : Seq(Procs)]
               /\ cache \in 0..MaxConns /\ conns \in 0..MaxConns
               /\ bundle \in [Bundles -> Bundle]
               /\ proc \in [Procs -> Proc]
               /\ deaths \in 0..MaxDeaths /\ cancels \in Nat

Holders(g) == {p \in Procs : proc[p].own = g}

\* Types hold, and lease_count is the number of coroutines that have a lease, through sharing,
\* eviction, reconnecting and cancellation (acquire, release).
LeaseCount == LeaseTypeOK /\ \A g \in Bundles : bundle[g].leases = Cardinality(Holders(g))

\* A bundle is never closed, closing or replaced under a coroutine that uses it
\* (close_run_checkpointer, reconnect_run_checkpointer, eviction), and there is one
\* connection per scope: concurrent acquires share it, a dropped one has been closed.
NoUseAfterClose ==
    /\ \A p \in Procs :
         proc[p].own # 0 => cache = proc[p].own /\ bundle[cache].state = "live"
    /\ \A g \in Bundles : bundle[g].conn # "none" => g = cache

\* Whoever waits for the lock of the scope gets its turn, whatever the others run
\* into inside it.
WaitersServed == \A p \in Procs :
    proc[p].pc \in {"acquire", "release", "close"} ~>
    proc[p].pc \notin {"acquire", "release", "close"}
=============================================================================
