---------------------------- MODULE RuntimeProofs ----------------------------
(***************************************************************************)
(* Theorems about what a running service opens and closes under its work:  *)
(* the checkpointer of one run (CheckpointLeases) and the shutdown of the  *)
(* whole runtime (RuntimeShutdown).                                        *)
(***************************************************************************)
EXTENDS CheckpointLeases, RuntimeShutdown, TLAPS, FiniteSetTheorems, SequenceTheorems

-----------------------------------------------------------------------------
(* The checkpointer of one run.                                            *)
(*                                                                         *)
(* NoUseAfterClose and LeaseCount for any number of coroutines, bundles,   *)
(* deaths of connections and cancellations.  Neither supports itself.      *)
(* That a bundle may be closed when its count is zero needs that the count *)
(* is never too small (Counted), and that what was true when the close     *)
(* began still is when SQLite has answered needs that the coroutine has    *)
(* the lock all the while (AloneInside).                                   *)

\* Types, without a bound on the leases: a release that is cancelled loses one.
AnyBundle == [leases : Nat, state : {"none", "live", "closing", "closed"},
              conn : {"none", "open", "dead"}]
TypesOK == /\ lock \in [holder : SUBSET Procs, queue : Seq(Procs)]
           /\ cache \in 0..MaxConns /\ conns \in 0..MaxConns
           /\ bundle \in [Bundles -> AnyBundle]
           /\ proc \in [Procs -> Proc]
           /\ deaths \in 0..MaxDeaths /\ cancels \in Nat

\* A coroutine has a lease while it uses the bundle and until it has the lock for
\* the release.
HasLease(p) == proc[p].pc \in {"use", "release"}
LeaseOwned == \A p \in Procs : proc[p].own # 0 <=> HasLease(p)

\* Who awaits SQLite inside the section has the lock alone, and what it has found
\* out about the cache is still so.
Inside == {"open", "evict", "closing"}
AloneInside == \A p \in Procs : proc[p].pc \in Inside =>
    /\ lock.holder = {p}
    /\ proc[p].pc = "open" => cache = 0
    /\ proc[p].pc # "open" => cache # 0 /\ bundle[cache].leases = 0

\* No lease is missing from the count, and none is too much unless a release was
\* cancelled.
Counted == \A g \in Bundles :
    /\ Cardinality(Holders(g)) <= bundle[g].leases
    /\ FinalCancels = 0 => Cardinality(Holders(g)) = bundle[g].leases

LeaseInv == TypesOK /\ LeaseOwned /\ AloneInside /\ Counted /\ NoUseAfterClose

-----------------------------------------------------------------------------
(* Lemmas on the coroutines that have a lease.                             *)

\* The coroutines with a lease on a bundle are finitely many, at most all.
LEMMA HoldersFinite ==
    ASSUME NEW g
    PROVE  /\ IsFiniteSet(Holders(g)) /\ Cardinality(Holders(g)) \in Nat
           /\ Cardinality(Holders(g)) <= Cardinality(Procs)
  BY LeaseAssumption, FS_Subset, FS_CardinalityType DEF Holders

\* A bundle without leases has no users, nor has a scope without a bundle.
LEMMA NoUsers ==
    ASSUME LeaseInv, cache = 0 \/ bundle[cache].leases = 0
    PROVE  /\ \A r \in Procs : proc[r].own = 0
           /\ \A g \in Bundles : Holders(g) = {}
  <1>1. \A r \in Procs : proc[r].own = 0
    <2> SUFFICES ASSUME NEW r \in Procs, proc[r].own # 0  PROVE FALSE
      OBVIOUS
    <2>1. cache = proc[r].own /\ cache \in Bundles
      BY DEF LeaseInv, NoUseAfterClose, TypesOK, AnyBundle, Bundles, Proc
    <2>2. Cardinality(Holders(cache)) <= 0
      BY <2>1, LeaseAssumption DEF LeaseInv, Counted, Bundles
    <2>3. Holders(cache) = {}
      BY <2>2, HoldersFinite, FS_EmptySet
    <2> QED  BY <2>1, <2>3 DEF Holders
  <1> QED  BY <1>1, LeaseAssumption DEF Holders, Bundles

\* Nobody is inside a lock that nobody has.
LEMMA Outside ==
    ASSUME LeaseInv, lock.holder = {}
    PROVE  \A r \in Procs : proc[r].pc \notin Inside
  BY DEF LeaseInv, AloneInside

\* What a step of p keeps when it changes neither the cache nor the bundle nor a lease.
LEMMA CountedStays ==
    ASSUME LeaseInv, \A r \in Procs : proc'[r].own = proc[r].own,
           \A g \in Bundles : bundle'[g].leases = bundle[g].leases
    PROVE  Counted'
  <1>1. \A g \in Bundles : Holders(g)' = Holders(g)
    BY DEF Holders
  <1> QED  BY <1>1 DEF LeaseInv, Counted

\* p gets a lease on the bundle g, which is counted.
LEMMA CountedUp ==
    ASSUME LeaseInv, NEW p \in Procs, NEW g \in Bundles,
           proc[p].own = 0, proc'[p].own = g,
           \A r \in Procs \ {p} : proc'[r].own = proc[r].own,
           bundle'[g].leases = bundle[g].leases + 1,
           \A h \in Bundles \ {g} : bundle'[h].leases = bundle[h].leases
    PROVE  Counted'
  <1>1. Holders(g)' = Holders(g) \cup {p} /\ p \notin Holders(g)
    BY LeaseAssumption DEF Holders, Bundles
  <1>2. \A h \in Bundles \ {g} : Holders(h)' = Holders(h)
    BY LeaseAssumption DEF Holders, Bundles
  <1>3. Cardinality(Holders(g)') = Cardinality(Holders(g)) + 1
    BY <1>1, HoldersFinite, FS_AddElement
  <1>4. bundle[g].leases \in Nat
    BY DEF LeaseInv, TypesOK, AnyBundle
  <1>5. /\ Cardinality(Holders(g))' <= bundle'[g].leases
        /\ FinalCancels = 0 => Cardinality(Holders(g))' = bundle'[g].leases
    BY <1>3, <1>4, HoldersFinite DEF LeaseInv, Counted
  <1> QED  BY <1>2, <1>5 DEF LeaseInv, Counted

\* p gives its lease back, and the count follows, or is cancelled before it does.
LEMMA CountedDown ==
    ASSUME LeaseInv, NEW p \in Procs, NEW g \in Bundles,
           proc[p].own = g, proc'[p].own = 0,
           \A r \in Procs \ {p} : proc'[r].own = proc[r].own,
           \/ bundle'[g].leases = bundle[g].leases - 1
           \/ FinalCancels # 0 /\ bundle'[g].leases = bundle[g].leases,
           \A h \in Bundles \ {g} : bundle'[h].leases = bundle[h].leases
    PROVE  Counted'
  <1>1. Holders(g)' = Holders(g) \ {p} /\ p \in Holders(g)
    BY LeaseAssumption DEF Holders, Bundles
  <1>2. \A h \in Bundles \ {g} : Holders(h)' = Holders(h)
    BY LeaseAssumption DEF Holders, Bundles
  <1>3. Cardinality(Holders(g)') = Cardinality(Holders(g)) - 1
    BY <1>1, HoldersFinite, FS_RemoveElement
  <1>4. bundle[g].leases \in Nat
    BY DEF LeaseInv, TypesOK, AnyBundle
  <1>5. /\ Cardinality(Holders(g))' <= bundle'[g].leases
        /\ FinalCancels = 0 => Cardinality(Holders(g))' = bundle'[g].leases
    BY <1>3, <1>4, HoldersFinite DEF LeaseInv, Counted
  <1> QED  BY <1>2, <1>5 DEF LeaseInv, Counted

\* The queue stays a queue of coroutines when one of them leaves it.
LEMMA UnqueueType ==
    ASSUME lock \in [holder : SUBSET Procs, queue : Seq(Procs)], NEW p, Unqueue(p)
    PROVE  lock' \in [holder : SUBSET Procs, queue : Seq(Procs)] /\ lock'.holder = lock.holder
  <1> PICK i \in DOMAIN lock.queue : lock' = [lock EXCEPT !.queue = RemoveAt(@, i)]
    BY DEF Unqueue
  <1>1. lock.queue \in Seq(Procs) /\ i \in 1..Len(lock.queue) /\ Len(lock.queue) \in Nat
    BY LenProperties
  <1>2. /\ SubSeq(lock.queue, 1, i - 1) \in Seq(Procs)
        /\ SubSeq(lock.queue, i + 1, Len(lock.queue)) \in Seq(Procs)
    BY <1>1, SubSeqProperties, ElementOfSeq
  <1>3. RemoveAt(lock.queue, i) \in Seq(Procs)
    BY <1>2, ConcatProperties DEF RemoveAt
  <1> QED  BY <1>3

\* At first there is no bundle and nobody has a lease.
LEMMA LeaseInitInv == LeaseInit => LeaseInv
  <1> SUFFICES ASSUME LeaseInit  PROVE LeaseInv
    OBVIOUS
  <1>1. TypesOK
    BY LeaseAssumption DEF LeaseInit, TypesOK, AnyBundle, NoLock, NoBundle, Quiet, Proc, Ops, Suspended, Bundles
  <1>2. \A g \in Bundles : Holders(g) = {}
    BY LeaseAssumption DEF LeaseInit, Holders, Quiet, Bundles
  <1>3. Counted
    BY <1>2, FS_EmptySet DEF Counted, LeaseInit, NoBundle
  <1>4. LeaseOwned /\ AloneInside /\ NoUseAfterClose
    BY DEF LeaseInit, LeaseOwned, HasLease, AloneInside, Inside, NoUseAfterClose, NoBundle, Quiet
  <1> QED  BY <1>1, <1>3, <1>4 DEF LeaseInv

-----------------------------------------------------------------------------
(* The operations from taking the lock.                                    *)

USE DEF Keep, Leave

\* What becomes of the record of a coroutine that goes on to pc, or ends.
LEMMA GotoProc ==
    ASSUME LeaseInv, NEW p \in Procs, NEW op \in Ops, NEW pc \in Suspended, Goto(p, op, pc)
    PROVE  /\ proc' \in [Procs -> Proc]
           /\ proc'[p].pc = pc
           /\ \A r \in Procs : proc'[r].own = proc[r].own
           /\ \A r \in Procs \ {p} : proc'[r] = proc[r]
  BY DEF Goto, LeaseInv, TypesOK, AnyBundle, Proc

\* A coroutine that is done is idle and without a lease; the others are as they were.
LEMMA DoneProc ==
    ASSUME LeaseInv, NEW p \in Procs, Done(p)
    PROVE  /\ proc' \in [Procs -> Proc]
           /\ proc'[p].pc = "idle" /\ proc'[p].own = 0
           /\ \A r \in Procs \ {p} : proc'[r] = proc[r]
  BY LeaseAssumption DEF Done, Quiet, LeaseInv, TypesOK, AnyBundle, Proc, Ops

\* The lock is left to its queue, or kept.
LEMMA LockType ==
    ASSUME NEW p \in Procs, NEW q \in Seq(Procs), Leave(q) \/ Keep(p, q)
    PROVE  lock' \in [holder : SUBSET Procs, queue : Seq(Procs)]
  OBVIOUS

\* Sharing a bundle, refusing one, and going on to evict or to open one.
LEMMA AcquireInv ==
    ASSUME LeaseInv, NEW p \in Procs, NEW op \in Ops, NEW q \in Seq(Procs),
           lock.holder = {}, proc[p].own = 0, cancels' \in Nat,
           acquire_run_checkpointer(p, op, q), UNCHANGED <<cache, conns, deaths>>
    PROVE  LeaseInv'
  <1> USE DEF LeaseInv
  <1>1. CASE Shared /\ bundle' = [bundle EXCEPT ![cache].leases = @ + 1]
                    /\ proc' = [proc EXCEPT ![p] = [op |-> op, pc |-> "use", own |-> cache]]
                    /\ Leave(q)
    <2>1. cache \in Bundles
      BY <1>1 DEF Shared, TypesOK, AnyBundle, Bundles
    <2>2. TypesOK'
      <3>1. proc' \in [Procs -> Proc]
        BY <1>1 DEF TypesOK, AnyBundle, Proc, Suspended
      <3>2. bundle[cache].leases + 1 \in Nat
        BY <2>1 DEF TypesOK, AnyBundle
      <3> QED  BY <1>1, <2>1, <3>1, <3>2, LockType DEF TypesOK, AnyBundle
    <2>3. /\ bundle'[cache].leases = bundle[cache].leases + 1
          /\ \A g \in Bundles : /\ bundle'[g].state = bundle[g].state
                                /\ bundle'[g].conn = bundle[g].conn
                                /\ g # cache => bundle'[g] = bundle[g]
      BY <1>1, <2>1 DEF TypesOK, AnyBundle
    <2>4. Counted'
      BY <1>1, <2>1, <2>3, CountedUp DEF TypesOK, AnyBundle
    <2>5. LeaseOwned' /\ AloneInside'
      BY <1>1, <2>1, Outside DEF TypesOK, AnyBundle, LeaseOwned, HasLease, AloneInside, Inside, Shared
    <2>6. NoUseAfterClose'
      BY <1>1, <2>1, <2>3 DEF TypesOK, AnyBundle, NoUseAfterClose, Shared
    <2> QED  BY <2>2, <2>4, <2>5, <2>6
  <1>2. CASE UNCHANGED bundle /\ Done(p) /\ Leave(q)
    <2>1. TypesOK'
      BY <1>2, DoneProc, LockType DEF TypesOK, AnyBundle
    <2>2. LeaseOwned' /\ AloneInside'
      BY <1>2, DoneProc, Outside DEF LeaseOwned, HasLease, AloneInside, Inside
    <2>3. Counted' /\ NoUseAfterClose'
      BY <1>2, DoneProc, CountedStays DEF NoUseAfterClose
    <2> QED  BY <2>1, <2>2, <2>3
  <1>3. CASE /\ UNCHANGED bundle /\ Keep(p, q)
             /\ \/ Goto(p, op, "evict") /\ cache # 0 /\ bundle[cache].leases = 0
                \/ Goto(p, op, "open") /\ cache = 0
    <2>0. "evict" \in Suspended /\ "open" \in Suspended
      BY DEF Suspended
    <2>1. TypesOK'
      BY <1>3, <2>0, GotoProc, LockType DEF TypesOK, AnyBundle
    <2>2. LeaseOwned' /\ AloneInside'
      BY <1>3, <2>0, GotoProc, Outside DEF LeaseOwned, HasLease, AloneInside, Inside
    <2>3. Counted' /\ NoUseAfterClose'
      BY <1>3, <2>0, GotoProc, CountedStays DEF NoUseAfterClose
    <2> QED  BY <2>1, <2>2, <2>3
  <1> QED  BY <1>1, <1>2, <1>3 DEF acquire_run_checkpointer

\* The lease of p is on the cached bundle, so it is there that the count goes down.
LEMMA ReleaseInv ==
    ASSUME LeaseInv, NEW p \in Procs, NEW q \in Seq(Procs),
           lock.holder = {}, proc[p].own # 0, cancels' \in Nat,
           release_run_checkpointer(p, q), UNCHANGED <<cache, conns, deaths>>
    PROVE  LeaseInv'
  <1> USE DEF LeaseInv
  <1>1. cache \in Bundles /\ proc[p].own = cache /\ p \in Holders(cache)
    BY DEF NoUseAfterClose, TypesOK, AnyBundle, Bundles, Holders
  <1>2. bundle[cache].leases > 0
    BY <1>1, HoldersFinite, FS_EmptySet DEF Counted, TypesOK, AnyBundle
  <1>3. bundle' = [bundle EXCEPT ![cache].leases = @ - 1]
    BY <1>1, <1>2, LeaseAssumption DEF release_run_checkpointer, Bundles
  <1>4. Done(p) /\ Leave(q)
    BY DEF release_run_checkpointer
  <1>5. TypesOK'
    <2>1. bundle[cache] \in AnyBundle /\ bundle[cache].leases - 1 \in Nat
      BY <1>1, <1>2 DEF TypesOK, AnyBundle
    <2>2. bundle' \in [Bundles -> AnyBundle]
      BY <1>1, <1>3, <2>1 DEF TypesOK, AnyBundle
    <2> QED  BY <1>4, <2>2, DoneProc, LockType DEF TypesOK, AnyBundle
  <1>6. /\ bundle'[cache].leases = bundle[cache].leases - 1
        /\ \A g \in Bundles : /\ bundle'[g].state = bundle[g].state
                              /\ bundle'[g].conn = bundle[g].conn
                              /\ g # cache => bundle'[g] = bundle[g]
    BY <1>1, <1>3 DEF TypesOK, AnyBundle
  <1>7. Counted'
    BY <1>1, <1>4, <1>6, DoneProc, CountedDown
  <1>8. LeaseOwned' /\ AloneInside'
    BY <1>4, DoneProc, Outside DEF LeaseOwned, HasLease, AloneInside, Inside
  <1>9. NoUseAfterClose'
    BY <1>1, <1>4, <1>6, DoneProc DEF NoUseAfterClose
  <1> QED  BY <1>5, <1>7, <1>8, <1>9

\* Only a bundle without users begins to close.
LEMMA CloseInv ==
    ASSUME LeaseInv, NEW p \in Procs, NEW op \in Ops, NEW q \in Seq(Procs),
           lock.holder = {}, proc[p].own = 0, cancels' \in Nat,
           close_run_checkpointer(p, op, q), UNCHANGED <<cache, conns, deaths>>
    PROVE  LeaseInv'
  <1> USE DEF LeaseInv
  <1>0. "again" \in Suspended /\ "closing" \in Suspended
    BY DEF Suspended
  <1>1. CASE UNCHANGED bundle /\ (Done(p) \/ Goto(p, op, "again")) /\ Leave(q)
    <2>1. /\ proc' \in [Procs -> Proc]
          /\ \A r \in Procs : proc'[r].own = proc[r].own
          /\ \A r \in Procs \ {p} : proc'[r] = proc[r]
          /\ proc'[p].pc \in {"idle", "again"}
      BY <1>0, <1>1, DoneProc, GotoProc
    <2>2. TypesOK'
      BY <1>1, <2>1, LockType DEF TypesOK, AnyBundle
    <2>3. LeaseOwned' /\ AloneInside'
      BY <1>1, <2>1, Outside DEF LeaseOwned, HasLease, AloneInside, Inside
    <2>4. Counted' /\ NoUseAfterClose'
      BY <1>1, <2>1, CountedStays DEF NoUseAfterClose
    <2> QED  BY <2>2, <2>3, <2>4
  <1>2. CASE /\ cache # 0 /\ bundle[cache].leases = 0
             /\ bundle' = [bundle EXCEPT ![cache].state = "closing"]
             /\ Goto(p, op, "closing") /\ Keep(p, q)
    <2>1. cache \in Bundles /\ \A r \in Procs : proc[r].own = 0
      BY <1>2, NoUsers DEF TypesOK, AnyBundle, Bundles
    <2>2. /\ proc' \in [Procs -> Proc]
          /\ \A r \in Procs : proc'[r].own = proc[r].own
          /\ \A r \in Procs \ {p} : proc'[r] = proc[r]
          /\ proc'[p].pc = "closing"
      BY <1>0, <1>2, GotoProc
    <2>3. TypesOK'
      BY <1>2, <2>1, <2>2, LockType DEF TypesOK, AnyBundle
    <2>4. \A g \in Bundles : /\ bundle'[g].leases = bundle[g].leases
                            /\ bundle'[g].conn = bundle[g].conn
      BY <1>2, <2>1 DEF TypesOK, AnyBundle
    <2>5. Counted' /\ NoUseAfterClose'
      BY <2>1, <2>2, <2>4, CountedStays DEF NoUseAfterClose
    <2>6. LeaseOwned' /\ AloneInside'
      BY <1>2, <2>1, <2>2, <2>4, Outside DEF LeaseOwned, HasLease, AloneInside, Inside
    <2> QED  BY <2>3, <2>5, <2>6
  <1> QED  BY <1>1, <1>2 DEF close_run_checkpointer

\* The section of an operation, entered by a coroutine that has a lease exactly if
\* it is about to release one.
LEMMA SectionInv ==
    ASSUME LeaseInv, NEW p \in Procs, NEW op \in Ops, NEW pc, NEW q \in Seq(Procs),
           lock.holder = {}, proc[p].own # 0 <=> pc = "release", cancels' \in Nat,
           Section(p, op, pc, q)
    PROVE  LeaseInv'
  BY AcquireInv, ReleaseInv, CloseInv DEF Section

\* Calling an operation: through the section at once, or into the queue.
LEMMA CallInv ==
    ASSUME LeaseInv, NEW p \in Procs, NEW op \in Ops, NEW pc \in {"acquire", "release", "close"},
           proc[p].own # 0 <=> pc = "release", proc[p].pc \notin Inside, cancels' \in Nat,
           Call(p, op, pc)
    PROVE  LeaseInv'
  <1>1. CASE Free /\ Section(p, op, pc, <<>>)
    BY <1>1, SectionInv, EmptySeq DEF Free, NoLock
  <1>2. CASE /\ Goto(p, op, pc) /\ lock' = [lock EXCEPT !.queue = Append(@, p)]
             /\ UNCHANGED <<cache, bundle, conns, deaths>>
    <2>1. /\ proc' \in [Procs -> Proc] /\ proc'[p].pc = pc
          /\ \A r \in Procs : proc'[r].own = proc[r].own
          /\ \A r \in Procs \ {p} : proc'[r] = proc[r]
      <3>1. pc \in Suspended
        BY DEF Suspended
      <3> QED  BY <1>2, <3>1, GotoProc
    <2>2. /\ lock' \in [holder : SUBSET Procs, queue : Seq(Procs)]
          /\ lock'.holder = lock.holder
      <3>1. lock \in [holder : SUBSET Procs, queue : Seq(Procs)]
        BY DEF LeaseInv, TypesOK
      <3>2. Append(lock.queue, p) \in Seq(Procs)
        BY <3>1, AppendProperties
      <3> QED  BY <1>2, <3>1, <3>2
    <2>3. TypesOK'
      BY <1>2, <2>1, <2>2 DEF LeaseInv, TypesOK
    <2>4. LeaseOwned' /\ AloneInside'
      BY <1>2, <2>1, <2>2 DEF LeaseInv, LeaseOwned, HasLease, AloneInside, Inside
    <2>5. Counted' /\ NoUseAfterClose'
      BY <1>2, <2>1, CountedStays DEF LeaseInv, NoUseAfterClose
    <2> QED  BY <2>3, <2>4, <2>5 DEF LeaseInv
  <1> QED  BY <1>1, <1>2 DEF Call

-----------------------------------------------------------------------------
(* Coroutines.                                                             *)

\* Every call that a coroutine makes, and the wake-up of one that waits.
LEMMA CallerInv ==
    ASSUME LeaseInv, NEW p \in Procs,
           \/ \E op \in Ops \ {"none"} : Start(p, op)
           \/ Wake(p) \/ EndUse(p) \/ Reacquire(p)
    PROVE  LeaseInv'
  <1>0. cancels \in Nat /\ proc[p] \in Proc /\ "reconnect" \in Ops
    BY DEF LeaseInv, TypesOK, Ops
  <1>1. ASSUME NEW op \in Ops \ {"none"}, Start(p, op)
        PROVE  LeaseInv'
    BY <1>0, <1>1, CallInv DEF Start, LeaseInv, LeaseOwned, HasLease, Inside
  <1>2. CASE Wake(p)
    <2>1. lock.holder = {} /\ Tail(lock.queue) \in Seq(Procs)
      BY <1>2, HeadTailProperties DEF Wake, First, LeaseInv, TypesOK
    <2>2. proc[p].pc \in {"acquire", "release", "close"}
      BY <1>2 DEF Wake, Section
    <2>3. proc[p].own # 0 <=> proc[p].pc = "release"
      BY <2>2 DEF LeaseInv, LeaseOwned, HasLease
    <2> QED  BY <1>0, <1>2, <2>1, <2>3, SectionInv DEF Wake, Proc
  <1>3. CASE EndUse(p)
    BY <1>0, <1>3, CallInv DEF EndUse, LeaseInv, LeaseOwned, HasLease, Inside, Proc
  <1>4. CASE Reacquire(p)
    BY <1>0, <1>4, CallInv DEF Reacquire, LeaseInv, LeaseOwned, HasLease, Inside
  <1> QED  BY <1>1, <1>2, <1>3, <1>4

\* A new bundle takes the place of none, so it is the only one with a connection.
LEMMA OpenedInv == ASSUME LeaseInv, NEW p \in Procs, Opened(p)
                   PROVE  LeaseInv'
  <1> USE DEF LeaseInv
  <1> PICK g \in Bundles : g = conns + 1
    BY LeaseAssumption DEF Opened, TypesOK, Bundles
  <1>1. /\ cache = 0 /\ lock.holder = {p} /\ g # 0 /\ g \in 0..MaxConns
        /\ \A r \in Procs : proc[r].own = 0
        /\ \A h \in Bundles : bundle[h].conn = "none"
    BY NoUsers, LeaseAssumption
       DEF Opened, AloneInside, Inside, TypesOK, Bundles, NoUseAfterClose
  <1>2. /\ cache' = g /\ conns' = g /\ UNCHANGED <<deaths, cancels>>
        /\ bundle' = [bundle EXCEPT ![g] = [leases |-> 1, state |-> "live", conn |-> "open"]]
        /\ Leave(lock.queue)
    BY DEF Opened, Unlock
  <1>3. /\ proc' \in [Procs -> Proc] /\ proc'[p].pc = "use" /\ proc'[p].own = g
        /\ \A r \in Procs \ {p} : proc'[r] = proc[r]
    BY <1>1 DEF Opened, TypesOK, Proc, Suspended
  <1>4. TypesOK'
    <2>1. lock.queue \in Seq(Procs)
      BY DEF TypesOK
    <2>2. bundle' \in [Bundles -> AnyBundle]
      BY <1>1, <1>2 DEF TypesOK, AnyBundle
    <2> QED  BY <1>1, <1>2, <1>3, <2>1, <2>2, LockType DEF TypesOK
  <1>5. LeaseOwned' /\ AloneInside'
    BY <1>1, <1>2, <1>3 DEF LeaseOwned, HasLease, AloneInside, Inside
  <1>6. NoUseAfterClose'
    BY <1>1, <1>2, <1>3 DEF TypesOK, AnyBundle, NoUseAfterClose
  <1>7. Counted'
    <2>1. Holders(g)' = {p} /\ \A h \in Bundles \ {g} : Holders(h)' = {}
      BY <1>1, <1>3, LeaseAssumption DEF Holders, Bundles
    <2>2. \A h \in Bundles : Holders(h) = {}
      BY <1>1, NoUsers
    <2>3. Cardinality(Holders(g)') = 1 /\ bundle'[g].leases = 1
      BY <1>1, <1>2, <2>1, FS_Singleton DEF TypesOK
    <2>4. \A h \in Bundles \ {g} : Holders(h)' = Holders(h) /\ bundle'[h] = bundle[h]
      BY <1>2, <2>1, <2>2 DEF TypesOK
    <2> QED  BY <2>3, <2>4 DEF Counted
  <1> QED  BY <1>4, <1>5, <1>6, <1>7

\* A coroutine that was inside leaves with the scope as it is, by failing or by
\* being cancelled.
LEMMA LeavesInv ==
    ASSUME LeaseInv, NEW p \in Procs, proc[p].pc \in Inside, Done(p), Unlock,
           UNCHANGED <<cache, bundle, conns, deaths>>, cancels' \in Nat
    PROVE  LeaseInv'
  <1> USE DEF LeaseInv
  <1>1. proc[p].own = 0 /\ lock.holder = {p} /\ lock.queue \in Seq(Procs)
    BY DEF LeaseOwned, HasLease, Inside, AloneInside, TypesOK
  <1>2. TypesOK'
    BY <1>1, DoneProc, LockType DEF Unlock, TypesOK
  <1>3. \A r \in Procs \ {p} : proc[r].pc \notin Inside
    BY <1>1 DEF AloneInside
  <1>4. LeaseOwned' /\ AloneInside'
    BY <1>3, DoneProc DEF LeaseOwned, HasLease, AloneInside, Inside
  <1>5. Counted' /\ NoUseAfterClose'
    BY <1>1, DoneProc, CountedStays DEF NoUseAfterClose
  <1> QED  BY <1>2, <1>4, <1>5

\* The bundle that p closes has no users, and with it goes the last connection.
LEMMA GoneInv ==
    ASSUME LeaseInv, NEW p \in Procs, proc[p].pc \in {"evict", "closing"},
           bundle' = Gone, cache' = 0
    PROVE  /\ lock.holder = {p} /\ \A r \in Procs : proc[r].own = 0
           /\ \A r \in Procs \ {p} : proc[r].pc \notin Inside
           /\ bundle' \in [Bundles -> AnyBundle]
           /\ \A g \in Bundles : bundle'[g].leases = bundle[g].leases /\ bundle'[g].conn = "none"
  <1> USE DEF LeaseInv
  <1>1. lock.holder = {p} /\ cache # 0 /\ bundle[cache].leases = 0
    BY DEF AloneInside, Inside
  <1>2. \A r \in Procs \ {p} : proc[r].pc \notin Inside
    BY <1>1 DEF AloneInside
  <1>3. cache \in Bundles
    BY <1>1 DEF TypesOK, Bundles
  <1>4. bundle' \in [Bundles -> AnyBundle]
    BY <1>3 DEF Gone, TypesOK, AnyBundle
  <1>5. \A g \in Bundles : bundle'[g].leases = bundle[g].leases /\ bundle'[g].conn = "none"
    BY <1>3 DEF Gone, TypesOK, AnyBundle, NoUseAfterClose
  <1> QED  BY <1>1, <1>2, <1>4, <1>5, NoUsers

\* SQLite has closed the connection: the bundle is dropped, and an eviction goes on
\* to open the next one under the same lock.
LEMMA DroppedInv == ASSUME LeaseInv, NEW p \in Procs, Evicted(p) \/ Closed(p)
                    PROVE  LeaseInv'
  <1> USE DEF LeaseInv
  <1>1. /\ lock.holder = {p} /\ \A r \in Procs : proc[r].own = 0
        /\ \A r \in Procs \ {p} : proc[r].pc \notin Inside
        /\ bundle' \in [Bundles -> AnyBundle] /\ cache' = 0
        /\ \A g \in Bundles : bundle'[g].leases = bundle[g].leases /\ bundle'[g].conn = "none"
    BY GoneInv DEF Evicted, Closed
  <1>2. lock \in [holder : SUBSET Procs, queue : Seq(Procs)] /\ lock.queue \in Seq(Procs)
    BY DEF TypesOK
  <1>3. /\ proc' \in [Procs -> Proc]
        /\ \A r \in Procs : proc'[r].own = 0
        /\ \A r \in Procs \ {p} : proc'[r] = proc[r]
        /\ proc'[p].pc = "open" \/ (proc'[p].pc \in {"idle", "again"} /\ Unlock)
        /\ proc'[p].pc = "open" => lock' = lock
        /\ UNCHANGED <<conns, deaths, cancels>>
    <2>1. CASE Evicted(p)
      BY <1>1, <2>1 DEF Evicted, TypesOK, Proc, Suspended
    <2>2. CASE Closed(p)
      <3>1. "reconnect" \in Ops /\ "again" \in Suspended
        BY DEF Ops, Suspended
      <3>2. Done(p) \/ Goto(p, "reconnect", "again")
        BY <2>2 DEF Closed
      <3>3. /\ proc' \in [Procs -> Proc]
            /\ \A r \in Procs : proc'[r].own = 0
            /\ \A r \in Procs \ {p} : proc'[r] = proc[r]
            /\ proc'[p].pc \in {"idle", "again"}
        BY <1>1, <3>1, <3>2, DoneProc, GotoProc
      <3> QED  BY <2>2, <3>3 DEF Closed
    <2> QED  BY <2>1, <2>2
  <1>4. TypesOK'
    <2>1. lock' \in [holder : SUBSET Procs, queue : Seq(Procs)]
      BY <1>2, <1>3, LockType DEF Unlock
    <2> QED  BY <1>1, <1>3, <2>1, LeaseAssumption DEF TypesOK
  <1>5. LeaseOwned' /\ AloneInside'
    BY <1>1, <1>3 DEF LeaseOwned, HasLease, AloneInside, Inside
  <1>6. Counted' /\ NoUseAfterClose'
    BY <1>1, <1>3, CountedStays DEF NoUseAfterClose
  <1> QED  BY <1>4, <1>5, <1>6

\* A connection dies by itself: nothing else changes.
LEMMA DiesInv == ASSUME LeaseInv, NEW g \in Bundles, Dies(g)
                 PROVE  LeaseInv'
  <1> USE DEF LeaseInv
  <1>1. /\ bundle' \in [Bundles -> AnyBundle] /\ deaths' \in 0..MaxDeaths
        /\ UNCHANGED <<lock, cache, conns, proc, cancels>>
        /\ \A h \in Bundles : /\ bundle'[h].leases = bundle[h].leases
                              /\ bundle'[h].state = bundle[h].state
                              /\ bundle'[h].conn # "none" => bundle[h].conn # "none"
    <2>1. deaths' \in 0..MaxDeaths
      BY LeaseAssumption DEF Dies, TypesOK
    <2>2. bundle' = [bundle EXCEPT ![g].conn = "dead"] /\ bundle[g].conn = "open"
      BY DEF Dies
    <2>3. bundle' \in [Bundles -> AnyBundle]
      BY <2>2 DEF TypesOK, AnyBundle
    <2> QED  BY <2>1, <2>2, <2>3 DEF Dies, TypesOK, AnyBundle
  <1>2. TypesOK' /\ LeaseOwned'
    BY <1>1 DEF TypesOK, LeaseOwned, HasLease
  <1>3. cache # 0 => cache \in Bundles
    BY DEF TypesOK, Bundles
  <1>4. AloneInside' /\ NoUseAfterClose'
    <2>1. \A p \in Procs : proc[p].own # 0 => cache \in Bundles
      BY <1>3 DEF NoUseAfterClose
    <2> QED  BY <1>1, <1>3, <2>1 DEF AloneInside, Inside, NoUseAfterClose
  <1>5. Counted'
    BY <1>1, CountedStays
  <1> QED  BY <1>2, <1>4, <1>5

\* Wherever a coroutine is cancelled; only a cancelled release leaves a count too high.
LEMMA CancelInv == ASSUME LeaseInv, NEW p \in Procs, Cancel(p)
                   PROVE  LeaseInv'
  <1> USE DEF LeaseInv
  <1>0. cancels' \in Nat /\ proc[p] \in Proc /\ cancels \in Nat
    BY DEF Cancel, TypesOK
  <1>1. CASE /\ proc[p].pc \in {"acquire", "close", "release"} /\ Unqueue(p) /\ Done(p)
             /\ UNCHANGED <<cache, bundle, conns, deaths>>
    <2>1. /\ lock' \in [holder : SUBSET Procs, queue : Seq(Procs)]
          /\ lock'.holder = lock.holder
      BY <1>1, UnqueueType DEF TypesOK
    <2>2. TypesOK'
      BY <1>0, <1>1, <2>1, DoneProc DEF TypesOK
    <2>3. LeaseOwned' /\ AloneInside'
      BY <1>1, <2>1, DoneProc DEF LeaseOwned, HasLease, AloneInside, Inside
    <2>4. NoUseAfterClose'
      BY <1>1, DoneProc DEF NoUseAfterClose
    <2>5. Counted'
      <3>1. CASE proc[p].own = 0
        BY <1>1, <3>1, DoneProc, CountedStays
      <3>2. CASE proc[p].own # 0
        <4>1. proc[p].pc = "release" /\ proc[p].own \in Bundles
          BY <1>0, <1>1, <3>2 DEF LeaseOwned, HasLease, Proc, Bundles
        <4>2. FinalCancels # 0
          BY <1>0, <4>1, LeaseAssumption DEF Cancel
        <4> QED  BY <1>1, <4>1, <4>2, DoneProc, CountedDown
      <3> QED  BY <3>1, <3>2
    <2> QED  BY <2>2, <2>3, <2>4, <2>5
  <1>2. CASE /\ proc[p].pc \in Inside /\ Unlock /\ Done(p)
             /\ UNCHANGED <<cache, bundle, conns, deaths>>
    BY <1>0, <1>2, LeavesInv
  <1>3. CASE proc[p].pc = "use" /\ Call(p, proc[p].op, "release")
    BY <1>0, <1>3, CallInv DEF LeaseOwned, HasLease, Inside, Proc
  <1> QED  BY <1>1, <1>2, <1>3 DEF Cancel, Inside

-----------------------------------------------------------------------------
(* The theorems.                                                           *)

\* Every step keeps the invariant.
LEMMA LeaseStepInv == LeaseInv /\ [LeaseNext]_leaseVars => LeaseInv'
  <1> SUFFICES ASSUME LeaseInv, [LeaseNext]_leaseVars  PROVE LeaseInv'
    OBVIOUS
  <1>1. CASE UNCHANGED leaseVars
    BY <1>1 DEF leaseVars, LeaseInv, TypesOK, LeaseOwned, HasLease, AloneInside, Inside, Counted,
                NoUseAfterClose, Holders
  <1>2. ASSUME NEW p \in Procs, \/ \E op \in Ops \ {"none"} : Start(p, op)
                                \/ Advance(p) \/ EndUse(p) \/ Cancel(p)
        PROVE  LeaseInv'
    <2>1. CASE OpenFails(p)
      BY <2>1, LeavesInv DEF OpenFails, Inside, LeaseInv, TypesOK
    <2> QED  BY <1>2, <2>1, CallerInv, OpenedInv, DroppedInv, CancelInv DEF Advance
  <1>3. ASSUME NEW g \in Bundles, Dies(g)  PROVE LeaseInv'
    BY <1>3, DiesInv
  <1> QED  BY <1>1, <1>2, <1>3 DEF LeaseNext

\* No bundle is closed, closing or replaced under a coroutine that uses it, and a
\* scope has one connection, for any number of coroutines, deaths and cancellations,
\* also of those that hit the release in finally (acquire_run_checkpointer,
\* close_run_checkpointer, reconnect_run_checkpointer, eviction).
THEOREM NeverClosedInUse == LeaseSpec => []NoUseAfterClose
  <1>1. LeaseInv => NoUseAfterClose
    BY DEF LeaseInv
  <1> QED  BY <1>1, LeaseInitInv, LeaseStepInv, PTL DEF LeaseSpec

\* lease_count is the number of coroutines with a lease, when no cancellation hits a
\* release in finally (acquire_run_checkpointer, release_run_checkpointer).
THEOREM LeasesCounted == ASSUME FinalCancels = 0
                         PROVE  LeaseSpec => []LeaseCount
  <1>1. LeaseInv => LeaseCount
    <2> SUFFICES ASSUME LeaseInv  PROVE LeaseCount
      OBVIOUS
    <2>1. \A g \in Bundles : /\ bundle[g] \in AnyBundle
                            /\ bundle[g].leases = Cardinality(Holders(g))
      BY DEF LeaseInv, TypesOK, Counted
    <2>2. bundle \in [Bundles -> Bundle]
      <3>1. Cardinality(Procs) \in Nat
        BY LeaseAssumption, FS_CardinalityType
      <3>2. \A g \in Bundles : bundle[g].leases \in 0..Cardinality(Procs)
        BY <2>1, <3>1, HoldersFinite
      <3>3. \A g \in Bundles : bundle[g] \in Bundle
        BY <2>1, <3>2 DEF Bundle, AnyBundle
      <3> QED  BY <3>3 DEF LeaseInv, TypesOK
    <2> QED  BY <2>1, <2>2 DEF LeaseInv, TypesOK, LeaseCount, LeaseTypeOK
  <1> QED  BY <1>1, LeaseInitInv, LeaseStepInv, PTL DEF LeaseSpec

-----------------------------------------------------------------------------
(* The shutdown of the runtime.                                            *)
(*                                                                         *)
(* NeverUnderWork for any number of streams and host jobs: no close of the *)
(* runtime takes a checkpointer or a session from under the work that uses *)
(* it.  NeverUnderWork does not support itself.  A lease is safe because,  *)
(* as long as the graph is there and the locks are kept, whoever opens the *)
(* bundle is alone and finds none there (OpeningAlone), nobody gets one    *)
(* while it is closed (ScopeIsClosing), and without the graph no bundle is *)
(* closed any more (ClosingHasGraph); a cancelled                          *)
(* task is done beyond the first stage because a task leaves the registry  *)
(* only when it ends (CancelledAccounted).                                 *)

\* Until the locks are forgotten one task at a time opens the bundle, and while it does
\* there is none.
OpeningAlone == graph \/ rt = "created" => /\ In({"opening"}) # {} => scope = "none"
                                           /\ In({"opening"}) = opener
                                           /\ \A v, w \in opener : v = w

\* A close comes after the start, and one that comes to the bundles has the graph.
ClosingHasGraph == /\ closer # "idle" => rt # "created"
                   /\ closer \in {"leases", "scopes"} \/ scope = "closing" => graph

\* Sessions are in the hands of those who have a lease.
BorrowersLease == borrows \subseteq In({"leased"})

\* A cancelled task is registered or done.
CancelledAccounted == cancelled \subseteq tracked \cup In({"ended"})

\* The close that is past the leases has the bundle marked as closing.
ScopeIsClosing == closer = "scopes" <=> scope = "closing"

\* Requests are accepted from streams.
AcceptedStreams == In({"accepted"}) \subseteq Streams

ShutInv == /\ NeverUnderWork /\ OpeningAlone /\ BorrowersLease
           /\ CancelledAccounted /\ ScopeIsClosing /\ ClosingHasGraph /\ AcceptedStreams

\* A new runtime satisfies the invariant.
LEMMA ShutInitInv == ShutInit => ShutInv
  BY DEF ShutInit, ShutInv, NeverUnderWork, ShutTypeOK, OpeningAlone, BorrowersLease,
         CancelledAccounted, ScopeIsClosing, ClosingHasGraph, AcceptedStreams, In, Work, Live, RtState, WorkState, Stages

USE DEF ShutInv, NeverUnderWork, ShutTypeOK, OpeningAlone, BorrowersLease, CancelledAccounted,
        ScopeIsClosing, ClosingHasGraph, AcceptedStreams, In, Goes, Live, WorkState, RtState, Stages, closeVars, workVars

\* Accepting a request, creating its task and starting a host job.
LEMMA BeginInv == ASSUME ShutInv, NEW w \in Work,
                         \/ require_open(w) \/ track(w)
                         \/ \E j \in Jobs : StartJob(w, j)
                  PROVE  ShutInv'
<1>1. CASE require_open(w)
  BY <1>1 DEF require_open
<1>2. CASE track(w)
  <2>1. w \in Streams \/ tracked' = tracked
    BY <1>2 DEF track
  <2> QED  BY <1>2, <2>1 DEF track
<1>3. CASE \E j \in Jobs : StartJob(w, j)
  BY <1>3 DEF StartJob, Work
<1> QED  BY <1>1, <1>2, <1>3

\* Taking the lease of a run: the bundle is shared, or opened by one task.
LEMMA WorkLeaseInv == ASSUME ShutInv, NEW w \in Work, Acquire(w) \/ BundleOpened(w) \/ Release(w)
                  PROVE  ShutInv'
<1>1. CASE Acquire(w)  BY <1>1 DEF Acquire
<1>2. CASE BundleOpened(w)   BY <1>2 DEF BundleOpened
<1>3. CASE Release(w)  BY <1>3 DEF Release
<1> QED  BY <1>1, <1>2, <1>3

\* Borrowing and returning a session, and the end of a task.
LEMMA SessionInv == ASSUME ShutInv, NEW w \in Work, Borrow(w) \/ Return(w) \/ End(w)
                    PROVE  ShutInv'
<1>1. CASE Borrow(w)  BY <1>1 DEF Borrow
<1>2. CASE Return(w)  BY <1>2 DEF Return
<1>3. CASE End(w)     BY <1>3 DEF End
<1> QED  BY <1>1, <1>2, <1>3

\* Every stage of a close, the deadlines included.
LEMMA ShutCloseInv == ASSUME ShutInv, start \/ CloseBegin \/ CloseStep
                  PROVE  ShutInv'
<1>1. CASE start         BY <1>1 DEF start
<1>2. CASE CloseBegin    BY <1>2 DEF CloseBegin
<1>3. CASE TasksDone     BY <1>3 DEF TasksDone
<1>4. CASE LeasesPolled  BY <1>4 DEF LeasesPolled
<1>5. CASE ScopeClosed   BY <1>5 DEF ScopeClosed
<1>6. CASE PoolDrained   BY <1>6 DEF PoolDrained
<1> QED  BY <1>1, <1>2, <1>3, <1>4, <1>5, <1>6 DEF CloseStep

\* Every step of the system keeps the invariant.
LEMMA ShutStepInv == ShutInv /\ [ShutNext]_shutVars => ShutInv'
<1> SUFFICES ASSUME ShutInv, [ShutNext]_shutVars  PROVE ShutInv'
  OBVIOUS
<1>1. CASE UNCHANGED shutVars
  BY <1>1 DEF shutVars
<1>2. CASE start \/ CloseBegin \/ CloseStep
  BY <1>2, ShutCloseInv
<1>3. ASSUME NEW w \in Work, \/ require_open(w) \/ track(w) \/ Acquire(w) \/ Borrow(w)
                             \/ Ends(w) \/ \E j \in Jobs : StartJob(w, j)
      PROVE  ShutInv'
  BY <1>3, BeginInv, WorkLeaseInv, SessionInv DEF Ends
<1> QED  BY <1>1, <1>2, <1>3 DEF ShutNext

\* Shutdown never closes a checkpointer under a lease or the pool under a borrower, and
\* what it has cancelled is done beyond the first stage: for every number of streams,
\* host jobs, deadlines and renewed closes (ApplicationRuntime.close,
\* aclose_runtime_resources, TaskRegistry.shutdown, PostgresMcpPool.close).
THEOREM ShutdownIsSafe == ShutSpec => []NeverUnderWork
<1>1. ShutInv => NeverUnderWork
  OBVIOUS
<1> HIDE DEF ShutInv, NeverUnderWork
<1> QED  BY <1>1, ShutInitInv, ShutStepInv, PTL DEF ShutSpec
=============================================================================
