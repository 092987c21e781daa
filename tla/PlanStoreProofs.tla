--------------------------- MODULE PlanStoreProofs ---------------------------
(***************************************************************************)
(* PlanStore, for any number of processes, inventories and facts: whatever *)
(* is cut off or fails, the pointer and the views name whole revisions,    *)
(* they agree when nobody publishes and no publication was cut off, and a  *)
(* decision is kept until the next publication.                            *)
(***************************************************************************)
EXTENDS PlanStore, TLAPS

Holding == Publishing \cup Undoing
Deciding == {"source", "fresh", "match", "current", "source2", "current2", "fresh2", "claim", "run"}
Named(f) == f \in revs \cup {None, Bad}

\* One process publishes at a time, and it is the one that has the lock.
LockOK == /\ lock = {} \/ \E p \in Procs : lock = {p}
          /\ \A p \in Procs : op[p].pc \in Holding <=> p \in lock

\* What an operation has in hand at each of its steps.
HasInHand(p) ==
    /\ op[p].pc = "discover" => op[p].new.inv \in Invs
    /\ op[p].pc \in {"save", "saved", "lock", "dir"} => op[p].new \in Rev
    /\ op[p].pc \in {"latest", "view", "pointer"} => op[p].new \in revs
    /\ op[p].pc \in Holding => /\ Named(op[p].before.latest.rev)
                               /\ Named(op[p].before.view) /\ Named(op[p].before.pointer)
    /\ op[p].kind # "analyze" => op[p].rev \in Rev
    /\ op[p].pc \in Deciding => op[p].kind # "analyze"
OpOK == \A p \in Procs : HasInHand(p)

\* How far a publication has come: which files are new already and, unless an earlier
\* publication was cut off, that the others and the memory are what the files were.
Stage(b, o) ==
    /\ o.pc \in {"view", "pointer"} => latest = [rev |-> o.new, status |-> "draft"]
    /\ o.pc = "pointer" => view = o.new
    /\ ~torn =>
         /\ b.latest.rev = b.pointer /\ b.view = b.pointer
         /\ decision # None => b.latest = decision
         /\ o.pc \in {"dir", "latest", "undoView", "undoPointer"} => latest = b.latest
         /\ o.pc \in {"dir", "latest", "view", "undoPointer"} => view = b.view
         /\ o.pc \in Holding \ {"undoPointer"} => pointer = b.pointer
StageOK == \A p \in lock : Stage(op[p].before, op[p])

PlanInv == PointerPublished /\ LockOK /\ OpOK /\ ViewsAgree /\ DecisionKept /\ StageOK

-----------------------------------------------------------------------------
(* What a step does to the operation of its process.                       *)

\* Idle is a record of the right type.
LEMMA IdleType == Idle \in Op
  BY DEF Idle, Op, New, Before, NoRev, NoPlan, PlanFile, File, Statuses, Pc

\* Goes changes the place of one process and nothing else of its operation.
LEMMA GoesOp ==
  ASSUME op \in [Procs -> Op], NEW p \in Procs, NEW x \in Pc, Goes(p, x)
  PROVE  /\ op' \in [Procs -> Op]
         /\ \A q \in Procs \ {p} : op'[q] = op[q]
         /\ op'[p].pc = x /\ op'[p].kind = op[p].kind /\ op'[p].rev = op[p].rev
         /\ op'[p].status = op[p].status /\ op'[p].new = op[p].new
         /\ op'[p].before = op[p].before
  BY DEF Goes, Op

\* An analysis goes on with what it has found.
LEMMA GoesWithOp ==
  ASSUME op \in [Procs -> Op], NEW p \in Procs, NEW x \in Pc, NEW n \in New,
         GoesWith(p, x, n)
  PROVE  /\ op' \in [Procs -> Op]
         /\ \A q \in Procs \ {p} : op'[q] = op[q]
         /\ op'[p].pc = x /\ op'[p].kind = op[p].kind /\ op'[p].rev = op[p].rev
         /\ op'[p].new = n
  BY DEF GoesWith, Op

\* A publication begins with what the files are.
LEMMA RemembersOp ==
  ASSUME op \in [Procs -> Op], NEW p \in Procs, NEW x \in Pc, NEW b \in Before,
         Remembers(p, x, b)
  PROVE  /\ op' \in [Procs -> Op]
         /\ \A q \in Procs \ {p} : op'[q] = op[q]
         /\ op'[p].pc = x /\ op'[p].kind = op[p].kind /\ op'[p].rev = op[p].rev
         /\ op'[p].new = op[p].new /\ op'[p].before = b
  BY DEF Remembers, Op

\* Ends leaves the process without an operation.
LEMMA EndsOp ==
  ASSUME op \in [Procs -> Op], NEW p \in Procs, Ends(p)
  PROVE  /\ op' \in [Procs -> Op]
         /\ \A q \in Procs \ {p} : op'[q] = op[q]
         /\ op'[p].pc = "idle" /\ op'[p].kind = "analyze"
  BY IdleType DEF Ends, Idle

-----------------------------------------------------------------------------

\* The empty store satisfies the invariant.
LEMMA InitInv == PlanInit => PlanInv
  <1>1. SUFFICES ASSUME PlanInit PROVE PlanInv
    OBVIOUS
  <1>2. op \in [Procs -> Op] /\ \A p \in Procs : op[p].pc = "idle" /\ op[p].kind = "analyze"
    BY <1>1, IdleType DEF PlanInit, Idle
  <1>3. PointerPublished
    <2>1. latest \in PlanFile
      BY <1>1 DEF PlanInit, NoPlan, PlanFile, File, Statuses
    <2>2. /\ ops \in 0..MaxOps /\ changes \in 0..MaxChanges
          /\ faults \in 0..MaxFaults /\ crashes \in 0..MaxCrashes
      BY <1>1, PlanAssumption DEF PlanInit
    <2>3. torn \in BOOLEAN
      BY <1>1 DEF PlanInit
    <2>4. /\ source \in Invs /\ facts \in Facts /\ revs \subseteq Rev
          /\ view \in File /\ pointer \in File /\ preflight \in File /\ lock \subseteq Procs
          /\ started \subseteq Rev /\ decision \in PlanFile \cup {None}
          /\ {pointer, view, latest.rev} \subseteq revs \cup {None, Bad}
      BY <1>1 DEF PlanInit, File, NoPlan
    <2> QED
      BY <1>2, <2>1, <2>2, <2>3, <2>4 DEF PointerPublished, PlanTypeOK
  <1>4. LockOK /\ OpOK /\ StageOK
    BY <1>1, <1>2 DEF PlanInit, LockOK, OpOK, HasInHand, StageOK, Holding, Publishing, Undoing, Deciding
  <1>5. ViewsAgree /\ DecisionKept
    BY <1>1 DEF PlanInit, ViewsAgree, DecisionKept, NoPlan
  <1> QED
    BY <1>3, <1>4, <1>5 DEF PlanInv

-----------------------------------------------------------------------------
(* Steps of a process that does not publish, before and after.             *)

\* They leave the files alone, so what is known of the files stays.
LEMMA Quiet ==
  ASSUME PlanInv, PlanTypeOK', NEW p \in Procs,
         UNCHANGED <<files, lock, history>>,
         \A q \in Procs \ {p} : op'[q] = op[q],
         op[p].pc \notin Holding, op'[p].pc \notin Holding, HasInHand(p)'
  PROVE  PlanInv'
  <1>1. PointerPublished' /\ ViewsAgree' /\ DecisionKept'
    BY DEF PlanInv, PointerPublished, ViewsAgree, DecisionKept, files, history
  <1>2. LockOK'
    BY DEF PlanInv, LockOK
  <1>3. OpOK'
    BY DEF PlanInv, OpOK, HasInHand, Named, files
  <1>4. StageOK'
    <2> SUFFICES ASSUME NEW q \in Procs, q \in lock PROVE Stage(op[q].before, op[q])'
      BY DEF StageOK, PlanTypeOK
    <2>1. q # p /\ op'[q] = op[q]
      BY DEF PlanInv, LockOK
    <2>2. Stage(op[q].before, op[q])
      BY DEF PlanInv, StageOK
    <2> QED
      BY <2>1, <2>2 DEF Stage, files, history
  <1> QED
    BY <1>1, <1>2, <1>3, <1>4 DEF PlanInv

\* A process that was not publishing and goes on elsewhere, with the same in hand.
LEMMA QuietGoes ==
  ASSUME PlanInv, NEW p \in Procs, NEW x \in Pc \ Holding, Goes(p, x),
         UNCHANGED <<files, lock, history, source, facts, changes, preflight, ops, faults, crashes>>,
         op[p].pc \notin Holding,
         x \in Deciding => op[p].kind # "analyze",
         x \in {"load"} \cup Deciding
  PROVE  PlanInv'
  <1>1. op \in [Procs -> Op] /\ HasInHand(p)
    BY DEF PlanInv, PointerPublished, PlanTypeOK, OpOK
  <1>2. PlanTypeOK'
    BY <1>1, GoesOp DEF PlanInv, PointerPublished, PlanTypeOK, files, history
  <1>3. HasInHand(p)'
    BY <1>1, GoesOp DEF HasInHand, Named, files, Deciding
  <1> QED
    BY <1>1, <1>2, <1>3, GoesOp, Quiet

\* A process that was not publishing and ends.
LEMMA QuietEnds ==
  ASSUME PlanInv, NEW p \in Procs, Ends(p),
         UNCHANGED <<files, lock, history, source, facts, changes, preflight, ops, crashes>>,
         faults' \in 0..MaxFaults,
         op[p].pc \notin Holding
  PROVE  PlanInv'
  <1>1. op \in [Procs -> Op]
    BY DEF PlanInv, PointerPublished, PlanTypeOK
  <1>2. PlanTypeOK'
    BY <1>1, EndsOp DEF PlanInv, PointerPublished, PlanTypeOK, files, history
  <1>3. HasInHand(p)'
    BY <1>1, EndsOp DEF HasInHand, Holding, Publishing, Undoing, Deciding
  <1>4. op'[p].pc \notin Holding
    BY <1>1, EndsOp DEF Holding, Publishing, Undoing
  <1> QED
    BY <1>1, <1>2, <1>3, <1>4, EndsOp, Quiet

\* The commands, the analysis up to the lock, and the checks.
LEMMA QuietSteps ==
  ASSUME PlanInv, NEW p \in Procs,
         \/ Command(p) \/ Load(p) \/ Discover(p) \/ SavePreflight(p)
         \/ CheckSource(p) \/ CheckFresh(p) \/ CheckMatch(p) \/ CheckCurrent(p) \/ Refused(p)
         \/ Collides(p)
  PROVE  PlanInv'
  <1> USE DEF Holding, Publishing, Undoing
  <1>1. PlanTypeOK /\ op \in [Procs -> Op] /\ HasInHand(p)
    BY DEF PlanInv, PointerPublished, PlanTypeOK, OpOK
  <1>2. CASE Command(p)
    <2>1. PICK o \in Op : /\ Begin(p, o) /\ o.pc \in {"load"} \cup Deciding
                          /\ o.kind # "analyze" => o.rev \in Rev
                          /\ o.pc \in Deciding => o.kind # "analyze"
      <3>1. CASE analyze(p)
        <4> DEFINE o == [Idle EXCEPT !.pc = "load"]
        <4>1. o \in Op /\ o.pc = "load" /\ o.kind = "analyze"
          BY IdleType DEF Idle, Op, Pc
        <4> QED
          BY <3>1, <4>1 DEF analyze, Deciding
      <3>2. CASE \E r \in Rev, s \in Statuses : decide(p, r, s)
        <4>1. PICK r \in Rev, s \in Statuses : decide(p, r, s)
          BY <3>2
        <4> DEFINE o == [Idle EXCEPT !.pc = "current", !.kind = "decide", !.rev = r, !.status = s]
        <4>2. o \in Op /\ o.pc = "current" /\ o.kind = "decide" /\ o.rev = r
          BY IdleType DEF Idle, Op, Pc
        <4> QED
          BY <4>1, <4>2 DEF decide, Deciding
      <3>3. CASE \E r \in Rev, k \in {"start", "refresh"} : start(p, r, k)
        <4>1. PICK r \in Rev, k \in {"start", "refresh"} : start(p, r, k)
          BY <3>3
        <4> DEFINE o == [Idle EXCEPT !.pc = "source", !.kind = k, !.rev = r, !.status = "confirmed"]
        <4>2. o \in Op /\ o.pc = "source" /\ o.kind = k /\ o.rev = r
          BY IdleType DEF Idle, Op, Pc, Statuses
        <4> QED
          BY <4>1, <4>2 DEF start, Deciding
      <3> QED
        BY <1>2, <3>1, <3>2, <3>3 DEF Command
    <2>2. /\ op' \in [Procs -> Op] /\ op'[p] = o /\ \A q \in Procs \ {p} : op'[q] = op[q]
          /\ op[p].pc = "idle"
          /\ UNCHANGED <<files, lock, history, source, facts, changes, preflight, faults, crashes>>
      BY <1>1, <2>1 DEF Begin, files, history, world
    <2>3. ops' \in 0..MaxOps
      BY <1>1, <2>1, PlanAssumption DEF Begin, PlanTypeOK
    <2>4. PlanTypeOK'
      BY <1>1, <2>2, <2>3 DEF PlanTypeOK, files, history
    <2>5. HasInHand(p)' /\ op'[p].pc \notin Holding
      BY <2>1, <2>2 DEF HasInHand, Deciding
    <2> QED
      BY <2>2, <2>4, <2>5, Quiet
  <1>3. CASE Load(p)
    <2> DEFINE n == [inv |-> source, facts |-> None]
    <2>1. GoesWith(p, "discover", n) /\ n \in New /\ n.inv \in Invs
      BY <1>1, <1>3 DEF Load, PlanTypeOK, New
    <2> HIDE DEF n
    <2>2. /\ op' \in [Procs -> Op] /\ \A q \in Procs \ {p} : op'[q] = op[q]
          /\ op'[p].pc = "discover" /\ op'[p].new = n
          /\ op'[p].rev = op[p].rev /\ op'[p].kind = op[p].kind
      BY <1>1, <2>1, GoesWithOp DEF Pc
    <2>3. PlanTypeOK' /\ UNCHANGED <<files, lock, history>>
      BY <1>1, <1>3, <2>2 DEF Load, PlanTypeOK, files, history, world, bounds
    <2>4. HasInHand(p)'
      BY <1>1, <2>1, <2>2 DEF HasInHand, Deciding
    <2> QED
      BY <1>3, <2>2, <2>3, <2>4, Quiet DEF Load
  <1>4. CASE Discover(p)
    <2> DEFINE n == [inv |-> op[p].new.inv, facts |-> facts]
    <2>1. GoesWith(p, "save", n) /\ n \in New /\ n \in Rev
      BY <1>1, <1>4 DEF Discover, HasInHand, PlanTypeOK, New, Rev
    <2> HIDE DEF n
    <2>2. /\ op' \in [Procs -> Op] /\ \A q \in Procs \ {p} : op'[q] = op[q]
          /\ op'[p].pc = "save" /\ op'[p].new = n
          /\ op'[p].rev = op[p].rev /\ op'[p].kind = op[p].kind
      BY <1>1, <2>1, GoesWithOp DEF Pc
    <2>3. PlanTypeOK' /\ UNCHANGED <<files, lock, history>>
      BY <1>1, <1>4, <2>2 DEF Discover, PlanTypeOK, files, history, world, bounds
    <2>4. HasInHand(p)'
      BY <1>1, <2>1, <2>2 DEF HasInHand, Deciding
    <2> QED
      BY <1>4, <2>2, <2>3, <2>4, Quiet DEF Discover
  <1>5. CASE SavePreflight(p)
    <2>1. PICK x \in {"saved", "lock"} : Goes(p, x)
      BY <1>5 DEF SavePreflight
    <2>2. op[p].new \in Rev
      BY <1>1, <1>5 DEF SavePreflight, HasInHand
    <2>3. faults' \in 0..MaxFaults
      BY <1>1, <1>5, PlanAssumption DEF SavePreflight, PlanTypeOK
    <2>4. preflight' \in File
      BY <1>1, <1>5, <2>2 DEF SavePreflight, PlanTypeOK, File
    <2>5. PlanTypeOK' /\ UNCHANGED <<files, lock, history>>
      BY <1>1, <1>5, <2>1, <2>3, <2>4, GoesOp DEF SavePreflight, PlanTypeOK, files, history, world, Pc
    <2>6. HasInHand(p)' /\ op'[p].pc \notin Holding /\ \A q \in Procs \ {p} : op'[q] = op[q]
      BY <1>1, <2>1, <2>2, GoesOp DEF HasInHand, Deciding, Pc
    <2> QED
      BY <1>5, <2>5, <2>6, Quiet DEF SavePreflight
  <1>6. CASE CheckSource(p) \/ CheckFresh(p) \/ CheckMatch(p) \/ CheckCurrent(p) \/ Refused(p)
    <2>1. /\ op[p].pc \in Deciding /\ op[p].pc \notin Holding
          /\ Ends(p) \/ \E x \in {"load"} \cup Deciding : Goes(p, x)
          /\ UNCHANGED <<files, lock, history, source, facts, changes, preflight, ops, faults, crashes>>
      BY <1>6 DEF CheckSource, CheckFresh, CheckMatch, CheckCurrent, Refused, Check, Deciding,
                  files, history, world, bounds
    <2>2. op[p].kind # "analyze" /\ faults \in 0..MaxFaults
      BY <1>1, <2>1 DEF HasInHand, PlanTypeOK
    <2>3. CASE Ends(p)
      BY <2>1, <2>2, <2>3, QuietEnds
    <2>4. CASE \E x \in {"load"} \cup Deciding : Goes(p, x)
      <3>1. PICK x \in {"load"} \cup Deciding : Goes(p, x)
        BY <2>4
      <3>2. x \in Pc \ Holding
        BY DEF Deciding, Pc
      <3> QED
        BY <2>1, <2>2, <3>1, <3>2, QuietGoes
    <2> QED
      BY <2>1, <2>3, <2>4
  <1>7. CASE Collides(p)
    BY <1>1, <1>7, QuietEnds DEF Collides, PlanTypeOK, files, history, world, bounds
  <1> QED
    BY <1>2, <1>3, <1>4, <1>5, <1>6, <1>7

-----------------------------------------------------------------------------
(* Steps of the process that publishes.                                    *)

\* Nobody else publishes, so others keep what they have when the publisher goes on.
LEMMA PublisherGoes ==
  ASSUME PlanInv, PlanTypeOK', NEW p \in Procs, p \in lock, lock' = lock, revs \subseteq revs',
         {pointer, view, latest.rev}' \subseteq revs' \cup {None, Bad},
         \A q \in Procs \ {p} : op'[q] = op[q],
         op'[p].pc \in Holding, HasInHand(p)',
         Stage(op[p].before, op[p])'
  PROVE  PlanInv'
  <1>1. lock = {p} /\ \A q \in Procs \ {p} : op[q].pc \notin Holding
    BY DEF PlanInv, LockOK
  <1>2. LockOK'
    BY <1>1 DEF PlanInv, LockOK
  <1>3. OpOK'
    BY <1>1 DEF PlanInv, OpOK, HasInHand, Named
  <1>4. StageOK'
    BY <1>1 DEF StageOK
  <1>5. PointerPublished' /\ ViewsAgree' /\ DecisionKept'
    BY <1>1 DEF PointerPublished, ViewsAgree, DecisionKept
  <1> QED
    BY <1>2, <1>3, <1>4, <1>5 DEF PlanInv

\* The publisher gives the lock back.
LEMMA PublisherLeaves ==
  ASSUME PlanInv, PlanTypeOK', NEW p \in Procs, p \in lock, lock' = {}, UNCHANGED revs,
         {pointer, view, latest.rev}' \subseteq revs' \cup {None, Bad},
         \A q \in Procs \ {p} : op'[q] = op[q],
         op'[p].pc \notin Holding, HasInHand(p)', ViewsAgree', DecisionKept'
  PROVE  PlanInv'
  <1>1. \A q \in Procs \ {p} : op[q].pc \notin Holding
    BY DEF PlanInv, LockOK
  <1>2. LockOK' /\ StageOK'
    BY <1>1 DEF LockOK, StageOK
  <1>3. OpOK'
    BY <1>1 DEF PlanInv, OpOK, HasInHand, Named
  <1>4. PointerPublished'
    BY DEF PointerPublished
  <1> QED
    BY <1>2, <1>3, <1>4 DEF PlanInv

\* The lock is taken.
LEMMA LockedStep ==
  ASSUME PlanInv, NEW p \in Procs, Locked(p)
  PROVE  PlanInv'
  <1> USE DEF Holding, Publishing, Undoing
  <1> DEFINE b == [latest |-> latest, view |-> view, pointer |-> pointer]
             x == IF op[p].new \in revs THEN "latest" ELSE "dir"
  <1>1. PlanTypeOK /\ op \in [Procs -> Op] /\ HasInHand(p) /\ op[p].pc = "lock" /\ lock = {}
    BY DEF PlanInv, PointerPublished, PlanTypeOK, OpOK, Locked
  <1>2. /\ op' \in [Procs -> Op] /\ \A q \in Procs \ {p} : op'[q] = op[q]
        /\ op'[p].pc = x /\ op'[p].before = b /\ op'[p].new = op[p].new
        /\ op'[p].rev = op[p].rev /\ op'[p].kind = op[p].kind
    <2>1. Remembers(p, x, b) /\ b \in Before /\ x \in Pc
      BY <1>1 DEF Locked, Pc, PlanTypeOK, Before
    <2> HIDE DEF b, x
    <2> QED
      BY <1>1, <2>1, RemembersOp
  <1>3. PlanTypeOK' /\ UNCHANGED <<files, history>> /\ lock' = {p}
    BY <1>1, <1>2 DEF Locked, PlanTypeOK, files, history, world, bounds
  <1>4. LockOK'
    BY <1>1, <1>2, <1>3 DEF PlanInv, LockOK
  <1>5. OpOK'
    <2>1. HasInHand(p)'
      BY <1>1, <1>2, <1>3 DEF HasInHand, Named, Deciding, files, PlanInv, PointerPublished
    <2> QED
      BY <1>2, <1>3, <2>1 DEF PlanInv, OpOK, HasInHand, Named, files
  <1>6. Stage(op[p].before, op[p])'
    <2>1. ~torn => latest.rev = pointer /\ view = pointer /\ (decision # None => latest = decision)
      BY <1>1 DEF PlanInv, ViewsAgree, DecisionKept
    <2> QED
      BY <1>2, <1>3, <2>1 DEF Stage, files, history
  <1>7. StageOK'
    <2> SUFFICES ASSUME NEW q \in lock' PROVE Stage(op[q].before, op[q])'
      BY DEF StageOK
    <2>1. q = p
      BY <1>3
    <2> QED
      BY <1>3, <1>6, <2>1 DEF history
  <1>8. PointerPublished' /\ ViewsAgree' /\ DecisionKept'
    BY <1>3 DEF PlanInv, PointerPublished, ViewsAgree, DecisionKept, files
  <1> QED
    BY <1>4, <1>5, <1>7, <1>8 DEF PlanInv

\* The steps of a publication and of its rollback that keep the lock.
LEMMA PublishingSteps ==
  ASSUME PlanInv, NEW p \in Procs,
         \/ PublishDir(p) \/ ReplaceLatest(p) \/ ReplaceView(p)
         \/ UndoLatest(p) \/ UndoView(p)
         \/ WriteFails(p) /\ Goes(p, "undoLatest")
  PROVE  PlanInv'
  <1> USE DEF Holding, Publishing, Undoing
  <1>1. /\ PlanTypeOK /\ op \in [Procs -> Op] /\ HasInHand(p)
        /\ {pointer, view, latest.rev} \subseteq revs \cup {None, Bad}
    BY DEF PlanInv, PointerPublished, PlanTypeOK, OpOK
  <1>2. PICK x \in {"latest", "view", "pointer", "undoLatest", "undoView", "undoPointer"} : Goes(p, x)
    BY DEF PublishDir, ReplaceLatest, ReplaceView, UndoLatest, UndoView
  <1>3. op[p].pc \in Holding \ {"undoPointer"} /\ UNCHANGED lock
    <2>1. CASE WriteFails(p) /\ Goes(p, "undoLatest")
      <3>1. ~Ends(p)
        BY <1>1, <2>1, GoesOp, EndsOp DEF Pc
      <3> QED
        BY <2>1, <3>1 DEF WriteFails
    <2>2. CASE ~WriteFails(p)
      BY <2>2 DEF PublishDir, ReplaceLatest, ReplaceView, UndoLatest, UndoView
    <2> QED
      BY <2>1, <2>2 DEF PublishDir, ReplaceLatest, ReplaceView, UndoLatest, UndoView
  <1>4. p \in lock /\ Stage(op[p].before, op[p])
    BY <1>3 DEF PlanInv, LockOK, StageOK
  <1>5. /\ op' \in [Procs -> Op] /\ \A q \in Procs \ {p} : op'[q] = op[q]
        /\ op'[p].pc = x /\ op'[p].kind = op[p].kind /\ op'[p].rev = op[p].rev
        /\ op'[p].new = op[p].new /\ op'[p].before = op[p].before
        /\ op[p] \in Op
    BY <1>1, <1>2, GoesOp DEF Pc
  <1>6. UNCHANGED <<lock, source, facts, changes, preflight, history, ops, crashes>>
    BY <1>3 DEF PublishDir, ReplaceLatest, ReplaceView, UndoLatest, UndoView, WriteFails,
                world, history, bounds
  <1>7. CASE PublishDir(p)
    <2>1. op[p].new \in Rev /\ revs' = revs \cup {op[p].new} /\ op[p].pc = "dir" /\ x = "latest"
          /\ UNCHANGED <<latest, view, pointer, faults>>
      BY <1>1, <1>2, <1>5, <1>7, GoesOp DEF PublishDir, HasInHand, bounds, Pc
    <2>2. PlanTypeOK'
      BY <1>1, <1>5, <1>6, <2>1 DEF PlanTypeOK, history
    <2>3. HasInHand(p)'
      BY <1>1, <1>5, <2>1 DEF HasInHand, Named, Deciding
    <2>4. Stage(op[p].before, op[p])'
      BY <1>4, <1>5, <1>6, <2>1 DEF Stage, history
    <2> QED
      BY <1>1, <1>4, <1>5, <1>6, <2>1, <2>2, <2>3, <2>4, PublisherGoes
  <1>8. CASE ReplaceLatest(p)
    <2>1. op[p].new \in revs /\ latest' = [rev |-> op[p].new, status |-> "draft"]
          /\ op[p].pc = "latest" /\ x = "view"
          /\ UNCHANGED <<revs, view, pointer, faults>>
      BY <1>1, <1>2, <1>5, <1>8, GoesOp DEF ReplaceLatest, HasInHand, bounds, Pc
    <2>2. latest' \in PlanFile
      BY <1>1, <2>1 DEF PlanTypeOK, PlanFile, File, Statuses
    <2>3. PlanTypeOK'
      BY <1>1, <1>5, <1>6, <2>1, <2>2 DEF PlanTypeOK, history
    <2>4. HasInHand(p)'
      BY <1>1, <1>5, <2>1 DEF HasInHand, Named, Deciding
    <2>5. Stage(op[p].before, op[p])'
      BY <1>4, <1>5, <1>6, <2>1 DEF Stage, history
    <2> QED
      BY <1>1, <1>4, <1>5, <1>6, <2>1, <2>3, <2>4, <2>5, PublisherGoes
  <1>9. CASE ReplaceView(p)
    <2>1. op[p].new \in revs /\ view' = op[p].new /\ op[p].pc = "view" /\ x = "pointer"
          /\ UNCHANGED <<revs, latest, pointer, faults>>
      BY <1>1, <1>2, <1>5, <1>9, GoesOp DEF ReplaceView, HasInHand, bounds, Pc
    <2>2. PlanTypeOK'
      BY <1>1, <1>5, <1>6, <2>1 DEF PlanTypeOK, history, File
    <2>3. HasInHand(p)'
      BY <1>1, <1>5, <2>1 DEF HasInHand, Named, Deciding
    <2>4. Stage(op[p].before, op[p])'
      BY <1>4, <1>5, <1>6, <2>1 DEF Stage, history
    <2> QED
      BY <1>1, <1>4, <1>5, <1>6, <2>1, <2>2, <2>3, <2>4, PublisherGoes
  <1>10. CASE UndoLatest(p)
    <2>1. latest' = op[p].before.latest /\ op[p].pc = "undoLatest" /\ x = "undoView"
          /\ Named(latest'.rev) /\ UNCHANGED <<revs, view, pointer, faults>>
      BY <1>1, <1>2, <1>5, <1>10, GoesOp DEF UndoLatest, HasInHand, bounds, Pc
    <2>2. PlanTypeOK'
      BY <1>1, <1>5, <1>6, <2>1 DEF PlanTypeOK, history, Op, Before
    <2>3. HasInHand(p)'
      BY <1>1, <1>5, <2>1 DEF HasInHand, Named, Deciding
    <2>4. Stage(op[p].before, op[p])'
      BY <1>4, <1>5, <1>6, <2>1 DEF Stage, history
    <2> QED
      BY <1>1, <1>4, <1>5, <1>6, <2>1, <2>2, <2>3, <2>4, PublisherGoes DEF Named
  <1>11. CASE UndoView(p)
    <2>1. view' = op[p].before.view /\ op[p].pc = "undoView" /\ x = "undoPointer"
          /\ Named(view') /\ UNCHANGED <<revs, latest, pointer, faults>>
      BY <1>1, <1>2, <1>5, <1>11, GoesOp DEF UndoView, HasInHand, bounds, Pc
    <2>2. PlanTypeOK'
      BY <1>1, <1>5, <1>6, <2>1 DEF PlanTypeOK, history, Op, Before
    <2>3. HasInHand(p)'
      BY <1>1, <1>5, <2>1 DEF HasInHand, Named, Deciding
    <2>4. Stage(op[p].before, op[p])'
      BY <1>4, <1>5, <1>6, <2>1 DEF Stage, history
    <2> QED
      BY <1>1, <1>4, <1>5, <1>6, <2>1, <2>2, <2>3, <2>4, PublisherGoes DEF Named
  <1>12. CASE WriteFails(p) /\ Goes(p, "undoLatest")
    <2>1. x = "undoLatest" /\ UNCHANGED files
      BY <1>1, <1>5, <1>12, GoesOp DEF WriteFails, Pc
    <2>2. faults' \in 0..MaxFaults
      BY <1>1, <1>12, PlanAssumption DEF WriteFails, PlanTypeOK
    <2>3. PlanTypeOK'
      BY <1>1, <1>5, <1>6, <2>1, <2>2 DEF PlanTypeOK, history, files
    <2>4. HasInHand(p)'
      BY <1>1, <1>3, <1>5, <2>1 DEF HasInHand, Named, Deciding, files
    <2>5. Stage(op[p].before, op[p])'
      BY <1>3, <1>4, <1>5, <1>6, <2>1 DEF Stage, history, files
    <2> QED
      BY <1>1, <1>4, <1>5, <1>6, <2>1, <2>3, <2>4, <2>5, PublisherGoes DEF files
  <1> QED
    BY <1>7, <1>8, <1>9, <1>10, <1>11, <1>12

\* The pointer is replaced or restored, or a write fails before anything is replaced:
\* the lock is given back and the files agree.
LEMMA LeavingSteps ==
  ASSUME PlanInv, NEW p \in Procs,
         ReplacePointer(p) \/ UndoPointer(p) \/ (WriteFails(p) /\ Ends(p))
  PROVE  PlanInv'
  <1> USE DEF Holding, Publishing, Undoing
  <1>1. /\ PlanTypeOK /\ op \in [Procs -> Op] /\ op[p] \in Op /\ HasInHand(p)
        /\ {pointer, view, latest.rev} \subseteq revs \cup {None, Bad}
    BY DEF PlanInv, PointerPublished, PlanTypeOK, OpOK
  <1>2. op[p].pc \in Holding => lock = {p} /\ Stage(op[p].before, op[p])
    BY DEF PlanInv, LockOK, StageOK
  <1>3. CASE ReplacePointer(p)
    <2>1. /\ op[p].pc = "pointer" /\ op[p].new \in revs /\ pointer' = op[p].new
          /\ lock' = {} /\ torn' = FALSE /\ decision' = None
          /\ UNCHANGED <<revs, latest, view, preflight, source, facts, changes, started, ops, faults, crashes>>
      BY <1>1, <1>3 DEF ReplacePointer, HasInHand, world, bounds
    <2>2. /\ op' \in [Procs -> Op] /\ \A q \in Procs \ {p} : op'[q] = op[q]
          /\ HasInHand(p)' /\ op'[p].pc \notin Holding
      <3>1. CASE op[p].kind = "analyze"
        BY <1>1, <1>3, <3>1, EndsOp DEF ReplacePointer, HasInHand, Deciding
      <3>2. CASE op[p].kind # "analyze"
        BY <1>1, <1>3, <3>2, GoesOp DEF ReplacePointer, HasInHand, Deciding, Pc
      <3> QED
        BY <3>1, <3>2
    <2>3. PlanTypeOK'
      BY <1>1, <2>1, <2>2 DEF PlanTypeOK, File
    <2>4. ViewsAgree' /\ DecisionKept'
      BY <1>2, <2>1 DEF ViewsAgree, DecisionKept, Stage
    <2> QED
      BY <1>1, <1>2, <2>1, <2>2, <2>3, <2>4, PublisherLeaves
  <1>4. CASE UndoPointer(p)
    <2>1. /\ op[p].pc = "undoPointer" /\ pointer' = op[p].before.pointer /\ Named(pointer')
          /\ lock' = {} /\ Ends(p)
          /\ UNCHANGED <<revs, latest, view, preflight, source, facts, changes, history, ops, faults, crashes>>
      BY <1>1, <1>4 DEF UndoPointer, HasInHand, world, bounds
    <2>2. /\ op' \in [Procs -> Op] /\ \A q \in Procs \ {p} : op'[q] = op[q]
          /\ HasInHand(p)' /\ op'[p].pc \notin Holding
      BY <1>1, <2>1, EndsOp DEF HasInHand, Deciding
    <2>3. PlanTypeOK'
      BY <1>1, <2>1, <2>2 DEF PlanTypeOK, history, Op, Before
    <2>4. ViewsAgree' /\ DecisionKept'
      BY <1>2, <2>1 DEF ViewsAgree, DecisionKept, Stage, history
    <2> QED
      BY <1>1, <1>2, <2>1, <2>2, <2>3, <2>4, PublisherLeaves DEF Named
  <1>5. CASE WriteFails(p) /\ Ends(p)
    <2>1. ~Goes(p, "undoLatest")
      BY <1>1, <1>5, EndsOp, GoesOp DEF Pc
    <2>2. /\ op[p].pc \in {"dir", "latest", "claim"} /\ lock' = lock \ {p} /\ Ends(p)
          /\ UNCHANGED <<files, preflight, source, facts, changes, history, ops, crashes>>
      BY <1>5, <2>1 DEF WriteFails, world
    <2>3. faults' \in 0..MaxFaults
      BY <1>1, <1>5, PlanAssumption DEF WriteFails, PlanTypeOK
    <2>4. CASE op[p].pc = "claim"
      <3>1. lock' = lock /\ op[p].pc \notin Holding
        BY <2>2, <2>4 DEF PlanInv, LockOK
      <3> QED
        BY <2>2, <2>3, <3>1, QuietEnds
    <2>5. CASE op[p].pc \in {"dir", "latest"}
      <3>1. /\ op' \in [Procs -> Op] /\ \A q \in Procs \ {p} : op'[q] = op[q]
            /\ HasInHand(p)' /\ op'[p].pc \notin Holding
        BY <1>1, <2>2, EndsOp DEF HasInHand, Deciding
      <3>2. PlanTypeOK' /\ lock = {p} /\ lock' = {}
        BY <1>1, <1>2, <2>2, <2>3, <2>5, <3>1 DEF PlanTypeOK, history, files
      <3>3. ViewsAgree' /\ DecisionKept'
        BY <1>2, <2>2, <2>5 DEF ViewsAgree, DecisionKept, Stage, history, files
      <3> QED
        BY <1>1, <2>2, <3>1, <3>2, <3>3, PublisherLeaves DEF files
    <2> QED
      BY <2>2, <2>4, <2>5
  <1> QED
    BY <1>3, <1>4, <1>5

-----------------------------------------------------------------------------
(* Decisions, starts, changes and crashes.                                 *)

\* A decision is written while nobody publishes.
LEMMA ClaimStep ==
  ASSUME PlanInv, NEW p \in Procs, Claim(p)
  PROVE  PlanInv' /\ (decision' # decision => decision' = latest' /\ Current(latest'.rev))
  <1> USE DEF Holding, Publishing, Undoing
  <1>1. /\ PlanTypeOK /\ op \in [Procs -> Op] /\ op[p] \in Op /\ HasInHand(p) /\ lock = {}
        /\ {pointer, view, latest.rev} \subseteq revs \cup {None, Bad} /\ op[p].pc = "claim"
        /\ UNCHANGED <<revs, view, pointer, preflight, lock, source, facts, changes, started, torn,
                       ops, faults, crashes>>
    BY DEF PlanInv, PointerPublished, PlanTypeOK, OpOK, Claim, world, bounds
  <1>2. CASE Current(op[p].rev)
    <2>1. /\ latest' = [rev |-> op[p].rev, status |-> op[p].status] /\ decision' = latest'
          /\ Ends(p) \/ Goes(p, "run")
      BY <1>2 DEF Claim
    <2>2. /\ op' \in [Procs -> Op] /\ \A q \in Procs \ {p} : op'[q] = op[q]
          /\ HasInHand(p)' /\ op'[p].pc \notin Holding
      <3>1. CASE Ends(p)
        BY <1>1, <3>1, EndsOp DEF HasInHand, Deciding
      <3>2. CASE Goes(p, "run")
        BY <1>1, <3>2, GoesOp DEF HasInHand, Deciding, Pc
      <3> QED
        BY <2>1, <3>1, <3>2
    <2>3. op[p].rev \in {pointer, latest.rev} /\ op[p].status \in Statuses
      BY <1>1, <1>2 DEF Current, Op
    <2>4. latest' \in PlanFile /\ latest'.rev \in {pointer, latest.rev}
      BY <1>1, <2>1, <2>3 DEF PlanTypeOK, PlanFile
    <2>5. PlanTypeOK'
      BY <1>1, <2>1, <2>2, <2>4 DEF PlanTypeOK
    <2>6. PointerPublished'
      BY <1>1, <2>4, <2>5 DEF PointerPublished
    <2>7. ViewsAgree' /\ DecisionKept'
      BY <1>1, <2>1, <2>4 DEF PlanInv, ViewsAgree, DecisionKept
    <2>8. LockOK' /\ StageOK'
      BY <1>1, <2>2 DEF PlanInv, LockOK, StageOK
    <2>9. OpOK'
      BY <1>1, <2>2 DEF PlanInv, OpOK, HasInHand, Named
    <2>10. Current(latest'.rev)
      BY <1>2, <2>1
    <2> QED
      BY <2>1, <2>6, <2>7, <2>8, <2>9, <2>10 DEF PlanInv
  <1>3. CASE ~Current(op[p].rev)
    <2>1. Ends(p) /\ UNCHANGED <<latest, decision>>
      BY <1>3 DEF Claim
    <2> QED
      BY <1>1, <2>1, QuietEnds DEF files, history, PlanTypeOK
  <1> QED
    BY <1>2, <1>3

\* An audit starts with a revision.
LEMMA RunStep ==
  ASSUME PlanInv, NEW p \in Procs, Run(p)
  PROVE  PlanInv'
  <1> USE DEF Holding, Publishing, Undoing
  <1>1. /\ PlanTypeOK /\ op \in [Procs -> Op] /\ HasInHand(p) /\ op[p].pc = "run"
        /\ {pointer, view, latest.rev} \subseteq revs \cup {None, Bad} /\ Ends(p)
        /\ started' = started \cup {op[p].rev}
        /\ UNCHANGED <<revs, latest, view, pointer, preflight, lock, source, facts, changes, torn, decision,
                       ops, faults, crashes>>
    BY DEF PlanInv, PointerPublished, PlanTypeOK, OpOK, Run, files, world, bounds
  <1>2. /\ op' \in [Procs -> Op] /\ \A q \in Procs \ {p} : op'[q] = op[q]
        /\ HasInHand(p)' /\ op'[p].pc \notin Holding
    BY <1>1, EndsOp DEF HasInHand, Deciding
  <1>3. op[p].rev \in Rev
    BY <1>1 DEF HasInHand, Deciding
  <1>4. PlanTypeOK'
    BY <1>1, <1>2, <1>3 DEF PlanTypeOK
  <1>5. PointerPublished' /\ ViewsAgree' /\ DecisionKept'
    BY <1>1, <1>4 DEF PlanInv, PointerPublished, ViewsAgree, DecisionKept
  <1>6. LockOK'
    BY <1>1, <1>2 DEF PlanInv, LockOK
  <1>7. StageOK'
    BY <1>1, <1>2 DEF PlanInv, LockOK, StageOK, Stage
  <1>8. OpOK'
    BY <1>1, <1>2 DEF PlanInv, OpOK, HasInHand, Named
  <1> QED
    BY <1>5, <1>6, <1>7, <1>8 DEF PlanInv

\* A process that dies gives the lock back; if it was in the middle of a publication,
\* that is on record.
LEMMA CrashStep ==
  ASSUME PlanInv, NEW p \in Procs, Crash(p)
  PROVE  PlanInv'
  <1> USE DEF Holding, Publishing, Undoing
  <1>1. /\ PlanTypeOK /\ op \in [Procs -> Op] /\ op[p] \in Op /\ HasInHand(p)
        /\ {pointer, view, latest.rev} \subseteq revs \cup {None, Bad}
    BY DEF PlanInv, PointerPublished, PlanTypeOK, OpOK
  <1>2. /\ Ends(p) /\ lock' = lock \ {p}
        /\ torn' = (torn \/ op[p].pc \in {"view", "pointer"} \cup Undoing)
        /\ UNCHANGED <<revs, preflight, source, facts, changes, started, decision, ops>>
        /\ latest' = latest \/ (op[p].pc = "undoLatest" /\ latest' = [NoPlan EXCEPT !.rev = Bad])
        /\ view' = view \/ (op[p].pc = "undoView" /\ view' = Bad)
        /\ pointer' = pointer \/ (op[p].pc = "undoPointer" /\ pointer' = Bad)
    BY DEF Crash, CutOff, world
  <1>3. faults' \in 0..MaxFaults /\ crashes' \in 0..MaxCrashes
    BY <1>1, PlanAssumption DEF Crash, PlanTypeOK
  <1>4. /\ op' \in [Procs -> Op] /\ \A q \in Procs \ {p} : op'[q] = op[q]
        /\ HasInHand(p)' /\ op'[p].pc \notin Holding
    BY <1>1, <1>2, EndsOp DEF HasInHand, Deciding
  <1>5. latest' \in PlanFile /\ latest'.rev \in {latest.rev, Bad}
    BY <1>1, <1>2 DEF PlanTypeOK, PlanFile, NoPlan, File, Statuses
  <1>6. torn' \in BOOLEAN
    BY <1>1, <1>2 DEF PlanTypeOK
  <1>7. PlanTypeOK'
    BY <1>1, <1>2, <1>3, <1>4, <1>5, <1>6 DEF PlanTypeOK, File
  <1>8. CASE op[p].pc \in Holding
    <2>1. lock = {p} /\ lock' = {} /\ Stage(op[p].before, op[p])
      BY <1>2, <1>8 DEF PlanInv, LockOK, StageOK
    <2>2. ViewsAgree' /\ DecisionKept'
      <3>1. CASE op[p].pc \in {"dir", "latest"}
        BY <1>2, <2>1, <3>1 DEF ViewsAgree, DecisionKept, Stage
      <3>2. CASE op[p].pc \notin {"dir", "latest"}
        BY <1>2, <1>8, <3>2 DEF ViewsAgree, DecisionKept
      <3> QED
        BY <3>1, <3>2
    <2> QED
      BY <1>1, <1>2, <1>4, <1>5, <1>7, <2>1, <2>2, PublisherLeaves
  <1>9. CASE op[p].pc \notin Holding
    <2>1. p \notin lock
      BY <1>9 DEF PlanInv, LockOK
    <2>2. lock' = lock /\ torn' = torn /\ UNCHANGED <<files, history>>
      BY <1>1, <1>2, <1>9, <2>1 DEF files, history, PlanTypeOK
    <2> QED
      BY <1>4, <1>7, <1>9, <2>2, Quiet
  <1> QED
    BY <1>8, <1>9

\* Every step keeps the invariant, and a decision is taken on the current revision.
LEMMA NextStep ==
  PlanInv /\ [PlanNext]_planVars
    => PlanInv' /\ (decision' # decision /\ decision' # None => Current(decision'.rev))
  <1> SUFFICES ASSUME PlanInv, [PlanNext]_planVars
               PROVE  PlanInv' /\ (decision' # decision /\ decision' # None => Current(decision'.rev))
    OBVIOUS
  <1>1. CASE UNCHANGED planVars
    <2>1. UNCHANGED <<source, facts, revs, latest, view, pointer, preflight, lock, op, started, torn,
                      decision, ops, changes, faults, crashes>>
      BY <1>1 DEF planVars, files, world, history
    <2>2. PointerPublished' /\ ViewsAgree' /\ DecisionKept'
      BY <2>1 DEF PlanInv, PointerPublished, PlanTypeOK, ViewsAgree, DecisionKept
    <2>3. LockOK' /\ OpOK' /\ StageOK'
      BY <2>1 DEF PlanInv, LockOK, OpOK, HasInHand, Named, StageOK, Stage
    <2> QED
      BY <2>1, <2>2, <2>3 DEF PlanInv
  <1>2. CASE Change
    <2>1. /\ UNCHANGED <<revs, latest, view, pointer, preflight, lock, op, started, torn, decision,
                         ops, faults, crashes>>
          /\ source' \in Invs /\ facts' \in Facts /\ changes' \in 0..MaxChanges
      BY <1>2, PlanAssumption DEF Change, files, history, bounds, PlanInv, PointerPublished, PlanTypeOK
    <2>2. PointerPublished' /\ ViewsAgree' /\ DecisionKept'
      BY <2>1 DEF PlanInv, PointerPublished, PlanTypeOK, ViewsAgree, DecisionKept
    <2>3. LockOK' /\ OpOK' /\ StageOK'
      BY <2>1 DEF PlanInv, LockOK, OpOK, HasInHand, Named, StageOK, Stage
    <2> QED
      BY <2>1, <2>2, <2>3 DEF PlanInv
  <1>3. ASSUME NEW p \in Procs, Command(p) \/ Step(p) \/ Crash(p)
        PROVE  PlanInv' /\ (decision' # decision /\ decision' # None => Current(decision'.rev))
    <2>1. CASE \/ Command(p) \/ Load(p) \/ Discover(p) \/ SavePreflight(p)
               \/ CheckSource(p) \/ CheckFresh(p) \/ CheckMatch(p) \/ CheckCurrent(p) \/ Refused(p)
         \/ Collides(p)
      <3>1. decision' = decision
        BY <2>1 DEF Command, analyze, decide, start, Begin, Load, Discover, SavePreflight, CheckSource,
                    CheckFresh, CheckMatch, CheckCurrent, Check, Refused, Collides, history
      <3> QED
        BY <2>1, <3>1, QuietSteps
    <2>2. CASE Locked(p)
      BY <2>2, LockedStep DEF Locked, history
    <2>3. CASE \/ PublishDir(p) \/ ReplaceLatest(p) \/ ReplaceView(p) \/ UndoLatest(p) \/ UndoView(p)
      BY <2>3, PublishingSteps DEF PublishDir, ReplaceLatest, ReplaceView, UndoLatest, UndoView, history
    <2>4. CASE WriteFails(p)
      BY <2>4, PublishingSteps, LeavingSteps DEF WriteFails, history
    <2>5. CASE ReplacePointer(p) \/ UndoPointer(p)
      BY <2>5, LeavingSteps DEF ReplacePointer, UndoPointer, history
    <2>6. CASE Claim(p)
      BY <2>6, ClaimStep
    <2>7. CASE Run(p)
      BY <2>7, RunStep DEF Run
    <2>8. CASE Crash(p)
      BY <2>8, CrashStep DEF Crash
    <2> QED
      BY <1>3, <2>1, <2>2, <2>3, <2>4, <2>5, <2>6, <2>7, <2>8 DEF Step
  <1> QED
    BY <1>1, <1>2, <1>3 DEF PlanNext, Finished

-----------------------------------------------------------------------------

\* The invariant holds of every behaviour of the store.
THEOREM PlanInvariant == PlanSpec => []PlanInv
  BY InitInv, NextStep, PTL DEF PlanSpec

\* The pointer and the views name whole revisions, whatever fails and whoever dies.
THEOREM RevisionsWhole == PlanSpec => []PointerPublished
  <1>1. PlanInv => PointerPublished
    BY DEF PlanInv
  <1> QED
    BY <1>1, PlanInvariant, PTL

\* Pointer and views agree when nobody publishes, unless a publication was cut off and
\* none was made since.
THEOREM ViewsCorrect == PlanSpec => []ViewsAgree
  <1>1. PlanInv => ViewsAgree
    BY DEF PlanInv
  <1> QED
    BY <1>1, PlanInvariant, PTL

\* The operator's decision stays until the next publication, through publications that
\* fail and are rolled back.
THEOREM DecisionsKept == PlanSpec => []DecisionKept
  <1>1. PlanInv => DecisionKept
    BY DEF PlanInv
  <1> QED
    BY <1>1, PlanInvariant, PTL

\* A decision is taken on the revision that is current when it is written.
THEOREM DecisionsCurrent == PlanSpec => DecidesCurrent
  <1>1. PlanInv /\ [PlanNext]_planVars
          => [decision' # decision /\ decision' # None => Current(decision'.rev)]_planVars
    BY NextStep
  <1> QED
    BY <1>1, PlanInvariant, PTL DEF PlanSpec, DecidesCurrent
=============================================================================
