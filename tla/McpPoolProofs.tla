---------------------------- MODULE McpPoolProofs ----------------------------
(***************************************************************************)
(* SessionsAccounted, BoundToCaller and ClosedIsDown for any number of     *)
(* coroutines, sessions, databases and cancellations.                      *)
(*                                                                         *)
(* They rest on each other and on where a coroutine can be: what is in     *)
(* _active is what somebody is about (ActiveBorrowed), who is inside the   *)
(* lock of a session is alone there (LockAlone), and a close that took the *)
(* sessions out still has those before it that are not down (CloseGoesOn). *)
(***************************************************************************)
EXTENDS McpPool, TLAPS, FiniteSetTheorems

Busy(c) == proc[c].pc \in {"want"} \cup Locked

\* Where a coroutine is, by its operation.
PlacesOK == \A c \in Procs :
    /\ Busy(c) => proc[c].at \in Sessions /\ started
    /\ proc[c].pc \in Draining => OpOf[c] = "close"
    /\ proc[c].pc = "call" => Borrows(c)
    /\ OpOf[c] = "close" /\ proc[c].pc \in Locked => proc[c].pc = "reset" /\ proc[c].then = "end"

\* Whoever is inside the lock of a session is alone there.
LockAlone == \A c \in Procs : proc[c].pc \in Locked => sess[proc[c].at].lock = {c}

\* A session is in _active while one coroutine has borrowed it.
ActiveBorrowed == \A s \in Sessions :
    /\ s \in active <=> Borrowers(s) # {}
    /\ \A c, d \in Borrowers(s) : c = d

\* An open pool has all sessions that are not borrowed; there are none before the first
\* operation; and nobody sleeps while what it waits for is there.
FreeOK == /\ state = "open" /\ started => avail = Sessions \ active
          /\ ~started => /\ avail = {} /\ active = {}
                         /\ \A s \in Sessions : sess[s].bind = NoTarget
          /\ \A c \in Procs : /\ proc[c].pc = "wait" => avail = {} /\ state = "open" /\ started
                              /\ proc[c].pc = "drain" => active # {}

\* A closed pool has no borrowers.  Until a reconnect or a cancellation interferes, a
\* session that is still up has a close before it that is on its way there.
Undisturbed == cancels = 0 /\ \A c \in Procs : OpOf[c] = "reconnect" => proc[c].pc = "new"
Comes(c, s) == OpOf[c] = "close" /\ proc[c].pc \in {"want", "reset"} /\ proc[c].at <= s
CloseGoesOn == state = "closed" =>
    /\ active = {}
    /\ Undisturbed => \A s \in Sessions :
         sess[s].bind = NoTarget \/ \E c \in Procs : Comes(c, s)

PoolInv == /\ PoolTypeOK /\ PlacesOK /\ LockAlone /\ ActiveBorrowed
           /\ FreeOK /\ CloseGoesOn /\ BoundToCaller

-----------------------------------------------------------------------------
(* What a step of c does to the coroutines.                                *)

Pcs == {"new", "done", "want"} \cup Waiting \cup Draining \cup Locked

\* d is as before, or woken up.
Woken(d) == /\ proc'[d].at = proc[d].at /\ proc'[d].fp = proc[d].fp
            /\ proc'[d].db = proc[d].db /\ proc'[d].then = proc[d].then
            /\ \/ proc'[d].pc = proc[d].pc
               \/ proc[d].pc = "wait" /\ proc'[d].pc = "notified"
               \/ proc[d].pc = "drain" /\ proc'[d].pc = "drained"

\* c goes to pc, about the session at; the others may be woken up.
Moves(c, pc, at) == /\ proc' \in [Procs -> Proc]
                    /\ proc'[c].pc = pc /\ proc'[c].at = at /\ proc'[c].fp = proc[c].fp
                    /\ \A d \in Procs \ {c} : Woken(d)

Asleep == {"wait", "drain"}

\* To moves one coroutine to another place and leaves the rest alone.
LEMMA ToMoves ==
    ASSUME proc \in [Procs -> Proc], NEW c \in Procs, NEW pc \in Pcs, proc' = To(c, pc)
    PROVE  /\ Moves(c, pc, proc[c].at) /\ proc'[c].then = proc[c].then
           /\ \A d \in Procs \ {c} : proc'[d] = proc[d]
  BY DEF To, Moves, Woken, Proc, Pcs

\* At makes one coroutine want a session and leaves the rest alone.
LEMMA AtMoves ==
    ASSUME proc \in [Procs -> Proc], NEW c \in Procs, NEW s \in 0..Size, proc' = At(c, s)
    PROVE  /\ Moves(c, "want", s)
           /\ \A d \in Procs \ {c} : proc'[d] = proc[d]
  BY DEF At, Moves, Woken, Proc

\* notify_all wakes whoever sleeps and changes nothing else.
LEMMA NotifyAll ==
    ASSUME NEW p \in [Procs -> Proc], proc' = notify_all(p)
    PROVE  /\ proc' \in [Procs -> Proc]
           /\ \A d \in Procs : /\ proc'[d].at = p[d].at /\ proc'[d].fp = p[d].fp
                               /\ proc'[d].db = p[d].db /\ proc'[d].then = p[d].then
                               /\ p[d].pc = "wait" => proc'[d].pc = "notified"
                               /\ p[d].pc = "drain" => proc'[d].pc = "drained"
                               /\ p[d].pc \notin Asleep => proc'[d].pc = p[d].pc
  <1>1. proc' \in [Procs -> Proc]
    BY DEF notify_all, Proc, Waiting, Draining
  <1>2. ASSUME NEW d \in Procs
        PROVE  proc'[d] = [p[d] EXCEPT !.pc = CASE @ = "wait" -> "notified"
                                                [] @ = "drain" -> "drained"
                                                [] OTHER -> @]
    BY DEF notify_all
  <1>3. \A d \in Procs : p[d] \in Proc
    OBVIOUS
  <1> QED  BY <1>1, <1>2, <1>3 DEF Proc, Asleep

\* notify_all after To also leaves nobody asleep.
LEMMA NotifyToMoves ==
    ASSUME proc \in [Procs -> Proc], NEW c \in Procs, NEW pc \in Pcs \ {"wait"},
           proc' = notify_all(To(c, pc))
    PROVE  /\ Moves(c, IF pc = "drain" THEN "drained" ELSE pc, proc[c].at)
           /\ \A d \in Procs : proc'[d].pc \notin Asleep
  <1> DEFINE p == To(c, pc)
  <1>1. /\ p \in [Procs -> Proc] /\ p[c] = [proc[c] EXCEPT !.pc = pc]
        /\ \A d \in Procs \ {c} : p[d] = proc[d]
    BY DEF To, Proc, Pcs
  <1>2. proc[c] \in Proc
    OBVIOUS
  <1> HIDE DEF p
  <1>3. proc' = notify_all(p)
    BY DEF p
  <1> QED  BY <1>1, <1>2, <1>3, NotifyAll DEF Moves, Woken, Asleep, Proc, Pcs

\* notify_all after At also leaves nobody asleep.
LEMMA NotifyAtMoves ==
    ASSUME proc \in [Procs -> Proc], NEW c \in Procs, NEW s \in 0..Size,
           proc' = notify_all(At(c, s))
    PROVE  /\ Moves(c, "want", s)
           /\ \A d \in Procs : proc'[d].pc \notin Asleep
  <1> DEFINE p == At(c, s)
  <1>1. p \in [Procs -> Proc] /\ \A d \in Procs \ {c} : p[d] = proc[d]
    BY DEF At, Proc
  <1>2. p[c].pc = "want" /\ p[c].at = s /\ p[c].fp = proc[c].fp
    BY DEF At, Proc
  <1> HIDE DEF p
  <1>3. proc' = notify_all(p)
    BY DEF p
  <1>4. \A d \in Procs : proc'[d].pc \notin Asleep
    BY <1>1, <1>3, NotifyAll DEF Asleep, Proc
  <1>5. /\ proc' \in [Procs -> Proc]
        /\ proc'[c].pc = "want" /\ proc'[c].at = s /\ proc'[c].fp = proc[c].fp
    BY <1>1, <1>2, <1>3, NotifyAll DEF Asleep
  <1>6. \A d \in Procs \ {c} : Woken(d)
    BY <1>1, <1>3, NotifyAll DEF Woken, Asleep
  <1> QED  BY <1>4, <1>5, <1>6 DEF Moves

\* Whoever else has borrowed a session still has it.
LEMMA OthersKeep ==
    ASSUME NEW c \in Procs, \A d \in Procs \ {c} : Woken(d)
    PROVE  /\ \A d \in Procs \ {c} : Busy(d)' <=> Busy(d)
           /\ \A s \in Sessions : Borrowers(s)' \ {c} = Borrowers(s) \ {c}
  BY DEF Woken, Busy, Borrowers, Locked

\* A session that is in nobody's way to be borrowed: c is not a borrower of it.
LEMMA NoneElse ==
    ASSUME NEW c \in Procs, \A d \in Procs \ {c} : Woken(d),
           ~(Borrows(c) /\ Busy(c)), ~(Borrows(c) /\ Busy(c)')
    PROVE  \A s \in Sessions : Borrowers(s)' = Borrowers(s)
  <1>1. \A s \in Sessions : c \notin Borrowers(s) /\ c \notin Borrowers(s)'
    BY DEF Borrowers, Busy
  <1> QED  BY <1>1, OthersKeep

\* Nobody else is inside the lock of the session that c has or may take.
LEMMA OthersElsewhere ==
    ASSUME LockAlone, NEW c \in Procs, NEW d \in Procs \ {c}, proc[d].pc \in Locked,
           proc[c].pc \in Locked \/ sess[proc[c].at].lock = {}
    PROVE  proc[d].at # proc[c].at
  BY DEF LockAlone

\* Nothing undoes a disturbance.
LEMMA StaysDisturbed ==
    ASSUME NEW c \in Procs, NEW pc, NEW at, Moves(c, pc, at), pc # "new",
           cancels' = 0 => cancels = 0, Undisturbed'
    PROVE  Undisturbed
  BY DEF Undisturbed, Moves, Woken

\* The pool is empty at first and nobody does anything.
LEMMA PoolInitInv == PoolInit => PoolInv
  <1> SUFFICES ASSUME PoolInit  PROVE PoolInv
    OBVIOUS
  <1> USE DEF PoolInit, Start, Down
  <1>1. \A c \in Procs : proc[c].pc = "new" /\ proc[c] \in Proc
    BY PoolAssumption DEF Proc
  <1>2. PoolTypeOK
    <2>1. proc \in [Procs -> Proc]
      BY <1>1
    <2>2. sess \in [Sessions -> Session]
      BY DEF Session
    <2>3. /\ state = "open" /\ started = FALSE /\ avail = {} /\ active = {}
          /\ cancels \in 0..MaxCancels
      BY PoolAssumption
    <2> HIDE DEF PoolInit
    <2> QED  BY <2>1, <2>2, <2>3 DEF PoolTypeOK
  <1>3. PlacesOK /\ LockAlone /\ BoundToCaller /\ CloseGoesOn
    BY <1>1 DEF PlacesOK, Busy, Locked, Draining, LockAlone, BoundToCaller, CloseGoesOn
  <1>4. ActiveBorrowed /\ FreeOK
    BY <1>1 DEF ActiveBorrowed, Borrowers, Locked, FreeOK
  <1> QED  BY <1>2, <1>3, <1>4 DEF PoolInv

-----------------------------------------------------------------------------
(* Steps under the condition.                                              *)

\* c, which has no session, waits, goes on waiting or ends.
LEMMA AsideInv ==
    ASSUME PoolInv, NEW c \in Procs, NEW pc \in {"done"} \cup Waiting \cup Draining,
           ~Busy(c), Moves(c, pc, proc[c].at),
           UNCHANGED <<started, avail, active, sess>>,
           cancels' \in 0..MaxCancels, cancels' = 0 => cancels = 0,
           state' = state \/ (state' = "closing" /\ state = "open"),
           \A d \in Procs : proc'[d].pc = "wait" => state' = "open",
           pc = "wait" => avail = {} /\ started,
           pc \in Draining => OpOf[c] = "close",
           pc = "drain" => active # {}
    PROVE  PoolInv'
  <1> USE DEF PoolInv
  <1>1. pc \notin {"new", "want"} \cup Locked
    BY DEF Waiting, Draining, Locked
  <1>2. ~Busy(c)'
    BY <1>1 DEF Busy, Moves
  <1>3. /\ \A d \in Procs \ {c} : Woken(d)
        /\ \A s \in Sessions : Borrowers(s)' = Borrowers(s)
    BY <1>2, NoneElse DEF Moves
  <1>4. PoolTypeOK'
    BY DEF PoolTypeOK, Moves
  <1>5. PlacesOK'
    BY <1>1, <1>2, <1>3 DEF PlacesOK, Moves, Woken, Busy, Draining, Locked
  <1>6. LockAlone' /\ BoundToCaller'
    BY <1>1, <1>3 DEF LockAlone, BoundToCaller, Moves, Woken, Locked
  <1>7. ActiveBorrowed'
    BY <1>3 DEF ActiveBorrowed
  <1>8. FreeOK'
    BY <1>3 DEF FreeOK, Moves, Woken
  <1>9. CloseGoesOn'
    <2>1. ASSUME NEW d \in Procs, NEW s \in Sessions, Comes(d, s)
          PROVE  Comes(d, s)'
      BY <1>3, <2>1 DEF Comes, Woken, Busy, Locked
    <2>2. Undisturbed' => Undisturbed
      BY <1>1, StaysDisturbed
    <2>3. state' = "closed" => state = "closed"
      OBVIOUS
    <2> QED  BY <2>1, <2>2, <2>3 DEF CloseGoesOn
  <1> QED  BY <1>4, <1>5, <1>6, <1>7, <1>8, <1>9

\* _acquire: refused, asleep, or with a session that nobody had.
LEMMA AcquireInv == ASSUME PoolInv, NEW c \in Procs, _acquire(c)
                    PROVE  PoolInv'
  <1> USE DEF PoolInv
  <1>0. /\ proc \in [Procs -> Proc] /\ cancels \in 0..MaxCancels /\ ~Busy(c)
        /\ 1 \in Sessions /\ proc[c].pc \notin Locked
    BY PoolAssumption DEF PoolTypeOK, _acquire, Busy, Locked, Sessions
  <1>1. CASE proc' = To(c, "done") /\ UNCHANGED <<state, started, avail, active, sess, cancels>>
    <2>1. Moves(c, "done", proc[c].at)
      BY <1>0, <1>1, ToMoves DEF Pcs
    <2>2. \A d \in Procs : proc'[d].pc = "wait" => state' = "open"
      BY <1>1, <2>1 DEF Moves, Woken, FreeOK
    <2>3. "done" \in {"done"} \cup Waiting \cup Draining /\ "done" \notin Draining
      BY DEF Draining, Waiting
    <2> QED  BY <1>0, <1>1, <2>1, <2>2, <2>3, AsideInv
  <1>2. CASE /\ state = "open" /\ started' = TRUE /\ Idle = {} /\ proc' = To(c, "wait")
             /\ UNCHANGED <<state, avail, active, sess, cancels>>
    <2>1. started = TRUE /\ avail = {}
      BY <1>0, <1>2 DEF Idle, PoolTypeOK
    <2>2. Moves(c, "wait", proc[c].at)
      BY <1>0, <1>2, ToMoves DEF Pcs, Waiting
    <2>3. \A d \in Procs : proc'[d].pc = "wait" => state' = "open"
      BY <1>2
    <2>4. "wait" \in Waiting /\ "wait" \notin Draining
      BY DEF Waiting, Draining
    <2> QED  BY <1>0, <1>2, <2>1, <2>2, <2>3, <2>4, AsideInv
  <1>3. ASSUME state = "open", started' = TRUE, NEW s \in Idle, avail' = Idle \ {s},
               active' = active \cup {s}, proc' = At(c, s), Borrows(c),
               UNCHANGED <<state, sess, cancels>>
        PROVE  PoolInv'
    <2>1. Idle = Sessions \ active /\ s \in Sessions /\ s \in 0..Size
      BY <1>3 DEF FreeOK, Idle, Sessions, PoolTypeOK
    <2>2. Moves(c, "want", s) /\ \A d \in Procs \ {c} : proc'[d] = proc[d]
      BY <1>0, <1>3, <2>1, AtMoves
    <2>3. /\ Borrowers(s)' = {c}
          /\ \A r \in Sessions \ {s} : Borrowers(r)' = Borrowers(r)
      <3>1. Borrowers(s) = {}
        BY <2>1 DEF ActiveBorrowed
      <3>2. \A r \in Sessions : c \notin Borrowers(r)
        BY <1>0 DEF Borrowers, Busy
      <3>3. c \in Borrowers(s)' /\ \A r \in Sessions \ {s} : c \notin Borrowers(r)'
        BY <1>3, <2>2 DEF Borrowers, Moves
      <3>4. \A r \in Sessions : Borrowers(r)' \ {c} = Borrowers(r) \ {c}
        BY <2>2, OthersKeep DEF Moves
      <3> QED  BY <2>1, <3>1, <3>2, <3>3, <3>4
    <2>4. PoolTypeOK'
      BY <1>3, <2>1, <2>2 DEF PoolTypeOK, Moves
    <2>5. PlacesOK'
      BY <1>3, <2>1, <2>2 DEF PlacesOK, Moves, Busy, Draining, Locked
    <2>6. LockAlone' /\ BoundToCaller'
      BY <1>3, <2>2 DEF LockAlone, BoundToCaller, Moves, Locked
    <2>7. ActiveBorrowed'
      BY <1>3, <2>1, <2>3 DEF ActiveBorrowed
    <2>8. FreeOK' /\ CloseGoesOn'
      BY <1>3, <2>1, <2>2 DEF FreeOK, CloseGoesOn, Moves
    <2> QED  BY <2>4, <2>5, <2>6, <2>7, <2>8
  <1> QED  BY <1>1, <1>2, <1>3 DEF _acquire

\* A close with nobody to wait for: the sessions are out, and c comes for all of them.
LEMMA DrainedInv ==
    ASSUME PoolInv, NEW c \in Procs, OpOf[c] = "close", ~Busy(c), Drained(c),
           UNCHANGED <<started, active, sess, cancels>>
    PROVE  PoolInv'
  <1> USE DEF PoolInv
  <1>0. /\ proc \in [Procs -> Proc] /\ ~Borrows(c) /\ 1 \in Sessions /\ 1 \in 0..Size
        /\ active = {} /\ state' = "closed" /\ avail' = {}
    BY PoolAssumption DEF PoolTypeOK, Borrows, Drained, Sessions
  <1>1. PICK pc \in {"want", "done"}, at \in 0..Size :
          /\ Moves(c, pc, at)
          /\ started => pc = "want" /\ at = 1
          /\ ~started => pc = "done"
    <2>1. CASE started
      BY <1>0, <2>1, NotifyAtMoves DEF Drained
    <2>2. CASE ~started
      <3>1. proc' = notify_all(To(c, "done")) /\ proc[c].at \in 0..Size
        BY <1>0, <2>2 DEF Drained, Proc
      <3> QED  BY <1>0, <2>2, <3>1, NotifyToMoves DEF Pcs
    <2> QED  BY <2>1, <2>2
  <1>2. \A d \in Procs : proc'[d].pc \notin Asleep
    <2>1. CASE started
      BY <1>0, <2>1, NotifyAtMoves DEF Drained
    <2>2. CASE ~started
      BY <1>0, <2>2, NotifyToMoves DEF Drained, Pcs
    <2> QED  BY <2>1, <2>2
  <1>3. /\ \A d \in Procs \ {c} : Woken(d)
        /\ \A s \in Sessions : Borrowers(s)' = Borrowers(s)
    BY <1>0, <1>1, NoneElse DEF Moves
  <1>4. PoolTypeOK'
    BY <1>0, <1>1 DEF PoolTypeOK, Moves
  <1>5. PlacesOK'
    <2>1. ASSUME NEW d \in Procs \ {c}
          PROVE  /\ Busy(d)' => Busy(d) /\ proc'[d].at = proc[d].at
                 /\ proc'[d].pc \in Draining => proc[d].pc \in Draining
                 /\ proc'[d].pc \in Locked => proc[d].pc = proc'[d].pc /\ proc[d].then = proc'[d].then
      BY <1>3 DEF Woken, Busy, Draining, Locked
    <2>2. /\ Busy(c)' => proc'[c].at \in Sessions /\ started'
          /\ proc'[c].pc \notin Draining \cup Locked
      BY <1>0, <1>1 DEF Moves, Busy, Draining, Locked
    <2>3. \A d \in Procs : proc'[d].pc = "call" => proc'[d].pc \in Locked
      BY DEF Locked
    <2> QED  BY <1>0, <2>1, <2>2, <2>3 DEF PlacesOK
  <1>6. LockAlone' /\ BoundToCaller'
    BY <1>1, <1>3 DEF LockAlone, BoundToCaller, Moves, Woken, Locked
  <1>7. ActiveBorrowed'
    BY <1>3 DEF ActiveBorrowed
  <1>8. FreeOK'
    BY <1>0, <1>2 DEF FreeOK, Asleep
  <1>9. CloseGoesOn'
    <2>1. CASE started
      <3>1. \A s \in Sessions : Comes(c, s)'
        BY <1>1, <2>1 DEF Comes, Moves, Sessions
      <3> QED  BY <1>0, <3>1 DEF CloseGoesOn
    <2>2. CASE ~started
      BY <1>0, <2>2 DEF CloseGoesOn, FreeOK
    <2> QED  BY <2>1, <2>2
  <1> QED  BY <1>4, <1>5, <1>6, <1>7, <1>8, <1>9

\* close begins: there is nothing to do, it has drained at once, or it waits.
LEMMA CloseBeginInv == ASSUME PoolInv, NEW c \in Procs, CloseBegin(c)
                       PROVE  PoolInv'
  <1> USE DEF PoolInv
  <1>0. /\ proc \in [Procs -> Proc] /\ cancels' \in 0..MaxCancels /\ ~Busy(c)
        /\ OpOf[c] = "close" /\ UNCHANGED <<started, active, sess, cancels>>
        /\ {"done", "drain", "drained"} \subseteq {"done"} \cup Waiting \cup Draining
        /\ "done" \notin Draining
    BY DEF PoolTypeOK, CloseBegin, Busy, Locked, Draining, Waiting
  <1>1. CASE state = "closed" /\ proc' = To(c, "done") /\ UNCHANGED <<state, avail>>
    <2>1. Moves(c, "done", proc[c].at)
      BY <1>0, <1>1, ToMoves DEF Pcs
    <2>2. \A d \in Procs : proc'[d].pc = "wait" => state' = "open"
      BY <1>1, <2>1 DEF Moves, Woken, FreeOK
    <2> QED  BY <1>0, <1>1, <2>1, <2>2, AsideInv
  <1>2. CASE state # "closed" /\ Drained(c)
    BY <1>0, <1>2, DrainedInv
  <1>3. CASE state = "open" /\ active # {} /\ state' = "closing" /\ avail' = avail
             /\ proc' = notify_all(To(c, "drain"))
    <2>1. Moves(c, "drained", proc[c].at) /\ \A d \in Procs : proc'[d].pc # "wait"
      BY <1>0, <1>3, NotifyToMoves DEF Pcs, Draining, Asleep
    <2> QED  BY <1>0, <1>3, <2>1, AsideInv
  <1>4. CASE state = "closing" /\ active # {} /\ state' = "closing" /\ avail' = avail
             /\ proc' = To(c, "drain")
    <2>1. Moves(c, "drain", proc[c].at)
      BY <1>0, <1>4, ToMoves DEF Pcs, Draining
    <2>2. \A d \in Procs : proc'[d].pc = "wait" => state' = "open"
      BY <1>4, <2>1 DEF Moves, Woken, FreeOK
    <2> QED  BY <1>0, <1>4, <2>1, <2>2, AsideInv
  <1>5. state \in {"open", "closing", "closed"}
    BY DEF PoolTypeOK
  <1> QED  BY <1>1, <1>2, <1>3, <1>4, <1>5 DEF CloseBegin

\* A close that was woken up looks again.
LEMMA CloseWakesInv == ASSUME PoolInv, NEW c \in Procs, CloseWakes(c)
                       PROVE  PoolInv'
  <1> USE DEF PoolInv
  <1>0. /\ proc \in [Procs -> Proc] /\ cancels' \in 0..MaxCancels /\ ~Busy(c)
        /\ OpOf[c] = "close" /\ UNCHANGED <<started, active, sess, cancels>>
        /\ "drain" \in {"done"} \cup Waiting \cup Draining
    BY DEF PoolTypeOK, CloseWakes, Busy, Locked, Draining, PlacesOK
  <1>1. CASE Drained(c)
    BY <1>0, <1>1, DrainedInv
  <1>2. CASE active # {} /\ proc' = To(c, "drain") /\ UNCHANGED <<state, avail>>
    <2>1. Moves(c, "drain", proc[c].at)
      BY <1>0, <1>2, ToMoves DEF Pcs, Draining
    <2>2. \A d \in Procs : proc'[d].pc = "wait" => state' = "open"
      BY <1>2, <2>1 DEF Moves, Woken, FreeOK
    <2> QED  BY <1>0, <1>2, <2>1, <2>2, AsideInv
  <1> QED  BY <1>1, <1>2 DEF CloseWakes

\* c stops waiting, on a deadline, on a cancellation, or because the pool is closing.
LEMMA GivesUpInv ==
    ASSUME PoolInv, NEW c \in Procs, ~Busy(c), proc' = To(c, "done"),
           UNCHANGED <<state, started, avail, active, sess>>,
           cancels' \in 0..MaxCancels, cancels' = 0 => cancels = 0
    PROVE  PoolInv'
  <1> USE DEF PoolInv
  <1>1. Moves(c, "done", proc[c].at)
    BY ToMoves DEF PoolTypeOK, Pcs
  <1>2. \A d \in Procs : proc'[d].pc = "wait" => state' = "open"
    BY <1>1 DEF Moves, Woken, FreeOK
  <1>3. "done" \in {"done"} \cup Waiting \cup Draining /\ "done" \notin Draining
    BY DEF Draining
  <1> QED  BY <1>1, <1>2, <1>3, AsideInv

\* reconnect begins.
LEMMA ReconnectInv == ASSUME PoolInv, NEW c \in Procs, Reconnect(c)
                      PROVE  PoolInv'
  <1> USE DEF PoolInv
  <1>0. /\ proc \in [Procs -> Proc] /\ cancels \in 0..MaxCancels /\ ~Busy(c) /\ ~Borrows(c)
        /\ 1 \in Sessions /\ 1 \in 0..Size
    BY PoolAssumption DEF PoolTypeOK, Reconnect, Busy, Locked, Borrows, Sessions
  <1>1. CASE state # "open"
    BY <1>0, <1>1, GivesUpInv DEF Reconnect
  <1>2. CASE state = "open"
    <2>1. /\ started' = TRUE /\ avail' = Idle /\ proc' = At(c, 1)
          /\ UNCHANGED <<state, active, sess, cancels>>
      BY <1>2 DEF Reconnect
    <2>2. Moves(c, "want", 1) /\ \A d \in Procs \ {c} : proc'[d] = proc[d]
      BY <1>0, <2>1, AtMoves
    <2>3. \A s \in Sessions : Borrowers(s)' = Borrowers(s)
      BY <1>0, <2>2, NoneElse DEF Moves
    <2>4. Idle = Sessions \ active
      BY <1>2 DEF FreeOK, Idle, PoolTypeOK
    <2>5. PoolTypeOK'
      BY <2>1, <2>2, <2>4 DEF PoolTypeOK, Moves
    <2>6. PlacesOK'
      BY <1>0, <2>1, <2>2 DEF PlacesOK, Moves, Busy, Draining, Locked
    <2>7. LockAlone' /\ BoundToCaller'
      BY <2>1, <2>2 DEF LockAlone, BoundToCaller, Moves, Locked
    <2>8. ActiveBorrowed'
      BY <2>1, <2>3 DEF ActiveBorrowed
    <2>9. FreeOK' /\ CloseGoesOn'
      BY <1>2, <2>1, <2>2, <2>4 DEF FreeOK, CloseGoesOn, Moves, Idle
    <2> QED  BY <2>5, <2>6, <2>7, <2>8, <2>9
  <1> QED  BY <1>1, <1>2

-----------------------------------------------------------------------------
(* Steps at the lock of a session.                                         *)

\* Whatever becomes of the session of c, who is inside a lock sees his own unchanged.
Apart(c) == \A d \in Procs \ {c} : proc[d].pc \in Locked => sess'[proc[d].at] = sess[proc[d].at]

\* The session of c is now x.
Becomes(c, x) == /\ x \in Session
                 /\ sess' = [sess EXCEPT ![proc[c].at] = x]

\* A change of the session in one's hands leaves the locked sessions of the others alone.
LEMMA StaysApart ==
    ASSUME LockAlone, NEW c \in Procs, sess \in [Sessions -> Session],
           \A d \in Procs : proc[d].pc \in Locked => proc[d].at \in Sessions,
           proc[c].pc \in Locked \/ sess[proc[c].at].lock = {},
           NEW x, sess' = [sess EXCEPT ![proc[c].at] = x]
    PROVE  Apart(c)
  BY OthersElsewhere DEF Apart

\* A change of one session keeps the sessions typed and the others as they were.
LEMMA SessionsTyped ==
    ASSUME sess \in [Sessions -> Session], NEW c \in Procs, NEW x, Becomes(c, x)
    PROVE  /\ sess' \in [Sessions -> Session]
           /\ proc[c].at \in Sessions => sess'[proc[c].at] = x
           /\ \A s \in Sessions : s # proc[c].at => sess'[s] = sess[s]
  BY DEF Becomes

\* c is outside: who is inside is alone with his own session, as before.
LEMMA OthersInside ==
    ASSUME LockAlone, BoundToCaller, NEW c \in Procs, Apart(c), proc'[c].pc \notin Locked,
           \A d \in Procs \ {c} : Woken(d)
    PROVE  LockAlone' /\ BoundToCaller'
  <1>1. ASSUME NEW d \in Procs, proc'[d].pc \in Locked
        PROVE  /\ sess'[proc'[d].at].lock = {d}
               /\ proc'[d].pc = "call" => sess'[proc'[d].at].bind = proc'[d].fp
    <2>1. /\ d # c /\ proc[d].pc = proc'[d].pc
          /\ proc'[d].at = proc[d].at /\ proc'[d].fp = proc[d].fp
      BY <1>1 DEF Woken, Locked
    <2> QED  BY <1>1, <2>1 DEF Apart, LockAlone, BoundToCaller
  <1>2. "call" \in Locked
    BY DEF Locked
  <1> QED  BY <1>1, <1>2 DEF LockAlone, BoundToCaller

\* c takes the lock or goes on under it.
LEMMA InsideInv ==
    ASSUME PoolInv, NEW c \in Procs, NEW pc \in Locked, NEW then, NEW x,
           Busy(c), Go(c, pc, then), then \in {"open", "end"}, Apart(c), Becomes(c, x),
           x.lock = {c}, cancels' = cancels,
           pc = "call" => Borrows(c) /\ x.bind = proc[c].fp,
           OpOf[c] = "close" => pc = "reset" /\ then = "end" /\ x.bind = sess[proc[c].at].bind
    PROVE  PoolInv'
  <1> USE DEF PoolInv
  <1>0. /\ proc \in [Procs -> Proc] /\ sess \in [Sessions -> Session]
        /\ proc[c].at \in Sessions /\ started
        /\ UNCHANGED <<state, started, avail, active>>
    BY DEF PoolTypeOK, PlacesOK, Go
  <1>1. /\ proc' \in [Procs -> Proc]
        /\ proc'[c].pc = pc /\ proc'[c].at = proc[c].at /\ proc'[c].fp = proc[c].fp
        /\ proc'[c].then = then
        /\ \A d \in Procs \ {c} : proc'[d] = proc[d]
    BY <1>0 DEF Go, Proc
  <1>2. /\ sess' \in [Sessions -> Session] /\ sess'[proc[c].at] = x
        /\ \A s \in Sessions : s # proc[c].at => sess'[s] = sess[s]
    BY <1>0, SessionsTyped
  <1>3. /\ Busy(c)' /\ pc \notin {"new", "done", "want", "wait", "drain"} \cup Draining
        /\ \A d \in Procs \ {c} : Busy(d)' <=> Busy(d)
    BY <1>1 DEF Busy, Locked, Draining
  <1>4. \A s \in Sessions : Borrowers(s)' = Borrowers(s)
    BY <1>1, <1>3 DEF Borrowers, Busy
  <1>5. PoolTypeOK'
    BY <1>0, <1>1, <1>2 DEF PoolTypeOK
  <1>6. PlacesOK'
    BY <1>0, <1>1, <1>3 DEF PlacesOK
  <1>7. LockAlone' /\ BoundToCaller'
    <2>1. ASSUME NEW d \in Procs, proc'[d].pc \in Locked
          PROVE  /\ sess'[proc'[d].at].lock = {d}
                 /\ proc'[d].pc = "call" => sess'[proc'[d].at].bind = proc'[d].fp
      <3>1. CASE d = c
        BY <1>1, <1>2, <3>1
      <3>2. CASE d # c
        BY <1>1, <2>1, <3>2 DEF Apart, LockAlone, BoundToCaller
      <3> QED  BY <3>1, <3>2
    <2>2. "call" \in Locked
      BY DEF Locked
    <2> QED  BY <2>1, <2>2 DEF LockAlone, BoundToCaller
  <1>8. ActiveBorrowed'
    BY <1>0, <1>4 DEF ActiveBorrowed
  <1>9. FreeOK'
    BY <1>0, <1>1, <1>3 DEF FreeOK
  <1>10. CloseGoesOn'
    <2> SUFFICES ASSUME state = "closed"
                 PROVE  /\ active = {}
                        /\ Undisturbed' => \A s \in Sessions :
                             sess'[s].bind = NoTarget \/ \E d \in Procs : Comes(d, s)'
      BY <1>0 DEF CloseGoesOn
    <2>1. active = {} /\ ~Borrows(c)
      BY <1>0 DEF CloseGoesOn, ActiveBorrowed, Borrowers, Busy
    <2>2. ASSUME Undisturbed'
          PROVE  /\ OpOf[c] = "close" /\ Undisturbed
      <3>1. OpOf[c] # "reconnect"
        BY <1>1, <1>3, <2>2 DEF Undisturbed
      <3>2. OpOf[c] = "close"
        BY <2>1, <3>1, PoolAssumption DEF Borrows
      <3> QED  BY <1>1, <2>2, <3>1, <3>2 DEF Undisturbed
    <2>3. ASSUME Undisturbed', NEW s \in Sessions, NEW d \in Procs, Comes(d, s)
          PROVE  Comes(d, s)'
      BY <1>1, <2>2, <2>3 DEF Comes
    <2>4. ASSUME Undisturbed', NEW s \in Sessions
          PROVE  sess'[s].bind = sess[s].bind
      BY <1>2, <2>2, <2>4
    <2> QED  BY <2>1, <2>2, <2>3, <2>4 DEF CloseGoesOn
  <1> QED  BY <1>5, <1>6, <1>7, <1>8, <1>9, <1>10

\* A borrower leaves, with the session as x, and everyone who slept looks again.
LEMMA ReleaseInv ==
    ASSUME PoolInv, NEW c \in Procs, NEW x, Borrows(c), Busy(c),
           _release(c, proc[c].at), Apart(c), Becomes(c, x),
           UNCHANGED <<state, started>>,
           cancels' \in 0..MaxCancels
    PROVE  PoolInv'
  <1> USE DEF PoolInv
  <1>0. /\ proc \in [Procs -> Proc] /\ sess \in [Sessions -> Session]
        /\ proc[c].at \in Sessions /\ started
    BY DEF PoolTypeOK, PlacesOK
  <1>r. PICK r \in Sessions : r = proc[c].at
    BY <1>0
  <1>1. Moves(c, "done", r) /\ \A d \in Procs : proc'[d].pc \notin Asleep
    BY <1>0, <1>r, NotifyToMoves DEF _release, Pcs
  <1>2. /\ proc' \in [Procs -> Proc] /\ ~Busy(c)'
        /\ \A d \in Procs \ {c} : Woken(d) /\ (Busy(d)' <=> Busy(d))
    BY <1>1, OthersKeep DEF Moves, Busy, Locked
  <1>3. c \in Borrowers(r) /\ r \in active /\ state # "closed"
    BY <1>r DEF Borrowers, Busy, ActiveBorrowed, CloseGoesOn
  <1>4. Borrowers(r) = {c} /\ Borrowers(r)' = {}
    <2>1. Borrowers(r) = {c}
      BY <1>3 DEF ActiveBorrowed
    <2>2. Borrowers(r)' \ {c} = Borrowers(r) \ {c}
      BY <1>2, OthersKeep
    <2>3. c \notin Borrowers(r)'
      BY <1>2 DEF Borrowers, Busy
    <2> QED  BY <2>1, <2>2, <2>3
  <1>5. \A s \in Sessions : s # r => Borrowers(s)' = Borrowers(s)
    <2>1. \A s \in Sessions : s # r => c \notin Borrowers(s) /\ c \notin Borrowers(s)'
      BY <1>2, <1>r DEF Borrowers, Busy
    <2> QED  BY <1>2, <2>1, OthersKeep
  <1>6. PoolTypeOK'
    BY <1>0, <1>2, SessionsTyped DEF PoolTypeOK, _release
  <1>7. PlacesOK'
    <2>1. ASSUME NEW d \in Procs \ {c}
          PROVE  /\ proc'[d].at = proc[d].at
                 /\ proc'[d].pc \in Draining => proc[d].pc \in Draining
                 /\ proc'[d].pc \in Locked => proc[d].pc = proc'[d].pc /\ proc[d].then = proc'[d].then
      BY <1>2 DEF Woken, Draining, Locked
    <2>2. proc'[c].pc \notin Draining \cup Locked
      BY <1>1 DEF Moves, Draining, Locked
    <2>3. \A d \in Procs : proc'[d].pc = "call" => proc'[d].pc \in Locked
      BY DEF Locked
    <2> QED  BY <1>0, <1>2, <2>1, <2>2, <2>3 DEF PlacesOK
  <1>8. LockAlone' /\ BoundToCaller'
    <2>1. proc'[c].pc \notin Locked
      BY <1>1 DEF Moves, Locked
    <2> QED  BY <1>2, <2>1, OthersInside
  <1>9. ActiveBorrowed'
    BY <1>r, <1>3, <1>4, <1>5 DEF ActiveBorrowed, _release
  <1>10. FreeOK'
    <2>1. state = "open" => avail' = Sessions \ active'
      BY <1>0, <1>r, <1>3 DEF FreeOK, _release, PoolTypeOK
    <2> QED  BY <1>0, <1>1, <2>1 DEF FreeOK, Asleep
  <1>11. CloseGoesOn'
    BY <1>3 DEF CloseGoesOn
  <1> QED  BY <1>6, <1>7, <1>8, <1>9, <1>10, <1>11

\* reconnect or close leaves, for the next session or, cancelled, for good.
LEMMA PassInv ==
    ASSUME PoolInv, NEW c \in Procs, NEW x, ~Borrows(c), Busy(c),
           Apart(c), Becomes(c, x), UNCHANGED <<state, started, avail, active>>,
           cancels' \in 0..MaxCancels, cancels' = 0 => cancels = 0,
           cancels' = 0 /\ OpOf[c] = "close" => x.bind = NoTarget,
           \/ proc' = IF proc[c].at < Size THEN At(c, proc[c].at + 1) ELSE To(c, "done")
           \/ cancels' # 0 /\ proc' = To(c, "done")
    PROVE  PoolInv'
  <1> USE DEF PoolInv
  <1>0. /\ proc \in [Procs -> Proc] /\ sess \in [Sessions -> Session]
        /\ proc[c].at \in Sessions /\ started /\ proc[c].at \in 0..Size
    BY DEF PoolTypeOK, PlacesOK, Sessions
  <1>1. PICK pc \in {"want", "done"}, at \in Sessions :
          /\ Moves(c, pc, at) /\ \A d \in Procs \ {c} : proc'[d] = proc[d]
          /\ cancels' = 0 /\ proc[c].at < Size => pc = "want" /\ at = proc[c].at + 1
    <2>1. CASE proc' = To(c, "done") /\ (cancels' # 0 \/ ~(proc[c].at < Size))
      BY <1>0, <2>1, ToMoves DEF Pcs
    <2>2. CASE proc' = At(c, proc[c].at + 1) /\ proc[c].at < Size
      <3>1. proc[c].at + 1 \in Sessions /\ proc[c].at + 1 \in 0..Size
        BY <1>0, <2>2, PoolAssumption DEF Sessions
      <3> QED  BY <1>0, <2>2, <3>1, AtMoves
    <2> QED  BY <2>1, <2>2
  <1>2. /\ sess' \in [Sessions -> Session] /\ sess'[proc[c].at] = x
        /\ \A s \in Sessions : s # proc[c].at => sess'[s] = sess[s]
    BY <1>0, SessionsTyped
  <1>3. /\ proc' \in [Procs -> Proc] /\ proc'[c].pc = pc /\ proc'[c].at = at
        /\ pc \notin {"new", "wait", "drain", "call"} \cup Draining \cup Locked
    BY <1>1 DEF Moves, Draining, Locked
  <1>4. \A s \in Sessions : Borrowers(s)' = Borrowers(s)
    BY <1>1, NoneElse DEF Moves
  <1>5. PoolTypeOK'
    BY <1>2, <1>3 DEF PoolTypeOK
  <1>6. PlacesOK'
    BY <1>0, <1>1, <1>3 DEF PlacesOK, Busy
  <1>7. LockAlone' /\ BoundToCaller'
    <2>1. \A d \in Procs \ {c} : Woken(d)
      BY <1>1 DEF Woken
    <2> QED  BY <1>3, <2>1, OthersInside
  <1>8. ActiveBorrowed'
    BY <1>4 DEF ActiveBorrowed
  <1>9. FreeOK'
    BY <1>0, <1>1, <1>3 DEF FreeOK
  <1>10. CloseGoesOn'
    <2> SUFFICES ASSUME state = "closed", Undisturbed', NEW s \in Sessions
                 PROVE  sess'[s].bind = NoTarget \/ \E d \in Procs : Comes(d, s)'
      BY DEF CloseGoesOn
    <2>1. OpOf[c] = "close" /\ cancels' = 0 /\ Undisturbed
      <3>1. OpOf[c] # "reconnect" /\ cancels' = 0
        BY <1>3 DEF Undisturbed
      <3>2. OpOf[c] = "close"
        BY <3>1, PoolAssumption DEF Borrows
      <3> QED  BY <1>1, <3>1, <3>2 DEF Undisturbed
    <2>2. CASE s = proc[c].at
      BY <1>2, <2>1, <2>2
    <2>3. CASE s # proc[c].at
      <3>1. CASE sess[s].bind = NoTarget
        BY <1>2, <2>3, <3>1
      <3>2. ASSUME NEW d \in Procs, Comes(d, s)
            PROVE  Comes(d, s)'
        <4>1. CASE d = c
          <5>1. proc[c].at < Size /\ proc[c].at + 1 <= s
            BY <1>0, <2>3, <3>2, <4>1, PoolAssumption DEF Comes, Sessions
          <5> QED  BY <1>1, <1>3, <2>1, <4>1, <5>1 DEF Comes
        <4>2. CASE d # c
          BY <1>1, <3>2, <4>2 DEF Comes
        <4> QED  BY <4>1, <4>2
      <3> QED  BY <2>1, <3>1, <3>2 DEF CloseGoesOn
    <2> QED  BY <2>2, <2>3
  <1> QED  BY <1>5, <1>6, <1>7, <1>8, <1>9, <1>10

\* c has the lock of its session, or takes it.
Holds(c) == proc[c].pc \in Locked \/ (proc[c].pc = "want" /\ sess[proc[c].at].lock = {})

\* Who holds the lock of a session changes it apart from everybody else.
LEMMA HoldsApart ==
    ASSUME PoolInv, NEW c \in Procs, Holds(c), NEW x, sess' = [sess EXCEPT ![proc[c].at] = x]
    PROVE  Apart(c)
  <1>1. \A d \in Procs : proc[d].pc \in Locked => proc[d].at \in Sessions
    BY DEF PoolInv, PlacesOK, Busy
  <1> QED  BY <1>1, StaysApart DEF PoolInv, PoolTypeOK, Holds

\* Whoever holds a lock is about a session of the pool.
LEMMA HolderPlace ==
    ASSUME PoolInv, NEW c \in Procs, Holds(c)
    PROVE  /\ Busy(c) /\ proc[c].at \in Sessions
           /\ proc[c] \in Proc /\ sess[proc[c].at] \in Session
           /\ cancels \in 0..MaxCancels
  BY DEF PoolInv, PoolTypeOK, PlacesOK, Holds, Busy

\* c leaves in any way but by cancellation.
LEMMA LeaveInv ==
    ASSUME PoolInv, NEW c \in Procs, Holds(c), NEW s \in Session, Leave(c, s),
           cancels' = cancels, OpOf[c] = "close" => s.bind = NoTarget
    PROVE  PoolInv'
  <1> DEFINE x == [s EXCEPT !.lock = {}]
  <1>1. x \in Session /\ x.bind = s.bind
    BY DEF Session
  <1>2. sess' = [sess EXCEPT ![proc[c].at] = x] /\ UNCHANGED <<state, started>>
    BY DEF Leave
  <1> HIDE DEF x
  <1>3. Becomes(c, x) /\ Apart(c) /\ Busy(c) /\ cancels' \in 0..MaxCancels
    BY <1>1, <1>2, HoldsApart, HolderPlace DEF Becomes
  <1>4. CASE Borrows(c)
    BY <1>2, <1>3, <1>4, ReleaseInv DEF Leave
  <1>5. CASE ~Borrows(c)
    <2>1. /\ proc' = IF proc[c].at < Size THEN At(c, proc[c].at + 1) ELSE To(c, "done")
          /\ UNCHANGED <<avail, active>>
      BY <1>5 DEF Leave
    <2> QED  BY <1>1, <1>2, <1>3, <1>5, <2>1, PassInv
  <1> QED  BY <1>4, <1>5

\* The lock is free: c takes it, and recycles, opens or calls the session.
LEMMA EnterInv == ASSUME PoolInv, NEW c \in Procs, Enter(c)
                  PROVE  PoolInv'
  <1> DEFINE s == sess[proc[c].at]
             x == [s EXCEPT !.lock = {c}]
  <1>1. Holds(c) /\ cancels' = cancels
    BY DEF Enter, Holds
  <1>2. /\ Busy(c) /\ s \in Session /\ sess \in [Sessions -> Session] /\ proc[c].at \in Sessions
    BY <1>1, HolderPlace DEF PoolInv, PoolTypeOK
  <1>3. x \in Session /\ x.bind = s.bind /\ x.lock = {c}
    BY <1>2 DEF Session
  <1>4. CASE OpOf[c] = "close" /\ s.bind = NoTarget /\ Leave(c, s)
    BY <1>1, <1>2, <1>4, LeaveInv
  <1>5. CASE /\ sess' = [sess EXCEPT ![proc[c].at].lock = {c}]
             /\ \/ Borrows(c) /\ _ensure_session(c, s)
                \/ OpOf[c] = "reconnect" /\ s.bind = NoTarget /\ Go(c, "open", "end")
                \/ OpOf[c] = "reconnect" /\ s.bind # NoTarget /\ Go(c, "reset", "open")
                \/ OpOf[c] = "close" /\ s.bind # NoTarget /\ Go(c, "reset", "end")
    <2>1. sess' = [sess EXCEPT ![proc[c].at] = x]
      BY <1>5
    <2>2. Becomes(c, x) /\ Apart(c)
      BY <1>1, <1>3, <2>1, HoldsApart DEF Becomes
    <2>3. PICK pc \in Locked, then \in {"open", "end"} :
            /\ Go(c, pc, then)
            /\ pc = "call" => Borrows(c) /\ s.bind = proc[c].fp
            /\ OpOf[c] = "close" => pc = "reset" /\ then = "end"
      BY <1>5 DEF _ensure_session, Locked, Borrows
    <2> HIDE DEF x
    <2> QED  BY <1>1, <1>2, <1>3, <2>2, <2>3, InsideInv
  <1> QED  BY <1>4, <1>5 DEF Enter

\* The subprocess is down: on to the next one, or out of the lock.
LEMMA ResetInv == ASSUME PoolInv, NEW c \in Procs, _reset_unlocked(c)
                  PROVE  PoolInv'
  <1> DEFINE x == [Down EXCEPT !.lock = {c}]
  <1>1. Holds(c) /\ cancels' = cancels /\ proc[c].pc \in Locked
    BY DEF _reset_unlocked, Holds, Locked
  <1>2. Down \in Session /\ Down.bind = NoTarget /\ x \in Session /\ x.lock = {c}
    BY DEF Down, Session
  <1>3. CASE proc[c].then # "open"
    BY <1>1, <1>2, <1>3, LeaveInv DEF _reset_unlocked
  <1>4. CASE proc[c].then = "open"
    <2>1. sess' = [sess EXCEPT ![proc[c].at] = x] /\ Go(c, "open", "end")
      BY <1>4 DEF _reset_unlocked
    <2> HIDE DEF x
    <2>2. Becomes(c, x) /\ Apart(c) /\ Busy(c)
      BY <1>1, <1>2, <2>1, HoldsApart, HolderPlace DEF Becomes
    <2>3. OpOf[c] # "close" /\ "open" \in Locked
      BY <1>1, <1>4 DEF PoolInv, PlacesOK, Locked
    <2> QED  BY <1>1, <1>2, <2>1, <2>2, <2>3, InsideInv
  <1> QED  BY <1>3, <1>4

\* The subprocess is up, for the call of a borrower or for the next one.
LEMMA OpenedInv == ASSUME PoolInv, NEW c \in Procs, Opened(c)
                   PROVE  PoolInv'
  <1> DEFINE s == [lock |-> {c}, bind |-> proc[c].fp, db |-> proc[c].fp]
  <1>1. Holds(c) /\ cancels' = cancels /\ proc[c].pc \in Locked /\ OpOf[c] # "close"
    BY DEF Opened, Holds, Locked, PoolInv, PlacesOK
  <1>2. s \in Session /\ s.lock = {c} /\ s.bind = proc[c].fp
    BY <1>1, HolderPlace DEF Session, Proc
  <1>3. CASE ~Borrows(c)
    BY <1>1, <1>2, <1>3, LeaveInv DEF Opened
  <1>4. CASE Borrows(c)
    <2>1. sess' = [sess EXCEPT ![proc[c].at] = s] /\ Go(c, "call", "end")
      BY <1>4 DEF Opened
    <2> HIDE DEF s
    <2>2. Becomes(c, s) /\ Apart(c) /\ Busy(c) /\ "call" \in Locked
      BY <1>1, <1>2, <2>1, HoldsApart, HolderPlace DEF Becomes, Locked
    <2> QED  BY <1>1, <1>2, <1>4, <2>1, <2>2, InsideInv
  <1> QED  BY <1>3, <1>4

\* A failing open keeps the invariant.
LEMMA OpenFailsInv == ASSUME PoolInv, NEW c \in Procs, OpenFails(c)
                      PROVE  PoolInv'
  <1>1. Holds(c) /\ cancels' = cancels /\ Leave(c, Down)
    BY DEF OpenFails, Holds, Locked
  <1>2. Down \in Session /\ Down.bind = NoTarget
    BY DEF Down, Session
  <1> QED  BY <1>1, <1>2, LeaveInv

\* The tool has answered, to a borrower.
LEMMA AnswersInv == ASSUME PoolInv, NEW c \in Procs, Answers(c)
                    PROVE  PoolInv'
  <1> DEFINE s == [sess[proc[c].at] EXCEPT
                     !.db = IF OpOf[c] = "connect" THEN proc[c].db ELSE @]
  <1>1. Holds(c) /\ cancels' = cancels /\ Leave(c, s) /\ Borrows(c)
    BY DEF Answers, Holds, Locked, PoolInv, PlacesOK
  <1>2. s \in Session
    BY <1>1, HolderPlace DEF Session, Proc
  <1> HIDE DEF s
  <1> QED  BY <1>1, <1>2, LeaveInv DEF Borrows

\* The call has failed, and c goes on to stop the subprocess.
LEMMA CallFailsInv == ASSUME PoolInv, NEW c \in Procs, CallFails(c)
                      PROVE  PoolInv'
  <1> DEFINE x == sess[proc[c].at]
  <1>1. /\ Holds(c) /\ cancels' = cancels /\ Borrows(c) /\ proc[c].pc \in Locked
        /\ Go(c, "reset", "end") /\ sess' = sess /\ "reset" \in Locked
    BY DEF CallFails, Holds, Locked, PoolInv, PlacesOK
  <1>2. x \in Session /\ sess' = [sess EXCEPT ![proc[c].at] = x] /\ x.lock = {c} /\ Busy(c)
    BY <1>1, HolderPlace DEF PoolInv, PoolTypeOK, LockAlone
  <1> HIDE DEF x
  <1>3. Becomes(c, x) /\ Apart(c)
    BY <1>1, <1>2, HoldsApart DEF Becomes
  <1> QED  BY <1>1, <1>2, <1>3, InsideInv DEF Borrows

\* A cancellation, wherever it hits.
LEMMA CancelInv == ASSUME PoolInv, NEW c \in Procs, Cancel(c)
                   PROVE  PoolInv'
  <1>0. cancels' \in 0..MaxCancels /\ cancels' # 0
    BY PoolAssumption DEF Cancel, PoolInv, PoolTypeOK
  <1>1. CASE /\ proc[c].pc \in Waiting \cup Draining /\ proc' = To(c, "done")
             /\ UNCHANGED <<state, started, avail, active, sess>>
    <2>1. ~Busy(c)
      BY <1>1 DEF Busy, Waiting, Draining, Locked
    <2> QED  BY <1>0, <1>1, <2>1, GivesUpInv
  <1>2. CASE proc[c].pc = "want" /\ UNCHANGED <<state, started, sess>>
    <2> DEFINE x == sess[proc[c].at]
    <2>1. /\ Busy(c) /\ x \in Session /\ sess' = [sess EXCEPT ![proc[c].at] = x]
      BY <1>2 DEF Busy, PoolInv, PlacesOK, PoolTypeOK
    <2>2. Becomes(c, x) /\ Apart(c)
      BY <1>2, <2>1 DEF Becomes, Apart
    <2> HIDE DEF x
    <2>3. CASE Borrows(c)
      <3>1. _release(c, proc[c].at)
        BY <1>2, <2>3 DEF Cancel, Waiting, Draining, Locked
      <3> QED  BY <1>0, <1>2, <2>1, <2>2, <2>3, <3>1, ReleaseInv
    <2>4. CASE ~Borrows(c)
      <3>1. proc' = To(c, "done") /\ UNCHANGED <<avail, active>>
        BY <1>2, <2>4 DEF Cancel, Waiting, Draining, Locked
      <3> QED  BY <1>0, <1>2, <2>1, <2>2, <2>4, <3>1, PassInv
    <2> QED  BY <2>3, <2>4
  <1>3. CASE /\ proc[c].pc \in Locked /\ sess' = [sess EXCEPT ![proc[c].at].lock = {}]
             /\ IF Borrows(c) THEN _release(c, proc[c].at)
                ELSE proc' = To(c, "done") /\ UNCHANGED <<avail, active>>
             /\ UNCHANGED <<state, started>>
    <2> DEFINE x == [sess[proc[c].at] EXCEPT !.lock = {}]
    <2>1. /\ Holds(c) /\ Busy(c) /\ sess[proc[c].at] \in Session
          /\ sess' = [sess EXCEPT ![proc[c].at] = x]
      BY <1>3, HolderPlace DEF Holds
    <2>2. x \in Session
      BY <2>1 DEF Session
    <2> HIDE DEF x
    <2>3. Becomes(c, x) /\ Apart(c)
      BY <2>1, <2>2, HoldsApart DEF Becomes
    <2>4. CASE Borrows(c)
      BY <1>0, <1>3, <2>1, <2>3, <2>4, ReleaseInv
    <2>5. CASE ~Borrows(c)
      BY <1>0, <1>3, <2>1, <2>3, <2>5, PassInv
    <2> QED  BY <2>4, <2>5
  <1> QED  BY <1>1, <1>2, <1>3 DEF Cancel

-----------------------------------------------------------------------------
(* The invariant and what follows from it.                                 *)

\* Every step of the pool keeps the invariant.
LEMMA PoolStepInv == ASSUME PoolInv, [PoolNext]_poolVars
                     PROVE  PoolInv'
  <1>1. CASE UNCHANGED poolVars
    <2>1. UNCHANGED <<state, started, avail, active, sess, proc, cancels>>
      BY <1>1 DEF poolVars
    <2>2. PoolTypeOK' /\ PlacesOK' /\ LockAlone' /\ BoundToCaller'
      BY <2>1 DEF PoolInv, PoolTypeOK, PlacesOK, Busy, LockAlone, BoundToCaller
    <2>3. ActiveBorrowed' /\ FreeOK' /\ CloseGoesOn'
      BY <2>1 DEF PoolInv, ActiveBorrowed, Borrowers, FreeOK, CloseGoesOn, Undisturbed, Comes
    <2> QED  BY <2>2, <2>3 DEF PoolInv
  <1>2. ASSUME NEW c \in Procs, Step(c)
        PROVE  PoolInv'
    BY <1>2, AcquireInv, CloseBeginInv, CloseWakesInv, ReconnectInv, EnterInv, ResetInv,
       OpenedInv, OpenFailsInv, AnswersInv, CallFailsInv DEF Step
  <1>3. ASSUME NEW c \in Procs, CloseTimesOut(c)
        PROVE  PoolInv'
    <2>1. ~Busy(c) /\ cancels \in 0..MaxCancels
      BY <1>3 DEF CloseTimesOut, Busy, Draining, Locked, PoolInv, PoolTypeOK
    <2> QED  BY <1>3, <2>1, GivesUpInv DEF CloseTimesOut
  <1> QED  BY <1>1, <1>2, <1>3, CancelInv DEF PoolNext

\* From the first acquire to the end of the process.
LEMMA PoolAlways == PoolSpec => []PoolInv
  <1>1. PoolInit => PoolInv
    BY PoolInitInv
  <1>2. PoolInv /\ [PoolNext]_poolVars => PoolInv'
    BY PoolStepInv
  <1> QED  BY <1>1, <1>2, PTL DEF PoolSpec

\* _acquire, _release, close and reconnect never lose a session, nor lend it twice, and
\* nobody is left asleep on the condition while there is something to wake up for.
THEOREM NoSessionLost == PoolSpec => []SessionsAccounted
  <1>1. PoolInv => SessionsAccounted
    <2> SUFFICES ASSUME PoolInv  PROVE SessionsAccounted
      OBVIOUS
    <2>1. ASSUME NEW s \in Sessions
          PROVE  Cardinality(Borrowers(s)) = IF s \in active THEN 1 ELSE 0
      <3>1. CASE s \in active
        <4>1. PICK c : c \in Borrowers(s)
          BY <3>1 DEF PoolInv, ActiveBorrowed
        <4>2. Borrowers(s) = {c}
          BY <4>1 DEF PoolInv, ActiveBorrowed
        <4> QED  BY <3>1, <4>2, FS_Singleton
      <3>2. CASE s \notin active
        <4>1. Borrowers(s) = {}
          BY <3>2 DEF PoolInv, ActiveBorrowed
        <4> QED  BY <3>2, <4>1, FS_EmptySet
      <3> QED  BY <3>1, <3>2
    <2>2. PoolTypeOK /\ FreeOK
      BY DEF PoolInv
    <2> QED  BY <2>1, <2>2 DEF SessionsAccounted, FreeOK
  <1> QED  BY <1>1, PoolAlways, PTL

\* _ensure_session: a call runs under its own lock, on a session bound to its caller's
\* target, although the sessions are shared, recycled by reconnect and stopped by close.
THEOREM CallsAreBound == PoolSpec => []BoundToCaller
  <1>1. PoolInv => BoundToCaller
    BY DEF PoolInv
  <1> QED  BY <1>1, PoolAlways, PTL

\* close: the sessions are stopped only when nobody has one, nobody gets one afterwards,
\* and unless a reconnect or a cancellation interferes none is up when close returns.
THEOREM CloseIsFinal == PoolSpec => []ClosedIsDown
  <1>1. PoolInv => ClosedIsDown
    <2> SUFFICES ASSUME PoolInv, state = "closed"
                 PROVE  /\ active = {} /\ \A s \in Sessions : Borrowers(s) = {}
                        /\ \/ cancels > 0
                           \/ \E c \in Procs :
                                 \/ OpOf[c] = "close" /\ proc[c].pc \notin {"new", "done"}
                                 \/ OpOf[c] = "reconnect" /\ proc[c].pc # "new"
                           \/ \A s \in Sessions : sess[s].bind = NoTarget
      BY DEF ClosedIsDown
    <2>1. active = {} /\ \A s \in Sessions : Borrowers(s) = {}
      BY DEF PoolInv, CloseGoesOn, ActiveBorrowed
    <2>2. CASE Undisturbed
      <3>1. \A c \in Procs, s \in Sessions :
              Comes(c, s) => OpOf[c] = "close" /\ proc[c].pc \notin {"new", "done"}
        BY DEF Comes
      <3> QED  BY <2>1, <2>2, <3>1 DEF PoolInv, CloseGoesOn
    <2>3. CASE ~Undisturbed
      <3>1. cancels \in Nat
        BY PoolAssumption DEF PoolInv, PoolTypeOK
      <3> QED  BY <2>1, <2>3, <3>1 DEF Undisturbed
    <2> QED  BY <2>2, <2>3
  <1> QED  BY <1>1, PoolAlways, PTL
=============================================================================
