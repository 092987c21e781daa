------------------------------- MODULE McpPool -------------------------------
(***************************************************************************)
(* The pool of PostgreSQL MCP sessions (tools/mcp_client.py,               *)
(* PostgresMcpSession and PostgresMcpPool).  Requirement workers borrow a  *)
(* session for one tool call, the reconnect node of the graph recycles     *)
(* every session, and shutdown drains the borrowers and closes the         *)
(* sessions.  Each coroutine of the model performs one such operation.     *)
(*                                                                         *)
(* The condition of the pool is never held across an await, so a section   *)
(* under it is one action, and waiting on it is a state of the coroutine.  *)
(* The lock of a session is held across the start and the stop of its      *)
(* subprocess and across the call itself.                                  *)
(***************************************************************************)
EXTENDS Naturals, FiniteSets

CONSTANTS Procs,      \* coroutines
          Size,       \* sessions of the pool
          Targets,    \* databases: what pg_fingerprint tells apart
          NoTarget,   \* without a session
          OpOf,       \* the operation of a coroutine
          Settings,   \* Settings[c]: the databases c may be configured for
          MaxCancels  \* bound on cancellations

ASSUME PoolAssumption == /\ Size \in Nat \ {0} /\ NoTarget \notin Targets
                         /\ OpOf \in [Procs -> {"query", "connect", "reconnect", "close"}]
                         /\ Settings \in [Procs -> SUBSET Targets]
                         /\ MaxCancels \in Nat

Sessions == 1..Size

VARIABLES state,    \* PoolState
          started,  \* _initialized
          avail,    \* _available
          active,   \* _active
          sess,     \* sess[s]: the s-th session
          proc,     \* proc[c]: what coroutine c is doing
          cancels

poolVars == <<state, started, avail, active, sess, proc, cancels>>

\* bind is _pg_fingerprint, without a session NoTarget; db the database that the
\* subprocess is connected to.  A subprocess may die at any time: the call on it
\* then fails.
Session == [lock : SUBSET Procs, bind : Targets \cup {NoTarget}, db : Targets \cup {NoTarget}]
Down == [lock |-> {}, bind |-> NoTarget, db |-> NoTarget]

(* at is the session a coroutine is about, fp the target of its settings,  *)
(* db the one that connect_db names.  pc: "wait" and "drain" on the        *)
(* condition, "notified" and "drained" once woken; "want" for the lock of  *)
(* the session, and under it "reset", "open" and "call".  then says what   *)
(* follows the reset.                                                      *)
Waiting == {"wait", "notified"}
Draining == {"drain", "drained"}
Locked == {"reset", "open", "call"}
Proc == [pc : {"new", "done", "want"} \cup Waiting \cup Draining \cup Locked,
         at : 0..Size, fp : Targets, db : Targets, then : {"open", "end"}]

Start(fp, db) == [pc |-> "new", at |-> 0, fp |-> fp, db |-> db, then |-> "end"]
PoolInit == /\ state = "open" /\ started = FALSE
            /\ avail = {} /\ active = {}
            /\ sess = [s \in Sessions |-> Down]
            /\ proc \in [Procs -> {Start(fp, db) : fp \in Targets, db \in Targets}]
            /\ \A c \in Procs : /\ proc[c].fp \in Settings[c]
                                /\ OpOf[c] # "connect" => proc[c].db = proc[c].fp
            /\ cancels = 0

Borrows(c) == OpOf[c] \in {"query", "connect"}
To(c, pc) == [proc EXCEPT ![c].pc = pc]
At(c, s) == [proc EXCEPT ![c].pc = "want", ![c].at = s]

-----------------------------------------------------------------------------
(* Sections under the condition.                                           *)

\* notify_all, after p coroutines have moved.
notify_all(p) == [c \in Procs |-> [p[c] EXCEPT !.pc = CASE @ = "wait" -> "notified"
                                                      [] @ = "drain" -> "drained"
                                                      [] OTHER -> @]]

\* The sessions are created by the first operation on an open pool.
Idle == IF started THEN avail ELSE Sessions

\* _acquire, from the beginning or from a wake-up: refused once the pool is closing.
_acquire(c) ==
    /\ Borrows(c)
    /\ proc[c].pc = "new" \/ proc[c].pc = "notified"
    /\ \/ /\ state # "open"
          /\ proc' = To(c, "done")
          /\ UNCHANGED <<started, avail, active>>
       \/ /\ state = "open"
          /\ started' = TRUE
          /\ \/ \E s \in Idle : /\ avail' = Idle \ {s}
                                /\ active' = active \cup {s}
                                /\ proc' = At(c, s)
             \/ /\ Idle = {}
                /\ proc' = To(c, "wait")
                /\ UNCHANGED <<avail, active>>
    /\ UNCHANGED <<state, sess, cancels>>

\* Faulty: the session stays in _active.
ReleaseKeepsActive(c, s) == /\ avail' = IF state = "open" THEN avail \cup {s} ELSE avail
                            /\ proc' = notify_all(To(c, "done"))
                            /\ UNCHANGED active

\* _release of session s by a coroutine that ends: kept out of a closing pool.
_release(c, s) == /\ active' = active \ {s}
                  /\ avail' = IF state = "open" THEN avail \cup {s} ELSE avail
                  /\ proc' = notify_all(To(c, "done"))

\* Faulty: skips the first session.
DrainedSkipsOne(c) ==
    /\ active = {}
    /\ state' = "closed" /\ avail' = {}
    /\ proc' = notify_all(IF started /\ Size > 1 THEN At(c, 2) ELSE To(c, "done"))

\* close: refuse newcomers, wait for the borrowers, then take the sessions out and
\* close them one by one.
Drained(c) ==
    /\ active = {}
    /\ state' = "closed" /\ avail' = {}
    /\ proc' = notify_all(IF started THEN At(c, 1) ELSE To(c, "done"))

CloseBegin(c) ==
    /\ OpOf[c] = "close" /\ proc[c].pc = "new"
    /\ \/ /\ state = "closed"
          /\ proc' = To(c, "done") /\ UNCHANGED <<state, avail>>
       \/ /\ state # "closed" /\ Drained(c)
       \/ /\ state # "closed" /\ active # {}
          /\ state' = "closing"
          /\ proc' = IF state = "open" THEN notify_all(To(c, "drain")) ELSE To(c, "drain")
          /\ UNCHANGED avail
    /\ UNCHANGED <<started, active, sess, cancels>>
CloseWakes(c) ==
    /\ proc[c].pc = "drained"
    /\ \/ Drained(c)
       \/ active # {} /\ proc' = To(c, "drain") /\ UNCHANGED <<state, avail>>
    /\ UNCHANGED <<started, active, sess, cancels>>

\* The deadline has passed with borrowers left: McpPoolShutdownTimeoutError.
CloseTimesOut(c) == /\ proc[c].pc \in Draining /\ active # {}
                    /\ proc' = To(c, "done")
                    /\ UNCHANGED <<state, started, avail, active, sess, cancels>>

\* reconnect: takes a list of the sessions, then recycles them one by one.
Reconnect(c) == /\ OpOf[c] = "reconnect" /\ proc[c].pc = "new"
                /\ IF state = "open"
                     THEN started' = TRUE /\ avail' = Idle /\ proc' = At(c, 1)
                     ELSE proc' = To(c, "done") /\ UNCHANGED <<started, avail>>
                /\ UNCHANGED <<state, active, sess, cancels>>

-----------------------------------------------------------------------------
(* Under the lock of a session.                                            *)

\* c leaves the lock, with the session as s: a borrower returns it, reconnect and
\* close go on to the next one.
Leave(c, s) ==
    /\ sess' = [sess EXCEPT ![proc[c].at] = [s EXCEPT !.lock = {}]]
    /\ IF Borrows(c) THEN _release(c, proc[c].at)
       ELSE /\ proc' = IF proc[c].at < Size THEN At(c, proc[c].at + 1) ELSE To(c, "done")
            /\ UNCHANGED <<avail, active>>
    /\ UNCHANGED <<state, started>>

Go(c, pc, then) == /\ proc' = [proc EXCEPT ![c].pc = pc, ![c].then = then]
                   /\ UNCHANGED <<state, started, avail, active>>

\* Faulty: any session will do.
EnsureAny(c, s) == IF s.bind = NoTarget THEN Go(c, "open", "end") ELSE Go(c, "call", "end")

\* _ensure_session: a session bound to another target is recycled first.
_ensure_session(c, s) ==
    CASE s.bind = NoTarget -> Go(c, "open", "end")
      [] s.bind # NoTarget /\ s.bind # proc[c].fp -> Go(c, "reset", "open")
      [] OTHER -> Go(c, "call", "end")

\* c gets the lock: call_tool makes sure of the session, reconnect and close stop it.
Enter(c) ==
    LET s == sess[proc[c].at] IN
    /\ proc[c].pc = "want" /\ s.lock = {}
    /\ UNCHANGED cancels
    /\ \/ OpOf[c] = "close" /\ s.bind = NoTarget /\ Leave(c, s)
       \/ /\ sess' = [sess EXCEPT ![proc[c].at].lock = {c}]
          /\ \/ Borrows(c) /\ _ensure_session(c, s)
             \/ OpOf[c] = "reconnect" /\ s.bind = NoTarget /\ Go(c, "open", "end")
             \/ OpOf[c] = "reconnect" /\ s.bind # NoTarget /\ Go(c, "reset", "open")
             \/ OpOf[c] = "close" /\ s.bind # NoTarget /\ Go(c, "reset", "end")

\* _reset_unlocked has closed the stack, and with it the subprocess.
_reset_unlocked(c) ==
    /\ proc[c].pc = "reset"
    /\ IF proc[c].then = "open"
         THEN sess' = [sess EXCEPT ![proc[c].at] = [Down EXCEPT !.lock = {c}]] /\ Go(c, "open", "end")
         ELSE Leave(c, Down)
    /\ UNCHANGED cancels

\* The subprocess is up, connected to the database of the settings.
Opened(c) ==
    LET s == [lock |-> {c}, bind |-> proc[c].fp, db |-> proc[c].fp] IN
    /\ proc[c].pc = "open"
    /\ IF Borrows(c) THEN sess' = [sess EXCEPT ![proc[c].at] = s] /\ Go(c, "call", "end")
       ELSE Leave(c, s)
    /\ UNCHANGED cancels

\* It could not be started: an error text, and no session.
OpenFails(c) == /\ proc[c].pc = "open"
                /\ Leave(c, Down)
                /\ UNCHANGED cancels

\* The tool has answered; connect_db has moved the connection.
Answers(c) == LET s == sess[proc[c].at] IN
              /\ proc[c].pc = "call"
              /\ Leave(c, [s EXCEPT !.db = IF OpOf[c] = "connect" THEN proc[c].db ELSE @])
              /\ UNCHANGED cancels

\* Faulty: a call that failed is tried again, as often as it takes.
CallRetries(c) == /\ proc[c].pc = "call"
                  /\ Go(c, "reset", "open")
                  /\ UNCHANGED <<sess, cancels>>

\* A transport exception recycles the session.
CallFails(c) == /\ proc[c].pc = "call"
                /\ Go(c, "reset", "end")
                /\ UNCHANGED <<sess, cancels>>

\* CancelledError, which no handler here catches: a borrower still returns its
\* session; a session whose subprocess was being stopped keeps its binding.
Cancel(c) ==
    /\ cancels < MaxCancels /\ cancels' = cancels + 1
    /\ \/ /\ \/ proc[c].pc \in Waiting \cup Draining
             \/ proc[c].pc = "want" /\ ~Borrows(c)
          /\ proc' = To(c, "done")
          /\ UNCHANGED <<state, started, avail, active, sess>>
       \/ /\ proc[c].pc = "want" /\ Borrows(c)
          /\ _release(c, proc[c].at)
          /\ UNCHANGED <<state, started, sess>>
       \/ /\ proc[c].pc \in Locked
          /\ sess' = [sess EXCEPT ![proc[c].at].lock = {}]
          /\ IF Borrows(c) THEN _release(c, proc[c].at)
             ELSE proc' = To(c, "done") /\ UNCHANGED <<avail, active>>
          /\ UNCHANGED <<state, started>>

Step(c) == \/ _acquire(c) \/ CloseBegin(c) \/ CloseWakes(c) \/ Reconnect(c)
           \/ Enter(c) \/ _reset_unlocked(c) \/ Opened(c) \/ OpenFails(c)
           \/ Answers(c) \/ CallFails(c)

PoolNext == \E c \in Procs : Step(c) \/ CloseTimesOut(c) \/ Cancel(c)

PoolSpec == PoolInit /\ [][PoolNext]_poolVars

\* An operation that has begun goes on: subprocesses answer or fail, and the event
\* loop runs whoever can run.  Nothing has to begin.
PoolFair == PoolSpec /\ WF_poolVars(\E c \in Procs : proc[c].pc # "new" /\ Step(c))

-----------------------------------------------------------------------------
(* Properties.                                                             *)

\* Types of the state.
PoolTypeOK == /\ state \in {"open", "closing", "closed"} /\ started \in BOOLEAN
              /\ avail \in SUBSET Sessions /\ active \in SUBSET Sessions
              /\ sess \in [Sessions -> Session]
              /\ proc \in [Procs -> Proc]
              /\ cancels \in 0..MaxCancels

\* The coroutines that have borrowed session s.
Borrowers(s) == {c \in Procs : Borrows(c) /\ proc[c].at = s /\ proc[c].pc \in {"want"} \cup Locked}

\* Types hold; _active is exactly what is borrowed, each session by one coroutine, and an open
\* pool loses no session, through calls, failures, reconnects and cancellations.  Nobody sleeps
\* on the condition while what it waits for is there: a borrower while a session is free or the
\* pool refuses, a close while nobody borrows.
SessionsAccounted ==
    /\ PoolTypeOK
    /\ \A s \in Sessions : Cardinality(Borrowers(s)) = IF s \in active THEN 1 ELSE 0
    /\ state = "open" /\ started => avail = Sessions \ active
    /\ \A c \in Procs : /\ proc[c].pc = "wait" => avail = {} /\ state = "open"
                        /\ proc[c].pc = "drain" => active # {}

\* A tool call runs on a session that is bound to the target of its own caller,
\* whatever other audits and reconnect have done to that session.
BoundToCaller == \A c \in Procs :
    proc[c].pc = "call" => /\ sess[proc[c].at].bind = proc[c].fp
                           /\ sess[proc[c].at].lock = {c}

Waiters == {c \in Procs : proc[c].pc \in Waiting}

\* Everyone who waits for a session gets one or is refused.
BorrowersServed == Waiters # {} ~> Waiters = {}

\* close never stops a session under a borrower: it reaches the sessions only when
\* nobody has one, and nobody gets one afterwards.  Once it has returned, no subprocess
\* is left,
\* provided that no reconnect ran, which close does not wait for, and that nobody was
\* cancelled: a close that is cancelled after the drain is not taken up by a later one.
ClosedIsDown == state = "closed" =>
    /\ active = {} /\ \A s \in Sessions : Borrowers(s) = {}
    /\ \/ cancels > 0
       \/ \E c \in Procs : \/ OpOf[c] = "close" /\ proc[c].pc \notin {"new", "done"}
                           \/ OpOf[c] = "reconnect" /\ proc[c].pc # "new"
       \/ \A s \in Sessions : sess[s].bind = NoTarget

\* A query runs on the database of its caller's settings.
OwnDatabase == \A c \in Procs :
    proc[c].pc = "call" /\ OpOf[c] = "query" => sess[proc[c].at].db = proc[c].fp
=============================================================================
