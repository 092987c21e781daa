----------------------------- MODULE ChatRouting -----------------------------
(***************************************************************************)
(* How a message of a chat finds its intake (api/openai_compat.py, hitl.py,*)
(* intake.py): by the newest pause marker in the history of the chat or,   *)
(* when the client sends no history, by the file .active_intake.json that  *)
(* all chats share.  The authorization of a resume, and what an intake     *)
(* leaves behind for the next message.                                     *)
(*                                                                         *)
(* A request without a user gets a thread of its own.  The requests of one *)
(* chat follow each other, and so do those for one thread.                 *)
(***************************************************************************)
EXTENDS Intake

CONSTANTS Chats, MaxTurns     \* MaxTurns: messages

ASSUME TurnAssumption == MaxTurns \in Nat

VARIABLES marker,   \* marker[c]: the thread of the newest marker in the history of c
          pointer,  \* .active_intake.json: thread and run, as far as known then
          asking,   \* asking[t]: the chat that waits for thread t
          begun,    \* threads that were given out
          turns

routeVars == <<marker, pointer, asking, begun, turns>>
chatVars == <<intakeVars, routeVars>>

NoPointer == [thread |-> None, run |-> 0]

ChatInit == /\ IntakeInit
            /\ marker = [c \in Chats |-> None] /\ pointer = NoPointer
            /\ asking = [t \in Threads |-> None] /\ begun = {} /\ turns = 0

Waiting(c) == \E t \in Threads : asking[t] = c

-----------------------------------------------------------------------------
(* _run_or_resume_once.                                                    *)

Speaks(c) == ~Waiting(c) /\ turns < MaxTurns /\ turns' = turns + 1

\* Requests of the chat client itself, continue with a target, lists, follow-ups and
\* commands are recognized first, whatever the history says, and touch no intake.
Aside(c) == ~Waiting(c) /\ UNCHANGED chatVars

\* "start a new audit" without a marker in sight, or no intake to answer: the pointer is
\* dropped, a thread begun.  A marker in the history wins over these words.
Kickoff(c, t) ==
    /\ Speaks(c)
    /\ t \notin begun /\ begun' = begun \cup {t}
    /\ Begins(t)
    /\ pointer' = NoPointer /\ asking' = [asking EXCEPT ![t] = c]
    /\ UNCHANGED marker

\* resolve_pause_resume sees the history, or there is none and the pointer is read.
Target(c, full) == IF full /\ marker[c] # None THEN [thread |-> marker[c], run |-> 0] ELSE pointer

\* _authorize_intake_resume: by the run of the pointer or of the final state, which
\* must be one of this thread; before there is a run, by the session or the checkpoint.
Authorized(p) == IF p.run # 0 \/ cp[p.thread].state = "ended"
                   THEN p.run # 0 => p.run \in RunsOf(p.thread)
                   ELSE p.thread \in sessions \/ cp[p.thread].state = "paused"

\* An answer, with the history or without.
Answer(c, full) ==
    /\ Speaks(c)
    /\ LET p == Target(c, full) IN
         /\ p.thread # None /\ asking[p.thread] = None
         /\ Authorized(p)
         /\ \E r \in Sensible(cp[p.thread].step) : Resumes(p.thread, r)
         /\ asking' = [asking EXCEPT ![p.thread] = c]
    /\ UNCHANGED <<marker, pointer, begun>>

\* _aresume_or_expired: the session is gone; the operator is told to start a new audit.
\* A run that is known while the checkpoint is not is an error of the graph.
Expired(c, full) ==
    /\ Speaks(c)
    /\ LET p == Target(c, full) IN
         /\ p.thread # None /\ asking[p.thread] = None
         /\ cp[p.thread].state = "none"
         /\ pointer' = IF Authorized(p) THEN pointer ELSE NoPointer
    /\ UNCHANGED <<intakeVars, marker, asking, begun>>

\* The pointer is older than six hours.
Ages == /\ pointer # NoPointer /\ pointer' = NoPointer
        /\ UNCHANGED <<intakeVars, marker, asking, begun, turns>>

-----------------------------------------------------------------------------
(* The invocation and its response.                                        *)

Replied(t) == asking' = [asking EXCEPT ![t] = None]

\* _decorate_result: the pause is written to the pointer, its marker goes to the chat.
Pause(t) == \E step \in Steps :
    /\ Asks(t, step)
    /\ pointer' = [thread |-> t, run |-> meta[t].run]
    /\ marker' = [marker EXCEPT ![asking[t]] = t] /\ Replied(t)
    /\ UNCHANGED <<begun, turns>>

\* _run_or_resume: the connection of the saver fails after the replies were recorded, and
\* the whole turn is done again, with the same reply for the question that comes next.
Retry(t) == \E step \in Steps :
    /\ node[t].pc = step /\ ~Answered(t) /\ node[t].heard # <<>>
    /\ NotUnderstood
    /\ tape' = [tape EXCEPT ![t] = node[t].heard]
    /\ cp' = [cp EXCEPT ![t] = [NoCp EXCEPT !.state = "paused", !.step = step]]
    /\ node' = [node EXCEPT ![t] = Enter(t, Append(node[t].heard, node[t].heard[Len(node[t].heard)]))]
    /\ UNCHANGED <<runs, meta, sessions, planFile, handed, history, crashes, edits, routeVars>>

\* In the turn that began the intake there is no reply yet: done again, it begins another
\* one.  Nothing leads to the first any more.
BeginsAgain(t, u) ==
    /\ node[t].pc = "client" /\ node[t].heard = <<>>
    /\ NotUnderstood
    /\ u \notin begun /\ begun' = begun \cup {u}
    /\ cp[u].state = "none" /\ node[u].pc = "idle"
    /\ cp' \in {cp, [cp EXCEPT ![t] = [NoCp EXCEPT !.state = "paused"]]}
    /\ node' = [node EXCEPT ![t] = Idle, ![u] = Enter(u, <<>>)]
    /\ sessions' = sessions \cup {u}
    /\ asking' = [asking EXCEPT ![t] = None, ![u] = asking[t]]
    /\ pointer' = NoPointer
    /\ UNCHANGED <<runs, meta, tape, planFile, handed, history, crashes, edits, marker, turns>>

\* The audit begins: the intake is no longer the active one.  The marker stays in the chat.
GoesOn(t) == /\ HandOff(t) \/ Rejected(t)
             /\ pointer' = NoPointer /\ Replied(t)
             /\ UNCHANGED <<marker, begun, turns>>

\* The intake ends without a plan; the pointer stays.
Stops(t) == NoPlan(t) /\ Replied(t) /\ UNCHANGED <<marker, pointer, begun, turns>>

Works(t) == (NodeStep(t) /\ UNCHANGED routeVars) \/ Pause(t) \/ Retry(t) \/ GoesOn(t) \/ Stops(t)

\* The chats are told that the connection is gone.
Crash == Dies /\ asking' = [t \in Threads |-> None] /\ UNCHANGED <<marker, pointer, begun, turns>>

\* Nobody waits for an answer; any other state without a step is a deadlock.
Silence == /\ \A t \in Threads : asking[t] = None
           /\ UNCHANGED chatVars

ChatNext == \/ \E c \in Chats : \/ Aside(c)
                                \/ \E t \in Threads : Kickoff(c, t)
                                \/ \E full \in BOOLEAN : Answer(c, full) \/ Expired(c, full)
            \/ \E t \in Threads : Works(t) \/ \E u \in Threads : BeginsAgain(t, u)
            \/ Ages \/ (Edit /\ UNCHANGED routeVars) \/ Crash \/ Silence

ChatSpec == ChatInit /\ [][ChatNext]_chatVars

-----------------------------------------------------------------------------
(* Properties.                                                             *)

\* However often the node is replayed, by whomever, and whatever crashed, an intake has
\* one audit run (find_run_by_base_thread, load_intake_progress).
OneRunPerIntake == \A t \in Threads : Cardinality(RunsOf(t)) <= 1

\* The hosts are not probed again by the replays; only a crash before the result was
\* saved has it done once more (discovery_complete).
DiscoveredOnce == \A t \in Threads : probes[t] <= 1 + crashes

\* What is handed to the runner is the plan that the operator saw last, and he confirmed
\* it when he was asked about it, although every replay gives out all replies again and
\* starts from the plan as they have cut it (intake_gate, step 3); unless PLAN.md
\* changed, the process died or the model failed in between.
ConfirmedIsShown == \A h \in handed : h.quiet => h.jobs = h.shown /\ h.by = "scope"

\* "assessment does not start until the operator explicitly confirms": the reply that
\* starts it was given to the question about the plan.
ConfirmedAtScope == \A h \in handed : h.by = "scope"
=============================================================================
