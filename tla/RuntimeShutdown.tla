--------------------------- MODULE RuntimeShutdown ---------------------------
(***************************************************************************)
(* Shutdown of the application runtime (application_runtime.py) with what  *)
(* it owns: the registry of background tasks (task_registry.py), the       *)
(* checkpointer of a run (graph.py, aclose_runtime_resources) and the MCP  *)
(* pool.  Streams are the tasks that the chat API starts and tracks; host  *)
(* jobs are started by a stream, are tracked nowhere and outlive the       *)
(* cancellation of their stream.  A close may run into its deadline at     *)
(* every stage; a later close goes on.                                     *)
(*                                                                         *)
(* Leases and borrowed sessions are here only what shutdown looks at; the  *)
(* modules CheckpointLeases and McpPool have them in detail.               *)
(***************************************************************************)
EXTENDS Naturals

CONSTANTS Streams,   \* chat requests with stream=true
          Jobs       \* host jobs that streams start

Work == Streams \cup Jobs

VARIABLES rt,        \* ApplicationRuntime.state
          graph,     \* whether ApplicationRuntime.graph is set
          closed,    \* TaskRegistry._closed
          tracked,   \* TaskRegistry._tasks
          cancelled, \* tasks with a cancellation on its way
          work,      \* work[w]: what w is doing
          owner,     \* owner[j]: the streams whose scheduler started j
          scope,     \* the bundle in _scoped_checkpoints
          opener,    \* who holds the lock in _scoped_acquire_locks to open the bundle
          borrows,   \* who has a session of the pool
          pool,      \* PostgresMcpPool.state
          closer     \* where the close in progress is

shutVars == <<rt, graph, closed, tracked, cancelled, work, owner, scope, opener, borrows, pool, closer>>

RtState == {"created", "running", "closing", "closed"}
WorkState == {"none", "accepted", "run", "opening", "leased", "ended"}
Live == {"run", "opening", "leased"}
Stages == {"idle", "tasks", "leases", "scopes", "pool"}

ShutInit == /\ rt = "created" /\ graph = FALSE
            /\ closed = FALSE /\ tracked = {} /\ cancelled = {}
            /\ work = [w \in Work |-> "none"]
            /\ owner = [j \in Jobs |-> {}]
            /\ scope = "none" /\ opener = {} /\ borrows = {} /\ pool = "open"
            /\ closer = "idle"

In(pcs) == {w \in Work : work[w] \in pcs}
Goes(w, pc) == work' = [work EXCEPT ![w] = pc]
closeVars == <<rt, graph, closed, closer, pool>>

-----------------------------------------------------------------------------
(* Work.                                                                   *)

\* chat_completions and responses_api: the request is accepted by require_open;
\* the body of the response is produced later.
require_open(w) == /\ rt = "running" /\ w \in Streams /\ work[w] = "none"
                   /\ Goes(w, "accepted")
                   /\ UNCHANGED <<closeVars, tracked, cancelled, owner, scope, opener, borrows>>

\* _stream_audit creates the task, then tracks it, which a closed registry refuses
\* without stopping the task.  The task gives up if the graph is gone.
track(w) == /\ work[w] = "accepted"
            /\ Goes(w, IF graph THEN "run" ELSE "ended")
            /\ tracked' = IF graph /\ ~closed THEN tracked \cup {w} ELSE tracked
            /\ UNCHANGED <<closeVars, cancelled, owner, scope, opener, borrows>>

\* schedule_framework_jobs starts a host job as a task of its own.
StartJob(w, j) == /\ w \in Streams /\ work[w] = "run" /\ w \notin cancelled
                  /\ work[j] = "none"
                  /\ Goes(j, "run")
                  /\ owner' = [owner EXCEPT ![j] = {w}]
                  /\ UNCHANGED <<closeVars, tracked, cancelled, scope, opener, borrows>>

\* acquire_run_checkpointer: once the lock of the scope is free, which a task that
\* opens the bundle and a close hold, share the bundle or open one.
Acquire(w) == /\ work[w] = "run" /\ opener = {} /\ scope # "closing"
              /\ Goes(w, IF scope = "open" THEN "leased" ELSE "opening")
              /\ opener' = IF scope = "open" THEN {} ELSE {w}
              /\ UNCHANGED <<closeVars, tracked, cancelled, owner, scope, borrows>>
BundleOpened(w) == /\ work[w] = "opening"
                   /\ Goes(w, "leased") /\ scope' = "open" /\ opener' = opener \ {w}
                   /\ UNCHANGED <<closeVars, tracked, cancelled, owner, borrows>>

\* The graph borrows a session of the pool for a tool call, and returns it.
Borrow(w) == /\ work[w] = "leased" /\ w \notin borrows /\ pool = "open"
             /\ borrows' = borrows \cup {w}
             /\ UNCHANGED <<closeVars, tracked, cancelled, work, owner, scope, opener>>
Return(w) == /\ w \in borrows
             /\ borrows' = borrows \ {w}
             /\ UNCHANGED <<closeVars, tracked, cancelled, work, owner, scope, opener>>

\* release_run_checkpointer.
Release(w) == /\ work[w] = "leased" /\ w \notin borrows
              /\ Goes(w, "run")
              /\ UNCHANGED <<closeVars, tracked, cancelled, owner, scope, opener, borrows>>

\* The task is done, with its leases and sessions given back, and removes itself
\* from the registry.  A stream waits for its jobs unless it is cancelled.
End(w) == /\ \/ work[w] = "run" /\ \A j \in Jobs : w \in owner[j] => work[j] = "ended"
             \/ work[w] \in Live /\ w \in cancelled
          /\ Goes(w, "ended")
          /\ tracked' = tracked \ {w} /\ borrows' = borrows \ {w} /\ opener' = opener \ {w}
          /\ UNCHANGED <<closeVars, cancelled, owner, scope>>

-----------------------------------------------------------------------------
(* start and close.                                                        *)

workVars == <<work, owner, borrows>>

\* start, or a failing start, which closes what there is.
start == /\ rt = "created"
         /\ \/ rt' = "running" /\ graph' = TRUE /\ UNCHANGED <<closed, closer>>
            \/ rt' = "closing" /\ closed' = TRUE /\ closer' = "tasks" /\ UNCHANGED graph
         /\ UNCHANGED <<tracked, cancelled, workVars, scope, opener, pool>>

\* Faulty: a close that ran into its deadline is not taken up again.
CloseOnce == /\ rt = "running" /\ closer = "idle"
             /\ rt' = "closing" /\ closed' = TRUE
             /\ cancelled' = cancelled \cup tracked
             /\ closer' = "tasks"
             /\ UNCHANGED <<graph, tracked, workVars, scope, opener, pool>>

\* close begins, or begins again: the registry is closed, then its tasks cancelled.
CloseBegin == /\ rt \in {"running", "closing"} /\ closer = "idle"
              /\ rt' = "closing" /\ closed' = TRUE
              /\ cancelled' = cancelled \cup tracked
              /\ closer' = "tasks"
              /\ UNCHANGED <<graph, tracked, workVars, scope, opener, pool>>

\* The wait for the tasks is over; those that are not done stay registered.
TasksDone == /\ closer = "tasks"
             /\ closer' = IF tracked # {} THEN "idle" ELSE IF graph THEN "leases" ELSE "pool"
             /\ UNCHANGED <<rt, graph, closed, tracked, cancelled, workVars, scope, opener, pool>>

\* Faulty: closes the bundle when the deadline has passed.
LeasesForced == /\ closer = "leases"
                /\ \/ /\ scope = "open"
                      /\ closer' = "scopes" /\ scope' = "closing" /\ UNCHANGED <<graph, opener>>
                   \/ /\ scope # "open"
                      /\ closer' = "pool" /\ graph' = FALSE /\ opener' = {} /\ UNCHANGED scope
                /\ UNCHANGED <<rt, closed, tracked, cancelled, workVars, pool>>

\* aclose_runtime_resources polls for leases until its deadline, then closes the
\* bundles it finds.  At last it forgets the locks, and whoever still opens a bundle
\* no longer keeps others from opening one.
LeasesPolled == /\ closer = "leases"
                /\ \/ /\ In({"leased"}) # {}
                      /\ closer' = "idle" /\ UNCHANGED <<graph, scope, opener>>
                   \/ /\ In({"leased"}) = {} /\ scope = "open"
                      /\ closer' = "scopes" /\ scope' = "closing" /\ UNCHANGED <<graph, opener>>
                   \/ /\ In({"leased"}) = {} /\ scope # "open"
                      /\ closer' = "pool" /\ graph' = FALSE /\ opener' = {} /\ UNCHANGED scope
                /\ UNCHANGED <<rt, closed, tracked, cancelled, workVars, pool>>
ScopeClosed == /\ closer = "scopes"
               /\ scope' = "none" /\ graph' = FALSE /\ opener' = {}
               /\ closer' = "pool"
               /\ UNCHANGED <<rt, closed, tracked, cancelled, workVars, pool>>

\* PostgresMcpPool.close: refuse new borrowers and wait for the others; then the
\* runtime is closed.
PoolDrained == /\ closer = "pool"
               /\ \/ /\ borrows = {}
                     /\ pool' = "closed" /\ rt' = "closed"
                  \/ /\ borrows # {}
                     /\ pool' = "closing" /\ UNCHANGED rt
               /\ closer' = "idle"
               /\ UNCHANGED <<graph, closed, tracked, cancelled, workVars, scope, opener>>

CloseStep == TasksDone \/ LeasesPolled \/ ScopeClosed \/ PoolDrained
Ends(w) == BundleOpened(w) \/ Return(w) \/ Release(w) \/ End(w)

ShutNext == \/ start \/ CloseBegin \/ CloseStep
            \/ \E w \in Work : \/ require_open(w) \/ track(w) \/ Acquire(w) \/ Borrow(w)
                               \/ Ends(w)
                               \/ \E j \in Jobs : StartJob(w, j)

ShutSpec == ShutInit /\ [][ShutNext]_shutVars

\* Sessions and leases are given back, work that may end does so in the end, a close
\* that has begun goes on, and one that ran into its deadline is called again.
ShutFair == /\ ShutSpec
            /\ WF_shutVars(CloseStep)
            /\ WF_shutVars(rt = "closing" /\ CloseBegin)
            /\ SF_shutVars(\E w \in Work : End(w))
            /\ \A w \in Work : SF_shutVars(Release(w)) /\ WF_shutVars(Return(w) \/ BundleOpened(w))

-----------------------------------------------------------------------------
(* Properties.                                                             *)

\* Types of the state.
ShutTypeOK == /\ rt \in RtState /\ graph \in BOOLEAN /\ closed \in BOOLEAN
              /\ tracked \subseteq Streams /\ cancelled \subseteq Streams
              /\ work \in [Work -> WorkState] /\ owner \in [Jobs -> SUBSET Streams]
              /\ scope \in {"none", "open", "closing"} /\ opener \subseteq Work /\ borrows \subseteq Work
              /\ pool \in {"open", "closing", "closed"} /\ closer \in Stages

\* Types hold, and shutdown never closes a checkpointer under a lease or the pool under a borrower,
\* however often it is begun (aclose_runtime_resources, close).  What is registered runs, and
\* beyond the first stage every task that the shutdown has cancelled is done, through any
\* number of deadlines (TaskRegistry.shutdown keeps what is still running).
NeverUnderWork ==
    /\ ShutTypeOK
    /\ In({"leased"}) # {} => scope = "open"
    /\ borrows # {} => pool # "closed"
    /\ tracked \subseteq In(Live)
    /\ closer \in {"leases", "scopes", "pool"} \/ rt = "closed" => cancelled \subseteq In({"ended"})

\* A closed runtime has no lease left for the work of a stream that it has stopped.
StoppedHasNoLease == rt = "closed" => \A j \in Jobs :
    owner[j] \cap cancelled # {} => work[j] \notin {"opening", "leased"}

\* Work that begins while the runtime is open or not at all.
NoWorkWhileClosing == [][\A w \in Streams : work[w] = "accepted" /\ work'[w] = "run"
                                            => rt = "running"]_shutVars

\* A shutdown that has begun comes to its end when close is called until then.
ShutdownEnds == rt = "closing" ~> rt = "closed"
=============================================================================
