--------------------------- MODULE FollowUpProofs ---------------------------
(***************************************************************************)
(* A verdict stays in the session of its run, the disk stays ahead of the   *)
(* warehouse, the aggregates add up and a result keeps its id: for any      *)
(* number of runs, hosts, requirements and sessions, and for any sequence   *)
(* of jobs, follow-ups, lost calls, cancellations, crashes and resets.      *)
(***************************************************************************)
EXTENDS FollowUp, TLAPS, WellFoundedInduction

-----------------------------------------------------------------------------
(* The inductive invariant.                                                *)

Statuses   == {"none", "running", "interrupted", "completed"}
Ids        == {NoId} \cup (Hosts \X (1 .. MaxWrites))
SessionType == [run : Runs \cup {Unowned, "none"}, status : Statuses]
RowType    == [source : Sources \cup {"none"}, counts : [Reqs -> (0 .. MaxWrites) \X BOOLEAN]]
CellType   == [run : Runs \cup {"none"}, id : Ids, n : 0 .. MaxWrites,
               asset : Hosts \cup {"none"}, skip : BOOLEAN]
CallType   == [run : Runs, host : Hosts \cup {"none"}, source : Sources \cup {"start"},
               found : [Reqs -> Findings], how : {"found", "insert", "adopt", "refuse"},
               num : Numbers]
MetaType   == [num : Nat, asset : Hosts \cup {"none"}, revised : SUBSET Reqs]
WorkerType == [at : {"idle", "todo", "saving"}, found : Findings]
FollowType == [at : {"none", "fill", "saving", "render", "picked"}, run : Runs \cup {"none"},
               host : Hosts \cup {"none"}, asked : SUBSET Reqs, reqs : SUBSET Reqs,
               found : [Reqs -> Findings], meta : MetaType, left : SUBSET (Reqs \cup Hosts),
               session : Nat, status : Statuses]

TablesOK == /\ sessions \in [Numbers -> SessionType]
            /\ rows  \in [Numbers -> [Hosts -> RowType]]
            /\ cells \in [Numbers -> [Hosts -> [Reqs -> CellType]]]
            /\ \A c \in calls : c \in CallType

JobsOK == /\ disk     \in [Runs -> [Hosts -> [Reqs -> Findings]]]
          /\ meta     \in [Runs -> MetaType]
          /\ job      \in [Runs -> [Hosts -> {"none", "assess", "stopped", "raised", "done"}]]
          /\ worker   \in [Runs -> [Hosts -> [Reqs -> WorkerType]]]
          /\ known    \in [Runs -> [Hosts -> [Reqs -> Findings]]]

FollowOK == /\ follow \in FollowType
            /\ follow.at \in {"fill", "saving", "render"} => follow.run \in Runs
            /\ follow.at = "fill" => follow.host \in Hosts /\ follow.left \subseteq Reqs
            /\ follow.at = "saving" => follow.host \in Hosts

\* A call that found its session found its run's; one that adopts a session
\* finds it without an owner, and only the run of the legacy session does.
Resolved(c) ==
    /\ c.how = "found" => sessions[c.num].run = c.run
    /\ c.how = "adopt" => c.run \in Legacy /\ sessions[c.num].run \in {c.run, Unowned}
    /\ c.source # "start" => c.host \in Hosts

\* Whoever names a session without an owner is the legacy run.
Named(r, num) == num \in Numbers /\ sessions[num].run = Unowned => r \in Legacy

SessionsOK == /\ \A c \in calls : Resolved(c)
              /\ \A r \in Runs : Named(r, meta[r].num)
              /\ Named(follow.run, follow.meta.num)
              /\ \A s \in Numbers, h \in Hosts, q \in Reqs :
                    cells[s][h][q] # NoCell => cells[s][h][q].run \in Runs
              /\ OwnSession

\* f is what finding.json d holds or has held.
Behind(f, d) == f.n <= d.n /\ (f.n = d.n => f.id = d.id /\ f.asset = d.asset)
Backed(f, d) == f # NoFinding => f.id # NoId /\ f.n > 0 /\ Behind(f, d)

\* What a thread holds: findings that were on disk, and one of every
\* requirement without a worker.
KnownOK(f, d, h)  == Backed(f, d) /\ (f # NoFinding => f.asset = h)
WorkerOK(w, d, h) == w.at = "saving" => Backed(w.found, d) /\ w.found # NoFinding
                                        /\ w.found.asset = h
NoGap(j, w, f)    == j = "assess" /\ w.at = "idle" => f # NoFinding
ThreadOK(r, h, q) == /\ Backed(disk[r][h][q], disk[r][h][q])
                     /\ KnownOK(known[r][h][q], disk[r][h][q], h)
                     /\ WorkerOK(worker[r][h][q], disk[r][h][q], h)
                     /\ NoGap(job[r][h], worker[r][h][q], known[r][h][q])

CallBacked(c, q) ==
    /\ c.source # "start" => Backed(c.found[q], disk[c.run][c.host][q])
    /\ c.source = "finalize" => c.found[q] # NoFinding /\ c.found[q].asset = c.host

CellBacked(c, h, q) == c # NoCell => c.id # NoId /\ Behind(c, disk[c.run][h][q])

ThreadsOK == \A r \in Runs, h \in Hosts, q \in Reqs : ThreadOK(r, h, q)
CallsOK   == \A c \in calls, q \in Reqs : CallBacked(c, q)
LoadedOK  == follow.at \in {"render", "saving"} /\ follow.host # "none" =>
               \A q \in Reqs : Backed(follow.found[q], disk[follow.run][follow.host][q])
CellsOK   == \A s \in Numbers, h \in Hosts, q \in Reqs : CellBacked(cells[s][h][q], h, q)

ShapesOK  == TablesOK /\ JobsOK /\ FollowOK
StoresInv == ShapesOK /\ SessionsOK /\ ThreadsOK /\ CallsOK /\ LoadedOK /\ CellsOK /\ ListsAgree

-----------------------------------------------------------------------------
(* Tables of two and three dimensions.                                     *)

\* A table after one of its entries was replaced.
LEMMA Put2 ==
    ASSUME NEW A, NEW B, NEW V, NEW f \in [A -> [B -> V]], NEW a \in A, NEW b \in B,
           NEW v \in V, NEW g, g = [f EXCEPT ![a][b] = v]
    PROVE  /\ g \in [A -> [B -> V]] /\ g[a][b] = v
           /\ \A x \in A, y \in B : x # a \/ y # b => g[x][y] = f[x][y]
  OBVIOUS

\* The same for a table of three dimensions.
LEMMA Put3 ==
    ASSUME NEW A, NEW B, NEW C, NEW V, NEW f \in [A -> [B -> [C -> V]]], NEW a \in A,
           NEW b \in B, NEW c \in C, NEW v \in V, NEW g, g = [f EXCEPT ![a][b][c] = v]
    PROVE  /\ g \in [A -> [B -> [C -> V]]] /\ g[a][b][c] = v
           /\ \A x \in A, y \in B, z \in C : x # a \/ y # b \/ z # c => g[x][y][z] = f[x][y][z]
  OBVIOUS

-----------------------------------------------------------------------------
(* Who changes what.                                                       *)

\* finding.json is written by the workers and by a refill.
LEMMA WhoWrites ==
    ASSUME [Next]_vars
    PROVE  \/ UNCHANGED disk
           \/ \E r \in Runs, h \in Hosts, q \in Reqs : WorkerStore(r, h, q)
           \/ \E q \in Reqs : RefillWrite(q)
  <1>1. \A r \in Runs : StartSession(r) \/ UpdateReport(r) => UNCHANGED disk
    BY DEF StartSession, UpdateReport, evidenceVars
  <1>2. \A r \in Runs, h \in Hosts : JobStart(r, h) \/ AssessEnd(r, h) \/ Finalize(r, h)
                                       \/ Cancel(r, h) \/ Resume(r, h) => UNCHANGED disk
    BY DEF JobStart, AssessEnd, Finalize, Cancel, Resume, evidenceVars
  <1>3. \A r \in Runs, h \in Hosts, q \in Reqs :
          GateSkip(r, h, q) \/ ReviseFull(r, h, q) => UNCHANGED disk
    BY DEF GateSkip, ReviseFull, evidenceVars
  <1>4. \A r \in Runs, h \in Hosts, qs \in SUBSET Reqs :
          Refill(r, h, qs) \/ Gather(r, h, qs) \/ Requeue(r, h, qs) => UNCHANGED disk
    BY DEF Refill, Gather, Requeue, evidenceVars
  <1>5. (\E h \in Hosts : UpdateLoad(h)) \/ RefillRefused \/ RefillEnd \/ UpdateRecord
          \/ UpdateNext => UNCHANGED disk
    BY DEF UpdateLoad, RefillRefused, RefillEnd, UpdateRecord, UpdateNext, evidenceVars
  <1>6. (\E c \in calls : Commit(c) \/ Lose(c)) => UNCHANGED disk
    BY DEF Commit, Lose, evidenceVars
  <1>7. (\E s \in Taken : PickSession(s)) \/ PickWrite \/ Reset \/ Crash => UNCHANGED disk
    BY DEF PickSession, PickWrite, Reset, Crash, evidenceVars
  <1>8. UNCHANGED vars => UNCHANGED disk
    BY DEF vars, evidenceVars
  <1> QED  BY <1>1, <1>2, <1>3, <1>4, <1>5, <1>6, <1>7, <1>8 DEF Next

\* The state of the threads changes in their own steps and in a crash.
LEMMA WhoWorks ==
    ASSUME [Next]_vars
    PROVE  \/ UNCHANGED <<job, worker, known>>
           \/ \E r \in Runs, h \in Hosts : \/ JobStart(r, h) \/ AssessEnd(r, h) \/ Finalize(r, h)
                                           \/ Cancel(r, h) \/ Resume(r, h)
           \/ \E r \in Runs, h \in Hosts, q \in Reqs : WorkerStore(r, h, q) \/ GateSkip(r, h, q)
           \/ \E r \in Runs, h \in Hosts, qs \in SUBSET Reqs : Requeue(r, h, qs)
           \/ Crash
  <1>1. \A r \in Runs : StartSession(r) \/ UpdateReport(r) => UNCHANGED <<job, worker, known>>
    BY DEF StartSession, UpdateReport, jobVars
  <1>2. \A r \in Runs, h \in Hosts, q \in Reqs : ReviseFull(r, h, q)
          => UNCHANGED <<job, worker, known>>
    BY DEF ReviseFull, jobVars
  <1>3. \A r \in Runs, h \in Hosts, qs \in SUBSET Reqs : Refill(r, h, qs) \/ Gather(r, h, qs)
          => UNCHANGED <<job, worker, known>>
    BY DEF Refill, Gather, jobVars
  <1>4. \A q \in Reqs : RefillWrite(q) => UNCHANGED <<job, worker, known>>
    BY DEF RefillWrite, jobVars
  <1>5. \A h \in Hosts : UpdateLoad(h) => UNCHANGED <<job, worker, known>>
    BY DEF UpdateLoad, jobVars
  <1>6. RefillRefused \/ RefillEnd \/ UpdateRecord \/ UpdateNext => UNCHANGED <<job, worker, known>>
    BY DEF RefillRefused, RefillEnd, UpdateRecord, UpdateNext, jobVars
  <1>7. \A c \in calls : Commit(c) \/ Lose(c) => UNCHANGED <<job, worker, known>>
    BY DEF Commit, Lose, jobVars
  <1>8. \A s \in Taken : PickSession(s) => UNCHANGED <<job, worker, known>>
    BY DEF PickSession, jobVars
  <1>9. PickWrite \/ Reset => UNCHANGED <<job, worker, known>>
    BY DEF PickWrite, Reset, jobVars
  <1>10. UNCHANGED vars => UNCHANGED <<job, worker, known>>
    BY DEF vars, warehouse, evidenceVars, jobVars
  <1> QED  BY <1>1, <1>2, <1>3, <1>4, <1>5, <1>6, <1>7, <1>8, <1>9, <1>10, Zenon DEF Next

\* meta.json changes with a new thread, with a follow-up and with a new session.
LEMMA WhoNames ==
    ASSUME [Next]_vars
    PROVE  \/ UNCHANGED meta
           \/ \E r \in Runs, h \in Hosts : JobStart(r, h)
           \/ \E r \in Runs, h \in Hosts, qs \in SUBSET Reqs : Gather(r, h, qs)
           \/ RefillEnd
           \/ \E c \in calls : Commit(c)
  <1>1. \A r \in Runs : StartSession(r) \/ UpdateReport(r) => UNCHANGED meta
    BY DEF StartSession, UpdateReport, evidenceVars
  <1>2. \A r \in Runs, h \in Hosts :
          AssessEnd(r, h) \/ Finalize(r, h) \/ Cancel(r, h) \/ Resume(r, h)
          => UNCHANGED meta
    BY DEF AssessEnd, Finalize, Cancel, Resume, evidenceVars
  <1>3. \A r \in Runs, h \in Hosts, q \in Reqs :
          WorkerStore(r, h, q) \/ GateSkip(r, h, q) \/ ReviseFull(r, h, q)
          => UNCHANGED meta
    BY DEF WorkerStore, GateSkip, ReviseFull, evidenceVars
  <1>4. \A r \in Runs, h \in Hosts, qs \in SUBSET Reqs : Refill(r, h, qs) \/ Requeue(r, h, qs)
          => UNCHANGED meta
    BY DEF Refill, Requeue, evidenceVars
  <1>5. \A q \in Reqs : RefillWrite(q) => UNCHANGED meta
    BY DEF RefillWrite, evidenceVars
  <1>6. \A h \in Hosts : UpdateLoad(h) => UNCHANGED meta
    BY DEF UpdateLoad, evidenceVars
  <1>7. RefillRefused \/ UpdateRecord \/ UpdateNext => UNCHANGED meta
    BY DEF RefillRefused, UpdateRecord, UpdateNext, evidenceVars
  <1>8. \A c \in calls : Lose(c) => UNCHANGED meta
    BY DEF Lose, evidenceVars
  <1>9. \A s \in Taken : PickSession(s) => UNCHANGED meta
    BY DEF PickSession, evidenceVars
  <1>10. PickWrite \/ Reset \/ Crash => UNCHANGED meta
    BY DEF PickWrite, Reset, Crash, evidenceVars
  <1>11. UNCHANGED vars => UNCHANGED meta
    BY DEF vars, warehouse, evidenceVars, jobVars
  <1> QED  BY <1>1, <1>2, <1>3, <1>4, <1>5, <1>6, <1>7, <1>8, <1>9, <1>10, <1>11, Zenon DEF Next

\* The follow-up changes in the operator's steps and in a crash.
LEMMA WhoFollows ==
    ASSUME [Next]_vars
    PROVE  \/ UNCHANGED follow
           \/ \E r \in Runs : UpdateReport(r)
           \/ \E r \in Runs, h \in Hosts, qs \in SUBSET Reqs : Refill(r, h, qs)
           \/ \E q \in Reqs : RefillWrite(q)
           \/ \E h \in Hosts : UpdateLoad(h)
           \/ RefillRefused \/ RefillEnd \/ UpdateRecord \/ UpdateNext
           \/ \E s \in Taken : PickSession(s)
           \/ PickWrite \/ Crash
  <1>1. \A r \in Runs : StartSession(r) => UNCHANGED follow
    BY DEF StartSession
  <1>2. \A r \in Runs, h \in Hosts :
          JobStart(r, h) \/ AssessEnd(r, h) \/ Finalize(r, h) \/ Cancel(r, h) \/ Resume(r, h)
          => UNCHANGED follow
    BY DEF JobStart, AssessEnd, Finalize, Cancel, Resume
  <1>3. \A r \in Runs, h \in Hosts, q \in Reqs :
          WorkerStore(r, h, q) \/ GateSkip(r, h, q) \/ ReviseFull(r, h, q)
          => UNCHANGED follow
    BY DEF WorkerStore, GateSkip, ReviseFull
  <1>4. \A r \in Runs, h \in Hosts, qs \in SUBSET Reqs : Gather(r, h, qs) \/ Requeue(r, h, qs)
          => UNCHANGED follow
    BY DEF Gather, Requeue
  <1>5. \A c \in calls : Commit(c) \/ Lose(c) => UNCHANGED follow
    BY DEF Commit, Lose
  <1>6. Reset => UNCHANGED follow
    BY DEF Reset
  <1>7. UNCHANGED vars => UNCHANGED follow
    BY DEF vars, warehouse, evidenceVars, jobVars
  <1> QED  BY <1>1, <1>2, <1>3, <1>4, <1>5, <1>6, <1>7, Zenon DEF Next

\* The warehouse changes in the steps that call it or that it answers.
LEMMA WhoCalls ==
    ASSUME [Next]_vars
    PROVE  \/ UNCHANGED <<sessions, rows, cells>> /\ calls' \subseteq calls
           \/ \E r \in Runs : StartSession(r)
           \/ \E r \in Runs, h \in Hosts : \/ JobStart(r, h) \/ Finalize(r, h)
                                           \/ Resume(r, h) \/ Cancel(r, h)
           \/ \E r \in Runs, h \in Hosts, q \in Reqs : WorkerStore(r, h, q)
           \/ \E r \in Runs, h \in Hosts, qs \in SUBSET Reqs : Requeue(r, h, qs)
           \/ \E q \in Reqs : RefillWrite(q)
           \/ UpdateRecord
           \/ \E c \in calls : Commit(c) \/ Lose(c)
           \/ PickWrite \/ Reset
  <1>1. \A r \in Runs : UpdateReport(r)
          => UNCHANGED <<sessions, rows, cells>> /\ calls' \subseteq calls
    BY DEF UpdateReport, warehouse
  <1>2. \A r \in Runs, h \in Hosts : AssessEnd(r, h)
          => UNCHANGED <<sessions, rows, cells>> /\ calls' \subseteq calls
    BY DEF AssessEnd, warehouse
  <1>3. \A r \in Runs, h \in Hosts, q \in Reqs :
          GateSkip(r, h, q) \/ ReviseFull(r, h, q)
          => UNCHANGED <<sessions, rows, cells>> /\ calls' \subseteq calls
    BY DEF GateSkip, ReviseFull, warehouse
  <1>4. \A r \in Runs, h \in Hosts, qs \in SUBSET Reqs : Refill(r, h, qs) \/ Gather(r, h, qs)
          => UNCHANGED <<sessions, rows, cells>> /\ calls' \subseteq calls
    BY DEF Refill, Gather, warehouse
  <1>5. \A h \in Hosts : UpdateLoad(h)
          => UNCHANGED <<sessions, rows, cells>> /\ calls' \subseteq calls
    BY DEF UpdateLoad, warehouse
  <1>6. RefillRefused \/ RefillEnd \/ UpdateNext
          => UNCHANGED <<sessions, rows, cells>> /\ calls' \subseteq calls
    BY DEF RefillRefused, RefillEnd, UpdateNext, warehouse
  <1>7. \A s \in Taken : PickSession(s)
          => UNCHANGED <<sessions, rows, cells>> /\ calls' \subseteq calls
    BY DEF PickSession, warehouse
  <1>8. Crash => UNCHANGED <<sessions, rows, cells>> /\ calls' \subseteq calls
    BY DEF Crash, warehouse
  <1>9. UNCHANGED vars => UNCHANGED <<sessions, rows, cells>> /\ calls' \subseteq calls
    BY DEF vars, warehouse, evidenceVars, jobVars
  <1> QED  BY <1>1, <1>2, <1>3, <1>4, <1>5, <1>6, <1>7, <1>8, <1>9, Zenon DEF Next

-----------------------------------------------------------------------------
(* Findings.                                                               *)

\* Every finding.json is as it was or a later one.
Grown == \A r \in Runs, h \in Hosts, q \in Reqs :
            disk'[r][h][q] = disk[r][h][q] \/ disk[r][h][q].n < disk'[r][h][q].n

\* A finding that is written has an identity and is a later one.
LEMMA WrittenIs ==
    ASSUME StoresInv, NEW r \in Runs, NEW h \in Hosts, NEW q \in Reqs,
           NEW asset \in Hosts \cup {"none"}, NEW id \in {FreshId(r, h, q), BoundId(r, h, q)},
           Written(r, h, q, id, asset).n <= MaxWrites
    PROVE  LET f == Written(r, h, q, id, asset)
           IN /\ f \in Findings /\ f # NoFinding /\ f.asset = asset /\ f.id # NoId
              /\ f.n = disk[r][h][q].n + 1 /\ Backed(f, f)
  <1> DEFINE d == disk[r][h][q]
             f == Written(r, h, q, id, asset)
  <1>1. d \in Findings /\ MaxWrites \in Nat
    BY FollowUpAssumption DEF StoresInv, ShapesOK, JobsOK
  <1>2. d.n \in 0 .. MaxWrites /\ d.id \in Ids
    BY <1>1 DEF Findings, Ids
  <1>3. f = [id |-> id, n |-> d.n + 1, asset |-> asset, skip |-> FALSE]
    BY DEF Written
  <1>4. d.n + 1 \in 1 .. MaxWrites
    BY <1>1, <1>2, <1>3
  <1>5. FreshId(r, h, q) \in Hosts \X (1 .. MaxWrites)
    BY <1>4 DEF FreshId
  <1>6. NoId \notin Hosts \X (1 .. MaxWrites)
    BY DEF NoId
  <1>7. d # NoFinding => d.id # NoId
    BY DEF StoresInv, ThreadsOK, ThreadOK, Backed
  <1>8. id \in Ids /\ id # NoId
    BY <1>2, <1>5, <1>6, <1>7 DEF BoundId, Ids
  <1>9. f \in Findings
    BY <1>3, <1>4, <1>8, <1>2 DEF Findings, Ids
  <1>10. f # NoFinding /\ f.n > 0 /\ f.id # NoId
    BY <1>3, <1>4, <1>8 DEF NoFinding
  <1>11. Backed(f, f)
    BY <1>3, <1>10, <1>4 DEF Backed, Behind
  <1> QED  BY <1>3, <1>9, <1>10, <1>11

\* What write_finding does to the folder.
LEMMA Writes ==
    ASSUME StoresInv, NEW r \in Runs, NEW h \in Hosts, NEW q \in Reqs,
           NEW asset \in Hosts \cup {"none"}, NEW id \in {FreshId(r, h, q), BoundId(r, h, q)},
           write_finding(r, h, q, Written(r, h, q, id, asset))
    PROVE  /\ disk' \in [Runs -> [Hosts -> [Reqs -> Findings]]] /\ Grown
           /\ disk'[r][h][q] = Written(r, h, q, id, asset)
           /\ \A x \in Runs, y \in Hosts, z \in Reqs :
                 x # r \/ y # h \/ z # q => disk'[x][y][z] = disk[x][y][z]
  <1> DEFINE f == Written(r, h, q, id, asset)
  <1>1. f \in Findings /\ f.n = disk[r][h][q].n + 1
    BY WrittenIs DEF write_finding
  <1>2. disk \in [Runs -> [Hosts -> [Reqs -> Findings]]]
    BY DEF StoresInv, ShapesOK, JobsOK
  <1>3. disk' = [disk EXCEPT ![r][h][q] = f]
    BY DEF write_finding
  <1> HIDE DEF f
  <1>4. /\ disk' \in [Runs -> [Hosts -> [Reqs -> Findings]]] /\ disk'[r][h][q] = f
        /\ \A x \in Runs, y \in Hosts, z \in Reqs :
              x # r \/ y # h \/ z # q => disk'[x][y][z] = disk[x][y][z]
    BY <1>1, <1>2, <1>3, Put3
  <1>5. disk[r][h][q].n \in Nat
    BY <1>2 DEF Findings
  <1>6. Grown
    BY <1>1, <1>4, <1>5 DEF Grown
  <1> QED  BY <1>4, <1>6 DEF f

\* A step writes one finding.json or none.
LEMMA DiskStep ==
    ASSUME StoresInv, [Next]_vars
    PROVE  disk' \in [Runs -> [Hosts -> [Reqs -> Findings]]] /\ Grown
  <1>1. CASE UNCHANGED disk
    BY <1>1 DEF Grown, StoresInv, ShapesOK, JobsOK
  <1>2. ASSUME NEW r \in Runs, NEW h \in Hosts, NEW q \in Reqs, WorkerStore(r, h, q)
        PROVE  disk' \in [Runs -> [Hosts -> [Reqs -> Findings]]] /\ Grown
    BY <1>2, Writes DEF WorkerStore
  <1>3. ASSUME NEW q \in Reqs, RefillWrite(q)
        PROVE  disk' \in [Runs -> [Hosts -> [Reqs -> Findings]]] /\ Grown
    <2>1. /\ follow.run \in Runs /\ follow.host \in Hosts
          /\ follow.meta.asset \in Hosts \cup {"none"}
      BY <1>3 DEF RefillWrite, StoresInv, ShapesOK, FollowOK, FollowType, MetaType
    <2> QED  BY <1>3, <2>1, Writes DEF RefillWrite
  <1> QED  BY <1>1, <1>2, <1>3, WhoWrites

\* What was on disk stays behind what is there.
LEMMA StaysBacked ==
    ASSUME StoresInv, disk' \in [Runs -> [Hosts -> [Reqs -> Findings]]], Grown,
           NEW r \in Runs, NEW h \in Hosts, NEW q \in Reqs, NEW f, f.n \in Nat
    PROVE  /\ Behind(f, disk[r][h][q]) => Behind(f, disk'[r][h][q])
           /\ Backed(f, disk[r][h][q]) => Backed(f, disk'[r][h][q])
  <1>1. disk[r][h][q].n \in Nat /\ disk'[r][h][q].n \in Nat
    BY DEF StoresInv, ShapesOK, JobsOK, Findings
  <1>2. disk'[r][h][q] = disk[r][h][q] \/ disk[r][h][q].n < disk'[r][h][q].n
    BY DEF Grown
  <1>3. Behind(f, disk[r][h][q]) => Behind(f, disk'[r][h][q])
    BY <1>1, <1>2 DEF Behind
  <1> QED  BY <1>3 DEF Backed

-----------------------------------------------------------------------------
(* Calls.                                                                  *)

\* A set of natural numbers that is not empty has a least element.
LEMMA Least ==
    ASSUME NEW S, S \subseteq Nat, S # {}
    PROVE  Min(S) \in S
  <1> DEFINE R == OpToRel(<, Nat)
  <1>1. IsWellFoundedOn(R, Nat)
    BY NatLessThanWellFounded
  <1>2. \A x, y \in Nat : x < y => <<x, y>> \in R
    BY DEF OpToRel
  <1> HIDE DEF R
  <1>3. PICK x \in S : \A y \in S : ~(<<y, x>> \in R)
    BY <1>1, WFMin
  <1>4. ASSUME NEW y \in S  PROVE x <= y
    <2>1. x \in Nat /\ y \in Nat
      OBVIOUS
    <2>2. ~(y < x)
      BY <1>2, <1>3, <2>1, Zenon
    <2> QED  BY <2>1, <2>2
  <1> QED  BY <1>4 DEF Min

\* A call in which a session was looked up or chosen for run r.
LEMMA CallIs ==
    ASSUME NEW r \in Runs, NEW h \in Hosts \cup {"none"}, NEW source \in Sources \cup {"start"},
           NEW found \in [Reqs -> Findings], NEW num \in Nat, Named(r, num),
           source # "start" => h \in Hosts, Call(r, h, source, found, num)
    PROVE  \E c \in CallType : /\ calls' = calls \cup {c} /\ Resolved(c)
                               /\ c.run = r /\ c.host = h /\ c.source = source /\ c.found = found
  <1> DEFINE at == IF source = "start" THEN StartRow(r) ELSE Resolve(r, num)
             c  == [run |-> r, host |-> h, source |-> source, found |-> found,
                    how |-> at.how, num |-> at.num]
  <1>1. at.num \in Numbers /\ calls' = calls \cup {c}
    BY DEF Call
  <1>2. OwnedBy(r) # {} => Min(OwnedBy(r)) \in OwnedBy(r)
    <2>1. OwnedBy(r) \subseteq Nat
      BY DEF OwnedBy, Numbers
    <2> QED  BY <2>1, Least
  <1>3. /\ at.how \in {"found", "insert", "adopt", "refuse"}
        /\ at.how = "found" => sessions[at.num].run = r
        /\ at.how = "adopt" => at.num = num /\ sessions[num].run = Unowned
    <2>1. /\ StartRow(r).how \in {"found", "insert"}
          /\ StartRow(r).how = "found" => sessions[StartRow(r).num].run = r
      BY <1>2 DEF StartRow, OwnedBy
    <2>2. CASE at = StartRow(r)
      BY <2>1, <2>2
    <2>3. CASE at # StartRow(r)
      BY <2>3 DEF Resolve
    <2> QED  BY <2>2, <2>3
  <1>4. c \in CallType
    BY <1>1, <1>3 DEF CallType
  <1>5. at.how = "adopt" => r \in Legacy
    BY <1>1, <1>3 DEF Named
  <1> HIDE DEF at
  <1>6. Resolved(c)
    BY <1>3, <1>5 DEF Resolved
  <1> QED  BY <1>1, <1>4, <1>6

\* What the tables see of a step: nothing, a call, the answer to a call, a
\* status that is marked, or a new database.
Silent   == UNCHANGED <<sessions, rows, cells>> /\ calls' \subseteq calls
Asks(c)  == /\ UNCHANGED <<sessions, rows, cells>> /\ calls' = calls \cup {c}
            /\ c \in CallType /\ Resolved(c) /\ \A q \in Reqs : CallBacked(c, q)'
Answers(c) == c \in calls /\ calls' = calls \ {c} /\ Commits(c) /\ Apply(c)
Marks    == /\ UNCHANGED <<rows, cells>> /\ calls' \subseteq calls
            /\ \E num \in Nat, status \in Statuses : SetStatus(num, status)

\* start_session asks for the run's own session.
LEMMA StartAsks ==
    ASSUME StoresInv, NEW r \in Runs, StartSession(r)
    PROVE  \E c : Asks(c)
  <1>1. Named(r, 0) /\ Nothing \in [Reqs -> Findings]
    BY FollowUpAssumption DEF Named, Numbers, Nothing, NoFinding, Findings
  <1>2. Call(r, "none", "start", Nothing, 0) /\ UNCHANGED <<sessions, rows, cells>>
    BY DEF StartSession
  <1>3. PICK c \in CallType : /\ calls' = calls \cup {c} /\ Resolved(c) /\ c.source = "start"
    BY <1>1, <1>2, CallIs
  <1>4. \A q \in Reqs : CallBacked(c, q)'
    BY <1>3 DEF CallBacked
  <1> QED  BY <1>2, <1>3, <1>4 DEF Asks

\* A thread asks with findings of its state that are on disk.
LEMMA ThreadAsks ==
    ASSUME StoresInv, [Next]_vars, NEW r \in Runs, NEW h \in Hosts, NEW source \in Sources,
           NEW found \in [Reqs -> Findings], NEW num \in Nat, Named(r, num),
           Call(r, h, source, found, num), UNCHANGED <<sessions, rows, cells>>,
           \A q \in Reqs : Backed(found[q], disk'[r][h][q]),
           source = "finalize" => \A q \in Reqs : found[q] # NoFinding /\ found[q].asset = h
    PROVE  \E c : Asks(c)
  <1>1. PICK c \in CallType : /\ calls' = calls \cup {c} /\ Resolved(c) /\ c.run = r /\ c.host = h
                              /\ c.source = source /\ c.found = found
    BY CallIs
  <1>2. \A q \in Reqs : CallBacked(c, q)'
    BY <1>1 DEF CallBacked
  <1> QED  BY <1>1, <1>2 DEF Asks

\* What meta.json names is a number that the run may use.
LEMMA MetaNames ==
    ASSUME StoresInv, NEW r \in Runs
    PROVE  meta[r].num \in Nat /\ Named(r, meta[r].num)
  BY DEF StoresInv, ShapesOK, JobsOK, MetaType, SessionsOK

\* Nothing is backed, and is a list of findings.
LEMMA NothingBacked ==
    /\ Nothing \in [Reqs -> Findings]
    /\ \A d : \A q \in Reqs : Backed(Nothing[q], d)
  BY FollowUpAssumption DEF Nothing, NoFinding, Findings, Backed

\* What one worker or one refill hands over is on disk.
LEMMA OneAsks ==
    ASSUME StoresInv, NEW r \in Runs, NEW h \in Hosts, NEW q \in Reqs,
           NEW asset \in Hosts \cup {"none"}, NEW id \in {FreshId(r, h, q), BoundId(r, h, q)},
           write_finding(r, h, q, Written(r, h, q, id, asset))
    PROVE  LET found == [Nothing EXCEPT ![q] = Written(r, h, q, id, asset)]
           IN found \in [Reqs -> Findings] /\ \A p \in Reqs : Backed(found[p], disk'[r][h][p])
  <1> DEFINE f == Written(r, h, q, id, asset)
             found == [Nothing EXCEPT ![q] = f]
  <1>a. f \in Findings /\ Backed(f, f)
    BY WrittenIs DEF write_finding
  <1>b. disk'[r][h][q] = f
    BY Writes
  <1>1. f \in Findings /\ Backed(f, f) /\ disk'[r][h][q] = f
    BY <1>a, <1>b, Zenon
  <1> HIDE DEF f
  <1>2. found \in [Reqs -> Findings] /\ found[q] = f
        /\ \A p \in Reqs \ {q} : found[p] = Nothing[p]
    BY <1>1, NothingBacked
  <1>3. ASSUME NEW p \in Reqs  PROVE Backed(found[p], disk'[r][h][p])
    <2>1. CASE p = q
      BY <1>1, <1>2, <2>1
    <2>2. CASE p # q
      BY <1>2, <2>2, NothingBacked
    <2> QED  BY <2>1, <2>2
  <1> QED  BY <1>2, <1>3 DEF f

\* Every step is one of these to the tables.
LEMMA Kinds ==
    ASSUME StoresInv, [Next]_vars
    PROVE  Silent \/ (\E c : Asks(c)) \/ (\E c : Answers(c)) \/ Marks \/ Reset
  <1>1. ASSUME NEW r \in Runs, StartSession(r)  PROVE \E c : Asks(c)
    BY <1>1, StartAsks
  <1>2. ASSUME NEW r \in Runs, NEW h \in Hosts, JobStart(r, h) \/ Resume(r, h)
                                                \/ \E qs \in SUBSET Reqs : Requeue(r, h, qs)
        PROVE  Silent \/ \E c : Asks(c)
    <2>1. UNCHANGED <<sessions, rows, cells>>
          /\ (Call(r, h, "assess_start", Nothing, meta[r].num) \/ UNCHANGED calls)
      BY <1>2 DEF JobStart, Resume, Requeue
    <2>2. "assess_start" \in Sources
      BY DEF Sources
    <2>3. CASE UNCHANGED calls
      BY <2>1, <2>3 DEF Silent
    <2>4. CASE Call(r, h, "assess_start", Nothing, meta[r].num)
      BY <2>1, <2>2, <2>4, MetaNames, NothingBacked, ThreadAsks
    <2> QED  BY <2>1, <2>3, <2>4
  <1>3. ASSUME NEW r \in Runs, NEW h \in Hosts, Finalize(r, h)  PROVE \E c : Asks(c)
    <2>1. /\ Call(r, h, "finalize", known[r][h], meta[r].num)
          /\ UNCHANGED <<sessions, rows, cells, disk>>
          /\ job[r][h] = "assess" /\ \A q \in Reqs : worker[r][h][q].at = "idle"
      BY <1>3 DEF Finalize, Assessed, Assessing, evidenceVars
    <2>2. \A q \in Reqs : ThreadOK(r, h, q)
      BY DEF StoresInv, ThreadsOK
    <2>3. \A q \in Reqs : /\ Backed(known[r][h][q], disk'[r][h][q])
                          /\ known[r][h][q] # NoFinding /\ known[r][h][q].asset = h
      BY <2>1, <2>2 DEF ThreadOK, KnownOK, NoGap
    <2>4. "finalize" \in Sources /\ known[r][h] \in [Reqs -> Findings]
      BY DEF Sources, StoresInv, ShapesOK, JobsOK
    <2> QED  BY <2>1, <2>3, <2>4, MetaNames, ThreadAsks
  <1>4. ASSUME NEW r \in Runs, NEW h \in Hosts, Cancel(r, h)  PROVE Marks
    <2>1. SetStatus(meta[r].num, "interrupted") /\ UNCHANGED <<rows, cells>>
          /\ calls' \subseteq calls
      BY <1>4 DEF Cancel
    <2> QED  BY <2>1, MetaNames DEF Marks, Statuses
  <1>5. ASSUME NEW r \in Runs, NEW h \in Hosts, NEW q \in Reqs, WorkerStore(r, h, q)
        PROVE  \E c : Asks(c)
    <2> DEFINE f == Written(r, h, q, BoundId(r, h, q), h)
    <2>1. /\ write_finding(r, h, q, f) /\ Call(r, h, "live", [Nothing EXCEPT ![q] = f], meta[r].num)
          /\ UNCHANGED <<sessions, rows, cells>>
      BY <1>5 DEF WorkerStore
    <2>2. /\ [Nothing EXCEPT ![q] = f] \in [Reqs -> Findings]
          /\ \A p \in Reqs : Backed([Nothing EXCEPT ![q] = f][p], disk'[r][h][p])
      BY <2>1, OneAsks
    <2>3. "live" \in Sources
      BY DEF Sources
    <2> HIDE DEF f
    <2> QED  BY <2>1, <2>2, <2>3, MetaNames, ThreadAsks
  <1>6. ASSUME NEW q \in Reqs, RefillWrite(q)  PROVE \E c : Asks(c)
    <2> DEFINE r == follow.run
               h == follow.host
               f == Written(r, h, q, FreshId(r, h, q), follow.meta.asset)
    <2>1. r \in Runs /\ h \in Hosts /\ follow.meta.asset \in Hosts \cup {"none"}
          /\ follow.meta.num \in Nat /\ Named(r, follow.meta.num)
      BY <1>6 DEF RefillWrite, StoresInv, ShapesOK, FollowOK, FollowType, MetaType, SessionsOK
    <2>2. /\ write_finding(r, h, q, f)
          /\ Call(r, h, "refill", [Nothing EXCEPT ![q] = f], follow.meta.num)
          /\ UNCHANGED <<sessions, rows, cells>>
      BY <1>6 DEF RefillWrite
    <2>3. /\ [Nothing EXCEPT ![q] = f] \in [Reqs -> Findings]
          /\ \A p \in Reqs : Backed([Nothing EXCEPT ![q] = f][p], disk'[r][h][p])
      BY <2>1, <2>2, OneAsks
    <2>4. "refill" \in Sources
      BY DEF Sources
    <2> HIDE DEF f
    <2> QED  BY <2>1, <2>2, <2>3, <2>4, ThreadAsks
  <1>7. ASSUME UpdateRecord  PROVE \E c : Asks(c)
    <2>1. /\ Call(follow.run, follow.host, "update_report", follow.found, follow.meta.num)
          /\ UNCHANGED <<sessions, rows, cells, disk>>
          /\ follow.at = "render" /\ follow.host # "none"
      BY <1>7 DEF UpdateRecord, evidenceVars
    <2>2. /\ follow.run \in Runs /\ follow.host \in Hosts /\ follow.found \in [Reqs -> Findings]
          /\ follow.meta.num \in Nat /\ Named(follow.run, follow.meta.num)
      BY <2>1 DEF StoresInv, ShapesOK, FollowOK, FollowType, MetaType, SessionsOK
    <2>3. \A q \in Reqs : Backed(follow.found[q], disk'[follow.run][follow.host][q])
      BY <2>1, <2>2 DEF StoresInv, LoadedOK
    <2>4. "update_report" \in Sources
      BY DEF Sources
    <2> QED  BY <2>1, <2>2, <2>3, <2>4, ThreadAsks
  <1>8. ASSUME NEW c \in calls, Commit(c) \/ Lose(c)  PROVE Silent \/ Answers(c)
    BY <1>8 DEF Commit, Lose, Silent, Answers
  <1>9. ASSUME PickWrite  PROVE Marks
    <2>1. SetStatus(follow.session, follow.status) /\ UNCHANGED <<rows, cells, calls>>
      BY <1>9 DEF PickWrite
    <2>2. follow.session \in Nat /\ follow.status \in Statuses
      BY DEF StoresInv, ShapesOK, FollowOK, FollowType
    <2> QED  BY <2>1, <2>2 DEF Marks
  <1> QED  BY <1>1, <1>2, <1>3, <1>4, <1>5, <1>6, <1>7, <1>8, <1>9, WhoCalls DEF Silent

\* An answered call leaves its session to its run and changes one row.
LEMMA Answered ==
    ASSUME StoresInv, NEW c, Answers(c)
    PROVE  /\ sessions' \in [Numbers -> SessionType]
           /\ sessions'[c.num].run = c.run /\ c.run \in Runs /\ c.num \in Numbers
           /\ sessions[c.num].run \in {c.run, Unowned, "none"}
           /\ sessions[c.num].run = Unowned => c.run \in Legacy
           /\ \A s \in Numbers \ {c.num} : sessions'[s] = sessions[s]
  <1>1. c \in CallType /\ Resolved(c) /\ sessions \in [Numbers -> SessionType]
    BY DEF Answers, StoresInv, ShapesOK, TablesOK, SessionsOK
  <1>2. c.run \in Runs /\ c.num \in Numbers /\ c.how \in {"found", "insert", "adopt", "refuse"}
    BY <1>1 DEF CallType
  <1>3. RowReady(c) /\ sessions' = [sessions EXCEPT ![c.num] = SessionAfter(c)]
    BY DEF Answers, Commits, Apply
  <1>4. c.how # "refuse" /\ (c.how = "insert" => sessions[c.num].run = "none")
    <2>1. ASSUME c.how = "refuse"  PROVE FALSE
      BY <1>3, <2>1 DEF RowReady
    <2>2. ASSUME c.how = "insert"  PROVE sessions[c.num].run = "none"
      <3>1. sessions[c.num] = NoSession
        BY <1>3, <2>2 DEF RowReady
      <3> QED  BY <3>1 DEF NoSession
    <2> QED  BY <2>1, <2>2
  <1>5. SessionAfter(c).run = c.run
    BY <1>1, <1>2, <1>4 DEF SessionAfter, Resolved
  <1>6. SessionAfter(c) \in SessionType
    BY <1>1, <1>2 DEF SessionAfter, SessionType, Statuses
  <1>7. /\ sessions[c.num].run \in {c.run, Unowned, "none"}
        /\ sessions[c.num].run = Unowned => c.run \in Legacy
    BY <1>1, <1>2, <1>4, FollowUpAssumption DEF Resolved, Unowned
  <1> HIDE DEF Answers
  <1> QED  BY <1>1, <1>2, <1>3, <1>5, <1>6, <1>7

\* The cells of an answered call, and the row with them.
LEMMA RowAnswered ==
    ASSUME StoresInv, NEW c, Answers(c)
    PROVE  /\ rows'  \in [Numbers -> [Hosts -> RowType]]
           /\ cells' \in [Numbers -> [Hosts -> [Reqs -> CellType]]]
           /\ c.source = "start" => UNCHANGED <<rows, cells>>
           /\ c.source # "start" =>
                /\ c.host \in Hosts /\ rows'[c.num][c.host] = RowAfter(c)
                /\ cells'[c.num][c.host] = LineAfter(c)
                /\ \A s \in Numbers, h \in Hosts : s # c.num \/ h # c.host =>
                      rows'[s][h] = rows[s][h] /\ cells'[s][h] = cells[s][h]
  <1>1. /\ c \in CallType /\ Resolved(c) /\ rows \in [Numbers -> [Hosts -> RowType]]
        /\ cells \in [Numbers -> [Hosts -> [Reqs -> CellType]]]
    BY DEF Answers, StoresInv, ShapesOK, TablesOK, SessionsOK
  <1>2. CASE c.source = "start"
    BY <1>1, <1>2 DEF Answers, Apply
  <1>3. CASE c.source # "start"
    <2>1. /\ rows'  = [rows  EXCEPT ![c.num][c.host] = RowAfter(c)]
          /\ cells' = [cells EXCEPT ![c.num][c.host] = LineAfter(c)]
      BY <1>3 DEF Answers, Apply
    <2>2. /\ c.run \in Runs /\ c.num \in Numbers /\ c.host \in Hosts
          /\ c.found \in [Reqs -> Findings] /\ c.source \in Sources
      BY <1>1, <1>3 DEF CallType, Resolved
    <2>3. LineAfter(c) \in [Reqs -> CellType]
      <3>1. ASSUME NEW q \in Reqs
            PROVE  Upsert(cells[c.num][c.host][q], c.run, c.found[q]) \in CellType
        <4>1. cells[c.num][c.host][q] \in CellType /\ c.found[q] \in Findings
          BY <1>1, <2>2
        <4> QED  BY <4>1, <2>2 DEF Upsert, CellType, Findings, Ids
      <3> QED  BY <3>1 DEF LineAfter
    <2>4. RowAfter(c) \in RowType
      <3>1. \A row \in RowType : SnapshotRow(row) \in RowType
        BY DEF SnapshotRow, RowType, Sources
      <3>2. \A line \in [Reqs -> CellType] : Counted(line) \in [Reqs -> (0 .. MaxWrites) \X BOOLEAN]
        BY DEF Counted, CellType
      <3>3. Counted(c.found) \in [Reqs -> (0 .. MaxWrites) \X BOOLEAN]
        BY <2>2 DEF Counted, Findings
      <3>4. LiveRow(rows[c.num][c.host], c.source, LineAfter(c)) \in RowType
        BY <2>2, <2>3, <3>2 DEF LiveRow, Refresh, RowType
      <3>5. RecordRow(c.source, c.found) \in RowType
        BY <2>2, <3>3 DEF RecordRow, RowType
      <3>6. rows[c.num][c.host] \in RowType
        BY <1>1, <2>2
      <3> QED  BY <2>2, <3>1, <3>4, <3>5, <3>6 DEF RowAfter, Sources
    <2> HIDE DEF Answers
    <2>5. /\ rows' \in [Numbers -> [Hosts -> RowType]] /\ rows'[c.num][c.host] = RowAfter(c)
          /\ \A s \in Numbers, h \in Hosts : s # c.num \/ h # c.host => rows'[s][h] = rows[s][h]
      BY <1>1, <2>1, <2>2, <2>4, Put2
    <2>6. /\ cells' \in [Numbers -> [Hosts -> [Reqs -> CellType]]]
          /\ cells'[c.num][c.host] = LineAfter(c)
          /\ \A s \in Numbers, h \in Hosts : s # c.num \/ h # c.host => cells'[s][h] = cells[s][h]
      BY <1>1, <2>1, <2>2, <2>3, Put2
    <2> QED  BY <1>3, <2>2, <2>5, <2>6
  <1> QED  BY <1>2, <1>3

-----------------------------------------------------------------------------
(* Every step keeps the shapes.                                            *)

\* SetStatus changes no owner.
LEMMA Marked ==
    ASSUME StoresInv, Marks
    PROVE  /\ sessions' \in [Numbers -> SessionType]
           /\ \A s \in Numbers : sessions'[s].run = sessions[s].run
  <1>1. PICK num \in Nat, status \in Statuses : SetStatus(num, status)
    BY DEF Marks
  <1>2. sessions \in [Numbers -> SessionType]
    BY DEF StoresInv, ShapesOK, TablesOK
  <1>3. CASE sessions' = sessions
    BY <1>2, <1>3
  <1>4. CASE sessions' = [sessions EXCEPT ![num].status = status]
    BY <1>2, <1>4 DEF SessionType
  <1> QED  BY <1>1, <1>3, <1>4 DEF SetStatus

\* Every step keeps the tables of the warehouse well formed.
LEMMA TablesStep == ASSUME StoresInv, [Next]_vars  PROVE TablesOK'
  <1>0. TablesOK
    BY DEF StoresInv, ShapesOK
  <1>1. CASE Silent
    BY <1>0, <1>1 DEF TablesOK, Silent
  <1>2. ASSUME NEW c, Asks(c)  PROVE TablesOK'
    BY <1>0, <1>2 DEF TablesOK, Asks
  <1>3. ASSUME NEW c, Answers(c)  PROVE TablesOK'
    <2>1. calls' \subseteq calls
      BY <1>3 DEF Answers
    <2> QED  BY <1>0, <1>3, <2>1, Answered, RowAnswered DEF TablesOK
  <1>4. CASE Marks
    <2>1. calls' \subseteq calls /\ UNCHANGED <<rows, cells>>
      BY <1>4 DEF Marks
    <2> QED  BY <1>0, <1>4, <2>1, Marked DEF TablesOK
  <1>5. CASE Reset
    <2>1. NoSession \in SessionType
      BY DEF NoSession, SessionType, Statuses
    <2>2. NoRow \in RowType
      <3>1. 0 \in 0 .. MaxWrites
        BY FollowUpAssumption
      <3>2. [q \in Reqs |-> <<0, FALSE>>] \in [Reqs -> (0 .. MaxWrites) \X BOOLEAN]
        BY <3>1
      <3> QED  BY <3>2 DEF NoRow, RowType
    <2>3. NoCell \in CellType
      BY FollowUpAssumption DEF NoCell, CellType, Ids
    <2>4. /\ sessions' = [s \in Numbers |-> NoSession]
          /\ rows'  = [s \in Numbers |-> [h \in Hosts |-> NoRow]]
          /\ cells' = [s \in Numbers |-> [h \in Hosts |-> [q \in Reqs |-> NoCell]]]
          /\ calls' = {}
      BY <1>5 DEF Reset
    <2> QED  BY <2>1, <2>2, <2>3, <2>4 DEF TablesOK
  <1> QED  BY <1>1, <1>2, <1>3, <1>4, <1>5, Kinds

\* Every step keeps meta.json well formed.
LEMMA MetaStep == ASSUME StoresInv, [Next]_vars  PROVE meta' \in [Runs -> MetaType]
  <1>0. meta \in [Runs -> MetaType] /\ FollowOK
    BY DEF StoresInv, ShapesOK, JobsOK
  <1>1. ASSUME NEW r \in Runs, NEW h \in Hosts, JobStart(r, h)  PROVE meta' \in [Runs -> MetaType]
    BY <1>0, <1>1 DEF JobStart, MetaType
  <1>2. ASSUME NEW r \in Runs, NEW h \in Hosts, NEW qs \in SUBSET Reqs, Gather(r, h, qs)
        PROVE  meta' \in [Runs -> MetaType]
    BY <1>0, <1>2 DEF Gather, MetaType
  <1>3. ASSUME RefillEnd  PROVE meta' \in [Runs -> MetaType]
    <2> DEFINE qs == IF follow.left = {} THEN follow.asked ELSE follow.left
    <2>1. meta' = [meta EXCEPT ![follow.run].revised = qs] /\ follow.at = "fill"
      BY <1>3 DEF RefillEnd
    <2>2. qs \in SUBSET Reqs
      BY <1>0, <2>1 DEF FollowOK, FollowType
    <2> HIDE DEF qs
    <2> QED  BY <1>0, <2>1, <2>2 DEF MetaType
  <1>4. ASSUME NEW c \in calls, Commit(c)  PROVE meta' \in [Runs -> MetaType]
    <2>1. c \in CallType
      BY DEF StoresInv, ShapesOK, TablesOK
    <2>2. c.num \in Nat
      BY <2>1 DEF CallType, Numbers
    <2>3. CASE UNCHANGED meta
      BY <1>0, <2>3
    <2>4. CASE meta' = [meta EXCEPT ![c.run].num = c.num]
      BY <1>0, <2>2, <2>4 DEF MetaType
    <2> QED  BY <1>4, <2>3, <2>4 DEF Commit
  <1> QED  BY <1>0, <1>1, <1>2, <1>3, <1>4, WhoNames

\* A table of three dimensions of which one row was replaced.
LEMMA PutRow ==
    ASSUME NEW V, NEW f \in [Runs -> [Hosts -> [Reqs -> V]]], NEW r \in Runs, NEW h \in Hosts,
           NEW line \in [Reqs -> V], NEW g, g = [f EXCEPT ![r][h] = line]
    PROVE  /\ g \in [Runs -> [Hosts -> [Reqs -> V]]] /\ g[r][h] = line
           /\ \A x \in Runs, y \in Hosts : x # r \/ y # h => g[x][y] = f[x][y]
  BY Put2

-----------------------------------------------------------------------------
(* Threads.                                                                *)

\* finding.json has an identity, if it is there.
LEMMA DiskKept ==
    ASSUME StoresInv, [Next]_vars, NEW r \in Runs, NEW h \in Hosts, NEW q \in Reqs
    PROVE  Backed(disk'[r][h][q], disk'[r][h][q])
  <1>0. Backed(disk[r][h][q], disk[r][h][q])
    BY DEF StoresInv, ThreadsOK, ThreadOK
  <1>1. ASSUME NEW x \in Runs, NEW y \in Hosts, NEW z \in Reqs, NEW asset \in Hosts \cup {"none"},
               NEW id \in {FreshId(x, y, z), BoundId(x, y, z)},
               write_finding(x, y, z, Written(x, y, z, id, asset))
        PROVE  Backed(disk'[r][h][q], disk'[r][h][q])
    <2>1. CASE x = r /\ y = h /\ z = q
      <3>1. Backed(Written(x, y, z, id, asset), Written(x, y, z, id, asset))
        BY <1>1, WrittenIs DEF write_finding
      <3>2. disk'[r][h][q] = Written(x, y, z, id, asset)
        BY <1>1, <2>1, Writes
      <3> QED  BY <3>1, <3>2
    <2>2. CASE ~(x = r /\ y = h /\ z = q)
      <3>1. disk'[r][h][q] = disk[r][h][q]
        BY <1>1, <2>2, Writes
      <3> QED  BY <1>0, <3>1
    <2> QED  BY <2>1, <2>2
  <1>2. ASSUME NEW x \in Runs, NEW y \in Hosts, NEW z \in Reqs, WorkerStore(x, y, z)
        PROVE  Backed(disk'[r][h][q], disk'[r][h][q])
    BY <1>1, <1>2 DEF WorkerStore
  <1>3. ASSUME NEW z \in Reqs, RefillWrite(z)  PROVE Backed(disk'[r][h][q], disk'[r][h][q])
    <2>1. /\ follow.run \in Runs /\ follow.host \in Hosts
          /\ follow.meta.asset \in Hosts \cup {"none"}
      BY <1>3 DEF RefillWrite, StoresInv, ShapesOK, FollowOK, FollowType, MetaType
    <2> QED  BY <1>1, <1>3, <2>1 DEF RefillWrite
  <1> QED  BY <1>0, <1>2, <1>3, WhoWrites

\* What a thread held is still good when finding.json has gone on.
LEMMA ThreadKept ==
    ASSUME StoresInv, [Next]_vars, NEW r \in Runs, NEW h \in Hosts, NEW q \in Reqs
    PROVE  /\ KnownOK(known[r][h][q], disk'[r][h][q], h)
           /\ WorkerOK(worker[r][h][q], disk'[r][h][q], h)
           /\ NoGap(job[r][h], worker[r][h][q], known[r][h][q])
  <1>1. known[r][h][q].n \in Nat /\ worker[r][h][q].found.n \in Nat
    BY DEF StoresInv, ShapesOK, JobsOK, Findings, WorkerType
  <1>2. ThreadOK(r, h, q)
    BY DEF StoresInv, ThreadsOK
  <1>3. /\ Backed(known[r][h][q], disk[r][h][q]) => Backed(known[r][h][q], disk'[r][h][q])
        /\ Backed(worker[r][h][q].found, disk[r][h][q])
             => Backed(worker[r][h][q].found, disk'[r][h][q])
    BY <1>1, DiskStep, StaysBacked
  <1> QED  BY <1>2, <1>3, Zenon DEF ThreadOK, KnownOK, WorkerOK

\* What the steps of a thread must show of its new state.
ThreadsTyped == /\ job    \in [Runs -> [Hosts -> {"none", "assess", "stopped", "raised", "done"}]]
                /\ worker \in [Runs -> [Hosts -> [Reqs -> WorkerType]]]
                /\ known  \in [Runs -> [Hosts -> [Reqs -> Findings]]]
HoldsNow(r, h, q) == /\ KnownOK(known[r][h][q], disk[r][h][q], h)
                     /\ WorkerOK(worker[r][h][q], disk[r][h][q], h)
                     /\ NoGap(job[r][h], worker[r][h][q], known[r][h][q])
Threaded == ThreadsTyped /\ \A r \in Runs, h \in Hosts, q \in Reqs : HoldsNow(r, h, q)

\* A requirement of which nothing changes but its finding.json.
LEMMA Elsewhere ==
    ASSUME StoresInv, [Next]_vars, NEW r \in Runs, NEW h \in Hosts, NEW q \in Reqs,
           job'[r][h] = job[r][h], worker'[r][h][q] = worker[r][h][q],
           known'[r][h][q] = known[r][h][q]
    PROVE  HoldsNow(r, h, q)'
  BY ThreadKept DEF HoldsNow

\* The shapes of the workers' constant states.
LEMMA WorkerShapes ==
    /\ Idle \in WorkerType /\ Todo \in WorkerType /\ Idle.at = "idle" /\ Todo.at = "todo"
    /\ [q \in Reqs |-> Todo] \in [Reqs -> WorkerType]
    /\ [q \in Reqs |-> Idle] \in [Reqs -> WorkerType]
  <1>1. NoFinding \in Findings
    BY FollowUpAssumption DEF NoFinding, Findings
  <1> QED  BY <1>1 DEF Idle, Todo, WorkerType

\* A thread that starts has everything to do.
LEMMA JobStartHolds ==
    ASSUME StoresInv, [Next]_vars, NEW r \in Runs, NEW h \in Hosts, JobStart(r, h)
    PROVE  Threaded'
  <1>1. ThreadsTyped
    BY DEF StoresInv, ShapesOK, JobsOK, ThreadsTyped
  <1>2. /\ job' = [job EXCEPT ![r][h] = "assess"] /\ known' = known
        /\ worker' = [worker EXCEPT ![r][h] = [q \in Reqs |-> Todo]]
    BY DEF JobStart
  <1>3. /\ job' \in [Runs -> [Hosts -> {"none", "assess", "stopped", "raised", "done"}]]
        /\ \A x \in Runs, y \in Hosts : x # r \/ y # h => job'[x][y] = job[x][y]
    BY <1>1, <1>2, Put2 DEF ThreadsTyped
  <1>4. /\ worker' \in [Runs -> [Hosts -> [Reqs -> WorkerType]]]
        /\ worker'[r][h] = [q \in Reqs |-> Todo]
        /\ \A x \in Runs, y \in Hosts : x # r \/ y # h => worker'[x][y] = worker[x][y]
    BY <1>1, <1>2, WorkerShapes, PutRow DEF ThreadsTyped
  <1>5. ASSUME NEW x \in Runs, NEW y \in Hosts, NEW z \in Reqs  PROVE HoldsNow(x, y, z)'
    <2>1. CASE x = r /\ y = h
      <3>1. worker'[x][y][z].at = "todo"
        BY <1>4, <2>1, WorkerShapes
      <3> QED  BY <1>2, <3>1, ThreadKept DEF HoldsNow, WorkerOK, NoGap
    <2>2. CASE ~(x = r /\ y = h)
      BY <1>2, <1>3, <1>4, <2>2, Elsewhere
    <2> QED  BY <2>1, <2>2
  <1> QED  BY <1>1, <1>2, <1>3, <1>4, <1>5 DEF Threaded, ThreadsTyped

\* A thread that resumes has to do what its state lacks.
LEMMA ResumeHolds ==
    ASSUME StoresInv, [Next]_vars, NEW r \in Runs, NEW h \in Hosts, Resume(r, h)
    PROVE  Threaded'
  <1> DEFINE line == [q \in Reqs |-> IF known[r][h][q] = NoFinding THEN Todo ELSE Idle]
  <1>1. ThreadsTyped
    BY DEF StoresInv, ShapesOK, JobsOK, ThreadsTyped
  <1>2. /\ job' = [job EXCEPT ![r][h] = "assess"] /\ known' = known
        /\ worker' = [worker EXCEPT ![r][h] = line]
    BY DEF Resume
  <1>3. /\ job' \in [Runs -> [Hosts -> {"none", "assess", "stopped", "raised", "done"}]]
        /\ \A x \in Runs, y \in Hosts : x # r \/ y # h => job'[x][y] = job[x][y]
    BY <1>1, <1>2, Put2 DEF ThreadsTyped
  <1>a. line \in [Reqs -> WorkerType]
    BY WorkerShapes
  <1>b. \A q \in Reqs : line[q].at = "todo" \/ (line[q].at = "idle" /\ known[r][h][q] # NoFinding)
    BY WorkerShapes
  <1> HIDE DEF line
  <1>4. /\ worker' \in [Runs -> [Hosts -> [Reqs -> WorkerType]]] /\ worker'[r][h] = line
        /\ \A x \in Runs, y \in Hosts : x # r \/ y # h => worker'[x][y] = worker[x][y]
    BY <1>1, <1>2, <1>a, PutRow DEF ThreadsTyped
  <1>5. ASSUME NEW x \in Runs, NEW y \in Hosts, NEW z \in Reqs  PROVE HoldsNow(x, y, z)'
    <2>1. CASE x = r /\ y = h
      <3>1. worker'[x][y][z].at = "todo"
              \/ (worker'[x][y][z].at = "idle" /\ known[x][y][z] # NoFinding)
        BY <1>4, <1>b, <2>1
      <3> QED  BY <1>2, <3>1, ThreadKept DEF HoldsNow, WorkerOK, NoGap
    <2>2. CASE ~(x = r /\ y = h)
      BY <1>2, <1>3, <1>4, <2>2, Elsewhere
    <2> QED  BY <2>1, <2>2
  <1> QED  BY <1>1, <1>2, <1>3, <1>4, <1>5 DEF Threaded, ThreadsTyped

\* A thread that is cancelled or finalized assesses no longer.
LEMMA LeavesHolds ==
    ASSUME StoresInv, [Next]_vars, NEW r \in Runs, NEW h \in Hosts, Cancel(r, h) \/ Finalize(r, h)
    PROVE  Threaded'
  <1>1. ThreadsTyped
    BY DEF StoresInv, ShapesOK, JobsOK, ThreadsTyped
  <1>2. PICK j \in {"stopped", "done"} : job' = [job EXCEPT ![r][h] = j]
    BY DEF Cancel, Finalize
  <1>3. /\ job' \in [Runs -> [Hosts -> {"none", "assess", "stopped", "raised", "done"}]]
        /\ job'[r][h] = j
        /\ \A x \in Runs, y \in Hosts : x # r \/ y # h => job'[x][y] = job[x][y]
    BY <1>1, <1>2, Put2 DEF ThreadsTyped
  <1>4. /\ worker' \in [Runs -> [Hosts -> [Reqs -> WorkerType]]]
        /\ \A q \in Reqs : worker'[r][h][q].at = "idle" \/ worker'[r][h][q] = worker[r][h][q]
        /\ \A x \in Runs, y \in Hosts : x # r \/ y # h => worker'[x][y] = worker[x][y]
    <2>1. CASE Cancel(r, h)
      <3>1. worker' = [worker EXCEPT ![r][h] = [q \in Reqs |-> Idle]]
        BY <2>1 DEF Cancel
      <3>2. /\ worker' \in [Runs -> [Hosts -> [Reqs -> WorkerType]]]
            /\ worker'[r][h] = [q \in Reqs |-> Idle]
            /\ \A x \in Runs, y \in Hosts : x # r \/ y # h => worker'[x][y] = worker[x][y]
        BY <1>1, <3>1, WorkerShapes, PutRow DEF ThreadsTyped
      <3> QED  BY <3>2, WorkerShapes
    <2>2. CASE Finalize(r, h)
      BY <1>1, <2>2 DEF Finalize, ThreadsTyped
    <2> QED  BY <2>1, <2>2
  <1>5. known' = known
    BY DEF Cancel, Finalize
  <1>6. ASSUME NEW x \in Runs, NEW y \in Hosts, NEW z \in Reqs  PROVE HoldsNow(x, y, z)'
    <2>1. CASE x = r /\ y = h
      <3>1. job'[x][y] # "assess"
        BY <1>3, <2>1
      <3>2. worker'[x][y][z].at = "idle" \/ worker'[x][y][z] = worker[x][y][z]
        BY <1>4, <2>1
      <3> QED  BY <1>5, <3>1, <3>2, ThreadKept DEF HoldsNow, WorkerOK, NoGap
    <2>2. CASE ~(x = r /\ y = h)
      BY <1>3, <1>4, <1>5, <2>2, Elsewhere
    <2> QED  BY <2>1, <2>2
  <1> QED  BY <1>1, <1>3, <1>4, <1>5, <1>6 DEF Threaded, ThreadsTyped

\* A crash stops the threads and ends the workers.
LEMMA CrashHolds ==
    ASSUME StoresInv, [Next]_vars, Crash
    PROVE  Threaded'
  <1>1. ThreadsTyped
    BY DEF StoresInv, ShapesOK, JobsOK, ThreadsTyped
  <1>2. known' = known /\ worker' = [r \in Runs |-> [h \in Hosts |-> [q \in Reqs |-> Idle]]]
    BY DEF Crash
  <1>3. /\ job' \in [Runs -> [Hosts -> {"none", "assess", "stopped", "raised", "done"}]]
        /\ \A r \in Runs, h \in Hosts : job'[r][h] # "assess"
    BY <1>1 DEF Crash, ThreadsTyped
  <1>4. ASSUME NEW r \in Runs, NEW h \in Hosts, NEW q \in Reqs  PROVE HoldsNow(r, h, q)'
    <2>1. worker'[r][h][q].at = "idle" /\ job'[r][h] # "assess"
      BY <1>2, <1>3, WorkerShapes
    <2> QED  BY <1>2, <2>1, ThreadKept DEF HoldsNow, WorkerOK, NoGap
  <1>5. worker' \in [Runs -> [Hosts -> [Reqs -> WorkerType]]]
    BY <1>2, WorkerShapes
  <1> QED  BY <1>1, <1>2, <1>3, <1>4, <1>5 DEF Threaded, ThreadsTyped

\* A worker that has written its finding hands it on with the thread's asset.
LEMMA WorkerStoreHolds ==
    ASSUME StoresInv, [Next]_vars, NEW r \in Runs, NEW h \in Hosts, NEW q \in Reqs,
           WorkerStore(r, h, q)
    PROVE  Threaded'
  <1> DEFINE f == Written(r, h, q, BoundId(r, h, q), h)
             w == [at |-> "saving", found |-> f]
  <1>1. ThreadsTyped
    BY DEF StoresInv, ShapesOK, JobsOK, ThreadsTyped
  <1>2. /\ write_finding(r, h, q, f) /\ job' = job /\ known' = known
        /\ worker' = [worker EXCEPT ![r][h][q] = w]
    BY DEF WorkerStore
  <1>3. f \in Findings /\ f # NoFinding /\ f.asset = h /\ Backed(f, f)
    BY <1>2, WrittenIs DEF write_finding
  <1>4. disk'[r][h][q] = f
    BY <1>2, Writes
  <1> HIDE DEF f
  <1>5. w \in WorkerType /\ w.at = "saving" /\ w.found = f
    BY <1>3 DEF WorkerType
  <1> HIDE DEF w
  <1>6. /\ worker' \in [Runs -> [Hosts -> [Reqs -> WorkerType]]] /\ worker'[r][h][q] = w
        /\ \A x \in Runs, y \in Hosts, z \in Reqs :
              x # r \/ y # h \/ z # q => worker'[x][y][z] = worker[x][y][z]
    BY <1>1, <1>2, <1>5, Put3 DEF ThreadsTyped
  <1>7. ASSUME NEW x \in Runs, NEW y \in Hosts, NEW z \in Reqs  PROVE HoldsNow(x, y, z)'
    <2>1. CASE x = r /\ y = h /\ z = q
      <3>1. WorkerOK(worker'[x][y][z], disk'[x][y][z], y)
        BY <1>3, <1>4, <1>5, <1>6, <2>1 DEF WorkerOK
      <3>2. worker'[x][y][z].at = "saving"
        BY <1>5, <1>6, <2>1
      <3> QED  BY <1>2, <3>1, <3>2, ThreadKept DEF HoldsNow, NoGap
    <2>2. CASE ~(x = r /\ y = h /\ z = q)
      BY <1>2, <1>6, <2>2, Elsewhere
    <2> QED  BY <2>1, <2>2
  <1> QED  BY <1>1, <1>2, <1>6, <1>7 DEF Threaded, ThreadsTyped

\* assess_parallel ends with a finding of every requirement, or raises.
LEMMA AssessEndHolds ==
    ASSUME StoresInv, [Next]_vars, NEW r \in Runs, NEW h \in Hosts, AssessEnd(r, h)
    PROVE  Threaded'
  <1> DEFINE ended == {q \in Reqs : worker[r][h][q].at = "saving"}
             line  == [q \in Reqs |-> IF q \in ended THEN worker[r][h][q].found
                                      ELSE known[r][h][q]]
  <1>1. ThreadsTyped
    BY DEF StoresInv, ShapesOK, JobsOK, ThreadsTyped
  <1>2. /\ worker' = [worker EXCEPT ![r][h] = [q \in Reqs |-> Idle]]
        /\ \/ job' = [job EXCEPT ![r][h] = "raised"] /\ known' = known
           \/ job' = job /\ known' = [known EXCEPT ![r][h] = line]
        /\ job[r][h] = "assess" /\ \A q \in Reqs : worker[r][h][q].at # "todo"
    BY DEF AssessEnd, Assessing
  <1>3. /\ worker' \in [Runs -> [Hosts -> [Reqs -> WorkerType]]]
        /\ worker'[r][h] = [q \in Reqs |-> Idle]
        /\ \A x \in Runs, y \in Hosts : x # r \/ y # h => worker'[x][y] = worker[x][y]
    BY <1>1, <1>2, WorkerShapes, PutRow DEF ThreadsTyped
  <1>4. \A q \in Reqs : worker'[r][h][q].at = "idle"
    BY <1>3, WorkerShapes
  <1>5. CASE job' = [job EXCEPT ![r][h] = "raised"] /\ known' = known
    <2>1. /\ job' \in [Runs -> [Hosts -> {"none", "assess", "stopped", "raised", "done"}]]
          /\ job'[r][h] = "raised"
          /\ \A x \in Runs, y \in Hosts : x # r \/ y # h => job'[x][y] = job[x][y]
      BY <1>1, <1>5, Put2 DEF ThreadsTyped
    <2>2. ASSUME NEW x \in Runs, NEW y \in Hosts, NEW z \in Reqs  PROVE HoldsNow(x, y, z)'
      <3>1. CASE x = r /\ y = h
        BY <1>4, <1>5, <2>1, <3>1, ThreadKept DEF HoldsNow, WorkerOK, NoGap
      <3>2. CASE ~(x = r /\ y = h)
        BY <1>3, <1>5, <2>1, <3>2, Elsewhere
      <3> QED  BY <3>1, <3>2
    <2> QED  BY <1>1, <1>3, <1>5, <2>1, <2>2 DEF Threaded, ThreadsTyped
  <1>6. CASE job' = job /\ known' = [known EXCEPT ![r][h] = line]
    <2>1. line \in [Reqs -> Findings]
      <3>1. \A q \in Reqs : worker[r][h][q].found \in Findings /\ known[r][h][q] \in Findings
        BY <1>1 DEF ThreadsTyped, WorkerType
      <3> QED  BY <3>1
    <2>2. ASSUME NEW q \in Reqs
          PROVE  KnownOK(line[q], disk'[r][h][q], h) /\ line[q] # NoFinding
      <3>1. /\ KnownOK(known[r][h][q], disk'[r][h][q], h)
            /\ WorkerOK(worker[r][h][q], disk'[r][h][q], h)
            /\ NoGap(job[r][h], worker[r][h][q], known[r][h][q])
        BY ThreadKept
      <3>2. CASE worker[r][h][q].at = "saving"
        <4>1. line[q] = worker[r][h][q].found
          BY <3>2
        <4> QED  BY <3>1, <3>2, <4>1 DEF WorkerOK, KnownOK
      <3>3. CASE worker[r][h][q].at # "saving"
        <4>1. line[q] = known[r][h][q]
          BY <3>3
        <4>2. worker[r][h][q].at = "idle"
          BY <1>1, <1>2, <3>3 DEF ThreadsTyped, WorkerType
        <4> QED  BY <1>2, <3>1, <4>1, <4>2 DEF NoGap
      <3> QED  BY <3>2, <3>3
    <2> HIDE DEF line
    <2>3. /\ known' \in [Runs -> [Hosts -> [Reqs -> Findings]]] /\ known'[r][h] = line
          /\ \A x \in Runs, y \in Hosts : x # r \/ y # h => known'[x][y] = known[x][y]
      BY <1>1, <1>6, <2>1, PutRow DEF ThreadsTyped
    <2>4. ASSUME NEW x \in Runs, NEW y \in Hosts, NEW z \in Reqs  PROVE HoldsNow(x, y, z)'
      <3>1. CASE x = r /\ y = h
        BY <1>4, <2>2, <2>3, <3>1 DEF HoldsNow, WorkerOK, NoGap
      <3>2. CASE ~(x = r /\ y = h)
        BY <1>3, <1>6, <2>3, <3>2, Elsewhere
      <3> QED  BY <3>1, <3>2
    <2> QED  BY <1>1, <1>3, <1>6, <2>3, <2>4 DEF Threaded, ThreadsTyped
  <1> QED  BY <1>2, <1>5, <1>6

\* A skipped finding is the same finding.
LEMMA GateSkipHolds ==
    ASSUME StoresInv, [Next]_vars, NEW r \in Runs, NEW h \in Hosts, NEW q \in Reqs,
           GateSkip(r, h, q)
    PROVE  Threaded'
  <1> DEFINE f == known[r][h][q]
             g == [f EXCEPT !.skip = TRUE]
  <1>1. ThreadsTyped
    BY DEF StoresInv, ShapesOK, JobsOK, ThreadsTyped
  <1>2. /\ known' = [known EXCEPT ![r][h][q] = g] /\ job' = job /\ worker' = worker
        /\ job[r][h] = "assess" /\ worker[r][h][q].at = "idle"
    BY DEF GateSkip, Assessed, Assessing
  <1>3. f \in Findings
    BY <1>1 DEF ThreadsTyped
  <1>4. g \in Findings /\ g.id = f.id /\ g.n = f.n /\ g.asset = f.asset /\ g.skip = TRUE
    BY <1>3 DEF Findings
  <1>5. g # NoFinding
    BY <1>4 DEF NoFinding
  <1>6. KnownOK(f, disk'[r][h][q], h) /\ f # NoFinding
    BY <1>2, ThreadKept DEF NoGap
  <1> HIDE DEF g
  <1>7. KnownOK(g, disk'[r][h][q], h)
    BY <1>4, <1>5, <1>6 DEF KnownOK, Backed, Behind
  <1>8. /\ known' \in [Runs -> [Hosts -> [Reqs -> Findings]]] /\ known'[r][h][q] = g
        /\ \A x \in Runs, y \in Hosts, z \in Reqs :
              x # r \/ y # h \/ z # q => known'[x][y][z] = known[x][y][z]
    BY <1>1, <1>2, <1>4, Put3 DEF ThreadsTyped
  <1>9. ASSUME NEW x \in Runs, NEW y \in Hosts, NEW z \in Reqs  PROVE HoldsNow(x, y, z)'
    <2>1. CASE x = r /\ y = h /\ z = q
      BY <1>2, <1>5, <1>7, <1>8, <2>1, ThreadKept DEF HoldsNow, NoGap
    <2>2. CASE ~(x = r /\ y = h /\ z = q)
      BY <1>2, <1>8, <2>2, Elsewhere
    <2> QED  BY <2>1, <2>2
  <1> QED  BY <1>1, <1>2, <1>8, <1>9 DEF Threaded, ThreadsTyped

\* Requirements that go round again have workers, the others what they had.
LEMMA RequeueHolds ==
    ASSUME StoresInv, [Next]_vars, NEW r \in Runs, NEW h \in Hosts, NEW qs \in SUBSET Reqs,
           Requeue(r, h, qs)
    PROVE  Threaded'
  <1> DEFINE line == [q \in Reqs |-> IF q \in qs THEN Todo ELSE worker[r][h][q]]
  <1>1. ThreadsTyped
    BY DEF StoresInv, ShapesOK, JobsOK, ThreadsTyped
  <1>2. known' = known /\ job' = job /\ worker' = [worker EXCEPT ![r][h] = line]
    BY <1>1 DEF Requeue, ThreadsTyped
  <1>3. line \in [Reqs -> WorkerType]
    BY <1>1, WorkerShapes DEF ThreadsTyped
  <1>4. \A q \in Reqs : line[q].at = "todo" \/ line[q] = worker[r][h][q]
    BY WorkerShapes
  <1> HIDE DEF line
  <1>5. /\ worker' \in [Runs -> [Hosts -> [Reqs -> WorkerType]]] /\ worker'[r][h] = line
        /\ \A x \in Runs, y \in Hosts : x # r \/ y # h => worker'[x][y] = worker[x][y]
    BY <1>1, <1>2, <1>3, PutRow DEF ThreadsTyped
  <1>6. ASSUME NEW x \in Runs, NEW y \in Hosts, NEW z \in Reqs  PROVE HoldsNow(x, y, z)'
    <2>1. CASE worker'[x][y][z].at = "todo"
      BY <1>2, <2>1, ThreadKept DEF HoldsNow, WorkerOK, NoGap
    <2>2. CASE worker'[x][y][z] = worker[x][y][z]
      BY <1>2, <2>2, Elsewhere
    <2> QED  BY <1>4, <1>5, <2>1, <2>2
  <1> QED  BY <1>1, <1>2, <1>5, <1>6 DEF Threaded, ThreadsTyped

\* Every step keeps the threads.
LEMMA ThreadsStep == ASSUME StoresInv, [Next]_vars  PROVE ThreadsTyped' /\ ThreadsOK'
  <1>1. Threaded'
    <2>1. CASE UNCHANGED <<job, worker, known>>
      <3>1. ThreadsTyped'
        BY <2>1 DEF StoresInv, ShapesOK, JobsOK, ThreadsTyped
      <3>2. \A r \in Runs, h \in Hosts, q \in Reqs : HoldsNow(r, h, q)'
        BY <2>1, Elsewhere
      <3> QED  BY <3>1, <3>2 DEF Threaded
    <2> QED  BY <2>1, WhoWorks, JobStartHolds, ResumeHolds, LeavesHolds, CrashHolds,
                WorkerStoreHolds, AssessEndHolds, GateSkipHolds, RequeueHolds
  <1>2. \A r \in Runs, h \in Hosts, q \in Reqs : ThreadOK(r, h, q)'
    BY <1>1, DiskKept DEF Threaded, HoldsNow, ThreadOK
  <1> QED  BY <1>1, <1>2 DEF Threaded, ThreadsOK

-----------------------------------------------------------------------------
(* The follow-up.                                                          *)

\* No follow-up is a well-formed one.
LEMMA NoFollowShape == NoFollow \in FollowType /\ NoMeta \in MetaType
  <1>1. NoMeta \in MetaType
    BY DEF NoMeta, MetaType
  <1> QED  BY <1>1, NothingBacked DEF NoFollow, FollowType, Statuses

\* Every step keeps the follow-up well formed, and what it names its own.
LEMMA FollowStep ==
    ASSUME StoresInv, [Next]_vars
    PROVE  FollowOK' /\ Named(follow'.run, follow'.meta.num)
  <1> DEFINE Good == FollowOK' /\ Named(follow'.run, follow'.meta.num)
  <1>0. /\ FollowOK /\ Named(follow.run, follow.meta.num) /\ meta \in [Runs -> MetaType]
        /\ \A r \in Runs : Named(r, meta[r].num)
        /\ sessions \in [Numbers -> SessionType] /\ disk \in [Runs -> [Hosts -> [Reqs -> Findings]]]
    BY DEF StoresInv, ShapesOK, JobsOK, SessionsOK, TablesOK
  <1>1. CASE UNCHANGED follow
    BY <1>0, <1>1 DEF FollowOK
  <1>2. CASE follow' = NoFollow
    <2>1. follow'.at = "none" /\ follow'.meta.num = 0 /\ follow' \in FollowType
      BY <1>2, NoFollowShape DEF NoFollow, NoMeta
    <2> QED  BY <2>1 DEF FollowOK, Named, Numbers
  <1>3. ASSUME NEW r \in Runs, UpdateReport(r)  PROVE Good
    <2>1. CASE UNCHANGED follow
      BY <1>1, <2>1
    <2>2. CASE follow' # follow
      <3>1. PICK hs \in SUBSET Hosts :
              follow' = [NoFollow EXCEPT !.at = "render", !.run = r, !.left = hs]
        BY <1>3, <2>2 DEF UpdateReport
      <3>2. /\ follow'.at = "render" /\ follow'.run = r /\ follow'.meta.num = 0
            /\ follow' \in FollowType
        BY <3>1, NoFollowShape DEF NoFollow, NoMeta, FollowType
      <3> QED  BY <3>2 DEF FollowOK, Named, Numbers
    <2> QED  BY <2>1, <2>2
  <1>4. ASSUME NEW r \in Runs, NEW h \in Hosts, NEW qs \in SUBSET Reqs, Refill(r, h, qs)  PROVE Good
    <2>1. CASE UNCHANGED follow
      BY <1>1, <2>1
    <2>2. CASE follow' # follow
      <3> DEFINE about == IF qs = {} THEN meta[r].revised ELSE qs
                 ready == about \cap evidence[r][h]
      <3>1. follow' = [NoFollow EXCEPT !.at = "fill", !.run = r, !.host = h, !.asked = about,
                                       !.reqs = ready, !.meta = meta[r]]
        BY <1>4, <2>2 DEF Refill
      <3>2. about \in SUBSET Reqs /\ ready \in SUBSET Reqs /\ meta[r] \in MetaType
        BY <1>0 DEF MetaType
      <3> HIDE DEF about, ready
      <3>3. /\ follow'.at = "fill" /\ follow'.run = r /\ follow'.host = h
            /\ follow'.meta = meta[r] /\ follow'.left = {} /\ follow' \in FollowType
        BY <3>1, <3>2, NoFollowShape DEF NoFollow, FollowType
      <3> QED  BY <1>0, <3>3 DEF FollowOK
    <2> QED  BY <2>1, <2>2
  <1>5. ASSUME NEW q \in Reqs, RefillWrite(q)  PROVE Good
    <2>1. /\ follow' = [follow EXCEPT !.reqs = follow.reqs \ {q}, !.left = follow.left \cup {q}]
          /\ follow.at = "fill"
      BY <1>5 DEF RefillWrite
    <2>2. /\ follow'.at = follow.at /\ follow'.run = follow.run /\ follow'.host = follow.host
          /\ follow'.meta = follow.meta /\ follow'.left = follow.left \cup {q}
          /\ follow' \in FollowType
      BY <1>0, <2>1 DEF FollowOK, FollowType
    <2> QED  BY <1>0, <2>1, <2>2 DEF FollowOK
  <1>6. ASSUME NEW h \in Hosts, UpdateLoad(h)  PROVE Good
    <2> DEFINE r == follow.run
    <2>1. /\ follow' = [follow EXCEPT !.host = h, !.found = disk[r][h], !.meta = meta[r],
                                      !.left = follow.left \ {h}]
          /\ follow.at = "render"
      BY <1>6 DEF UpdateLoad
    <2>2. r \in Runs /\ disk[r][h] \in [Reqs -> Findings] /\ meta[r] \in MetaType
      BY <1>0, <2>1 DEF FollowOK
    <2>3. /\ follow'.at = "render" /\ follow'.run = r /\ follow'.host = h
          /\ follow'.meta = meta[r] /\ follow' \in FollowType
      BY <1>0, <2>1, <2>2 DEF FollowOK, FollowType
    <2> QED  BY <1>0, <2>2, <2>3 DEF FollowOK
  <1>7. ASSUME RefillRefused \/ RefillEnd \/ PickWrite \/ Crash  PROVE Good
    <2>1. follow' = NoFollow
      BY <1>7 DEF RefillRefused, RefillEnd, PickWrite, Crash
    <2> QED  BY <1>2, <2>1
  <1>8. ASSUME UpdateRecord  PROVE Good
    <2>1. follow' = [follow EXCEPT !.at = "saving"] /\ follow.at = "render" /\ follow.host # "none"
      BY <1>8 DEF UpdateRecord
    <2>2. /\ follow'.at = "saving" /\ follow'.run = follow.run /\ follow'.host = follow.host
          /\ follow'.meta = follow.meta /\ follow' \in FollowType
      BY <1>0, <2>1 DEF FollowOK, FollowType
    <2>3. follow.run \in Runs /\ follow.host \in Hosts
      BY <1>0, <2>1 DEF FollowOK, FollowType
    <2> QED  BY <1>0, <2>2, <2>3 DEF FollowOK
  <1>9. ASSUME UpdateNext  PROVE Good
    <2>1. CASE follow' = NoFollow
      BY <1>2, <2>1
    <2>2. CASE follow' # NoFollow
      <3>1. follow' = [follow EXCEPT !.at = "render", !.host = "none"] /\ follow.at = "saving"
        BY <1>9, <2>2 DEF UpdateNext
      <3>2. /\ follow'.at = "render" /\ follow'.run = follow.run
            /\ follow'.meta = follow.meta /\ follow' \in FollowType
        BY <1>0, <3>1 DEF FollowOK, FollowType
      <3> QED  BY <1>0, <3>1, <3>2 DEF FollowOK
    <2> QED  BY <2>1, <2>2
  <1>10. ASSUME NEW s \in Taken, PickSession(s)  PROVE Good
    <2>1. follow' = [NoFollow EXCEPT !.at = "picked", !.session = s, !.status = sessions[s].status]
      BY <1>10 DEF PickSession
    <2>2. s \in Nat /\ sessions[s].status \in Statuses
      BY <1>0 DEF Taken, Numbers, SessionType
    <2>3. follow'.at = "picked" /\ follow'.meta.num = 0 /\ follow' \in FollowType
      BY <2>1, <2>2, NoFollowShape DEF NoFollow, NoMeta, FollowType
    <2> QED  BY <2>3 DEF FollowOK, Named, Numbers
  <1> QED  BY <1>1, <1>3, <1>4, <1>5, <1>6, <1>7, <1>8, <1>9, <1>10, WhoFollows

\* What update-report has loaded was on disk.
LEMMA LoadedStep == ASSUME StoresInv, [Next]_vars  PROVE LoadedOK'
  <1>0. FollowOK /\ LoadedOK
    BY DEF StoresInv, ShapesOK
  <1>1. CASE /\ follow'.run = follow.run /\ follow'.host = follow.host
             /\ follow'.found = follow.found /\ follow.at \in {"render", "saving"}
    <2> SUFFICES ASSUME follow.host # "none", NEW q \in Reqs
                 PROVE  Backed(follow.found[q], disk'[follow.run][follow.host][q])
      BY <1>1 DEF LoadedOK
    <2>1. follow.run \in Runs /\ follow.host \in Hosts /\ follow.found[q].n \in Nat
      BY <1>0, <1>1 DEF FollowOK, FollowType, Findings
    <2>2. Backed(follow.found[q], disk[follow.run][follow.host][q])
      BY <1>0, <1>1 DEF LoadedOK
    <2> QED  BY <2>1, <2>2, DiskStep, StaysBacked
  <1>2. CASE follow'.at \notin {"render", "saving"} \/ follow'.host = "none"
    BY <1>2 DEF LoadedOK
  <1>3. CASE UNCHANGED follow
    BY <1>1, <1>2, <1>3
  <1>4. CASE follow' = NoFollow
    BY <1>2, <1>4 DEF NoFollow
  <1>5. ASSUME NEW r \in Runs, UpdateReport(r)  PROVE LoadedOK'
    <2>1. CASE follow' # follow
      <3>1. PICK hs : follow' = [NoFollow EXCEPT !.at = "render", !.run = r, !.left = hs]
        BY <1>5, <2>1 DEF UpdateReport
      <3>2. follow'.host = "none"
        BY <3>1 DEF NoFollow
      <3> QED  BY <1>2, <3>2
    <2> QED  BY <1>3, <2>1
  <1>6. ASSUME NEW r \in Runs, NEW h \in Hosts, NEW qs \in SUBSET Reqs, Refill(r, h, qs)
        PROVE  LoadedOK'
    <2>1. CASE follow' # follow
      <3>1. follow'.at = "fill"
        BY <1>6, <2>1 DEF Refill, NoFollow
      <3> QED  BY <1>2, <3>1
    <2> QED  BY <1>3, <2>1
  <1>7. ASSUME NEW q \in Reqs, RefillWrite(q)  PROVE LoadedOK'
    <2>1. follow'.at = "fill"
      BY <1>0, <1>7 DEF RefillWrite, FollowOK, FollowType
    <2> QED  BY <1>2, <2>1
  <1>8. ASSUME NEW h \in Hosts, UpdateLoad(h)  PROVE LoadedOK'
    <2>1. /\ follow' = [follow EXCEPT !.host = h, !.found = disk[follow.run][h],
                                      !.meta = meta[follow.run], !.left = follow.left \ {h}]
          /\ follow.at = "render" /\ disk' = disk
      BY <1>8 DEF UpdateLoad, evidenceVars
    <2>2. follow'.found = disk[follow.run][h] /\ follow'.run = follow.run /\ follow'.host = h
      BY <1>0, <2>1 DEF FollowOK, FollowType
    <2>3. follow.run \in Runs
      BY <1>0, <2>1 DEF FollowOK
    <2>4. \A q \in Reqs : Backed(disk[follow.run][h][q], disk[follow.run][h][q])
      BY <2>3 DEF StoresInv, ThreadsOK, ThreadOK
    <2> QED  BY <2>1, <2>2, <2>4 DEF LoadedOK
  <1>9. ASSUME RefillRefused \/ RefillEnd \/ PickWrite \/ Crash  PROVE LoadedOK'
    <2>1. follow' = NoFollow
      BY <1>9 DEF RefillRefused, RefillEnd, PickWrite, Crash
    <2> QED  BY <1>4, <2>1
  <1>10. ASSUME UpdateRecord  PROVE LoadedOK'
    <2>1. follow' = [follow EXCEPT !.at = "saving"] /\ follow.at = "render"
      BY <1>10 DEF UpdateRecord
    <2>2. follow'.run = follow.run /\ follow'.host = follow.host /\ follow'.found = follow.found
      BY <1>0, <2>1 DEF FollowOK, FollowType
    <2> QED  BY <1>1, <2>1, <2>2
  <1>11. ASSUME UpdateNext  PROVE LoadedOK'
    <2>1. CASE follow' # NoFollow
      <3>1. follow'.host = "none"
        BY <1>0, <1>11, <2>1 DEF UpdateNext, FollowOK, FollowType
      <3> QED  BY <1>2, <3>1
    <2> QED  BY <1>4, <2>1
  <1>12. ASSUME NEW s \in Taken, PickSession(s)  PROVE LoadedOK'
    <2>1. follow'.at = "picked"
      BY <1>12 DEF PickSession, NoFollow
    <2> QED  BY <1>2, <2>1
  <1> QED  BY <1>3, <1>5, <1>6, <1>7, <1>8, <1>9, <1>10, <1>11, <1>12, WhoFollows

-----------------------------------------------------------------------------
(* The warehouse.                                                          *)

\* No step takes the owner from a session.
LEMMA OwnersStay ==
    ASSUME StoresInv, [Next]_vars, NEW s \in Numbers, sessions'[s].run = Unowned
    PROVE  sessions[s].run = Unowned
  <1>1. CASE Silent
    BY <1>1 DEF Silent
  <1>2. ASSUME NEW c, Asks(c)  PROVE sessions[s].run = Unowned
    BY <1>2 DEF Asks
  <1>3. ASSUME NEW c, Answers(c)  PROVE sessions[s].run = Unowned
    <2>1. sessions'[c.num].run # Unowned
      BY <1>3, Answered, FollowUpAssumption
    <2> QED  BY <1>3, <2>1, Answered
  <1>4. CASE Marks
    BY <1>4, Marked
  <1>5. CASE Reset
    BY <1>5 DEF Reset, NoSession, Unowned
  <1> QED  BY <1>1, <1>2, <1>3, <1>4, <1>5, Kinds

\* meta.json names its run's session, or one that nobody else may adopt.
LEMMA NamesStep ==
    ASSUME StoresInv, [Next]_vars, NEW r \in Runs
    PROVE  Named(r, meta[r].num)'
  <1>0. meta \in [Runs -> MetaType] /\ Named(r, meta[r].num) /\ FollowOK
    BY DEF StoresInv, ShapesOK, JobsOK, SessionsOK
  <1>1. CASE meta'[r].num = meta[r].num
    BY <1>0, <1>1, OwnersStay DEF Named
  <1>2. ASSUME NEW x \in Runs, NEW h \in Hosts, JobStart(x, h)  PROVE meta'[r].num = meta[r].num
    BY <1>0, <1>2 DEF JobStart, MetaType
  <1>3. ASSUME NEW x \in Runs, NEW h \in Hosts, NEW qs \in SUBSET Reqs, Gather(x, h, qs)
        PROVE  meta'[r].num = meta[r].num
    BY <1>0, <1>3 DEF Gather, MetaType
  <1>4. ASSUME RefillEnd  PROVE meta'[r].num = meta[r].num
    <2>1. PICK qs : meta' = [meta EXCEPT ![follow.run].revised = qs]
      BY <1>4 DEF RefillEnd
    <2> QED  BY <1>0, <2>1 DEF MetaType
  <1>5. ASSUME NEW c \in calls, Commit(c)
        PROVE  meta'[r].num = meta[r].num \/ Named(r, meta[r].num)'
    <2>1. CASE UNCHANGED meta
      BY <2>1
    <2>2. CASE meta' = [meta EXCEPT ![c.run].num = c.num] /\ Answers(c)
      <3>1. sessions'[c.num].run \in Runs
        BY <2>2, Answered
      <3>2. sessions'[c.num].run # Unowned
        BY <3>1, FollowUpAssumption
      <3>3. CASE r = c.run
        <4>1. meta'[r].num = c.num
          BY <1>0, <2>2, <3>3 DEF MetaType
        <4> QED  BY <3>2, <4>1 DEF Named
      <3>4. CASE r # c.run
        BY <1>0, <2>2, <3>4 DEF MetaType
      <3> QED  BY <3>3, <3>4
    <2> QED  BY <1>5, <2>1, <2>2 DEF Commit, Answers
  <1> QED  BY <1>1, <1>2, <1>3, <1>4, <1>5, WhoNames

\* A call that has resolved its session is still right about it.
LEMMA ResolvedStep ==
    ASSUME StoresInv, [Next]_vars, NEW d \in calls'
    PROVE  Resolved(d)'
  <1>1. CASE Silent
    BY <1>1 DEF Silent, StoresInv, SessionsOK, Resolved
  <1>2. ASSUME NEW c, Asks(c)  PROVE Resolved(d)'
    BY <1>2 DEF Asks, StoresInv, SessionsOK, Resolved
  <1>3. ASSUME NEW c, Answers(c)  PROVE Resolved(d)'
    <2>1. d \in calls
      BY <1>3 DEF Answers
    <2>2. d \in CallType /\ Resolved(d)
      BY <2>1 DEF StoresInv, ShapesOK, TablesOK, SessionsOK
    <2>3. d.run \in Runs /\ d.num \in Numbers
      BY <2>2 DEF CallType
    <2>4. CASE d.num # c.num
      BY <1>3, <2>2, <2>3, <2>4, Answered DEF Resolved
    <2>5. CASE d.num = c.num
      <3>1. /\ sessions'[d.num].run = c.run /\ sessions[d.num].run \in {c.run, Unowned, "none"}
            /\ sessions[d.num].run = Unowned => c.run \in Legacy
        BY <1>3, <2>5, Answered
      <3>2. d.run # Unowned /\ d.run # "none"
        BY <2>3, FollowUpAssumption
      <3>3. ASSUME d.how = "found"  PROVE c.run = d.run
        BY <2>2, <3>1, <3>2, <3>3 DEF Resolved
      <3>4. ASSUME d.how = "adopt"  PROVE c.run = d.run
        <4>1. d.run \in Legacy /\ sessions[d.num].run \in {d.run, Unowned}
          BY <2>2, <3>4 DEF Resolved
        <4> QED  BY <3>1, <3>2, <4>1, FollowUpAssumption
      <3> QED  BY <2>2, <3>1, <3>3, <3>4 DEF Resolved
    <2> QED  BY <2>4, <2>5
  <1>4. CASE Marks
    <2>1. d \in calls
      BY <1>4 DEF Marks
    <2>2. Resolved(d) /\ d.num \in Numbers
      BY <2>1 DEF StoresInv, ShapesOK, TablesOK, SessionsOK, CallType
    <2> QED  BY <1>4, <2>2, Marked DEF Resolved
  <1>5. CASE Reset
    BY <1>5 DEF Reset
  <1> QED  BY <1>1, <1>2, <1>3, <1>4, <1>5, Kinds

\* A cell is as it was, gone with its database, or what an answered call found.
LEMMA CellMoves ==
    ASSUME StoresInv, [Next]_vars, NEW s \in Numbers, NEW h \in Hosts, NEW q \in Reqs
    PROVE  \/ cells'[s][h][q] = NoCell
           \/ cells'[s][h][q] = cells[s][h][q]
           \/ \E c \in calls : /\ Answers(c) /\ c.source # "start" /\ s = c.num /\ h = c.host
                               /\ c.found[q] # NoFinding
                               /\ cells[s][h][q].id \in {NoId, c.found[q].id}
                               /\ cells'[s][h][q] = Upsert(cells[s][h][q], c.run, c.found[q])
  <1>1. CASE UNCHANGED cells
    BY <1>1
  <1>2. ASSUME NEW c, Answers(c)
        PROVE  \/ cells'[s][h][q] = cells[s][h][q]
               \/ /\ c.source # "start" /\ s = c.num /\ h = c.host
                  /\ c.found[q] # NoFinding /\ cells[s][h][q].id \in {NoId, c.found[q].id}
                  /\ cells'[s][h][q] = Upsert(cells[s][h][q], c.run, c.found[q])
    <2>1. CASE c.source = "start"
      BY <1>2, <2>1, RowAnswered
    <2>2. CASE c.source # "start" /\ ~(s = c.num /\ h = c.host)
      BY <1>2, <2>2, RowAnswered
    <2>3. CASE c.source # "start" /\ s = c.num /\ h = c.host
      <3>1. cells'[s][h] = LineAfter(c)
        BY <1>2, <2>3, RowAnswered
      <3>2. cells'[s][h][q] = Upsert(cells[s][h][q], c.run, c.found[q])
        BY <2>3, <3>1 DEF LineAfter
      <3> QED  BY <2>3, <3>2 DEF Upsert
    <2> QED  BY <2>1, <2>2, <2>3
  <1>3. CASE Reset
    BY <1>3 DEF Reset
  <1>4. \A c : Answers(c) => c \in calls
    BY DEF Answers
  <1>5. Silent \/ (\E c : Asks(c)) \/ Marks => UNCHANGED cells
    BY DEF Silent, Asks, Marks
  <1> QED  BY <1>1, <1>2, <1>3, <1>4, <1>5, Kinds

\* A verdict stays in the session of its run.
LEMMA OwnStep ==
    ASSUME StoresInv, [Next]_vars, NEW s \in Numbers, NEW h \in Hosts, NEW q \in Reqs,
           cells'[s][h][q] # NoCell
    PROVE  cells'[s][h][q].run \in Runs /\ cells'[s][h][q].run = sessions'[s].run
  <1>0. cells[s][h][q] # NoCell =>
          cells[s][h][q].run \in Runs /\ cells[s][h][q].run = sessions[s].run
    BY DEF StoresInv, SessionsOK, OwnSession
  <1>1. CASE cells'[s][h][q] = cells[s][h][q]
    <2>1. sessions[s].run \in Runs /\ cells'[s][h][q].run = sessions[s].run
      BY <1>0, <1>1
    <2>2. CASE Silent
      BY <2>1, <2>2 DEF Silent
    <2>3. ASSUME NEW c, Asks(c)  PROVE sessions'[s].run = sessions[s].run
      BY <2>3 DEF Asks
    <2>4. ASSUME NEW c, Answers(c)  PROVE sessions'[s].run = sessions[s].run
      <3>1. sessions[s].run # Unowned /\ sessions[s].run # "none"
        BY <2>1, FollowUpAssumption
      <3> QED  BY <2>4, <3>1, Answered
    <2>5. CASE Marks
      BY <2>1, <2>5, Marked
    <2>6. ASSUME Reset  PROVE FALSE
      BY <2>6 DEF Reset
    <2> QED  BY <2>1, <2>2, <2>3, <2>4, <2>5, <2>6, Kinds
  <1>2. ASSUME NEW c \in calls, Answers(c), s = c.num, c.found[q] # NoFinding,
               cells[s][h][q].id \in {NoId, c.found[q].id},
               cells'[s][h][q] = Upsert(cells[s][h][q], c.run, c.found[q])
        PROVE  cells'[s][h][q].run = c.run /\ c.run \in Runs /\ sessions'[s].run = c.run
    <2>1. cells'[s][h][q].run = c.run
      BY <1>2 DEF Upsert
    <2> QED  BY <1>2, <2>1, Answered
  <1> QED  BY <1>1, <1>2, CellMoves

\* Every step keeps the sessions and their owners.
LEMMA SessionsStep == ASSUME StoresInv, [Next]_vars  PROVE SessionsOK'
  <1>1. \A c \in calls' : Resolved(c)'
    BY ResolvedStep
  <1>2. \A r \in Runs : Named(r, meta[r].num)'
    BY NamesStep
  <1>3. Named(follow.run, follow.meta.num)'
    BY FollowStep, OwnersStay DEF Named
  <1> QED  BY <1>1, <1>2, <1>3, OwnStep DEF SessionsOK, OwnSession

\* Every step keeps the calls behind the disk.
LEMMA CallsStep == ASSUME StoresInv, [Next]_vars  PROVE CallsOK'
  <1>1. ASSUME NEW d \in calls, NEW q \in Reqs  PROVE CallBacked(d, q)'
    <2>1. d \in CallType /\ Resolved(d) /\ CallBacked(d, q)
      BY DEF StoresInv, ShapesOK, TablesOK, SessionsOK, CallsOK
    <2>2. CASE d.source = "start"
      BY <2>2 DEF CallBacked
    <2>3. CASE d.source # "start"
      <3>1. d.run \in Runs /\ d.host \in Hosts /\ d.found[q].n \in Nat
        BY <2>1, <2>3 DEF CallType, Resolved, Findings
      <3>2. Backed(d.found[q], disk[d.run][d.host][q])
        BY <2>1, <2>3 DEF CallBacked
      <3>3. Backed(d.found[q], disk'[d.run][d.host][q])
        BY <3>1, <3>2, DiskStep, StaysBacked
      <3> QED  BY <2>1, <3>3 DEF CallBacked
    <2> QED  BY <2>2, <2>3
  <1>2. CASE calls' \subseteq calls
    BY <1>1, <1>2 DEF CallsOK
  <1>3. ASSUME NEW c, Asks(c)  PROVE CallsOK'
    BY <1>1, <1>3 DEF Asks, CallsOK
  <1>4. ASSUME NEW c, Answers(c)  PROVE calls' \subseteq calls
    BY <1>4 DEF Answers
  <1>5. Silent \/ Marks \/ Reset => calls' \subseteq calls
    BY DEF Silent, Marks, Reset
  <1> QED  BY <1>2, <1>3, <1>4, <1>5, Kinds

\* Every step keeps the cells behind the disk.
LEMMA CellsStep == ASSUME StoresInv, [Next]_vars  PROVE CellsOK'
  <1> SUFFICES ASSUME NEW s \in Numbers, NEW h \in Hosts, NEW q \in Reqs, cells'[s][h][q] # NoCell
               PROVE  /\ cells'[s][h][q].id # NoId
                      /\ Behind(cells'[s][h][q], disk'[cells'[s][h][q].run][h][q])
    BY DEF CellsOK, CellBacked
  <1>1. CASE cells'[s][h][q] = cells[s][h][q]
    <2> DEFINE c == cells[s][h][q]
    <2>1. c.run \in Runs /\ c.n \in Nat
      BY <1>1 DEF StoresInv, SessionsOK, ShapesOK, TablesOK, CellType
    <2>2. c.id # NoId /\ Behind(c, disk[c.run][h][q])
      BY <1>1 DEF StoresInv, CellsOK, CellBacked
    <2> HIDE DEF c
    <2>3. Behind(c, disk'[c.run][h][q])
      BY <2>1, <2>2, DiskStep, StaysBacked
    <2> QED  BY <1>1, <2>2, <2>3 DEF c
  <1>2. ASSUME NEW c \in calls, c.source # "start", h = c.host, c.found[q] # NoFinding,
               cells[s][h][q].id \in {NoId, c.found[q].id},
               cells'[s][h][q] = Upsert(cells[s][h][q], c.run, c.found[q])
        PROVE  /\ cells'[s][h][q].id # NoId
               /\ Behind(cells'[s][h][q], disk'[cells'[s][h][q].run][h][q])
    <2> DEFINE f == c.found[q]
    <2>1. Backed(f, disk[c.run][h][q]) /\ c \in CallType
      BY <1>2 DEF StoresInv, CallsOK, CallBacked, ShapesOK, TablesOK
    <2>2. c.run \in Runs /\ f.n \in Nat
      BY <2>1 DEF CallType, Findings
    <2>3. Backed(f, disk'[c.run][h][q])
      BY <2>1, <2>2, DiskStep, StaysBacked
    <2>4. cells'[s][h][q] = [run |-> c.run, id |-> f.id, n |-> f.n, asset |-> f.asset,
                             skip |-> f.skip]
      BY <1>2 DEF Upsert
    <2> QED  BY <1>2, <2>3, <2>4 DEF Backed, Behind
  <1> QED  BY <1>1, <1>2, CellMoves

\* The aggregates of a row that finalize writes are those of its cells: every
\* finding it was given is in its cell, unless that holds another asset's.
LEMMA FinalizedAgrees ==
    ASSUME StoresInv, NEW c, Answers(c), c.source = "finalize",
           \A q \in Reqs : cells'[c.num][c.host][q] # NoCell =>
                              cells'[c.num][c.host][q].asset = c.host
    PROVE  rows'[c.num][c.host].counts = Counted(cells'[c.num][c.host])
  <1> DEFINE s == c.num
             h == c.host
  <1>1. /\ c \in calls /\ c \in CallType /\ Resolved(c) /\ s \in Numbers /\ h \in Hosts
        /\ cells'[s][h] = LineAfter(c) /\ rows'[s][h] = RowAfter(c)
        /\ sessions[s].run \in {c.run, Unowned, "none"}
    BY Answered, RowAnswered DEF Answers, StoresInv, ShapesOK, TablesOK, SessionsOK
  <1>2. rows'[s][h].counts = Counted(c.found)
    BY <1>1 DEF RowAfter, RecordRow
  <1>3. ASSUME NEW q \in Reqs
        PROVE  cells'[s][h][q].n = c.found[q].n /\ cells'[s][h][q].skip = c.found[q].skip
    <2> DEFINE old == cells[s][h][q]
               f   == c.found[q]
    <2>1. f # NoFinding /\ f.asset = h
      BY <1>1 DEF StoresInv, CallsOK, CallBacked
    <2>2. cells'[s][h][q] = Upsert(old, c.run, f)
      BY <1>1 DEF LineAfter
    <2>3. old.id \in {NoId, f.id}
      <3> SUFFICES ASSUME old.id \notin {NoId, f.id}  PROVE FALSE
        OBVIOUS
      <3>1. cells'[s][h][q] = old
        BY <2>2 DEF Upsert
      <3>2. old # NoCell
        BY DEF NoCell
      <3>3. old.asset = f.asset
        BY <2>1, <3>1, <3>2
      <3>4. old.run \in Runs /\ old.run = sessions[s].run
        BY <1>1, <3>2 DEF StoresInv, SessionsOK, OwnSession
      <3>5. old.run = c.run
        BY <1>1, <3>4, FollowUpAssumption
      <3>6. Duplicate(c.run, q, f)
        BY <1>1, <3>2, <3>3, <3>5 DEF Duplicate, SameKey
      <3>7. CellsAccepted(c)
        BY DEF Answers, Commits
      <3> QED  BY <2>1, <3>6, <3>7 DEF CellsAccepted
    <2> QED  BY <2>1, <2>2, <2>3 DEF Upsert
  <1> QED  BY <1>2, <1>3 DEF Counted

\* Every step keeps the aggregates in agreement with the cells.
LEMMA ListsStep == ASSUME StoresInv, [Next]_vars  PROVE ListsAgree'
  <1> SUFFICES ASSUME NEW s \in Numbers, NEW h \in Hosts,
                      rows'[s][h].source \in {"live", "refill", "finalize"},
                      \A q \in Reqs : cells'[s][h][q] # NoCell => cells'[s][h][q].asset = h
               PROVE  rows'[s][h].counts = Counted(cells'[s][h])
    BY DEF ListsAgree, ListedReady, ListedCounts, ListedCells
  <1>1. CASE rows'[s][h] = rows[s][h] /\ cells'[s][h] = cells[s][h]
    <2>1. ListsAgree
      BY DEF StoresInv
    <2> QED  BY <1>1, <2>1 DEF ListsAgree, ListedReady, ListedCounts, ListedCells
  <1>2. ASSUME NEW c, Answers(c)  PROVE rows'[s][h].counts = Counted(cells'[s][h])
    <2>1. CASE c.source = "start" \/ s # c.num \/ h # c.host
      BY <1>1, <1>2, <2>1, RowAnswered
    <2>2. CASE c.source # "start" /\ s = c.num /\ h = c.host
      <3>1. /\ rows'[s][h] = RowAfter(c) /\ cells'[s][h] = LineAfter(c) /\ c \in CallType
        BY <1>2, <2>2, RowAnswered DEF Answers, StoresInv, ShapesOK, TablesOK
      <3>2. CASE c.source \in {"live", "refill"}
        BY <3>1, <3>2 DEF RowAfter, LiveRow, Refresh
      <3>3. CASE c.source = "finalize"
        BY <1>2, <2>2, <3>3, FinalizedAgrees
      <3>4. CASE c.source = "assess_start"
        BY <3>1, <3>4 DEF RowAfter, SnapshotRow
      <3>5. CASE c.source = "update_report"
        BY <3>1, <3>5 DEF RowAfter, RecordRow
      <3> QED  BY <2>2, <3>1, <3>2, <3>3, <3>4, <3>5 DEF CallType, Sources
    <2> QED  BY <2>1, <2>2
  <1>3. CASE Reset
    BY <1>3 DEF Reset, NoRow
  <1>4. Silent \/ (\E c : Asks(c)) \/ Marks => UNCHANGED <<rows, cells>>
    BY DEF Silent, Asks, Marks
  <1> QED  BY <1>1, <1>2, <1>3, <1>4, Kinds

-----------------------------------------------------------------------------
(* The theorems.                                                           *)

\* The invariant holds for a client without audits or with a legacy session.
LEMMA StoresInit == Init => StoresInv
  <1> SUFFICES ASSUME Init  PROVE StoresInv
    OBVIOUS
  <1> DEFINE legacy == [run |-> Unowned, status |-> "interrupted"]
  <1>0. /\ NoFinding \in Findings /\ NoSession \in SessionType /\ NoCell \in CellType
        /\ NoRow \in RowType /\ legacy \in SessionType
    <2>1. 0 \in 0 .. MaxWrites
      BY FollowUpAssumption
    <2>2. [q \in Reqs |-> <<0, FALSE>>] \in [Reqs -> (0 .. MaxWrites) \X BOOLEAN]
      BY <2>1
    <2>3. NoRow \in RowType
      BY <2>2 DEF NoRow, RowType
    <2> QED  BY <2>1, <2>3 DEF NoFinding, Findings, NoSession, SessionType, Statuses, NoCell,
                               CellType, Ids
  <1>1. /\ sessions = [s \in Numbers |-> IF Legacy # {} /\ s = 1 THEN legacy ELSE NoSession]
        /\ rows  = [s \in Numbers |-> [h \in Hosts |-> NoRow]]
        /\ cells = [s \in Numbers |-> [h \in Hosts |-> [q \in Reqs |-> NoCell]]]
        /\ calls = {}
    BY DEF Init, WarehouseInit
  <1>2. /\ disk   = [r \in Runs |-> [h \in Hosts |-> Nothing]]
        /\ meta   = [r \in Runs |-> IF r \in Legacy THEN [NoMeta EXCEPT !.num = 1] ELSE NoMeta]
        /\ job    = [r \in Runs |-> [h \in Hosts |-> "none"]]
        /\ worker = [r \in Runs |-> [h \in Hosts |-> [q \in Reqs |-> Idle]]]
        /\ known  = [r \in Runs |-> [h \in Hosts |-> Nothing]]
        /\ follow = NoFollow
    BY DEF Init
  <1>3. TablesOK
    BY <1>0, <1>1 DEF TablesOK
  <1>4. meta \in [Runs -> MetaType] /\ \A r \in Runs : r \notin Legacy => meta[r].num = 0
    BY <1>2, NoFollowShape DEF NoMeta, MetaType
  <1>5. JobsOK
    BY <1>0, <1>2, <1>4, NothingBacked, WorkerShapes DEF JobsOK
  <1>6. FollowOK /\ follow.meta.num = 0 /\ LoadedOK
    BY <1>2, NoFollowShape DEF FollowOK, NoFollow, NoMeta, LoadedOK
  <1>7. SessionsOK
    BY <1>1, <1>4, <1>6 DEF SessionsOK, Named, Numbers, OwnSession
  <1>8. ThreadsOK
    <2>1. \A r \in Runs, h \in Hosts, q \in Reqs :
            disk[r][h][q] = NoFinding /\ known[r][h][q] = NoFinding /\ job[r][h] = "none"
            /\ worker[r][h][q].at = "idle"
      BY <1>2, WorkerShapes DEF Nothing
    <2> QED  BY <2>1 DEF ThreadsOK, ThreadOK, KnownOK, WorkerOK, NoGap, Backed
  <1>9. CallsOK /\ CellsOK
    BY <1>1 DEF CallsOK, CellsOK, CellBacked
  <1>10. ListsAgree
    BY <1>1 DEF ListsAgree, NoRow
  <1> QED  BY <1>3, <1>5, <1>6, <1>7, <1>8, <1>9, <1>10 DEF StoresInv, ShapesOK

\* Every step keeps the invariant.
LEMMA StoresStep == StoresInv /\ [Next]_vars => StoresInv'
  <1> SUFFICES ASSUME StoresInv, [Next]_vars  PROVE StoresInv'
    OBVIOUS
  <1>1. JobsOK'
    BY DiskStep, MetaStep, ThreadsStep DEF JobsOK, ThreadsTyped
  <1> QED  BY <1>1, TablesStep, FollowStep, SessionsStep, ThreadsStep, CallsStep, LoadedStep,
              CellsStep, ListsStep DEF StoresInv, ShapesOK

\* The inductive invariant holds in every behaviour.
LEMMA StoresAlways == Spec => []StoresInv
  BY StoresInit, StoresStep, PTL DEF Spec

\* No verdict is ever filed under another run: a session number that a
\* meta.json remembers from an older database, or that two runs resolve at the
\* same time, leads to the run's own session or to a refused transaction
\* (_resolve_session_row).
THEOREM VerdictsStayHome == Spec => []OwnSession
  <1>1. StoresInv => OwnSession
    BY DEF StoresInv, SessionsOK
  <1> QED  BY <1>1, StoresAlways, PTL

\* Disk first, warehouse second: whatever is lost, cancelled, skipped, refilled
\* or crashed, a cell holds what finding.json of its host holds or has held
\* (assess_parallel, run_refill_finding, run_update_report, finalize).
THEOREM DiskLeads == Spec => []NeverAhead
  <1>1. StoresInv => TypeOK
    BY DEF StoresInv, ShapesOK, TablesOK, JobsOK, FollowOK, TypeOK, SessionType, Statuses,
           RowType, CallType, WorkerType, FollowType
  <1>2. StoresInv => \A s \in Numbers, h \in Hosts, q \in Reqs : cells[s][h][q] # NoCell =>
                        Behind(cells[s][h][q], disk[cells[s][h][q].run][h][q])
    BY DEF StoresInv, CellsOK, CellBacked
  <1>3. StoresInv => NeverAhead
    BY <1>1, <1>2 DEF NeverAhead, Behind
  <1> QED  BY <1>3, StoresAlways, PTL

\* What /list-results shows as the aggregates of a host is what its cells add
\* up to, whichever of the live writes, refills and finalizations came last.
THEOREM ListsAddUp == Spec => []ListsAgree
  <1>1. StoresInv => ListsAgree
    BY DEF StoresInv
  <1> QED  BY <1>1, StoresAlways, PTL

\* A stored verdict keeps its result_id through retries, refills and rebuilt
\* reports (_upsert_requirement_cell).
THEOREM IdentityKept == Spec => CellKept
  <1>1. ASSUME StoresInv, [Next]_vars, NEW s \in Numbers, NEW h \in Hosts, NEW q \in Reqs,
               cells[s][h][q] # NoCell
        PROVE  cells'[s][h][q].id \in {NoId, cells[s][h][q].id}
    <2>1. cells[s][h][q].id # NoId
      BY <1>1 DEF StoresInv, CellsOK, CellBacked
    <2>2. CASE cells'[s][h][q] = NoCell
      BY <2>2 DEF NoCell
    <2>3. ASSUME NEW c \in calls, cells[s][h][q].id \in {NoId, c.found[q].id},
                 c.found[q] # NoFinding,
                 cells'[s][h][q] = Upsert(cells[s][h][q], c.run, c.found[q])
          PROVE  cells'[s][h][q].id = cells[s][h][q].id
      BY <2>1, <2>3 DEF Upsert
    <2> QED  BY <1>1, <2>2, <2>3, CellMoves
  <1>2. StoresInv /\ [Next]_vars =>
          [\A s \in Numbers, h \in Hosts, q \in Reqs : cells[s][h][q] # NoCell =>
              cells'[s][h][q].id \in {NoId, cells[s][h][q].id}]_vars
    BY <1>1
  <1> QED  BY <1>2, StoresAlways, PTL DEF Spec, CellKept

=============================================================================
