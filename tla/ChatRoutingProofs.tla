-------------------------- MODULE ChatRoutingProofs --------------------------
(***************************************************************************)
(* Theorems about the intake and the chats that answer it, for any number  *)
(* of chats, threads, jobs, messages, faults and crashes.                  *)
(*                                                                         *)
(* OneRunEach and HostsDiscoveredOnce say what the replays of the node do  *)
(* not do again.  PlanConfirmed says what they cannot change: the plan the *)
(* operator saw is a fixed point of all his replies given out once more,   *)
(* because leaving out jobs a second time leaves them out, and whatever    *)
(* stands before the last table does not matter.                           *)
(***************************************************************************)
EXTENDS ChatRouting, TLAPS, FiniteSetTheorems, SequenceTheorems

-----------------------------------------------------------------------------
(* Types.                                                                  *)

Places == {"idle", "client", "bind", "start", "store", "access", "discover", "save", "plan",
           "scope", "finish", "handoff"}

Invocation == [pc : Places, at : Nat, heard : Seq(Reply), run : Nat, jobs : SUBSET Jobs,
               found : BOOLEAN, access : BOOLEAN, selected : SUBSET Jobs, by : Steps,
               fresh : BOOLEAN]
Progress   == [run : Nat, found : BOOLEAN, jobs : SUBSET Jobs]
Checkpoint == [state : {"none", "paused", "ended"}, step : Steps, selected : SUBSET Jobs, by : Steps]

Statuses == {"pending", "running", "completed", "failed"}

NodeOK  == /\ node \in [Threads -> Invocation]
           /\ \A t \in Threads : node[t].at <= Len(node[t].heard)
RunsOK  == runs \in Seq([thread : Threads, status : Statuses])
DiskOK  == /\ meta \in [Threads -> Progress] /\ planFile \in SUBSET Jobs
           /\ tape \in [Threads -> Seq(Reply)] /\ cp \in [Threads -> Checkpoint]
SeenOK  == /\ shown \in [Threads -> (SUBSET Jobs) \cup {None}] /\ quiet \in [Threads -> BOOLEAN]
           /\ probes \in [Threads -> Nat]
CountOK == failures \in Nat /\ crashes \in Nat /\ edits \in Nat
RouteOK == /\ marker \in [Chats -> Threads \cup {None}]
           /\ pointer \in [thread : Threads \cup {None}, run : Nat]
           /\ asking \in [Threads -> Chats \cup {None}]

ChatTypes == NodeOK /\ RunsOK /\ DiskOK /\ SeenOK /\ CountOK /\ RouteOK

\* Everything a step of another thread leaves alone.
Same(t) == /\ meta'[t] = meta[t] /\ tape'[t] = tape[t] /\ cp'[t] = cp[t] /\ node'[t] = node[t]
           /\ shown'[t] = shown[t] /\ quiet'[t] = quiet[t] /\ probes'[t] = probes[t]

-----------------------------------------------------------------------------
(* The invariant.                                                          *)

\* Runs and intakes: a thread has at most one run.
RunsDiffer == \A r, s \in DOMAIN runs : runs[r].thread = runs[s].thread => r = s

\* What the evidence says of discovery and plan is what the invocation knows, except
\* between a discovery and the saving of its result.  No question is asked about nothing.
Saved(t) == /\ node[t].pc \notin {"idle", "handoff", "save"} =>
                 node[t].found = meta[t].found /\ node[t].jobs = meta[t].jobs
            /\ node[t].pc \in {"plan", "scope"} => meta[t].found
            /\ node[t].pc = "save" => node[t].found = TRUE
            /\ node[t].pc = "scope" => node[t].jobs # {}

\* A discovery that is not saved was followed by a crash, or its invocation is about to
\* save it.
Probed(t) == probes[t] <= crashes + IF meta[t].found \/ node[t].pc = "save" THEN 1 ELSE 0

\* Only a thread that has ended hands over; no prompt counts without its checkpoint.
Ended(t) == /\ cp[t].state = "ended" => node[t].pc \in {"idle", "handoff"}
            /\ node[t].pc = "handoff" => cp[t].state = "ended"
            /\ cp[t].state = "none" => ~quiet[t]

\* The reply a is the first to name the client, b the first after it that says yes or no.
Named(heard, a) == /\ a \in 1 .. Len(heard) /\ Names(heard[a])
                   /\ \A k \in 1 .. a - 1 : ~Names(heard[k])
Unclear(heard, a, n) == \A k \in a + 1 .. n : ~YesNo(heard[k])
Reached(heard, a, b) == /\ Named(heard, a) /\ b \in a + 1 .. Len(heard)
                        /\ YesNo(heard[b]) /\ Unclear(heard, a, b - 1)

\* What a reply makes of the plan, when PLAN.md holds plan, the model works and the reply
\* does not confirm.
Proposal(plan, r, jobs) == IF Table(r) # {} THEN Table(r) ELSE IF Notice(r) THEN plan
                           ELSE IF Trims(r) THEN jobs \cap r.jobs ELSE {}
After(plan, r, jobs) == IF Proposal(plan, r, jobs) # {} THEN Proposal(plan, r, jobs) ELSE jobs
Resets(plan, r) == Table(r) # {} \/ (Notice(r) /\ plan # {})
NoResets(plan, heard, j, k) == \A m \in j + 1 .. k : ~Resets(plan, heard[m])

\* P[k] is the plan after reply k, from the first question about it after reply b on.
\* Without a table in between it only gets smaller.
Trace(plan, P, heard, b, n) ==
    /\ P \in [b .. n -> (SUBSET Jobs) \ {{}}]
    /\ plan # {} => P[b] = plan
    /\ \A k \in b + 1 .. n : ~Confirms(heard[k]) /\ P[k] = After(plan, heard[k], P[k - 1])
    /\ \A j, k \in b .. n : j <= k /\ NoResets(plan, heard, j, k) => P[k] \subseteq P[j]

\* The replies up to n have led to the plan jobs.
LedTo(plan, heard, b, n, jobs) ==
    \E P \in [b .. n -> SUBSET Jobs] : Trace(plan, P, heard, b, n) /\ P[n] = jobs

\* A replay with the plan jobs after reply k ends, after reply n, where the trace ended:
\* it is on the trace or already at its end, unless a table is still to come.
Agrees(plan, P, heard, n, jobs, k) == NoResets(plan, heard, k, n) => jobs \in {P[k], P[n]}

\* An invocation n that has followed its replies.
Way(n, plan) ==
    /\ n.pc = "client" => \A k \in 1 .. n.at : ~Names(n.heard[k])
    /\ n.pc \in {"bind", "start", "store"} => Named(n.heard, n.at)
    /\ n.pc = "access" => \E a \in 1 .. n.at : Named(n.heard, a) /\ Unclear(n.heard, a, n.at)
    /\ n.pc \in {"discover", "save", "plan"} => \E a \in 1 .. n.at : Reached(n.heard, a, n.at)
    /\ n.pc = "scope" => \E a \in 1 .. n.at, b \in 1 .. n.at :
                            Reached(n.heard, a, b) /\ LedTo(plan, n.heard, b, n.at, n.jobs)

\* So has every invocation that nothing disturbed.
Follows(t) == node[t].fresh /\ failures = 0 => Way(node[t], planFile)

\* Where an invocation n that answers a prompt is in the replies to earlier ones, which led
\* from b to the plan that was shown along P.
Replays(n, heard, seen, plan, a, b, P) ==
    /\ n.pc \notin {"save", "handoff"}
    /\ \E r \in Reply : r.asked = "scope" /\ n.heard = Append(heard, r)
    /\ n.pc = "client" => n.at < a
    /\ n.pc \in {"bind", "start", "store"} => n.at = a
    /\ n.pc = "access" => n.at \in a .. b - 1
    /\ n.pc \in {"discover", "plan"} => n.at = b
    /\ n.pc \notin {"scope", "finish"} => n.jobs = seen
    /\ n.pc = "scope" => /\ n.at >= b
                         /\ n.at <= Len(heard) => Agrees(plan, P, heard, Len(heard), n.jobs, n.at)
    /\ n.pc = "finish" => n.selected = seen /\ n.by = "scope"

\* The replies heard led to the plan that was seen; the evidence holds it (jobs), or an
\* invocation is on its way to it.
Leads(heard, seen, n, jobs, plan) ==
    \E a \in 1 .. Len(heard), b \in 1 .. Len(heard) :
       /\ Reached(heard, a, b)
       /\ \E P \in [b .. Len(heard) -> SUBSET Jobs] :
             /\ Trace(plan, P, heard, b, Len(heard)) /\ P[Len(heard)] = seen
             /\ IF n.pc = "idle" THEN jobs = seen ELSE Replays(n, heard, seen, plan, a, b, P)

\* The plan that was shown is what all replies lead to, again and again.
Settled(t) == quiet[t] /\ failures = 0 /\ cp[t].state = "paused" =>
                 /\ cp[t].step = "scope" /\ meta[t].found
                 /\ Leads(tape[t], shown[t], node[t], meta[t].jobs, planFile)

\* What a thread has ended with is the plan that was shown.
EndsAsShown(t) == quiet[t] /\ failures = 0 /\ cp[t].state = "ended" =>
                      cp[t].selected = shown[t] /\ cp[t].by = "scope"

ThreadInv(t) == Saved(t) /\ Probed(t) /\ Ended(t)
PlanInv(t) == Follows(t) /\ Settled(t) /\ EndsAsShown(t)

ChatInv == /\ ChatTypes /\ RunsDiffer
           /\ \A t \in Threads : ThreadInv(t) /\ PlanInv(t)
           /\ ConfirmedIsShown

-----------------------------------------------------------------------------
(* Types and runs.                                                         *)

\* The records the model starts from have their types.
LEMMA Starts ==
    ASSUME ChatTypes, NEW t \in Threads, NEW heard \in Seq(Reply)
    PROVE  /\ Idle \in Invocation /\ NoMeta \in Progress /\ NoCp \in Checkpoint
           /\ Enter(t, heard) \in Invocation
           /\ Enter(t, heard).at = 0 /\ Enter(t, heard).heard = heard
  <1>1. /\ NoMeta \in Progress /\ NoCp \in Checkpoint
    BY DEF NoMeta, NoCp, Progress, Checkpoint, Steps
  <1>2. Idle \in Invocation
    BY DEF Idle, Invocation, Places, Steps
  <1>3. meta[t].run \in Nat /\ meta[t].jobs \in SUBSET Jobs /\ meta[t].found \in BOOLEAN
    BY DEF ChatTypes, DiskOK, Progress
  <1>4. Enter(t, heard) \in Invocation
    BY <1>2, <1>3 DEF Enter, Invocation, Places
  <1>5. Enter(t, heard).at = Idle.at /\ Enter(t, heard).heard = heard
    BY <1>2, <1>3 DEF Enter, Invocation
  <1>6. Idle.at = 0
    BY DEF Idle
  <1> QED  BY <1>1, <1>2, <1>4, <1>5, <1>6

\* A sequence with one place changed.
LEMMA OneChanged ==
    ASSUME NEW S, NEW seq \in Seq(S), NEW i, NEW e, i \in DOMAIN seq => e \in S
    PROVE  /\ [seq EXCEPT ![i] = e] \in Seq(S)
           /\ DOMAIN [seq EXCEPT ![i] = e] = DOMAIN seq
           /\ \A k \in DOMAIN seq : [seq EXCEPT ![i] = e][k] = IF k = i THEN e ELSE seq[k]
  <1> DEFINE new == [seq EXCEPT ![i] = e]
  <1>1. /\ Len(seq) \in Nat /\ DOMAIN seq = 1 .. Len(seq)
        /\ \A k \in DOMAIN seq : seq[k] \in S
    OBVIOUS
  <1>2. \A k \in DOMAIN seq : new[k] = IF k = i THEN e ELSE seq[k]
    BY <1>1
  <1>3. DOMAIN new = 1 .. Len(seq)
    BY <1>1
  <1>4. \A k \in 1 .. Len(seq) : new[k] \in S
    BY <1>1, <1>2
  <1>5. new = [k \in 1 .. Len(seq) |-> new[k]]
    BY <1>3
  <1>6. new \in [1 .. Len(seq) -> S]
    BY <1>4, <1>5
  <1>7. new \in Seq(S)
    BY <1>1, <1>6, SeqDef
  <1> QED  BY <1>1, <1>2, <1>3, <1>7

\* A run with another status is of the same thread.
LEMMA StatusOnly ==
    ASSUME NEW T, NEW run \in [thread : T, status : Statuses], NEW s \in Statuses
    PROVE  /\ [run EXCEPT !.status = s] \in [thread : T, status : Statuses]
           /\ [run EXCEPT !.status = s].thread = run.thread
  OBVIOUS

\* The statuses of runs change, their threads do not.
LEMMA StatusChanged ==
    ASSUME ChatTypes, RunsDiffer, NEW r, NEW s \in Statuses
    PROVE  runs' = [runs EXCEPT ![r].status = s] =>
              RunsOK' /\ RunsDiffer'
  <1> DEFINE e == [runs[r] EXCEPT !.status = s]
             Row == [thread : Threads, status : Statuses]
  <1>0. runs \in Seq(Row)
    BY DEF ChatTypes, RunsOK
  <1>1. runs' = [runs EXCEPT ![r].status = s] => runs' = [runs EXCEPT ![r] = e]
    BY Zenon
  <1>2. ASSUME r \in DOMAIN runs PROVE runs[r] \in Row
    BY <1>0, <1>2, LenProperties, Zenon
  <1>3. r \in DOMAIN runs => e \in Row /\ e.thread = runs[r].thread
    BY <1>2, StatusOnly, Zenon
  <1> HIDE DEF e, Row
  <1>4. ASSUME runs' = [runs EXCEPT ![r] = e]
        PROVE  runs' \in Seq(Row) /\ RunsDiffer'
    <2>1. /\ runs' \in Seq(Row) /\ DOMAIN runs' = DOMAIN runs
          /\ \A k \in DOMAIN runs : runs'[k] = IF k = r THEN e ELSE runs[k]
      BY <1>0, <1>3, <1>4, OneChanged
    <2>2. \A k \in DOMAIN runs : runs'[k].thread = runs[k].thread
      BY <1>3, <2>1
    <2> QED  BY <2>1, <2>2 DEF RunsDiffer
  <1> QED  BY <1>1, <1>4, Zenon DEF Row, RunsOK

\* One run at most is of a thread.
LEMMA OneRun ==
    ASSUME ChatTypes, RunsDiffer, NEW t \in Threads, RunsOf(t) # {}
    PROVE  (CHOOSE r \in RunsOf(t) : \A s \in RunsOf(t) : r <= s) \in Nat
  <1>1. PICK r : r \in RunsOf(t)
    OBVIOUS
  <1>2. DOMAIN runs = 1 .. Len(runs) /\ Len(runs) \in Nat
    BY DEF ChatTypes, RunsOK
  <1>3. r \in Nat
    BY <1>1, <1>2 DEF RunsOf
  <1>4. \A s \in RunsOf(t) : s = r
    BY <1>1 DEF RunsOf, RunsDiffer
  <1>5. \E q \in RunsOf(t) : \A s \in RunsOf(t) : q <= s
    BY <1>1, <1>3, <1>4
  <1>6. (CHOOSE q \in RunsOf(t) : \A s \in RunsOf(t) : q <= s) \in RunsOf(t)
    BY <1>5
  <1> QED  BY <1>3, <1>4, <1>6

\* An invocation with no more replies taken than given.
Fits(n) == n \in Invocation /\ n.at <= Len(n.heard)

\* The invocation n becomes m: at pc, after reply at, with the plan jobs.
Becomes(n, m, pc, at, jobs, found) ==
    /\ Fits(m) /\ m.heard = n.heard /\ m.fresh = n.fresh
    /\ m.pc = pc /\ m.at = at /\ m.jobs = jobs /\ m.found = found

\* The others stay where they are.
LEMMA MovesOne ==
    ASSUME NodeOK, NEW t \in Threads, NEW n, Fits(n), node' = [node EXCEPT ![t] = n]
    PROVE  NodeOK' /\ node'[t] = n /\ \A u \in Threads \ {t} : node'[u] = node[u]
  BY DEF NodeOK, Fits

\* An invocation with one field changed.
LEMMA OneField ==
    ASSUME NEW n \in Invocation
    PROVE  /\ \A pc \in Places : [n EXCEPT !.pc = pc] \in Invocation
           /\ \A at \in Nat : [n EXCEPT !.at = at] \in Invocation
           /\ \A run \in Nat : [n EXCEPT !.run = run] \in Invocation
           /\ \A jobs \in SUBSET Jobs : [n EXCEPT !.jobs = jobs] \in Invocation
           /\ \A yes \in BOOLEAN : /\ [n EXCEPT !.found = yes] \in Invocation
                                   /\ [n EXCEPT !.access = yes] \in Invocation
                                   /\ [n EXCEPT !.fresh = yes] \in Invocation
           /\ \A jobs \in SUBSET Jobs : [n EXCEPT !.selected = jobs] \in Invocation
           /\ \A by \in Steps : [n EXCEPT !.by = by] \in Invocation
  <1>1. \A pc \in Places : [n EXCEPT !.pc = pc] \in Invocation
    BY DEF Invocation
  <1>2. \A at \in Nat : [n EXCEPT !.at = at] \in Invocation
    BY DEF Invocation
  <1>3. \A run \in Nat : [n EXCEPT !.run = run] \in Invocation
    BY DEF Invocation
  <1>4. \A jobs \in SUBSET Jobs : [n EXCEPT !.jobs = jobs] \in Invocation
    BY DEF Invocation
  <1>5. \A yes \in BOOLEAN : [n EXCEPT !.found = yes] \in Invocation
    BY DEF Invocation
  <1>6. \A yes \in BOOLEAN : [n EXCEPT !.access = yes] \in Invocation
    BY DEF Invocation
  <1>7. \A yes \in BOOLEAN : [n EXCEPT !.fresh = yes] \in Invocation
    BY DEF Invocation
  <1>8. \A jobs \in SUBSET Jobs : [n EXCEPT !.selected = jobs] \in Invocation
    BY DEF Invocation
  <1>9. \A by \in Steps : [n EXCEPT !.by = by] \in Invocation
    BY DEF Invocation
  <1> QED  BY <1>1, <1>2, <1>3, <1>4, <1>5, <1>6, <1>7, <1>8, <1>9, Zenon

\* An invocation as the steps of the node change it.
LEMMA Changed ==
    ASSUME NEW n, Fits(n), NEW pc \in Places, NEW run \in Nat, NEW jobs \in SUBSET Jobs,
           NEW yes \in BOOLEAN
    PROVE  /\ Becomes(n, [n EXCEPT !.pc = pc], pc, n.at, n.jobs, n.found)
           /\ n.at < Len(n.heard) => Becomes(n, [n EXCEPT !.pc = pc, !.at = @ + 1], pc, n.at + 1, n.jobs, n.found)
           /\ n.at < Len(n.heard) => Becomes(n, [n EXCEPT !.pc = pc, !.at = @ + 1, !.access = yes], pc, n.at + 1, n.jobs, n.found)
           /\ Becomes(n, [n EXCEPT !.pc = pc, !.run = run], pc, n.at, n.jobs, n.found)
           /\ Becomes(n, [n EXCEPT !.pc = pc, !.jobs = jobs, !.found = TRUE], pc, n.at, jobs, TRUE)
           /\ Becomes(n, [n EXCEPT !.jobs = jobs, !.pc = pc], pc, n.at, jobs, n.found)
           /\ n.at < Len(n.heard) => Becomes(n, [n EXCEPT !.jobs = jobs, !.at = @ + 1], n.pc, n.at + 1, jobs, n.found)
  <1>0. n \in Invocation /\ n.at \in Nat /\ n.at + 1 \in Nat /\ Len(n.heard) \in Nat /\ n.at <= Len(n.heard)
    BY DEF Fits, Invocation
  <1>1. Becomes(n, [n EXCEPT !.pc = pc], pc, n.at, n.jobs, n.found)
    <2> DEFINE n1 == [n EXCEPT !.pc = pc]
    <2>1. n1 \in Invocation
      BY <1>0, OneField, Zenon
    <2>2. [n EXCEPT !.pc = pc] = n1
      OBVIOUS
    <2>3. /\ n1.at = n.at /\ n1.heard = n.heard /\ n1.fresh = n.fresh
          /\ n1.pc = pc /\ n1.jobs = n.jobs /\ n1.found = n.found
      BY <1>0 DEF Invocation
    <2> HIDE DEF n1
    <2>4. Fits(n1)
      BY <1>0, <2>1, <2>3 DEF Fits
    <2> QED  BY <2>2, <2>3, <2>4, Zenon DEF Becomes
  <1>2. n.at < Len(n.heard) => Becomes(n, [n EXCEPT !.pc = pc, !.at = @ + 1], pc, n.at + 1, n.jobs, n.found)
    <2> DEFINE n1 == [n EXCEPT !.pc = pc]
               n2 == [n1 EXCEPT !.at = n.at + 1]
    <2>1. n1 \in Invocation
      BY <1>0, OneField, Zenon
    <2>2. n2 \in Invocation
      <3> HIDE DEF n1
      <3> QED  BY <1>0, <2>1, OneField, Zenon
    <2>3. [n EXCEPT !.pc = pc, !.at = @ + 1] = n2
      OBVIOUS
    <2>4. /\ n2.at = n.at + 1 /\ n2.heard = n.heard /\ n2.fresh = n.fresh
          /\ n2.pc = pc /\ n2.jobs = n.jobs /\ n2.found = n.found
      BY <1>0 DEF Invocation
    <2> HIDE DEF n2
    <2>5. n.at < Len(n.heard) => Fits(n2)
      BY <1>0, <2>2, <2>4 DEF Fits
    <2> QED  BY <2>3, <2>4, <2>5, Zenon DEF Becomes
  <1>3. n.at < Len(n.heard) => Becomes(n, [n EXCEPT !.pc = pc, !.at = @ + 1, !.access = yes], pc, n.at + 1, n.jobs, n.found)
    <2> DEFINE n1 == [n EXCEPT !.pc = pc]
               n2 == [n1 EXCEPT !.at = n.at + 1]
               n3 == [n2 EXCEPT !.access = yes]
    <2>1. n1 \in Invocation
      BY <1>0, OneField, Zenon
    <2>2. n2 \in Invocation
      <3> HIDE DEF n1
      <3> QED  BY <1>0, <2>1, OneField, Zenon
    <2>3. n3 \in Invocation
      <3> HIDE DEF n2
      <3> QED  BY <1>0, <2>2, OneField, Zenon
    <2>4. [n EXCEPT !.pc = pc, !.at = @ + 1, !.access = yes] = n3
      OBVIOUS
    <2>5. /\ n3.at = n.at + 1 /\ n3.heard = n.heard /\ n3.fresh = n.fresh
          /\ n3.pc = pc /\ n3.jobs = n.jobs /\ n3.found = n.found
      BY <1>0 DEF Invocation
    <2> HIDE DEF n3
    <2>6. n.at < Len(n.heard) => Fits(n3)
      BY <1>0, <2>3, <2>5 DEF Fits
    <2> QED  BY <2>4, <2>5, <2>6, Zenon DEF Becomes
  <1>4. Becomes(n, [n EXCEPT !.pc = pc, !.run = run], pc, n.at, n.jobs, n.found)
    <2> DEFINE n1 == [n EXCEPT !.pc = pc]
               n2 == [n1 EXCEPT !.run = run]
    <2>1. n1 \in Invocation
      BY <1>0, OneField, Zenon
    <2>2. n2 \in Invocation
      <3> HIDE DEF n1
      <3> QED  BY <1>0, <2>1, OneField, Zenon
    <2>3. [n EXCEPT !.pc = pc, !.run = run] = n2
      OBVIOUS
    <2>4. /\ n2.at = n.at /\ n2.heard = n.heard /\ n2.fresh = n.fresh
          /\ n2.pc = pc /\ n2.jobs = n.jobs /\ n2.found = n.found
      BY <1>0 DEF Invocation
    <2> HIDE DEF n2
    <2>5. Fits(n2)
      BY <1>0, <2>2, <2>4 DEF Fits
    <2> QED  BY <2>3, <2>4, <2>5, Zenon DEF Becomes
  <1>5. Becomes(n, [n EXCEPT !.pc = pc, !.jobs = jobs, !.found = TRUE], pc, n.at, jobs, TRUE)
    <2> DEFINE n1 == [n EXCEPT !.pc = pc]
               n2 == [n1 EXCEPT !.jobs = jobs]
               n3 == [n2 EXCEPT !.found = TRUE]
    <2>1. n1 \in Invocation
      BY <1>0, OneField, Zenon
    <2>2. n2 \in Invocation
      <3> HIDE DEF n1
      <3> QED  BY <1>0, <2>1, OneField, Zenon
    <2>3. n3 \in Invocation
      <3> HIDE DEF n2
      <3> QED  BY <1>0, <2>2, OneField, Zenon
    <2>4. [n EXCEPT !.pc = pc, !.jobs = jobs, !.found = TRUE] = n3
      OBVIOUS
    <2>5. /\ n3.at = n.at /\ n3.heard = n.heard /\ n3.fresh = n.fresh
          /\ n3.pc = pc /\ n3.jobs = jobs /\ n3.found = TRUE
      BY <1>0 DEF Invocation
    <2> HIDE DEF n3
    <2>6. Fits(n3)
      BY <1>0, <2>3, <2>5 DEF Fits
    <2> QED  BY <2>4, <2>5, <2>6, Zenon DEF Becomes
  <1>6. Becomes(n, [n EXCEPT !.jobs = jobs, !.pc = pc], pc, n.at, jobs, n.found)
    <2> DEFINE n1 == [n EXCEPT !.jobs = jobs]
               n2 == [n1 EXCEPT !.pc = pc]
    <2>1. n1 \in Invocation
      BY <1>0, OneField, Zenon
    <2>2. n2 \in Invocation
      <3> HIDE DEF n1
      <3> QED  BY <1>0, <2>1, OneField, Zenon
    <2>3. [n EXCEPT !.jobs = jobs, !.pc = pc] = n2
      OBVIOUS
    <2>4. /\ n2.at = n.at /\ n2.heard = n.heard /\ n2.fresh = n.fresh
          /\ n2.pc = pc /\ n2.jobs = jobs /\ n2.found = n.found
      BY <1>0 DEF Invocation
    <2> HIDE DEF n2
    <2>5. Fits(n2)
      BY <1>0, <2>2, <2>4 DEF Fits
    <2> QED  BY <2>3, <2>4, <2>5, Zenon DEF Becomes
  <1>7. n.at < Len(n.heard) => Becomes(n, [n EXCEPT !.jobs = jobs, !.at = @ + 1], n.pc, n.at + 1, jobs, n.found)
    <2> DEFINE n1 == [n EXCEPT !.jobs = jobs]
               n2 == [n1 EXCEPT !.at = n.at + 1]
    <2>1. n1 \in Invocation
      BY <1>0, OneField, Zenon
    <2>2. n2 \in Invocation
      <3> HIDE DEF n1
      <3> QED  BY <1>0, <2>1, OneField, Zenon
    <2>3. [n EXCEPT !.jobs = jobs, !.at = @ + 1] = n2
      OBVIOUS
    <2>4. /\ n2.at = n.at + 1 /\ n2.heard = n.heard /\ n2.fresh = n.fresh
          /\ n2.pc = n.pc /\ n2.jobs = jobs /\ n2.found = n.found
      BY <1>0 DEF Invocation
    <2> HIDE DEF n2
    <2>5. n.at < Len(n.heard) => Fits(n2)
      BY <1>0, <2>2, <2>4 DEF Fits
    <2> QED  BY <2>3, <2>4, <2>5, Zenon DEF Becomes
  <1> QED  BY <1>1, <1>2, <1>3, <1>4, <1>5, <1>6, <1>7, Zenon

\* An invocation that is told to go on with its plan.
Agree(n, jobs, by) == [n EXCEPT !.pc = "finish", !.at = @ + 1, !.selected = jobs, !.by = by]

\* Such an invocation has one reply less to hear and what it confirms.
LEMMA Agreed ==
    ASSUME NEW n, Fits(n), n.at < Len(n.heard), NEW jobs \in SUBSET Jobs, NEW by \in Steps
    PROVE  /\ Becomes(n, Agree(n, jobs, by), "finish", n.at + 1, n.jobs, n.found)
           /\ Agree(n, jobs, by).selected = jobs /\ Agree(n, jobs, by).by = by
  <1>0. /\ n \in Invocation /\ n.at \in Nat /\ n.at + 1 \in Nat /\ Len(n.heard) \in Nat
        /\ "finish" \in Places
    BY DEF Fits, Invocation, Places
  <1> DEFINE n1 == [n EXCEPT !.pc = "finish"]
             n2 == [n1 EXCEPT !.at = n.at + 1]
             n3 == [n2 EXCEPT !.selected = jobs]
             n4 == [n3 EXCEPT !.by = by]
  <1>1. n1 \in Invocation
    BY <1>0, OneField, Zenon
  <1>2. n2 \in Invocation
    <2> HIDE DEF n1
    <2> QED  BY <1>0, <1>1, OneField, Zenon
  <1>3. n3 \in Invocation
    <2> HIDE DEF n2
    <2> QED  BY <1>0, <1>2, OneField, Zenon
  <1>4. n4 \in Invocation
    <2> HIDE DEF n3
    <2> QED  BY <1>0, <1>3, OneField, Zenon
  <1>5. Agree(n, jobs, by) = n4
    BY DEF Agree
  <1>6. /\ n4.at = n.at + 1 /\ n4.heard = n.heard /\ n4.fresh = n.fresh
        /\ n4.pc = "finish" /\ n4.jobs = n.jobs /\ n4.found = n.found
        /\ n4.selected = jobs /\ n4.by = by
    BY <1>0 DEF Invocation
  <1> HIDE DEF n4
  <1>7. n.at < Len(n.heard) => Fits(n4)
    BY <1>0, <1>4, <1>6 DEF Fits
  <1> QED  BY <1>5, <1>6, <1>7, Zenon DEF Becomes

\* A step of t that changes the invocation so, and no other one.
Moves(t, pc, at, jobs, found) ==
    /\ Becomes(node[t], node'[t], pc, at, jobs, found)
    /\ NodeOK' /\ \A u \in Threads \ {t} : node'[u] = node[u]

\* Assigning node' is such a step.
LEMMA MovesTo ==
    ASSUME NodeOK, NEW t \in Threads, NEW m, NEW pc, NEW at, NEW jobs, NEW found,
           node' = [node EXCEPT ![t] = m], Becomes(node[t], m, pc, at, jobs, found)
    PROVE  Moves(t, pc, at, jobs, found) /\ node'[t] = m
  <1>1. Fits(m)
    BY Zenon DEF Becomes
  <1>2. NodeOK' /\ node'[t] = m /\ \A u \in Threads \ {t} : node'[u] = node[u]
    BY <1>1, MovesOne, Zenon
  <1> QED  BY <1>2, Zenon DEF Moves

\* What the invocation has before it.
LEMMA NodeIs ==
    ASSUME ChatTypes, NEW t \in Threads
    PROVE  /\ Fits(node[t]) /\ node[t].at \in Nat /\ Len(node[t].heard) \in Nat
           /\ node[t].at <= Len(node[t].heard) /\ node[t].heard \in Seq(Reply)
           /\ node[t].pc \in Places /\ node[t].jobs \in SUBSET Jobs /\ meta[t] \in Progress
           /\ node[t].run \in Nat /\ node[t].found \in BOOLEAN
           /\ Answered(t) => Heard(t) \in Reply /\ node[t].at < Len(node[t].heard)
  <1>1. node[t] \in Invocation /\ node[t].at <= Len(node[t].heard) /\ meta[t] \in Progress
    BY DEF ChatTypes, NodeOK, DiskOK
  <1>2. /\ node[t].at \in Nat /\ node[t].heard \in Seq(Reply) /\ node[t].pc \in Places
        /\ node[t].jobs \in SUBSET Jobs /\ node[t].run \in Nat /\ node[t].found \in BOOLEAN
    BY <1>1 DEF Invocation
  <1>3. Answered(t) => Heard(t) \in Reply /\ node[t].at < Len(node[t].heard)
    BY <1>2 DEF Answered, Heard
  <1> QED  BY <1>1, <1>2, <1>3 DEF Fits

\* A reply as the node reads it.
LEMMA ReplyIs ==
    ASSUME NEW r \in Reply, NEW jobs \in SUBSET Jobs, NEW plan \in SUBSET Jobs
    PROVE  /\ r.asked \in Steps /\ r.jobs \in SUBSET Jobs /\ Table(r) \in SUBSET Jobs
           /\ Proposal(plan, r, jobs) \in SUBSET Jobs /\ After(plan, r, jobs) \in SUBSET Jobs
  <1>1. r.asked \in Steps /\ r.jobs \in SUBSET Jobs
    BY DEF Reply
  <1>2. Table(r) \in SUBSET Jobs
    BY <1>1 DEF Table
  <1>3. Proposal(plan, r, jobs) \in SUBSET Jobs
    BY <1>1, <1>2 DEF Proposal
  <1> QED  BY <1>1, <1>2, <1>3 DEF After

\* Fields changed one by one are changed in the record.
LEMMA Nested ==
    ASSUME NEW t \in Threads, NEW pc, NEW run, NEW jobs, NEW found, NodeOK
    PROVE  /\ [node EXCEPT ![t].pc = pc, ![t].run = run] =
                 [node EXCEPT ![t] = [node[t] EXCEPT !.pc = pc, !.run = run]]
           /\ [node EXCEPT ![t].pc = pc, ![t].jobs = jobs, ![t].found = found] =
                 [node EXCEPT ![t] = [node[t] EXCEPT !.pc = pc, !.jobs = jobs, !.found = found]]
  <1>1. [node EXCEPT ![t].pc = pc, ![t].run = run] =
                 [node EXCEPT ![t] = [node[t] EXCEPT !.pc = pc, !.run = run]]
    BY DEF NodeOK
  <1>2. [node EXCEPT ![t].pc = pc, ![t].jobs = jobs, ![t].found = found] =
                 [node EXCEPT ![t] = [node[t] EXCEPT !.pc = pc, !.jobs = jobs, !.found = found]]
    BY DEF NodeOK
  <1> QED  BY <1>1, <1>2, Zenon

\* Each step of the node changes the invocation of its thread as follows.
LEMMA NodeMoves ==
    ASSUME ChatTypes, RunsDiffer, NEW t \in Threads
    PROVE  LET n == node[t]
               r == Heard(t)
               plan == IF planFile # {} THEN planFile ELSE n.jobs
           IN /\ Client(t) => Moves(t, IF Names(r) THEN "bind" ELSE "client", n.at + 1, n.jobs, n.found)
              /\ Bind(t) => \E pc \in {"store", "start"} : Moves(t, pc, n.at, n.jobs, n.found)
              /\ Start(t) => Moves(t, "store", n.at, n.jobs, n.found)
              /\ Store(t) => Moves(t, "access", n.at, n.jobs, n.found)
              /\ Access(t) => \/ YesNo(r) /\ Moves(t, "discover", n.at + 1, n.jobs, n.found)
                             \/ /\ ~YesNo(r) \/ failures' = failures + 1
                                /\ Moves(t, "access", n.at + 1, n.jobs, n.found)
              /\ Discover(t) => IF n.found THEN Moves(t, "plan", n.at, n.jobs, n.found)
                                ELSE \E found \in SUBSET Jobs : Moves(t, "save", n.at, found, TRUE)
              /\ Save(t) => Moves(t, "plan", n.at, n.jobs, n.found)
              /\ LoadPlan(t) => Moves(t, IF plan = {} THEN "finish" ELSE "scope", n.at, plan, n.found)
              /\ Scope(t) =>
                   \/ /\ ~Confirms(r) /\ Proposal(planFile, r, n.jobs) # {}
                      /\ Moves(t, "scope", n.at + 1, Proposal(planFile, r, n.jobs), n.found)
                      /\ meta' = [meta EXCEPT ![t].jobs = Proposal(planFile, r, n.jobs)]
                   \/ /\ (~Confirms(r) /\ Proposal(planFile, r, n.jobs) = {}) \/ failures' = failures + 1
                      /\ Moves(t, "scope", n.at + 1, n.jobs, n.found) /\ UNCHANGED meta
                   \/ /\ Confirms(r) /\ UNCHANGED meta
                      /\ Moves(t, "finish", n.at + 1, n.jobs, n.found)
                      /\ node'[t].selected = n.jobs /\ node'[t].by = r.asked
              /\ Finish(t) => Moves(t, "handoff", n.at, n.jobs, n.found)
  <1> DEFINE n == node[t]
             r == Heard(t)
             plan == IF planFile # {} THEN planFile ELSE n.jobs
  <1>n. /\ Fits(n) /\ n.jobs \in SUBSET Jobs /\ n.run \in Nat /\ n.found \in BOOLEAN
        /\ (Answered(t) => r \in Reply /\ n.at < Len(n.heard)) /\ n.pc \in Places
    BY NodeIs, Zenon
  <1>p. {"idle", "client", "bind", "start", "store", "access", "discover", "save", "plan",
         "scope", "finish", "handoff"} \subseteq Places
    BY Zenon DEF Places
  <1>t. NodeOK /\ planFile \in SUBSET Jobs /\ "scope" \in Steps /\ TRUE \in BOOLEAN
        /\ {} \in SUBSET Jobs /\ 0 \in Nat
    BY DEF ChatTypes, DiskOK, Steps
  <1>r. Answered(t) => /\ r.asked \in Steps /\ Proposal(planFile, r, n.jobs) \in SUBSET Jobs
    BY <1>n, <1>t, ReplyIs, Zenon
  <1>1. ASSUME Client(t)
        PROVE  Moves(t, IF Names(r) THEN "bind" ELSE "client", n.at + 1, n.jobs, n.found)
    <2> DEFINE pc == IF Names(r) THEN "bind" ELSE "client"
    <2>1. node' = [node EXCEPT ![t] = [n EXCEPT !.pc = pc, !.at = @ + 1]] /\ Answered(t)
      BY <1>1, Zenon DEF Client, Takes
    <2>2. pc \in Places
      BY <1>p
    <2> HIDE DEF pc
    <2>3. Becomes(n, [n EXCEPT !.pc = pc, !.at = @ + 1], pc, n.at + 1, n.jobs, n.found)
      BY <1>n, <1>t, <2>1, <2>2, Changed, Zenon
    <2>4. Moves(t, pc, n.at + 1, n.jobs, n.found)
      BY <1>t, <2>1, <2>3, MovesTo, Zenon
    <2> QED  BY <2>4, Zenon DEF pc
  <1>2. ASSUME Bind(t)
        PROVE  \E pc \in {"store", "start"} : Moves(t, pc, n.at, n.jobs, n.found)
    <2>1. PICK run \in Nat, pc \in {"store", "start"} :
             \/ node' = [node EXCEPT ![t] = [n EXCEPT !.pc = pc]]
             \/ node' = [node EXCEPT ![t] = [n EXCEPT !.pc = pc, !.run = run]]
      <3>1. CASE node' = [node EXCEPT ![t].pc = "store"]
        BY <3>1, <1>t, Zenon
      <3>2. CASE RunsOf(t) # {} /\ node' = [node EXCEPT ![t].pc = "store",
                      ![t].run = CHOOSE q \in RunsOf(t) : \A s \in RunsOf(t) : q <= s]
        <4> DEFINE q == CHOOSE q \in RunsOf(t) : \A s \in RunsOf(t) : q <= s
        <4>1. q \in Nat
          BY <3>2, OneRun, Zenon
        <4>2. node' = [node EXCEPT ![t].pc = "store", ![t].run = q]
          BY <3>2, Zenon
        <4> HIDE DEF q
        <4>3. node' = [node EXCEPT ![t] = [n EXCEPT !.pc = "store", !.run = q]]
          BY <4>2, <1>t, Nested, Zenon
        <4> QED  BY <4>1, <4>3, Zenon
      <3>3. CASE node' = [node EXCEPT ![t].pc = "start", ![t].run = Len(runs) + 1]
        <4>1. Len(runs) + 1 \in Nat
          BY DEF ChatTypes, RunsOK
        <4> QED  BY <3>3, <4>1, Zenon
      <3> QED  BY <1>2, <3>1, <3>2, <3>3, Zenon DEF Bind, Goes
    <2>2. pc \in Places
      BY <2>1, <1>p
    <2>3. /\ Becomes(n, [n EXCEPT !.pc = pc], pc, n.at, n.jobs, n.found)
          /\ Becomes(n, [n EXCEPT !.pc = pc, !.run = run], pc, n.at, n.jobs, n.found)
      BY <1>n, <1>t, <2>2, Changed, Zenon
    <2>4. Moves(t, pc, n.at, n.jobs, n.found)
      BY <1>t, <2>1, <2>3, MovesTo, Zenon
    <2> QED  BY <2>4
  <1>3. ASSUME Start(t)
        PROVE  Moves(t, "store", n.at, n.jobs, n.found)
    <2>1. node' = [node EXCEPT ![t] = [n EXCEPT !.pc = "store"]]
      BY <1>3, Zenon DEF Start, Goes
    <2>2. Becomes(n, [n EXCEPT !.pc = "store"], "store", n.at, n.jobs, n.found)
      BY <1>n, <1>p, <1>t, Changed, Zenon
    <2> QED  BY <1>t, <2>1, <2>2, MovesTo, Zenon
  <1>4. ASSUME Store(t)
        PROVE  Moves(t, "access", n.at, n.jobs, n.found)
    <2>1. node' = [node EXCEPT ![t] = [n EXCEPT !.pc = "access"]]
      BY <1>4, Zenon DEF Store, Goes
    <2>2. Becomes(n, [n EXCEPT !.pc = "access"], "access", n.at, n.jobs, n.found)
      BY <1>n, <1>p, <1>t, Changed, Zenon
    <2> QED  BY <1>t, <2>1, <2>2, MovesTo, Zenon
  <1>7. ASSUME Save(t)
        PROVE  Moves(t, "plan", n.at, n.jobs, n.found)
    <2>1. node' = [node EXCEPT ![t] = [n EXCEPT !.pc = "plan"]]
      BY <1>7, Zenon DEF Save, Goes
    <2>2. Becomes(n, [n EXCEPT !.pc = "plan"], "plan", n.at, n.jobs, n.found)
      BY <1>n, <1>p, <1>t, Changed, Zenon
    <2> QED  BY <1>t, <2>1, <2>2, MovesTo, Zenon
  <1>10. ASSUME Finish(t)
        PROVE  Moves(t, "handoff", n.at, n.jobs, n.found)
    <2>1. node' = [node EXCEPT ![t] = [n EXCEPT !.pc = "handoff"]]
      BY <1>10, Zenon DEF Finish, Goes
    <2>2. Becomes(n, [n EXCEPT !.pc = "handoff"], "handoff", n.at, n.jobs, n.found)
      BY <1>n, <1>p, <1>t, Changed, Zenon
    <2> QED  BY <1>t, <2>1, <2>2, MovesTo, Zenon
  <1>5. ASSUME Access(t)
        PROVE  \/ YesNo(r) /\ Moves(t, "discover", n.at + 1, n.jobs, n.found)
               \/ /\ ~YesNo(r) \/ failures' = failures + 1
                  /\ Moves(t, "access", n.at + 1, n.jobs, n.found)
    <2> DEFINE yes == r.word = "ok"
    <2>1. yes \in BOOLEAN
      BY Zenon
    <2>2. /\ Answered(t)
          /\ \/ YesNo(r) /\ node' = [node EXCEPT ![t] =
                                         [n EXCEPT !.pc = "discover", !.at = @ + 1, !.access = yes]]
             \/ /\ ~YesNo(r) \/ failures' = failures + 1
                /\ node' = [node EXCEPT ![t] = [n EXCEPT !.pc = "access", !.at = @ + 1]]
      BY <1>5, Zenon DEF Access, Takes, NotUnderstood
    <2> HIDE DEF yes
    <2>3. /\ Becomes(n, [n EXCEPT !.pc = "discover", !.at = @ + 1, !.access = yes],
                     "discover", n.at + 1, n.jobs, n.found)
          /\ Becomes(n, [n EXCEPT !.pc = "access", !.at = @ + 1], "access", n.at + 1, n.jobs, n.found)
      BY <1>n, <1>p, <1>t, <2>1, <2>2, Changed, Zenon
    <2> QED  BY <1>t, <2>2, <2>3, MovesTo, Zenon
  <1>6. ASSUME Discover(t)
        PROVE  IF n.found THEN Moves(t, "plan", n.at, n.jobs, n.found)
               ELSE \E found \in SUBSET Jobs : Moves(t, "save", n.at, found, TRUE)
    <2>1. CASE n.found
      <3>1. node' = [node EXCEPT ![t] = [n EXCEPT !.pc = "plan"]]
        BY <1>6, <2>1, Zenon DEF Discover, Goes
      <3>2. Becomes(n, [n EXCEPT !.pc = "plan"], "plan", n.at, n.jobs, n.found)
        BY <1>n, <1>p, <1>t, Changed, Zenon
      <3>3. Moves(t, "plan", n.at, n.jobs, n.found)
        BY <1>t, <3>1, <3>2, MovesTo, Zenon
      <3> QED  BY <2>1, <3>3, Zenon
    <2>2. CASE ~n.found
      <3>1. PICK found \in SUBSET Jobs :
               node' = [node EXCEPT ![t] = [n EXCEPT !.pc = "save", !.jobs = found, !.found = TRUE]]
        <4>1. PICK found \in IF n.access THEN SUBSET Jobs ELSE {{}} :
                 node' = [node EXCEPT ![t].pc = "save", ![t].jobs = found, ![t].found = TRUE]
          BY <1>6, <2>2, Zenon DEF Discover
        <4>2. found \in SUBSET Jobs
          BY <4>1
        <4>3. node' = [node EXCEPT ![t] = [n EXCEPT !.pc = "save", !.jobs = found, !.found = TRUE]]
          BY <4>1, <1>t, Nested, Zenon
        <4> QED  BY <4>2, <4>3, Zenon
      <3>2. Becomes(n, [n EXCEPT !.pc = "save", !.jobs = found, !.found = TRUE],
                    "save", n.at, found, TRUE)
        BY <1>n, <1>p, <1>t, Changed, Zenon
      <3>3. Moves(t, "save", n.at, found, TRUE)
        BY <1>t, <3>1, <3>2, MovesTo, Zenon
      <3> QED  BY <2>2, <3>3, Zenon
    <2> QED  BY <2>1, <2>2, Zenon
  <1>8. ASSUME LoadPlan(t)
        PROVE  Moves(t, IF plan = {} THEN "finish" ELSE "scope", n.at, plan, n.found)
    <2> DEFINE pc == IF plan = {} THEN "finish" ELSE "scope"
    <2>1. node' = [node EXCEPT ![t] = [n EXCEPT !.jobs = plan, !.pc = pc]]
      BY <1>8, Zenon DEF LoadPlan, load_client_audit_plan
    <2>2. pc \in Places /\ plan \in SUBSET Jobs
      BY <1>p, <1>n, <1>t
    <2> HIDE DEF pc, plan
    <2>3. Becomes(n, [n EXCEPT !.jobs = plan, !.pc = pc], pc, n.at, plan, n.found)
      BY <1>n, <1>t, <2>2, Changed, Zenon
    <2>4. Moves(t, pc, n.at, plan, n.found)
      BY <1>t, <2>1, <2>3, MovesTo, Zenon
    <2> QED  BY <2>4, Zenon DEF pc
  <1>9. ASSUME Scope(t)
        PROVE  \/ /\ ~Confirms(r) /\ Proposal(planFile, r, n.jobs) # {}
                  /\ Moves(t, "scope", n.at + 1, Proposal(planFile, r, n.jobs), n.found)
                  /\ meta' = [meta EXCEPT ![t].jobs = Proposal(planFile, r, n.jobs)]
               \/ /\ (~Confirms(r) /\ Proposal(planFile, r, n.jobs) = {}) \/ failures' = failures + 1
                  /\ Moves(t, "scope", n.at + 1, n.jobs, n.found) /\ UNCHANGED meta
               \/ /\ Confirms(r) /\ UNCHANGED meta
                  /\ Moves(t, "finish", n.at + 1, n.jobs, n.found)
                  /\ node'[t].selected = n.jobs /\ node'[t].by = r.asked
    <2> DEFINE jobs == Proposal(planFile, r, n.jobs)
    <2>1. Answered(t) /\ n.pc = "scope"
      BY <1>9, Zenon DEF Scope
    <2>2. \/ /\ ~Confirms(r) /\ jobs # {} /\ meta' = [meta EXCEPT ![t].jobs = jobs]
             /\ node' = [node EXCEPT ![t] = [n EXCEPT !.jobs = jobs, !.at = @ + 1]]
          \/ /\ (~Confirms(r) /\ jobs = {}) \/ failures' = failures + 1
             /\ node' = [node EXCEPT ![t] = [n EXCEPT !.pc = "scope", !.at = @ + 1]] /\ UNCHANGED meta
          \/ /\ Confirms(r) /\ UNCHANGED meta
             /\ node' = [node EXCEPT ![t] = Agree(n, n.jobs, r.asked)]
      BY <1>9, Zenon DEF Agree, Scope, Replans, Takes, NotUnderstood, Proposal, load_client_audit_plan
    <2>3. jobs \in SUBSET Jobs /\ r.asked \in Steps /\ n.at < Len(n.heard)
      BY <2>1, <1>n, <1>r, Zenon
    <2> HIDE DEF jobs
    <2>4. /\ Becomes(n, [n EXCEPT !.jobs = jobs, !.at = @ + 1], "scope", n.at + 1, jobs, n.found)
          /\ Becomes(n, [n EXCEPT !.pc = "scope", !.at = @ + 1], "scope", n.at + 1, n.jobs, n.found)
      <3>1. Becomes(n, [n EXCEPT !.jobs = jobs, !.at = @ + 1], n.pc, n.at + 1, jobs, n.found)
        BY <1>n, <1>p, <1>t, <2>3, Changed, Zenon
      <3>2. Becomes(n, [n EXCEPT !.pc = "scope", !.at = @ + 1], "scope", n.at + 1, n.jobs, n.found)
        BY <1>n, <1>p, <1>t, <2>3, Changed, Zenon
      <3> QED  BY <2>1, <3>1, <3>2, Zenon
    <2> DEFINE m == Agree(n, n.jobs, r.asked)
    <2>5. /\ Becomes(n, m, "finish", n.at + 1, n.jobs, n.found)
          /\ m.selected = n.jobs /\ m.by = r.asked
      BY <1>n, <2>3, Agreed, Zenon
    <2>6. CASE /\ ~Confirms(r) /\ jobs # {} /\ meta' = [meta EXCEPT ![t].jobs = jobs]
               /\ node' = [node EXCEPT ![t] = [n EXCEPT !.jobs = jobs, !.at = @ + 1]]
      BY <1>t, <2>4, <2>6, MovesTo, Zenon DEF jobs
    <2>7. CASE /\ (~Confirms(r) /\ jobs = {}) \/ failures' = failures + 1
               /\ node' = [node EXCEPT ![t] = [n EXCEPT !.pc = "scope", !.at = @ + 1]]
               /\ UNCHANGED meta
      BY <1>t, <2>4, <2>7, MovesTo, Zenon DEF jobs
    <2>8. CASE Confirms(r) /\ UNCHANGED meta /\ node' = [node EXCEPT ![t] = m]
      <3> HIDE DEF m
      <3>1. Moves(t, "finish", n.at + 1, n.jobs, n.found) /\ node'[t] = m
        BY <1>t, <2>5, <2>8, MovesTo, Zenon
      <3> QED  BY <2>5, <2>8, <3>1, Zenon
    <2> QED  BY <2>2, <2>6, <2>7, <2>8, Zenon
  <1> QED  BY <1>1, <1>2, <1>3, <1>4, <1>5, <1>6, <1>7, <1>8, <1>9, <1>10, Zenon

\* A step of t leaves the other threads alone.
Frame(t) == /\ \A u \in Threads \ {t} : Same(u)
            /\ UNCHANGED <<planFile, crashes>> /\ failures' \in {failures, failures + 1}

\* Invocations apart, the steps that change nothing but the failures.
LEMMA Rest ==
    ASSUME ChatTypes, RunsDiffer, NEW t \in Threads, NodeOK',
           \A u \in Threads \ {t} : node'[u] = node[u],
           UNCHANGED <<runs, tape, cp, planFile, shown, quiet, crashes, edits, routeVars>>,
           failures' \in {failures, failures + 1},
           \/ UNCHANGED meta
           \/ \E m \in Progress : meta' = [meta EXCEPT ![t] = m],
           \/ UNCHANGED probes
           \/ \E k \in Nat : probes' = [probes EXCEPT ![t] = k]
    PROVE  ChatTypes' /\ RunsDiffer' /\ Frame(t)
  <1>1. meta' \in [Threads -> Progress] /\ \A u \in Threads \ {t} : meta'[u] = meta[u]
    BY DEF ChatTypes, DiskOK
  <1>2. probes' \in [Threads -> Nat] /\ \A u \in Threads \ {t} : probes'[u] = probes[u]
    BY DEF ChatTypes, SeenOK
  <1>3. RunsOK' /\ RunsDiffer' /\ RouteOK' /\ CountOK'
    BY DEF ChatTypes, RunsOK, RunsDiffer, RouteOK, CountOK, routeVars
  <1>4. DiskOK' /\ SeenOK'
    BY <1>1, <1>2 DEF ChatTypes, DiskOK, SeenOK
  <1>5. Frame(t)
    BY <1>1, <1>2 DEF Frame, Same
  <1> QED  BY <1>3, <1>4, <1>5 DEF ChatTypes

\* Progress with one field changed.
LEMMA Written ==
    ASSUME ChatTypes, NEW t \in Threads
    PROVE  /\ \A run \in Nat : [meta[t] EXCEPT !.run = run] \in Progress
           /\ \A jobs \in SUBSET Jobs : [meta[t] EXCEPT !.jobs = jobs] \in Progress
           /\ \A jobs \in SUBSET Jobs : [meta[t] EXCEPT !.jobs = jobs, !.found = TRUE] \in Progress
  <1>1. meta[t] \in Progress
    BY DEF ChatTypes, DiskOK
  <1>2. \A run \in Nat : [meta[t] EXCEPT !.run = run] \in Progress
    BY <1>1 DEF Progress
  <1>3. \A jobs \in SUBSET Jobs : [meta[t] EXCEPT !.jobs = jobs] \in Progress
    BY <1>1 DEF Progress
  <1>4. \A jobs \in SUBSET Jobs : [meta[t] EXCEPT !.jobs = jobs, !.found = TRUE] \in Progress
    BY <1>1 DEF Progress
  <1> QED  BY <1>2, <1>3, <1>4, Zenon

\* A step of the node keeps the types, makes no second run of a thread and leaves the
\* other threads alone.
LEMMA NodeFrame ==
    ASSUME ChatTypes, RunsDiffer, NEW t \in Threads, NodeStep(t), UNCHANGED routeVars
    PROVE  ChatTypes' /\ RunsDiffer' /\ Frame(t)
  <1> DEFINE n == node[t]
  <1>n. /\ n.jobs \in SUBSET Jobs /\ n.run \in Nat /\ n.heard \in Seq(Reply)
        /\ Answered(t) => Heard(t) \in Reply
    BY NodeIs, Zenon
  <1>d. planFile \in SUBSET Jobs /\ Len(runs) \in Nat /\ probes[t] \in Nat
    BY DEF ChatTypes, DiskOK, RunsOK, SeenOK
  <1>1. CASE Client(t)
    <2>1. NodeOK' /\ \A u \in Threads \ {t} : node'[u] = node[u]
      BY <1>1, NodeMoves, Zenon DEF Moves
    <2>2. /\ UNCHANGED <<runs, meta, tape, cp, planFile, shown, quiet, probes, crashes, edits, routeVars>>
          /\ failures' \in {failures, failures + 1}
      BY <1>1 DEF Client, history
    <2> QED  BY <2>1, <2>2, Rest
  <1>2. CASE Bind(t)
    <2>1. NodeOK' /\ \A u \in Threads \ {t} : node'[u] = node[u]
      BY <1>2, NodeMoves, Zenon DEF Moves
    <2>2. CASE UNCHANGED runs
      <3>1. UNCHANGED <<runs, meta, tape, cp, planFile, shown, quiet, probes, failures, crashes, edits, routeVars>>
        BY <1>2, <2>2 DEF Bind, history
      <3> QED  BY <2>1, <3>1, Rest
    <2>3. CASE RunsOf(t) = {} /\ runs' = Append(runs, [thread |-> t, status |-> "pending"])
      <3>1. UNCHANGED <<meta, tape, cp, planFile, shown, quiet, probes, failures, crashes, edits>>
        BY <1>2 DEF Bind, history
      <3>2. DiskOK' /\ SeenOK' /\ RouteOK' /\ CountOK' /\ Frame(t)
        BY <2>1, <3>1 DEF ChatTypes, DiskOK, SeenOK, RouteOK, CountOK, routeVars, Frame, Same
      <3> DEFINE row == [thread |-> t, status |-> "pending"]
                 Row == [thread : Threads, status : Statuses]
      <3>3. row \in Row /\ row.thread = t /\ runs \in Seq(Row) /\ runs' = Append(runs, row)
        <4>1. row.thread = t /\ row.status = "pending" /\ DOMAIN row = {"thread", "status"}
          OBVIOUS
        <4>1a. "pending" \in Statuses
          BY DEF Statuses
        <4>1b. row \in Row
          BY <4>1a, Zenon
        <4>2. runs \in Seq(Row) /\ runs' = Append(runs, row)
          BY <2>3, Zenon DEF ChatTypes, RunsOK
        <4> QED  BY <4>1, <4>1b, <4>2, Zenon
      <3> HIDE DEF row, Row
      <3>4. /\ runs' \in Seq(Row) /\ DOMAIN runs = 1 .. Len(runs)
            /\ DOMAIN runs' = 1 .. Len(runs) + 1
            /\ runs'[Len(runs) + 1] = row /\ \A k \in 1 .. Len(runs) : runs'[k] = runs[k]
        BY <3>3, <1>d
      <3>5. \A k \in 1 .. Len(runs) : runs[k].thread # t
        BY <2>3, <3>4 DEF RunsOf
      <3>6. RunsDiffer'
        BY <3>3, <3>4, <3>5, <1>d DEF RunsDiffer
      <3>7. RunsOK'
        BY <3>4 DEF RunsOK, Row
      <3> QED  BY <2>1, <3>2, <3>6, <3>7 DEF ChatTypes
    <2> QED  BY <1>2, <2>2, <2>3 DEF Bind
  <1>3. CASE Start(t)
    <2>1. NodeOK' /\ \A u \in Threads \ {t} : node'[u] = node[u]
      BY <1>3, NodeMoves, Zenon DEF Moves
    <2>2. UNCHANGED <<meta, tape, cp, planFile, shown, quiet, probes, failures, crashes, edits>>
      BY <1>3 DEF Start, history
    <2>3. DiskOK' /\ SeenOK' /\ RouteOK' /\ CountOK' /\ Frame(t)
      BY <2>1, <2>2 DEF ChatTypes, DiskOK, SeenOK, RouteOK, CountOK, routeVars, Frame, Same
    <2>4. RunsOK' /\ RunsDiffer'
      <3>1. "running" \in Statuses
        BY DEF Statuses
      <3>2. runs' = [runs EXCEPT ![n.run].status = "running"]
        BY <1>3, Zenon DEF Start
      <3> HIDE DEF n
      <3> QED  BY <3>1, <3>2, StatusChanged, Zenon
    <2> QED  BY <2>1, <2>3, <2>4 DEF ChatTypes
  <1>4. CASE Store(t)
    <2>1. NodeOK' /\ \A u \in Threads \ {t} : node'[u] = node[u]
      BY <1>4, NodeMoves, Zenon DEF Moves
    <2>2. UNCHANGED <<runs, tape, cp, planFile, shown, quiet, probes, failures, crashes, edits, routeVars>>
      BY <1>4 DEF Store, history
    <2>3. \E m \in Progress : meta' = [meta EXCEPT ![t] = m]
      <3>1. meta' = [meta EXCEPT ![t] = [meta[t] EXCEPT !.run = n.run]]
        BY <1>4, Zenon DEF Store
      <3> QED  BY <3>1, <1>n, Written, Zenon
    <2>4. failures' \in {failures, failures + 1}
      BY <2>2
    <2> QED  BY <2>1, <2>2, <2>3, <2>4, Rest
  <1>5. CASE Access(t)
    <2>1. NodeOK' /\ \A u \in Threads \ {t} : node'[u] = node[u]
      BY <1>5, NodeMoves, Zenon DEF Moves
    <2>2. /\ UNCHANGED <<runs, meta, tape, cp, planFile, shown, quiet, probes, crashes, edits, routeVars>>
          /\ failures' \in {failures, failures + 1}
      BY <1>5 DEF Access, history, Understood, NotUnderstood
    <2> QED  BY <2>1, <2>2, Rest
  <1>6. CASE Discover(t)
    <2>1. NodeOK' /\ \A u \in Threads \ {t} : node'[u] = node[u]
      BY <1>6, NodeMoves, Zenon DEF Moves
    <2>2. UNCHANGED <<runs, meta, tape, cp, planFile, shown, quiet, failures, crashes, edits, routeVars>>
      BY <1>6 DEF Discover
    <2>3. UNCHANGED probes \/ \E k \in Nat : probes' = [probes EXCEPT ![t] = k]
      <3> DEFINE k == probes[t] + IF n.access THEN 1 ELSE 0
      <3>1. UNCHANGED probes \/ probes' = [probes EXCEPT ![t] = k]
        BY <1>6, Zenon DEF Discover
      <3>2. k \in Nat
        BY <1>d
      <3> HIDE DEF k
      <3> QED  BY <3>1, <3>2
    <2>4. failures' \in {failures, failures + 1}
      BY <2>2
    <2> QED  BY <2>1, <2>2, <2>3, <2>4, Rest
  <1>7. CASE Save(t)
    <2>1. NodeOK' /\ \A u \in Threads \ {t} : node'[u] = node[u]
      BY <1>7, NodeMoves, Zenon DEF Moves
    <2>2. UNCHANGED <<runs, tape, cp, planFile, shown, quiet, probes, failures, crashes, edits, routeVars>>
      BY <1>7 DEF Save, history
    <2>3. \E m \in Progress : meta' = [meta EXCEPT ![t] = m]
      <3>1. meta' = [meta EXCEPT ![t] = [meta[t] EXCEPT !.jobs = n.jobs, !.found = TRUE]]
        BY <1>7, Zenon DEF Save
      <3> QED  BY <3>1, <1>n, Written, Zenon
    <2>4. failures' \in {failures, failures + 1}
      BY <2>2
    <2> QED  BY <2>1, <2>2, <2>3, <2>4, Rest
  <1>8. CASE LoadPlan(t)
    <2>1. NodeOK' /\ \A u \in Threads \ {t} : node'[u] = node[u]
      BY <1>8, NodeMoves, Zenon DEF Moves
    <2>2. UNCHANGED <<runs, tape, cp, planFile, shown, quiet, probes, failures, crashes, edits, routeVars>>
      BY <1>8 DEF LoadPlan, history
    <2>3. \E m \in Progress : meta' = [meta EXCEPT ![t] = m]
      <3> DEFINE jobs == IF planFile # {} THEN planFile ELSE n.jobs
      <3>1. meta' = [meta EXCEPT ![t] = [meta[t] EXCEPT !.jobs = jobs]]
        BY <1>8, Zenon DEF LoadPlan, load_client_audit_plan
      <3>2. jobs \in SUBSET Jobs
        BY <1>n, <1>d
      <3> HIDE DEF jobs
      <3> QED  BY <3>1, <3>2, Written, Zenon
    <2>4. failures' \in {failures, failures + 1}
      BY <2>2
    <2> QED  BY <2>1, <2>2, <2>3, <2>4, Rest
  <1>9. CASE Scope(t)
    <2>1. NodeOK' /\ \A u \in Threads \ {t} : node'[u] = node[u]
      BY <1>9, NodeMoves, Zenon DEF Moves
    <2>2. /\ UNCHANGED <<runs, tape, cp, planFile, shown, quiet, probes, crashes, edits, routeVars>>
          /\ failures' \in {failures, failures + 1}
      BY <1>9 DEF Scope, history, Understood, NotUnderstood
    <2>3. UNCHANGED meta \/ \E m \in Progress : meta' = [meta EXCEPT ![t] = m]
      <3> DEFINE jobs == Proposal(planFile, Heard(t), n.jobs)
      <3>1. UNCHANGED meta \/ meta' = [meta EXCEPT ![t] = [meta[t] EXCEPT !.jobs = jobs]]
        BY <1>9, NodeMoves, Zenon
      <3>2. jobs \in SUBSET Jobs
        BY <1>9, <1>n, <1>d, ReplyIs, Zenon DEF Scope
      <3> HIDE DEF jobs
      <3> QED  BY <3>1, <3>2, Written, Zenon
    <2> QED  BY <2>1, <2>2, <2>3, Rest
  <1>10. CASE Finish(t)
    <2>1. NodeOK' /\ \A u \in Threads \ {t} : node'[u] = node[u]
      BY <1>10, NodeMoves, Zenon DEF Moves
    <2>2. UNCHANGED <<runs, meta, planFile, shown, quiet, probes, failures, crashes, edits>>
      BY <1>10 DEF Finish, history
    <2> DEFINE end == [state |-> "ended", step |-> "scope", selected |-> n.selected, by |-> n.by]
    <2>3. end \in Checkpoint
      <3>1. n.selected \in SUBSET Jobs /\ n.by \in Steps
        BY DEF ChatTypes, NodeOK, Invocation
      <3> QED  BY <3>1 DEF Checkpoint, Steps
    <2>4. cp' = [cp EXCEPT ![t] = end] /\ tape' = [tape EXCEPT ![t] = n.heard]
      BY <1>10, Zenon DEF Finish
    <2> HIDE DEF end
    <2>5. /\ cp' \in [Threads -> Checkpoint] /\ tape' \in [Threads -> Seq(Reply)]
          /\ \A u \in Threads \ {t} : cp'[u] = cp[u] /\ tape'[u] = tape[u]
      BY <2>3, <2>4, <1>n DEF ChatTypes, DiskOK
    <2>6. RunsOK' /\ RunsDiffer' /\ SeenOK' /\ RouteOK' /\ CountOK'
      BY <2>2 DEF ChatTypes, RunsOK, RunsDiffer, SeenOK, RouteOK, CountOK, routeVars
    <2>7. DiskOK' /\ Frame(t)
      BY <2>1, <2>2, <2>5 DEF ChatTypes, DiskOK, Frame, Same
    <2> QED  BY <2>1, <2>6, <2>7 DEF ChatTypes
  <1> QED  BY <1>1, <1>2, <1>3, <1>4, <1>5, <1>6, <1>7, <1>8, <1>9, <1>10 DEF NodeStep

\* The steps around the node: one thread, its replies and its checkpoint.
LEMMA Around ==
    ASSUME ChatTypes, NEW t \in Threads, RunsOK', RunsDiffer', RouteOK',
           NEW m, Fits(m), node' = [node EXCEPT ![t] = m],
           UNCHANGED <<meta, planFile, probes, crashes, edits>>,
           failures' \in {failures, failures + 1},
           UNCHANGED tape \/ \E x \in Seq(Reply) : tape' = [tape EXCEPT ![t] = x],
           UNCHANGED cp \/ \E x \in Checkpoint : cp' = [cp EXCEPT ![t] = x],
           UNCHANGED shown \/ \E x \in (SUBSET Jobs) \cup {None} : shown' = [shown EXCEPT ![t] = x],
           UNCHANGED quiet \/ \E x \in BOOLEAN : quiet' = [quiet EXCEPT ![t] = x]
    PROVE  ChatTypes' /\ Frame(t) /\ node'[t] = m
  <1>1. tape' \in [Threads -> Seq(Reply)] /\ \A u \in Threads \ {t} : tape'[u] = tape[u]
    BY DEF ChatTypes, DiskOK
  <1>2. cp' \in [Threads -> Checkpoint] /\ \A u \in Threads \ {t} : cp'[u] = cp[u]
    BY DEF ChatTypes, DiskOK
  <1>3. shown' \in [Threads -> (SUBSET Jobs) \cup {None}] /\ \A u \in Threads \ {t} : shown'[u] = shown[u]
    BY DEF ChatTypes, SeenOK
  <1>4. quiet' \in [Threads -> BOOLEAN] /\ \A u \in Threads \ {t} : quiet'[u] = quiet[u]
    BY DEF ChatTypes, SeenOK
  <1>5. NodeOK' /\ node'[t] = m /\ \A u \in Threads \ {t} : node'[u] = node[u]
    BY MovesOne DEF ChatTypes
  <1>6. DiskOK' /\ SeenOK' /\ CountOK'
    BY <1>1, <1>2, <1>3, <1>4 DEF ChatTypes, DiskOK, SeenOK, CountOK
  <1>7. Frame(t)
    BY <1>1, <1>2, <1>3, <1>4, <1>5 DEF Frame, Same
  <1> QED  BY <1>5, <1>6, <1>7 DEF ChatTypes

\* The checkpoint of a pause.
LEMMA PauseIs ==
    ASSUME NEW step \in Steps
    PROVE  /\ [NoCp EXCEPT !.state = "paused", !.step = step] \in Checkpoint
           /\ [NoCp EXCEPT !.state = "paused", !.step = step].state = "paused"
           /\ [NoCp EXCEPT !.state = "paused", !.step = step].step = step
  BY DEF NoCp, Checkpoint, Steps

\* The invocations the model starts from are such.
LEMMA IdleFits ==
    ASSUME ChatTypes, NEW t \in Threads
    PROVE  /\ Fits(Idle) /\ Fits([Idle EXCEPT !.pc = "handoff", !.run = meta[t].run])
           /\ \A heard \in Seq(Reply) : Fits(Enter(t, heard))
  <1>0. <<>> \in Seq(Reply)
    OBVIOUS
  <1>1. Idle \in Invocation
    BY <1>0, Starts, Zenon
  <1>2. Idle.at = 0 /\ Idle.heard = <<>>
    BY DEF Idle
  <1>3. Fits(Idle)
    BY <1>1, <1>2 DEF Fits
  <1>4. meta[t].run \in Nat /\ "handoff" \in Places /\ {} \in SUBSET Jobs /\ TRUE \in BOOLEAN
    BY DEF ChatTypes, DiskOK, Progress, Places
  <1>5. Becomes(Idle, [Idle EXCEPT !.pc = "handoff", !.run = meta[t].run], "handoff", Idle.at,
                Idle.jobs, Idle.found)
    BY <1>3, <1>4, Changed, Zenon
  <1>6. ASSUME NEW heard \in Seq(Reply) PROVE Fits(Enter(t, heard))
    <2>1. /\ Enter(t, heard) \in Invocation /\ Enter(t, heard).at = 0
          /\ Enter(t, heard).heard = heard
      BY Starts, Zenon
    <2>2. 0 <= Len(heard)
      OBVIOUS
    <2> QED  BY <2>1, <2>2 DEF Fits
  <1> QED  BY <1>3, <1>5, <1>6, Zenon DEF Becomes

\* What a chat says is a reply.
LEMMA SensibleReply == \A step \in Steps : Sensible(step) \subseteq {r \in Reply : r.asked = step}
  <1> SUFFICES ASSUME NEW step \in Steps, NEW r \in Sensible(step)
               PROVE  r \in Reply /\ r.asked = step
    OBVIOUS
  <1> DEFINE words == CASE step = "client" -> {"name", "vague"} [] step = "access" -> {"ok", "no", "vague"}
                        [] step = "scope" -> {"ok", "vague", "placed"}
  <1>1. words \subseteq Words
    BY DEF Steps, Words
  <1>2. \/ r \in [word : words, jobs : {{}}, asked : {step}]
        \/ r \in [word : {"trim", "paste"}, jobs : (SUBSET Jobs) \ {Jobs}, asked : {step}]
    BY DEF Sensible
  <1> HIDE DEF words
  <1>3. CASE r \in [word : words, jobs : {{}}, asked : {step}]
    <2>1. r.word \in Words /\ r.jobs \in SUBSET Jobs /\ r.asked = step
          /\ r = [word |-> r.word, jobs |-> r.jobs, asked |-> r.asked]
      BY <1>1, <1>3
    <2> QED  BY <2>1 DEF Reply
  <1>4. CASE r \in [word : {"trim", "paste"}, jobs : (SUBSET Jobs) \ {Jobs}, asked : {step}]
    <2>1. r.word \in Words /\ r.jobs \in SUBSET Jobs /\ r.asked = step
          /\ r = [word |-> r.word, jobs |-> r.jobs, asked |-> r.asked]
      BY <1>4 DEF Words
    <2> QED  BY <2>1 DEF Reply
  <1> QED  BY <1>2, <1>3, <1>4

\* So do the steps around the node.
LEMMA TurnFrame ==
    ASSUME ChatTypes, RunsDiffer, NEW t \in Threads, Pause(t) \/ Retry(t) \/ GoesOn(t) \/ Stops(t)
    PROVE  ChatTypes' /\ RunsDiffer' /\ Frame(t)
  <1> DEFINE n == node[t]
  <1>n. /\ n.jobs \in SUBSET Jobs /\ n.heard \in Seq(Reply) /\ meta[t].run \in Nat
        /\ Fits(Idle) /\ \A heard \in Seq(Reply) : Fits(Enter(t, heard))
    <2>1. meta[t].run \in Nat
      BY DEF ChatTypes, DiskOK, Progress
    <2> QED  BY <2>1, NodeIs, IdleFits, Zenon
  <1>r. asking' = [asking EXCEPT ![t] = None] => asking' \in [Threads -> Chats \cup {None}]
    BY DEF ChatTypes, RouteOK
  <1>p. NoPointer \in [thread : Threads \cup {None}, run : Nat]
    BY DEF NoPointer
  <1>1. CASE Pause(t)
    <2>1. PICK step \in Steps :
             /\ Asks(t, step) /\ pointer' = [thread |-> t, run |-> meta[t].run]
             /\ marker' = [marker EXCEPT ![asking[t]] = t] /\ asking' = [asking EXCEPT ![t] = None]
      BY <1>1, Zenon DEF Pause, Replied
    <2>2. RouteOK'
      BY <2>1, <1>r, <1>n DEF ChatTypes, RouteOK
    <2>3. /\ node' = [node EXCEPT ![t] = Idle] /\ tape' = [tape EXCEPT ![t] = n.heard]
          /\ cp' = [cp EXCEPT ![t] = [NoCp EXCEPT !.state = "paused", !.step = step]]
          /\ shown' = [shown EXCEPT ![t] = IF step = "scope" THEN n.jobs ELSE shown[t]]
          /\ quiet' = [quiet EXCEPT ![t] = step = "scope" /\ n.fresh]
          /\ UNCHANGED <<runs, meta, planFile, probes, failures, crashes, edits>>
      BY <2>1, Zenon DEF Asks
    <2>4. RunsOK' /\ RunsDiffer'
      BY <2>3 DEF RunsOK, RunsDiffer, ChatTypes
    <2>5. /\ (IF step = "scope" THEN n.jobs ELSE shown[t]) \in (SUBSET Jobs) \cup {None}
          /\ (step = "scope" /\ n.fresh) \in BOOLEAN
      BY <1>n DEF ChatTypes, SeenOK
    <2>6. /\ \E x \in (SUBSET Jobs) \cup {None} : shown' = [shown EXCEPT ![t] = x]
          /\ \E x \in BOOLEAN : quiet' = [quiet EXCEPT ![t] = x]
      BY <2>3, <2>5, Zenon
    <2>7. \E x \in Checkpoint : cp' = [cp EXCEPT ![t] = x]
      BY <2>3, PauseIs, Zenon
    <2>8. failures' \in {failures, failures + 1}
      BY <2>3
    <2> QED  BY <1>n, <2>2, <2>3, <2>4, <2>6, <2>7, <2>8, Around, Zenon
  <1>2. CASE Retry(t)
    <2>1. PICK step \in Steps :
             /\ n.heard # <<>> /\ failures' = failures + 1
             /\ tape' = [tape EXCEPT ![t] = n.heard]
             /\ cp' = [cp EXCEPT ![t] = [NoCp EXCEPT !.state = "paused", !.step = step]]
             /\ node' = [node EXCEPT ![t] = Enter(t, Append(n.heard, n.heard[Len(n.heard)]))]
             /\ UNCHANGED <<runs, meta, planFile, history, crashes, edits, routeVars>>
      BY <1>2, Zenon DEF Retry, NotUnderstood
    <2>2. RunsOK' /\ RunsDiffer' /\ RouteOK'
      BY <2>1 DEF RunsOK, RunsDiffer, RouteOK, ChatTypes, routeVars
    <2>3. Append(n.heard, n.heard[Len(n.heard)]) \in Seq(Reply)
      <3>1. n.heard \in Seq(Reply) /\ n.heard # <<>>
        BY <1>n, <2>1
      <3> HIDE DEF n
      <3>2. n.heard[Len(n.heard)] \in Reply
        BY <3>1
      <3> QED  BY <3>1, <3>2
    <2>4. \E x \in Checkpoint : cp' = [cp EXCEPT ![t] = x]
      BY <2>1, PauseIs, Zenon
    <2>5. UNCHANGED <<meta, planFile, probes, crashes, edits, shown, quiet>>
          /\ failures' \in {failures, failures + 1}
      BY <2>1 DEF history
    <2> QED  BY <1>n, <2>1, <2>2, <2>3, <2>4, <2>5, Around, Zenon
  <1>3. CASE GoesOn(t)
    <2>1. /\ node' = [node EXCEPT ![t] = Idle]
          /\ UNCHANGED <<meta, tape, cp, planFile, history, failures, crashes, edits>>
          /\ pointer' = NoPointer /\ asking' = [asking EXCEPT ![t] = None] /\ UNCHANGED marker
          /\ UNCHANGED runs \/ runs' = [runs EXCEPT ![n.run].status = "failed"]
      BY <1>3, Zenon DEF GoesOn, HandOff, Rejected, Replied
    <2>2. RouteOK'
      BY <2>1, <1>r, <1>p DEF ChatTypes, RouteOK
    <2>3. RunsOK' /\ RunsDiffer'
      <3>1. CASE UNCHANGED runs
        BY <3>1 DEF RunsOK, RunsDiffer, ChatTypes
      <3>2. "failed" \in Statuses
        BY DEF Statuses
      <3> HIDE DEF n
      <3> QED  BY <2>1, <3>1, <3>2, StatusChanged, Zenon
    <2>4. UNCHANGED <<meta, planFile, probes, crashes, edits, shown, quiet, tape, cp>>
          /\ failures' \in {failures, failures + 1}
      BY <2>1 DEF history
    <2> QED  BY <1>n, <2>1, <2>2, <2>3, <2>4, Around, Zenon
  <1>4. CASE Stops(t)
    <2>1. /\ node' = [node EXCEPT ![t] = Idle]
          /\ UNCHANGED <<meta, tape, cp, planFile, history, failures, crashes, edits>>
          /\ asking' = [asking EXCEPT ![t] = None] /\ UNCHANGED <<marker, pointer>>
          /\ UNCHANGED runs \/ runs' = [runs EXCEPT ![n.run].status = "completed"]
      BY <1>4, Zenon DEF Stops, NoPlan, Replied
    <2>2. RouteOK'
      BY <2>1, <1>r DEF ChatTypes, RouteOK
    <2>3. RunsOK' /\ RunsDiffer'
      <3>1. CASE UNCHANGED runs
        BY <3>1 DEF RunsOK, RunsDiffer, ChatTypes
      <3>2. "completed" \in Statuses
        BY DEF Statuses
      <3> HIDE DEF n
      <3> QED  BY <2>1, <3>1, <3>2, StatusChanged, Zenon
    <2>4. UNCHANGED <<meta, planFile, probes, crashes, edits, shown, quiet, tape, cp>>
          /\ failures' \in {failures, failures + 1}
      BY <2>1 DEF history
    <2> QED  BY <1>n, <2>1, <2>2, <2>3, <2>4, Around, Zenon
  <1> QED  BY <1>1, <1>2, <1>3, <1>4

\* And so do the messages that begin or resume an intake.
LEMMA MessageFrame ==
    ASSUME ChatTypes, RunsDiffer, NEW t \in Threads,
           \/ Begins(t) \/ \E r \in Reply : Resumes(t, r),
           RouteOK'
    PROVE  ChatTypes' /\ RunsDiffer' /\ Frame(t)
  <1>1. \E m : Fits(m) /\ node' = [node EXCEPT ![t] = m]
    <2>1. CASE Begins(t)
      <3>1. node' = [node EXCEPT ![t] = Enter(t, <<>>)] /\ <<>> \in Seq(Reply)
        BY <2>1 DEF Begins
      <3> QED  BY <3>1, IdleFits, Zenon
    <2>2. CASE \E r \in Reply : Resumes(t, r)
      <3>1. PICK r \in Reply :
               \/ node' = [node EXCEPT ![t] = [Idle EXCEPT !.pc = "handoff", !.run = meta[t].run]]
               \/ node' = [node EXCEPT ![t] = Enter(t, Append(tape[t], r))]
        BY <2>2, Zenon DEF Resumes
      <3>2. Append(tape[t], r) \in Seq(Reply)
        BY DEF ChatTypes, DiskOK
      <3> QED  BY <3>1, <3>2, IdleFits, Zenon
    <2> QED  BY <2>1, <2>2
  <1>2. UNCHANGED <<runs, meta, tape, cp, planFile, shown, quiet, probes, failures, crashes, edits>>
    BY DEF Begins, Resumes, history
  <1>3. RunsOK' /\ RunsDiffer' /\ failures' \in {failures, failures + 1}
    BY <1>2 DEF RunsOK, RunsDiffer, ChatTypes
  <1> QED  BY <1>1, <1>2, <1>3, Around, Zenon

-----------------------------------------------------------------------------
(* Replies given out again.                                                *)

\* What one reply can do: start over, or make the plan smaller, or leave it.
LEMMA AfterIs ==
    ASSUME NEW r \in Reply, NEW jobs \in (SUBSET Jobs) \ {{}}, NEW plan \in SUBSET Jobs
    PROVE  /\ After(plan, r, jobs) \in (SUBSET Jobs) \ {{}}
           /\ Resets(plan, r) => \A other : After(plan, r, other) = After(plan, r, jobs)
           /\ ~Resets(plan, r) => After(plan, r, jobs) \subseteq jobs
           /\ ~Resets(plan, r) => \A less \in (SUBSET Jobs) \ {{}} :
                               less \subseteq After(plan, r, jobs) => After(plan, r, less) = less
  <1>1. After(plan, r, jobs) \in (SUBSET Jobs) \ {{}}
    BY ReplyIs DEF After
  <1>2. ASSUME Resets(plan, r), NEW other PROVE After(plan, r, other) = After(plan, r, jobs)
    BY <1>2 DEF Resets, After, Proposal
  <1>3. ASSUME ~Resets(plan, r) PROVE After(plan, r, jobs) \subseteq jobs
    BY <1>3 DEF Resets, After, Proposal
  <1>4. ASSUME ~Resets(plan, r), NEW less \in (SUBSET Jobs) \ {{}}, less \subseteq After(plan, r, jobs)
        PROVE  After(plan, r, less) = less
    <2>1. CASE Trims(r) /\ Table(r) = {} /\ ~Notice(r)
      <3>1. CASE jobs \cap r.jobs # {}
        <4>1. After(plan, r, jobs) = jobs \cap r.jobs
          BY <2>1, <3>1 DEF After, Proposal
        <4>2. less \cap r.jobs = less
          BY <4>1, <1>4
        <4> QED  BY <2>1, <4>2 DEF After, Proposal
      <3>2. CASE jobs \cap r.jobs = {}
        <4>1. less \cap r.jobs = {}
          BY <1>3, <1>4, <3>2
        <4> QED  BY <2>1, <4>1 DEF After, Proposal
      <3> QED  BY <3>1, <3>2
    <2>2. CASE ~(Trims(r) /\ Table(r) = {} /\ ~Notice(r))
      BY <1>4, <2>2 DEF Resets, After, Proposal
    <2> QED  BY <2>1, <2>2
  <1> QED  BY <1>1, <1>2, <1>3, <1>4

\* The trace of a plan that is proposed.
LEMMA TraceStarts ==
    ASSUME NEW heard \in Seq(Reply), NEW b \in Nat, NEW jobs \in (SUBSET Jobs) \ {{}},
           NEW plan, plan # {} => jobs = plan
    PROVE  LedTo(plan, heard, b, b, jobs)
  <1> DEFINE P == [k \in b .. b |-> jobs]
  <1>1. \A k : k \in b .. b <=> k = b
    OBVIOUS
  <1>2. P \in [b .. b -> (SUBSET Jobs) \ {{}}] /\ P \in [b .. b -> SUBSET Jobs] /\ P[b] = jobs
    BY <1>1
  <1>3. \A k \in b .. b : P[k] = jobs
    OBVIOUS
  <1> HIDE DEF P
  <1>4. Trace(plan, P, heard, b, b)
    BY <1>2, <1>3 DEF Trace
  <1> QED  BY <1>2, <1>4 DEF LedTo

\* A reply that is not a confirmation extends the trace.
LEMMA TraceGrows ==
    ASSUME NEW heard \in Seq(Reply), NEW b \in Nat, NEW n \in Nat, b <= n, n + 1 <= Len(heard),
           NEW plan \in SUBSET Jobs, NEW jobs, LedTo(plan, heard, b, n, jobs), ~Confirms(heard[n + 1])
    PROVE  LedTo(plan, heard, b, n + 1, After(plan, heard[n + 1], jobs))
  <1>p. PICK P \in [b .. n -> SUBSET Jobs] : Trace(plan, P, heard, b, n) /\ P[n] = jobs
    BY DEF LedTo
  <1> DEFINE r == heard[n + 1]
             new == After(plan, r, P[n])
             Q == [k \in b .. n + 1 |-> IF k <= n THEN P[k] ELSE new]
             Plans == (SUBSET Jobs) \ {{}}
  <1>1. r \in Reply
    OBVIOUS
  <1>2. /\ P \in [b .. n -> Plans] /\ (plan # {} => P[b] = plan)
        /\ \A k \in b + 1 .. n : ~Confirms(heard[k]) /\ P[k] = After(plan, heard[k], P[k - 1])
        /\ \A j, k \in b .. n : j <= k /\ NoResets(plan, heard, j, k) => P[k] \subseteq P[j]
    BY <1>p, Zenon DEF Trace
  <1>3. n \in b .. n /\ P[n] \in Plans
    BY <1>2
  <1>4. new \in Plans /\ (~Resets(plan, r) => new \subseteq P[n])
    BY <1>1, <1>3, AfterIs, Zenon
  <1> HIDE DEF new, r, Plans
  <1>5. /\ Q \in [b .. n + 1 -> Plans] /\ Q[n + 1] = new
        /\ \A k \in b .. n : Q[k] = P[k]
    BY <1>2, <1>4
  <1>6. Q[b] = P[b]
    BY <1>5
  <1> HIDE DEF Q
  <1>7. \A k \in b + 1 .. n + 1 : ~Confirms(heard[k]) /\ Q[k] = After(plan, heard[k], Q[k - 1])
    <2> TAKE k \in b + 1 .. n + 1
    <2>1. CASE k <= n
      <3>1. k \in b + 1 .. n /\ k \in b .. n /\ k - 1 \in b .. n
        BY <2>1
      <3> QED  BY <3>1, <1>2, <1>5
    <2>2. CASE k = n + 1
      <3>1. k - 1 = n /\ Q[k - 1] = P[n]
        BY <2>2, <1>3, <1>5
      <3> QED  BY <2>2, <3>1, <1>5 DEF new, r
    <2> QED  BY <2>1, <2>2
  <1>8. \A j, k \in b .. n + 1 : j <= k /\ NoResets(plan, heard, j, k) => Q[k] \subseteq Q[j]
    <2> SUFFICES ASSUME NEW j \in b .. n + 1, NEW k \in b .. n + 1, j <= k, NoResets(plan, heard, j, k)
                 PROVE  Q[k] \subseteq Q[j]
      OBVIOUS
    <2>1. CASE k <= n
      BY <2>1, <1>2, <1>5
    <2>2. CASE j = k
      BY <2>2
    <2>3. CASE k = n + 1 /\ j <= n
      <3>1. ~Resets(plan, r)
        BY <2>3 DEF NoResets, r
      <3>2. NoResets(plan, heard, j, n)
        BY <2>3 DEF NoResets
      <3>3. P[n] \subseteq P[j]
        BY <3>2, <2>3, <1>2, <1>3
      <3>4. new \subseteq P[j]
        BY <3>1, <3>3, <1>4
      <3> QED  BY <3>4, <2>3, <1>5
    <2> QED  BY <2>1, <2>2, <2>3
  <1>9. Trace(plan, Q, heard, b, n + 1)
    BY <1>2, <1>5, <1>6, <1>7, <1>8 DEF Trace, Plans
  <1>10. Q \in [b .. n + 1 -> SUBSET Jobs]
    BY <1>5 DEF Plans
  <1> QED  BY <1>p, <1>5, <1>9, <1>10 DEF new, r, LedTo

\* A replay comes nearer to the end of the trace, whatever it starts from.
LEMMA Converges ==
    ASSUME NEW heard \in Seq(Reply), NEW b \in Nat, NEW n \in Nat, n <= Len(heard),
           NEW plan \in SUBSET Jobs, NEW P, Trace(plan, P, heard, b, n),
           NEW k \in Nat, b <= k, k < n, 0 < b, NEW jobs \in (SUBSET Jobs) \ {{}},
           Agrees(plan, P, heard, n, jobs, k)
    PROVE  Agrees(plan, P, heard, n, After(plan, heard[k + 1], jobs), k + 1)
  <1> DEFINE r == heard[k + 1]
             Plans == (SUBSET Jobs) \ {{}}
  <1>1. r \in Reply
    OBVIOUS
  <1>2. /\ P \in [b .. n -> Plans]
        /\ \A i \in b + 1 .. n : P[i] = After(plan, heard[i], P[i - 1])
        /\ \A i, j \in b .. n : i <= j /\ NoResets(plan, heard, i, j) => P[j] \subseteq P[i]
    BY Zenon DEF Trace
  <1>3. /\ k + 1 \in b .. n /\ k + 1 \in b + 1 .. n /\ k \in b .. n /\ n \in b .. n
        /\ (k + 1) - 1 = k
    OBVIOUS
  <1>4. P[k] \in Plans /\ P[n] \in Plans /\ P[k + 1] = After(plan, r, P[k])
    BY <1>2, <1>3
  <1> HIDE DEF r
  <1> SUFFICES ASSUME NoResets(plan, heard, k + 1, n)
               PROVE  After(plan, r, jobs) \in {P[k + 1], P[n]}
    BY DEF Agrees, r
  <1>5. CASE Resets(plan, r)
    <2>1. After(plan, r, jobs) = After(plan, r, P[k])
      BY <1>5 DEF Resets, After, Proposal
    <2> QED  BY <2>1, <1>4
  <1>6. CASE ~Resets(plan, r)
    <2>1. NoResets(plan, heard, k, n)
      <3> SUFFICES ASSUME NEW m \in k + 1 .. n PROVE ~Resets(plan, heard[m])
        BY DEF NoResets
      <3>1. m = k + 1 \/ m \in (k + 1) + 1 .. n
        OBVIOUS
      <3> QED  BY <3>1, <1>6 DEF NoResets, r
    <2>2. jobs \in {P[k], P[n]}
      BY <2>1 DEF Agrees
    <2>3. P[n] \subseteq P[k + 1]
      BY <1>2, <1>3
    <2>4. After(plan, r, P[n]) = P[n]
      BY <1>1, <1>4, <1>6, <2>3, AfterIs
    <2> QED  BY <2>2, <2>4, <1>4
  <1> QED  BY <1>5, <1>6

\* Where a replay starts.
LEMMA Agreement ==
    ASSUME NEW heard, NEW b \in Nat, NEW n \in Nat, b <= n, NEW plan, NEW P, Trace(plan, P, heard, b, n), NEW jobs
    PROVE  (jobs = IF plan # {} THEN plan ELSE P[n]) => Agrees(plan, P, heard, n, jobs, b)
  BY DEF Agrees, Trace

-----------------------------------------------------------------------------
(* The way of an invocation.                                               *)

\* The steps of the node, as far as they depend on the replies: n becomes m.
Step(plan, n, m) ==
    /\ m.heard = n.heard
    /\ \/ /\ n.pc = "client" /\ n.at < Len(n.heard) /\ m.at = n.at + 1 /\ m.jobs = n.jobs
          /\ m.pc = IF Names(n.heard[n.at + 1]) THEN "bind" ELSE "client"
       \/ /\ <<n.pc, m.pc>> \in {<<"bind", "start">>, <<"bind", "store">>, <<"start", "store">>,
                                 <<"store", "access">>}
          /\ m.at = n.at /\ m.jobs = n.jobs
       \/ /\ n.pc = "access" /\ n.at < Len(n.heard) /\ m.at = n.at + 1 /\ m.jobs = n.jobs
          /\ m.pc = IF YesNo(n.heard[n.at + 1]) THEN "discover" ELSE "access"
       \/ /\ n.pc = "discover" /\ m.pc = IF n.found THEN "plan" ELSE "save"
          /\ m.at = n.at /\ (n.found => m.jobs = n.jobs)
       \/ n.pc = "save" /\ m.pc = "plan" /\ m.at = n.at
       \/ /\ n.pc = "plan" /\ m.at = n.at /\ m.jobs = IF plan # {} THEN plan ELSE n.jobs
          /\ m.pc = IF m.jobs = {} THEN "finish" ELSE "scope"
       \/ /\ n.pc = "scope" /\ n.at < Len(n.heard) /\ m.at = n.at + 1
          /\ \/ /\ m.pc = "scope" /\ ~Confirms(n.heard[n.at + 1])
                /\ m.jobs = After(plan, n.heard[n.at + 1], n.jobs)
             \/ /\ m.pc = "finish" /\ Confirms(n.heard[n.at + 1])
                /\ m.selected = n.jobs /\ m.by = n.heard[n.at + 1].asked

\* Each of them leads on along the replies.
LEMMA WayGoes ==
    ASSUME NEW n, NEW m, NEW plan \in SUBSET Jobs, Fits(n), m.jobs \in SUBSET Jobs,
           Step(plan, n, m), Way(n, plan)
    PROVE  Way(m, plan)
  <1>0. n.heard \in Seq(Reply) /\ n.at \in Nat /\ Len(n.heard) \in Nat /\ n.at <= Len(n.heard)
        /\ m.heard = n.heard
    BY DEF Fits, Invocation, Step
  <1> DEFINE h == n.heard
  <1>1. CASE n.pc = "client"
    <2>1. /\ n.at < Len(h) /\ m.at = n.at + 1
          /\ m.pc = IF Names(h[n.at + 1]) THEN "bind" ELSE "client"
      BY <1>1 DEF Step
    <2>2. \A k \in 1 .. n.at : ~Names(h[k])
      BY <1>1 DEF Way
    <2>3. CASE Names(h[n.at + 1])
      <3>1. Named(m.heard, m.at)
        BY <1>0, <2>1, <2>2, <2>3 DEF Named
      <3> QED  BY <2>1, <2>3, <3>1 DEF Way
    <2>4. CASE ~Names(h[n.at + 1])
      <3>1. \A k \in 1 .. m.at : ~Names(m.heard[k])
        <4> SUFFICES ASSUME NEW k \in 1 .. m.at PROVE ~Names(m.heard[k])
          OBVIOUS
        <4>1. k \in 1 .. n.at \/ k = n.at + 1
          BY <1>0, <2>1
        <4> QED  BY <1>0, <2>2, <2>4, <4>1
      <3> QED  BY <2>1, <2>4, <3>1 DEF Way
    <2> QED  BY <2>3, <2>4
  <1>2. CASE n.pc \in {"bind", "start"}
    <2>1. m.pc \in {"start", "store"} /\ m.at = n.at
      BY <1>2 DEF Step
    <2> QED  BY <1>0, <1>2, <2>1 DEF Way
  <1>3. CASE n.pc = "store"
    <2>1. m.pc = "access" /\ m.at = n.at
      BY <1>3 DEF Step
    <2>2. Named(h, n.at)
      BY <1>3 DEF Way
    <2>3. n.at \in 1 .. m.at /\ Named(m.heard, n.at) /\ Unclear(m.heard, n.at, m.at)
      BY <1>0, <2>1, <2>2 DEF Named, Unclear
    <2> QED  BY <2>1, <2>3 DEF Way
  <1>4. CASE n.pc = "access"
    <2>1. /\ n.at < Len(h) /\ m.at = n.at + 1
          /\ m.pc = IF YesNo(h[n.at + 1]) THEN "discover" ELSE "access"
      BY <1>4 DEF Step
    <2>2. PICK a \in 1 .. n.at : Named(h, a) /\ Unclear(h, a, n.at)
      BY <1>4 DEF Way
    <2>3. a \in 1 .. m.at /\ m.at \in a + 1 .. Len(h) /\ m.at - 1 = n.at
      BY <1>0, <2>1, <2>2
    <2>4. CASE YesNo(h[n.at + 1])
      <3>1. Reached(m.heard, a, m.at)
        BY <1>0, <2>1, <2>2, <2>3, <2>4 DEF Reached
      <3> QED  BY <2>1, <2>3, <2>4, <3>1 DEF Way
    <2>5. CASE ~YesNo(h[n.at + 1])
      <3>1. Unclear(m.heard, a, m.at)
        <4> SUFFICES ASSUME NEW k \in a + 1 .. m.at PROVE ~YesNo(m.heard[k])
          BY DEF Unclear
        <4>1. k \in a + 1 .. n.at \/ k = n.at + 1
          BY <1>0, <2>1
        <4> QED  BY <1>0, <2>2, <2>5, <4>1 DEF Unclear
      <3> QED  BY <1>0, <2>1, <2>2, <2>3, <2>5, <3>1 DEF Way
    <2> QED  BY <2>4, <2>5
  <1>5. CASE n.pc \in {"discover", "save"}
    <2>1. m.pc \in {"save", "plan"} /\ m.at = n.at
      BY <1>5 DEF Step
    <2> QED  BY <1>0, <1>5, <2>1 DEF Way
  <1>6. CASE n.pc = "plan"
    <2>1. /\ m.at = n.at /\ (plan # {} => m.jobs = plan)
          /\ m.pc = IF m.jobs = {} THEN "finish" ELSE "scope"
      BY <1>6 DEF Step
    <2>2. CASE m.jobs = {}
      BY <2>1, <2>2 DEF Way
    <2>3. CASE m.jobs # {}
      <3>1. PICK a \in 1 .. n.at : Reached(h, a, n.at)
        BY <1>6 DEF Way
      <3>2. n.at \in 1 .. n.at
        BY <1>0, <3>1
      <3>3. m.jobs \in (SUBSET Jobs) \ {{}}
        BY <2>3
      <3>4. LedTo(plan, h, n.at, n.at, m.jobs)
        BY <1>0, <2>1, <3>3, TraceStarts
      <3> QED  BY <1>0, <2>1, <2>3, <3>1, <3>2, <3>4 DEF Way
    <2> QED  BY <2>2, <2>3
  <1>7. CASE n.pc = "scope"
    <2>1. n.at < Len(h) /\ m.at = n.at + 1
      BY <1>7 DEF Step
    <2>2. CASE m.pc = "finish"
      BY <2>2 DEF Way
    <2>3. CASE m.pc # "finish"
      <3>1. /\ m.pc = "scope" /\ ~Confirms(h[n.at + 1])
            /\ m.jobs = After(plan, h[n.at + 1], n.jobs)
        BY <1>7, <2>3 DEF Step
      <3>2. PICK a \in 1 .. n.at, b \in 1 .. n.at :
               Reached(h, a, b) /\ LedTo(plan, h, b, n.at, n.jobs)
        BY <1>7 DEF Way
      <3>4. b \in Nat /\ b <= n.at /\ n.at + 1 <= Len(h)
        BY <1>0, <2>1
      <3>5. LedTo(plan, h, b, n.at + 1, After(plan, h[n.at + 1], n.jobs))
        BY <1>0, <3>1, <3>2, <3>4, TraceGrows
      <3>6. LedTo(plan, m.heard, b, m.at, m.jobs)
        BY <1>0, <2>1, <3>1, <3>5
      <3>7. a \in 1 .. m.at /\ b \in 1 .. m.at /\ Reached(m.heard, a, b)
        BY <1>0, <2>1, <3>2
      <3> QED  BY <3>1, <3>6, <3>7 DEF Way
    <2> QED  BY <2>2, <2>3
  <1> QED  BY <1>1, <1>2, <1>3, <1>4, <1>5, <1>6, <1>7 DEF Step

\* An invocation that answers a prompt goes through the replies to earlier prompts the way
\* it went before, and what it confirms is what was seen.
LEMMA ReplayGoes ==
    ASSUME NEW n, NEW m, NEW plan \in SUBSET Jobs, Fits(n), n.found = TRUE, Step(plan, n, m),
           n.pc = "scope" => n.jobs # {},
           NEW heard \in Seq(Reply), NEW seen, NEW a \in Nat, NEW b \in Nat, Reached(heard, a, b),
           NEW P, Trace(plan, P, heard, b, Len(heard)), P[Len(heard)] = seen,
           Replays(n, heard, seen, plan, a, b, P)
    PROVE  Replays(m, heard, seen, plan, a, b, P)
  <1> DEFINE h == n.heard
             e == Len(heard)
  <1>0. /\ n.at \in Nat /\ Len(h) \in Nat /\ n.at <= Len(h) /\ m.heard = n.heard
        /\ n.jobs \in SUBSET Jobs
    BY DEF Fits, Invocation, Step
  <1>1. PICK r \in Reply : r.asked = "scope" /\ h = Append(heard, r)
    BY DEF Replays
  <1>2. /\ Len(h) = e + 1 /\ h[e + 1] = r /\ e \in Nat
        /\ \A k \in 1 .. e : h[k] = heard[k]
    BY <1>1
  <1>3. \E q \in Reply : q.asked = "scope" /\ m.heard = Append(heard, q)
    BY <1>0, <1>1
  <1>4. /\ a \in 1 .. e /\ b \in a + 1 .. e /\ Names(heard[a]) /\ YesNo(heard[b])
        /\ \A k \in 1 .. a - 1 : ~Names(heard[k])
        /\ \A k \in a + 1 .. b - 1 : ~YesNo(heard[k])
    BY DEF Reached, Named, Unclear
  <1>i. a \in Nat /\ b \in Nat /\ e \in Nat /\ 1 <= a /\ a < b /\ b <= e
    BY <1>2, <1>4
  <1>5. CASE n.pc = "client"
    <2>1. /\ n.at < a /\ n.jobs = seen /\ m.at = n.at + 1 /\ m.jobs = n.jobs
          /\ m.pc = IF Names(h[n.at + 1]) THEN "bind" ELSE "client"
      BY <1>5 DEF Step, Replays
    <2>2. n.at + 1 \in 1 .. e /\ h[n.at + 1] = heard[n.at + 1]
      BY <1>0, <1>2, <1>4, <2>1
    <2>3. CASE n.at + 1 = a
      <3>1. m.pc = "bind" /\ m.at = a
        BY <1>4, <2>1, <2>2, <2>3
      <3> QED  BY <1>3, <2>1, <3>1 DEF Replays
    <2>4. CASE n.at + 1 # a
      <3>1. n.at + 1 \in 1 .. a - 1 /\ n.at + 1 < a
        BY <1>0, <2>1, <2>4
      <3>2. m.pc = "client" /\ m.at < a
        BY <1>4, <2>1, <2>2, <3>1
      <3> QED  BY <1>3, <2>1, <3>2 DEF Replays
    <2> QED  BY <2>3, <2>4
  <1>6. CASE n.pc \in {"bind", "start", "store"}
    <2>1. /\ n.at = a /\ n.jobs = seen /\ m.at = n.at /\ m.jobs = n.jobs
          /\ m.pc \in {"start", "store", "access"}
      BY <1>6 DEF Step, Replays
    <2>2. a \in a .. b - 1
      BY <1>4
    <2> QED  BY <1>3, <2>1, <2>2 DEF Replays
  <1>7. CASE n.pc = "access"
    <2>1. /\ n.at \in a .. b - 1 /\ n.jobs = seen /\ m.at = n.at + 1 /\ m.jobs = n.jobs
          /\ m.pc = IF YesNo(h[n.at + 1]) THEN "discover" ELSE "access"
      BY <1>7 DEF Step, Replays
    <2>i. a <= n.at /\ n.at + 1 <= b
      BY <2>1, <1>0, <1>i
    <2>2. n.at + 1 \in 1 .. e /\ h[n.at + 1] = heard[n.at + 1]
      <3>1. n.at + 1 \in 1 .. e
        BY <1>0, <1>i, <2>i
      <3> QED  BY <3>1, <1>2
    <2>3. CASE n.at + 1 = b
      <3>1. m.pc = "discover" /\ m.at = b
        BY <1>4, <2>1, <2>2, <2>3
      <3> QED  BY <1>3, <2>1, <3>1 DEF Replays
    <2>4. CASE n.at + 1 # b
      <3>1. n.at + 1 \in a + 1 .. b - 1 /\ n.at + 1 \in a .. b - 1
        BY <1>0, <1>i, <2>i, <2>4
      <3>2. m.pc = "access" /\ m.at \in a .. b - 1
        BY <1>4, <2>1, <2>2, <3>1
      <3> QED  BY <1>3, <2>1, <3>2 DEF Replays
    <2> QED  BY <2>3, <2>4
  <1>8. CASE n.pc = "discover"
    <2>1. n.at = b /\ n.jobs = seen /\ m.at = n.at /\ m.jobs = n.jobs /\ m.pc = "plan"
      BY <1>8 DEF Step, Replays
    <2> QED  BY <1>3, <2>1 DEF Replays
  <1>9. CASE n.pc = "plan"
    <2>1. /\ n.at = b /\ n.jobs = seen /\ m.at = n.at
          /\ m.jobs = IF plan # {} THEN plan ELSE seen
          /\ m.pc = IF m.jobs = {} THEN "finish" ELSE "scope"
      BY <1>9 DEF Step, Replays
    <2>2. seen # {}
      <3>1. e \in b .. e
        BY <1>4
      <3> QED  BY <3>1 DEF Trace
    <2>3. m.pc = "scope"
      BY <2>1, <2>2
    <2>4. Agrees(plan, P, heard, e, m.jobs, b)
      BY <1>2, <1>4, <2>1, Agreement
    <2>5. m.at >= b /\ m.at = b
      BY <1>4, <2>1
    <2> QED  BY <1>3, <2>3, <2>4, <2>5 DEF Replays
  <1>10. CASE n.pc = "scope"
    <2>1. /\ n.at >= b /\ n.at < Len(h) /\ m.at = n.at + 1
          /\ n.at <= e => Agrees(plan, P, heard, e, n.jobs, n.at)
      BY <1>10 DEF Step, Replays
    <2>2. n.at <= e /\ b \in Nat /\ 0 < b /\ b <= e
      BY <1>0, <1>2, <1>4, <2>1
    <2>3. CASE m.pc = "scope"
      <3>1. ~Confirms(h[n.at + 1]) /\ m.jobs = After(plan, h[n.at + 1], n.jobs)
        BY <1>10, <2>3 DEF Step
      <3>2. m.at >= b
        BY <1>0, <2>1, <2>2
      <3>3. ASSUME m.at <= e PROVE Agrees(plan, P, heard, e, m.jobs, m.at)
        <4>1. n.at < e /\ h[n.at + 1] = heard[n.at + 1]
          BY <3>3, <1>0, <1>2, <2>1
        <4>2. n.jobs \in (SUBSET Jobs) \ {{}}
          BY <1>0, <1>10
        <4>3. b <= n.at /\ e <= Len(heard) /\ Agrees(plan, P, heard, e, n.jobs, n.at)
          BY <2>1, <2>2, <1>0, <1>2
        <4>4. Agrees(plan, P, heard, e, After(plan, heard[n.at + 1], n.jobs), n.at + 1)
          BY <1>0, <1>2, <2>2, <4>1, <4>2, <4>3, Converges
        <4> QED  BY <2>1, <3>1, <4>1, <4>4
      <3> QED  BY <1>3, <2>3, <3>2, <3>3 DEF Replays
    <2>4. CASE m.pc = "finish"
      <3>1. Confirms(h[n.at + 1]) /\ m.selected = n.jobs /\ m.by = h[n.at + 1].asked
        BY <1>10, <2>4 DEF Step
      <3>2. n.at = e
        <4> SUFFICES ASSUME n.at # e PROVE FALSE
          OBVIOUS
        <4>1. n.at + 1 \in b + 1 .. e /\ h[n.at + 1] = heard[n.at + 1]
          BY <1>0, <1>2, <2>1, <2>2
        <4>2. ~Confirms(heard[n.at + 1])
          BY <4>1 DEF Trace
        <4> QED  BY <3>1, <4>1, <4>2
      <3>3. n.jobs = P[e]
        <4>1. Agrees(plan, P, heard, e, n.jobs, e)
          BY <2>1, <2>2, <3>2
        <4>2. NoResets(plan, heard, e, e)
          BY <1>i DEF NoResets
        <4> QED  BY <4>1, <4>2 DEF Agrees
      <3>4. m.selected = seen /\ m.by = "scope"
        BY <1>1, <1>2, <3>1, <3>2, <3>3
      <3> QED  BY <1>3, <2>4, <3>4 DEF Replays
    <2> QED  BY <1>10, <2>3, <2>4 DEF Step
  <1> QED  BY <1>5, <1>6, <1>7, <1>8, <1>9, <1>10 DEF Step, Replays

-----------------------------------------------------------------------------
(* The steps of the node keep the invariant of their thread.               *)

\* They are steps along the replies, unless the model fails.
LEMMA NodeSteps ==
    ASSUME ChatTypes, RunsDiffer, NEW t \in Threads, NodeStep(t), ~Finish(t), failures' # failures + 1
    PROVE  /\ Step(planFile, node[t], node'[t]) /\ node'[t].fresh = node[t].fresh
           /\ node'[t].jobs \in SUBSET Jobs
  <1> DEFINE n == node[t]
             m == node'[t]
             r == Heard(t)
             plan == IF planFile # {} THEN planFile ELSE n.jobs
  <1>0. n.at \in Nat /\ Len(n.heard) \in Nat /\ (Answered(t) => n.at < Len(n.heard))
    BY NodeIs, Zenon
  <1>h. r = n.heard[n.at + 1]
    BY DEF Heard
  <1>j. ASSUME NEW pc, NEW at, NEW jobs, NEW found, Moves(t, pc, at, jobs, found)
        PROVE  /\ m.heard = n.heard /\ m.fresh = n.fresh /\ m.pc = pc /\ m.at = at /\ m.jobs = jobs
               /\ m.jobs \in SUBSET Jobs
    <2>1. /\ m.heard = n.heard /\ m.fresh = n.fresh /\ m.pc = pc /\ m.at = at /\ m.jobs = jobs
          /\ m \in Invocation
      BY <1>j, Zenon DEF Moves, Becomes, Fits
    <2>2. m.jobs \in SUBSET Jobs
      BY <2>1 DEF Invocation
    <2> QED  BY <2>1, <2>2, Zenon
  <1> HIDE DEF m, r
  <1>1. CASE Client(t)
    <2>1. n.pc = "client" /\ Answered(t)
      BY <1>1, Zenon DEF Client
    <2>2. Moves(t, IF Names(r) THEN "bind" ELSE "client", n.at + 1, n.jobs, n.found)
      BY <1>1, NodeMoves, Zenon DEF r
    <2>3. /\ m.heard = n.heard /\ m.fresh = n.fresh /\ m.pc = (IF Names(r) THEN "bind" ELSE "client")
          /\ m.at = n.at + 1 /\ m.jobs = n.jobs /\ m.jobs \in SUBSET Jobs
      BY <2>2, <1>j, Zenon
    <2> QED  BY <2>1, <2>3, <1>0, <1>h DEF Step, m
  <1>2. CASE Bind(t)
    <2>1. n.pc = "bind"
      BY <1>2, Zenon DEF Bind
    <2>2. PICK pc \in {"store", "start"} : Moves(t, pc, n.at, n.jobs, n.found)
      BY <1>2, NodeMoves, Zenon
    <2>3. /\ m.heard = n.heard /\ m.fresh = n.fresh /\ m.pc \in {"store", "start"} /\ m.at = n.at
          /\ m.jobs = n.jobs /\ m.jobs \in SUBSET Jobs
      BY <2>2, <1>j, Zenon
    <2> QED  BY <2>1, <2>3 DEF Step, m
  <1>3. CASE Start(t)
    <2>1. n.pc = "start"
      BY <1>3, Zenon DEF Start
    <2>2. Moves(t, "store", n.at, n.jobs, n.found)
      BY <1>3, NodeMoves, Zenon
    <2>3. /\ m.heard = n.heard /\ m.fresh = n.fresh /\ m.pc = "store" /\ m.at = n.at
          /\ m.jobs = n.jobs /\ m.jobs \in SUBSET Jobs
      BY <2>2, <1>j, Zenon
    <2> QED  BY <2>1, <2>3 DEF Step, m
  <1>4. CASE Store(t)
    <2>1. n.pc = "store"
      BY <1>4, Zenon DEF Store
    <2>2. Moves(t, "access", n.at, n.jobs, n.found)
      BY <1>4, NodeMoves, Zenon
    <2>3. /\ m.heard = n.heard /\ m.fresh = n.fresh /\ m.pc = "access" /\ m.at = n.at
          /\ m.jobs = n.jobs /\ m.jobs \in SUBSET Jobs
      BY <2>2, <1>j, Zenon
    <2> QED  BY <2>1, <2>3 DEF Step, m
  <1>5. CASE Access(t)
    <2>1. n.pc = "access" /\ Answered(t)
      BY <1>5, Zenon DEF Access
    <2>2. \/ YesNo(r) /\ Moves(t, "discover", n.at + 1, n.jobs, n.found)
          \/ ~YesNo(r) /\ Moves(t, "access", n.at + 1, n.jobs, n.found)
      BY <1>5, NodeMoves, Zenon DEF r
    <2>3. /\ m.heard = n.heard /\ m.fresh = n.fresh
          /\ (YesNo(r) /\ m.pc = "discover") \/ (~YesNo(r) /\ m.pc = "access")
          /\ m.at = n.at + 1 /\ m.jobs = n.jobs /\ m.jobs \in SUBSET Jobs
      BY <2>2, <1>j, Zenon
    <2> QED  BY <2>1, <2>3, <1>0, <1>h DEF Step, m
  <1>6. CASE Discover(t)
    <2>1. n.pc = "discover"
      BY <1>6, Zenon DEF Discover
    <2>2. \/ n.found /\ Moves(t, "plan", n.at, n.jobs, n.found)
          \/ ~n.found /\ \E found \in SUBSET Jobs : Moves(t, "save", n.at, found, TRUE)
      BY <1>6, NodeMoves, Zenon
    <2>3. /\ m.heard = n.heard /\ m.fresh = n.fresh
          /\ (n.found /\ m.pc = "plan" /\ m.jobs = n.jobs) \/ (~n.found /\ m.pc = "save")
          /\ m.at = n.at /\ m.jobs \in SUBSET Jobs
      BY <2>2, <1>j, Zenon
    <2> QED  BY <2>1, <2>3 DEF Step, m
  <1>7. CASE Save(t)
    <2>1. n.pc = "save"
      BY <1>7, Zenon DEF Save
    <2>2. Moves(t, "plan", n.at, n.jobs, n.found)
      BY <1>7, NodeMoves, Zenon
    <2>3. /\ m.heard = n.heard /\ m.fresh = n.fresh /\ m.pc = "plan" /\ m.at = n.at
          /\ m.jobs = n.jobs /\ m.jobs \in SUBSET Jobs
      BY <2>2, <1>j, Zenon
    <2> QED  BY <2>1, <2>3 DEF Step, m
  <1>8. CASE LoadPlan(t)
    <2>1. n.pc = "plan"
      BY <1>8, Zenon DEF LoadPlan
    <2>2. Moves(t, IF plan = {} THEN "finish" ELSE "scope", n.at, plan, n.found)
      BY <1>8, NodeMoves, Zenon
    <2> HIDE DEF plan
    <2>3. /\ m.heard = n.heard /\ m.fresh = n.fresh /\ m.pc = (IF plan = {} THEN "finish" ELSE "scope")
          /\ m.at = n.at /\ m.jobs = plan /\ m.jobs \in SUBSET Jobs
      BY <2>2, <1>j, Zenon
    <2> QED  BY <2>1, <2>3 DEF Step, m, plan
  <1>9. CASE Scope(t)
    <2>1. n.pc = "scope" /\ Answered(t)
      BY <1>9, Zenon DEF Scope
    <2> DEFINE jobs == Proposal(planFile, r, n.jobs)
    <2>2. \/ ~Confirms(r) /\ jobs # {} /\ Moves(t, "scope", n.at + 1, jobs, n.found)
          \/ ~Confirms(r) /\ jobs = {} /\ Moves(t, "scope", n.at + 1, n.jobs, n.found)
          \/ /\ Confirms(r) /\ Moves(t, "finish", n.at + 1, n.jobs, n.found)
             /\ m.selected = n.jobs /\ m.by = r.asked
      BY <1>9, NodeMoves, Zenon DEF r, m
    <2> HIDE DEF jobs
    <2>3. /\ m.heard = n.heard /\ m.fresh = n.fresh /\ m.at = n.at + 1 /\ m.jobs \in SUBSET Jobs
          /\ \/ ~Confirms(r) /\ jobs # {} /\ m.pc = "scope" /\ m.jobs = jobs
             \/ ~Confirms(r) /\ jobs = {} /\ m.pc = "scope" /\ m.jobs = n.jobs
             \/ Confirms(r) /\ m.pc = "finish" /\ m.selected = n.jobs /\ m.by = r.asked
      BY <2>2, <1>j, Zenon
    <2>4. m.pc = "scope" => ~Confirms(r) /\ m.jobs = After(planFile, r, n.jobs)
      BY <2>3 DEF After, jobs
    <2> QED  BY <2>1, <2>3, <2>4, <1>0, <1>h DEF Step, m
  <1> QED  BY <1>1, <1>2, <1>3, <1>4, <1>5, <1>6, <1>7, <1>8, <1>9, Zenon DEF NodeStep

\* They keep the evidence in step with the invocation, and count discoveries.
LEMMA NodeSaves ==
    ASSUME ChatTypes, RunsDiffer, NEW t \in Threads, NodeStep(t), UNCHANGED routeVars, ThreadInv(t)
    PROVE  ThreadInv(t)'
  <1> DEFINE n == node[t]
             m == node'[t]
             r == Heard(t)
             plan == IF planFile # {} THEN planFile ELSE n.jobs
  <1>0. /\ meta[t] \in Progress /\ meta \in [Threads -> Progress] /\ n.found \in BOOLEAN
        /\ meta[t].found \in BOOLEAN /\ probes \in [Threads -> Nat] /\ crashes \in Nat
        /\ crashes' = crashes /\ n.access \in BOOLEAN
    <2>1. crashes' = crashes
      BY NodeFrame, Zenon DEF Frame
    <2> QED  BY <2>1 DEF ChatTypes, DiskOK, NodeOK, Invocation, SeenOK, CountOK, Progress
  <1>j. ASSUME NEW pc, NEW at, NEW jobs, NEW found, Moves(t, pc, at, jobs, found)
        PROVE  m.pc = pc /\ m.jobs = jobs /\ m.found = found
    BY <1>j, Zenon DEF Moves, Becomes
  <1>s. Saved(t) /\ Probed(t) /\ Ended(t)
    BY Zenon DEF ThreadInv
  <1> HIDE DEF m, r
  <1>1. CASE Client(t) \/ Bind(t) \/ Start(t) \/ Store(t) \/ Access(t)
    <2>1. n.pc \in {"client", "bind", "start", "store", "access"}
      BY <1>1 DEF Client, Bind, Start, Store, Access
    <2>2. UNCHANGED <<cp, quiet, probes>>
      BY <1>1 DEF Client, Bind, Start, Store, Access, history
    <2>3. meta'[t].found = meta[t].found /\ meta'[t].jobs = meta[t].jobs
      BY <1>0, <1>1 DEF Client, Bind, Start, Store, Access, Progress
    <2>4. /\ m.pc \in {"client", "bind", "start", "store", "access", "discover"}
          /\ m.jobs = n.jobs /\ m.found = n.found
      <3>1. CASE Client(t)
        <4>1. Moves(t, IF Names(r) THEN "bind" ELSE "client", n.at + 1, n.jobs, n.found)
          BY <3>1, NodeMoves, Zenon DEF r
        <4>2. m.pc = (IF Names(r) THEN "bind" ELSE "client") /\ m.jobs = n.jobs /\ m.found = n.found
          BY <4>1, <1>j, Zenon
        <4> QED  BY <4>2
      <3>2. CASE Bind(t)
        <4>1. PICK pc \in {"store", "start"} : Moves(t, pc, n.at, n.jobs, n.found)
          BY <3>2, NodeMoves, Zenon
        <4>2. m.pc = pc /\ m.jobs = n.jobs /\ m.found = n.found
          BY <4>1, <1>j, Zenon
        <4> QED  BY <4>2
      <3>3. CASE Start(t)
        <4>1. Moves(t, "store", n.at, n.jobs, n.found)
          BY <3>3, NodeMoves, Zenon
        <4>2. m.pc = "store" /\ m.jobs = n.jobs /\ m.found = n.found
          BY <4>1, <1>j, Zenon
        <4> QED  BY <4>2
      <3>4. CASE Store(t)
        <4>1. Moves(t, "access", n.at, n.jobs, n.found)
          BY <3>4, NodeMoves, Zenon
        <4>2. m.pc = "access" /\ m.jobs = n.jobs /\ m.found = n.found
          BY <4>1, <1>j, Zenon
        <4> QED  BY <4>2
      <3>5. CASE Access(t)
        <4>1. \/ Moves(t, "discover", n.at + 1, n.jobs, n.found)
              \/ Moves(t, "access", n.at + 1, n.jobs, n.found)
          BY <3>5, NodeMoves, Zenon
        <4>2. CASE Moves(t, "discover", n.at + 1, n.jobs, n.found)
          <5>1. m.pc = "discover" /\ m.jobs = n.jobs /\ m.found = n.found
            BY <4>2, <1>j, Zenon
          <5> QED  BY <5>1
        <4>3. CASE Moves(t, "access", n.at + 1, n.jobs, n.found)
          <5>1. m.pc = "access" /\ m.jobs = n.jobs /\ m.found = n.found
            BY <4>3, <1>j, Zenon
          <5> QED  BY <5>1
        <4> QED  BY <4>1, <4>2, <4>3
      <3> QED  BY <1>1, <3>1, <3>2, <3>3, <3>4, <3>5
    <2> QED  BY <1>0, <1>s, <2>1, <2>2, <2>3, <2>4 DEF ThreadInv, Saved, Probed, Ended, m
  <1>2. CASE Discover(t)
    <2>1. n.pc = "discover" /\ UNCHANGED <<cp, quiet, meta>>
      BY <1>2 DEF Discover
    <2>2. \/ n.found /\ Moves(t, "plan", n.at, n.jobs, n.found)
          \/ ~n.found /\ \E found \in SUBSET Jobs : Moves(t, "save", n.at, found, TRUE)
      BY <1>2, NodeMoves, Zenon
    <2>3. \/ n.found /\ m.pc = "plan" /\ m.jobs = n.jobs /\ m.found = n.found
          \/ ~n.found /\ m.pc = "save" /\ m.found = TRUE
      <3>1. CASE n.found
        <4>1. m.pc = "plan" /\ m.jobs = n.jobs /\ m.found = n.found
          BY <2>2, <3>1, <1>j, Zenon
        <4> QED  BY <3>1, <4>1
      <3>2. CASE ~n.found
        <4>1. PICK found \in SUBSET Jobs : Moves(t, "save", n.at, found, TRUE)
          BY <2>2, <3>2
        <4>2. m.pc = "save" /\ m.found = TRUE
          BY <4>1, <1>j, Zenon
        <4> QED  BY <3>2, <4>2
      <3> QED  BY <3>1, <3>2
    <2>4. CASE n.found
      <3>1. UNCHANGED probes
        BY <1>2, <2>4 DEF Discover
      <3> QED  BY <1>0, <1>s, <2>1, <2>3, <2>4, <3>1 DEF ThreadInv, Saved, Probed, Ended, m
    <2>5. CASE ~n.found
      <3>1. probes'[t] = probes[t] + IF n.access THEN 1 ELSE 0
        BY <1>0, <1>2, <2>5 DEF Discover
      <3>2. probes[t] <= crashes
        BY <1>0, <1>s, <2>1, <2>5 DEF Saved, Probed
      <3>3. probes'[t] <= crashes + 1
        BY <1>0, <3>1, <3>2
      <3>4. Probed(t)'
        BY <1>0, <2>3, <2>5, <3>3 DEF Probed, m
      <3> QED  BY <1>0, <1>s, <2>1, <2>3, <2>5, <3>4 DEF ThreadInv, Saved, Ended, m
    <2> QED  BY <2>4, <2>5
  <1>3. CASE Save(t)
    <2>1. n.pc = "save" /\ UNCHANGED <<cp, quiet, probes>>
      BY <1>3 DEF Save, history
    <2>2. meta'[t].found = TRUE /\ meta'[t].jobs = n.jobs
      BY <1>0, <1>3 DEF Save, Progress
    <2>3. Moves(t, "plan", n.at, n.jobs, n.found)
      BY <1>3, NodeMoves, Zenon
    <2>4. m.pc = "plan" /\ m.jobs = n.jobs /\ m.found = n.found
      BY <2>3, <1>j, Zenon
    <2> QED  BY <1>0, <1>s, <2>1, <2>2, <2>4 DEF ThreadInv, Saved, Probed, Ended, m
  <1>4. CASE LoadPlan(t)
    <2>1. n.pc = "plan" /\ UNCHANGED <<cp, quiet, probes>>
      BY <1>4 DEF LoadPlan, history
    <2>2. meta'[t].found = meta[t].found /\ meta'[t].jobs = plan
      BY <1>0, <1>4 DEF LoadPlan, load_client_audit_plan, Progress
    <2>3. Moves(t, IF plan = {} THEN "finish" ELSE "scope", n.at, plan, n.found)
      BY <1>4, NodeMoves, Zenon
    <2> HIDE DEF plan
    <2>4. /\ m.pc = (IF plan = {} THEN "finish" ELSE "scope") /\ m.jobs = plan /\ m.found = n.found
      BY <2>3, <1>j, Zenon
    <2> QED  BY <1>0, <1>s, <2>1, <2>2, <2>4 DEF ThreadInv, Saved, Probed, Ended, m
  <1>5. CASE Scope(t)
    <2> DEFINE jobs == Proposal(planFile, r, n.jobs)
    <2>1. n.pc = "scope" /\ UNCHANGED <<cp, quiet, probes>>
      BY <1>5 DEF Scope, history
    <2>2. \/ /\ jobs # {} /\ Moves(t, "scope", n.at + 1, jobs, n.found)
             /\ meta' = [meta EXCEPT ![t].jobs = jobs]
          \/ UNCHANGED meta /\ Moves(t, "scope", n.at + 1, n.jobs, n.found)
          \/ UNCHANGED meta /\ Moves(t, "finish", n.at + 1, n.jobs, n.found)
      BY <1>5, NodeMoves, Zenon DEF r
    <2> HIDE DEF jobs
    <2>3. /\ m.found = n.found
          /\ \/ jobs # {} /\ m.pc = "scope" /\ m.jobs = jobs /\ meta' = [meta EXCEPT ![t].jobs = jobs]
             \/ UNCHANGED meta /\ m.pc \in {"scope", "finish"} /\ m.jobs = n.jobs
      BY <2>2, <1>j, Zenon
    <2>4. /\ meta'[t].found = meta[t].found
          /\ (jobs # {} /\ m.jobs = jobs /\ meta'[t].jobs = jobs) \/ (m.jobs = n.jobs /\ meta'[t].jobs = meta[t].jobs)
      BY <1>0, <2>3 DEF Progress
    <2> QED  BY <1>0, <1>s, <2>1, <2>3, <2>4 DEF ThreadInv, Saved, Probed, Ended, m
  <1>6. CASE Finish(t)
    <2>1. n.pc = "finish" /\ UNCHANGED <<meta, quiet, probes>>
      BY <1>6 DEF Finish, history
    <2>2. cp'[t].state = "ended"
      BY <1>6 DEF Finish, ChatTypes, DiskOK
    <2>3. Moves(t, "handoff", n.at, n.jobs, n.found)
      BY <1>6, NodeMoves, Zenon
    <2>4. m.pc = "handoff"
      BY <2>3, <1>j, Zenon
    <2> QED  BY <1>0, <1>s, <2>1, <2>2, <2>4 DEF ThreadInv, Saved, Probed, Ended, m
  <1> QED  BY <1>1, <1>2, <1>3, <1>4, <1>5, <1>6, Zenon DEF NodeStep

\* They keep the replies leading to the plan that was shown, and end with it.
LEMMA NodePlans ==
    ASSUME ChatTypes, RunsDiffer, NEW t \in Threads, NodeStep(t), UNCHANGED routeVars,
           ThreadInv(t), PlanInv(t)
    PROVE  PlanInv(t)'
  <1> DEFINE n == node[t]
             m == node'[t]
  <1>0. /\ Fits(n) /\ n.jobs \in SUBSET Jobs /\ planFile \in SUBSET Jobs /\ tape[t] \in Seq(Reply)
        /\ failures \in Nat
    <2>1. /\ planFile \in SUBSET Jobs /\ tape[t] \in Seq(Reply) /\ failures \in Nat
      BY DEF ChatTypes, DiskOK, CountOK
    <2> QED  BY <2>1, NodeIs, Zenon
  <1>f. planFile' = planFile /\ failures' \in {failures, failures + 1}
    BY NodeFrame, Zenon DEF Frame
  <1>s. Saved(t) /\ Ended(t) /\ Follows(t) /\ Settled(t) /\ EndsAsShown(t)
    BY Zenon DEF ThreadInv, PlanInv
  <1>p. n.pc \notin {"idle", "handoff"} /\ UNCHANGED <<shown, quiet>>
    BY DEF NodeStep, Client, Bind, Start, Store, Access, Discover, Save, LoadPlan, Scope, Finish, history
  <1>e. cp[t].state # "ended" /\ (quiet[t] => cp[t].state = "paused")
    <2>1. cp[t].state \in {"none", "paused", "ended"}
      BY DEF ChatTypes, DiskOK, Checkpoint
    <2> QED  BY <2>1, <1>s, <1>p DEF Ended
  <1>1. CASE failures' = failures + 1
    <2>1. failures' # 0
      BY <1>0, <1>1
    <2> QED  BY <2>1 DEF PlanInv, Follows, Settled, EndsAsShown
  <1>2. CASE failures' # failures + 1 /\ Finish(t)
    <2>1. Moves(t, "handoff", n.at, n.jobs, n.found)
      BY <1>2, NodeMoves, Zenon
    <2>2. m.pc = "handoff"
      BY <2>1 DEF Moves, Becomes
    <2>3. n.pc = "finish" /\ cp'[t].state = "ended" /\ cp'[t].selected = n.selected /\ cp'[t].by = n.by
      BY <1>2 DEF Finish, ChatTypes, DiskOK
    <2>4. Follows(t)'
      BY <2>2 DEF Follows, Way
    <2>5. Settled(t)'
      BY <2>3 DEF Settled
    <2>6. EndsAsShown(t)'
      <3> SUFFICES ASSUME quiet[t], failures = 0
                   PROVE  n.selected = shown[t] /\ n.by = "scope"
        BY <1>2, <1>f, <1>p, <2>3 DEF EndsAsShown
      <3>1. Leads(tape[t], shown[t], n, meta[t].jobs, planFile)
        BY <1>e, <1>s DEF Settled
      <3>2. \E a, b, P : Replays(n, tape[t], shown[t], planFile, a, b, P)
        BY <3>1, <1>p, Zenon DEF Leads
      <3> QED  BY <3>2, <2>3 DEF Replays
    <2> QED  BY <2>4, <2>5, <2>6 DEF PlanInv
  <1>3. CASE failures' # failures + 1 /\ ~Finish(t)
    <2>1. /\ Step(planFile, n, m) /\ m.fresh = n.fresh /\ m.jobs \in SUBSET Jobs
      BY <1>3, NodeSteps, Zenon
    <2>2. Follows(t)'
      <3> SUFFICES ASSUME n.fresh, failures = 0 PROVE Way(m, planFile)
        BY <1>3, <1>f, <2>1 DEF Follows
      <3>1. Way(n, planFile)
        BY <1>s DEF Follows
      <3> QED  BY <1>0, <2>1, <3>1, WayGoes, Zenon
    <2>3. UNCHANGED <<tape, cp>> /\ (meta[t].found = TRUE => meta'[t].found = TRUE)
      <3>1. meta \in [Threads -> Progress]
        BY DEF ChatTypes, DiskOK
      <3>2. UNCHANGED <<tape, cp>>
        BY <1>3 DEF NodeStep, Client, Bind, Start, Store, Access, Discover, Save, LoadPlan, Scope
      <3>3. \/ UNCHANGED meta
            \/ \E run : meta' = [meta EXCEPT ![t].run = run]
            \/ \E jobs : meta' = [meta EXCEPT ![t].jobs = jobs]
            \/ \E jobs : meta' = [meta EXCEPT ![t].jobs = jobs, ![t].found = TRUE]
        BY <1>3, Zenon DEF NodeStep, Client, Bind, Start, Store, Access, Discover, Save, LoadPlan, Scope, Replans
      <3> QED  BY <3>1, <3>2, <3>3 DEF Progress
    <2>4. EndsAsShown(t)'
      BY <1>e, <2>3 DEF EndsAsShown
    <2>5. Settled(t)'
      <3> SUFFICES ASSUME quiet[t], failures = 0
                   PROVE  /\ cp[t].step = "scope" /\ meta'[t].found
                          /\ Leads(tape[t], shown[t], m, meta'[t].jobs, planFile)
        BY <1>3, <1>f, <1>p, <2>3 DEF Settled
      <3>1. /\ cp[t].step = "scope" /\ meta[t].found
            /\ Leads(tape[t], shown[t], n, meta[t].jobs, planFile)
        BY <1>e, <1>s DEF Settled
      <3>2. PICK a \in 1 .. Len(tape[t]), b \in 1 .. Len(tape[t]) :
               /\ Reached(tape[t], a, b)
               /\ \E P \in [b .. Len(tape[t]) -> SUBSET Jobs] :
                    /\ Trace(planFile, P, tape[t], b, Len(tape[t])) /\ P[Len(tape[t])] = shown[t]
                    /\ Replays(n, tape[t], shown[t], planFile, a, b, P)
        BY <3>1, <1>p DEF Leads
      <3>3. PICK P \in [b .. Len(tape[t]) -> SUBSET Jobs] :
                    /\ Trace(planFile, P, tape[t], b, Len(tape[t])) /\ P[Len(tape[t])] = shown[t]
                    /\ Replays(n, tape[t], shown[t], planFile, a, b, P)
        BY <3>2, Zenon
      <3>4. n.found = TRUE /\ (n.pc = "scope" => n.jobs # {})
        <4>1. n.pc \notin {"save", "handoff"}
          BY <3>3 DEF Replays
        <4>2. meta[t].found \in BOOLEAN
          BY DEF ChatTypes, DiskOK, Progress
        <4> QED  BY <4>1, <4>2, <3>1, <1>p, <1>s DEF Saved
      <3>5. a \in Nat /\ b \in Nat
        BY <1>0
      <3>6. Replays(m, tape[t], shown[t], planFile, a, b, P)
        <4> HIDE DEF n, m
        <4> QED  BY <1>0, <2>1, <3>2, <3>3, <3>4, <3>5, ReplayGoes, Zenon
      <3>7. m.pc # "idle"
        BY <2>1 DEF Step
      <3>8. Leads(tape[t], shown[t], m, meta'[t].jobs, planFile)
        BY <3>2, <3>3, <3>6, <3>7, Zenon DEF Leads
      <3>9. meta'[t].found
        <4>1. meta[t].found = TRUE
          <5>1. meta[t].found \in BOOLEAN
            BY DEF ChatTypes, DiskOK, Progress
          <5> QED  BY <3>1, <5>1
        <4> QED  BY <4>1, <2>3
      <3> QED  BY <3>1, <3>8, <3>9
    <2> QED  BY <2>2, <2>4, <2>5 DEF PlanInv
  <1> QED  BY <1>1, <1>2, <1>3

-----------------------------------------------------------------------------
(* The steps around the node.                                              *)

\* What another thread does changes nothing, unless it is the failures.
LEMMA SameKeeps ==
    ASSUME NEW t \in Threads, CountOK, Same(t), UNCHANGED <<planFile, crashes>>,
           failures' \in {failures, failures + 1}, ThreadInv(t), PlanInv(t)
    PROVE  ThreadInv(t)' /\ PlanInv(t)'
  <1>1. ThreadInv(t)'
    BY DEF ThreadInv, Saved, Probed, Ended, Same
  <1>2. failures' = 0 => failures = 0
    BY DEF CountOK
  <1>3. Follows(t)' /\ Settled(t)' /\ EndsAsShown(t)'
    BY <1>2 DEF PlanInv, Follows, Settled, EndsAsShown, Same
  <1> QED  BY <1>1, <1>3 DEF PlanInv

\* The invocations that begin.
LEMMA EnterIs ==
    ASSUME NEW t \in Threads, NEW heard
    PROVE  /\ Enter(t, heard).pc = "client" /\ Enter(t, heard).at = 0
           /\ Enter(t, heard).heard = heard /\ Enter(t, heard).jobs = meta[t].jobs
           /\ Enter(t, heard).found = meta[t].found
           /\ Idle.pc = "idle" /\ [Idle EXCEPT !.pc = "handoff", !.run = meta[t].run].pc = "handoff"
  BY DEF Enter, Idle

\* The node asks: what the replies have led to is what is shown.
LEMMA PauseKeeps ==
    ASSUME ChatTypes, NEW t \in Threads, ThreadInv(t), PlanInv(t), NEW step \in Steps, Asks(t, step)
    PROVE  ThreadInv(t)' /\ PlanInv(t)'
  <1> DEFINE n == node[t]
  <1>0. /\ Saved(t) /\ Probed(t) /\ Follows(t)
        /\ n.at \in Nat /\ n.heard \in Seq(Reply) /\ Len(n.heard) \in Nat /\ n.at <= Len(n.heard)
        /\ failures' = failures /\ planFile' = planFile /\ crashes' = crashes /\ UNCHANGED <<meta, probes>>
    BY NodeIs, Zenon DEF ThreadInv, PlanInv, Asks
  <1>1. /\ n.pc = step /\ n.at = Len(n.heard) /\ node'[t] = Idle
        /\ tape'[t] = n.heard /\ shown'[t] = (IF step = "scope" THEN n.jobs ELSE shown[t])
        /\ quiet'[t] = (step = "scope" /\ n.fresh)
        /\ cp'[t] = [NoCp EXCEPT !.state = "paused", !.step = step]
    BY <1>0 DEF Asks, Answered, ChatTypes, NodeOK, DiskOK, SeenOK
  <1>2. cp'[t].state = "paused" /\ cp'[t].step = step /\ node'[t].pc = "idle"
    <2> DEFINE pause == [NoCp EXCEPT !.state = "paused", !.step = step]
    <2>1. pause.state = "paused" /\ pause.step = step
      BY PauseIs
    <2>2. Idle.pc = "idle"
      BY DEF Idle
    <2>3. cp'[t] = pause
      BY <1>1
    <2> HIDE DEF pause
    <2> QED  BY <1>1, <2>1, <2>2, <2>3
  <1>3. ThreadInv(t)'
    BY <1>0, <1>1, <1>2 DEF ThreadInv, Saved, Probed, Ended, Steps
  <1>4. Follows(t)' /\ EndsAsShown(t)'
    BY <1>2 DEF Follows, Way, EndsAsShown
  <1>5. Settled(t)'
    <2> SUFFICES ASSUME step = "scope", n.fresh, failures = 0
                 PROVE  meta[t].found /\ Leads(n.heard, n.jobs, node'[t], meta[t].jobs, planFile)
      BY <1>0, <1>1, <1>2 DEF Settled
    <2>1. Way(n, planFile)
      BY <1>0 DEF Follows
    <2>2. PICK a \in 1 .. n.at, b \in 1 .. n.at :
             Reached(n.heard, a, b) /\ LedTo(planFile, n.heard, b, n.at, n.jobs)
      BY <1>1, <2>1 DEF Way
    <2>3. meta[t].found /\ n.jobs = meta[t].jobs
      BY <1>0, <1>1 DEF Saved
    <2>4. \E P \in [b .. Len(n.heard) -> SUBSET Jobs] :
             Trace(planFile, P, n.heard, b, Len(n.heard)) /\ P[Len(n.heard)] = n.jobs
      BY <1>1, <2>2, Zenon DEF LedTo
    <2>5. a \in 1 .. Len(n.heard) /\ b \in 1 .. Len(n.heard)
      BY <1>1, <2>2, Zenon
    <2> QED  BY <1>2, <2>2, <2>3, <2>4, <2>5, Zenon DEF Leads
  <1> QED  BY <1>3, <1>4, <1>5 DEF PlanInv

\* The turn is done again.
LEMMA RetryKeeps ==
    ASSUME ChatTypes, NEW t \in Threads, ThreadInv(t), Retry(t)
    PROVE  ThreadInv(t)' /\ PlanInv(t)'
  <1>1. PICK step \in Steps :
           /\ node[t].pc = step /\ failures' = failures + 1
           /\ cp' = [cp EXCEPT ![t] = [NoCp EXCEPT !.state = "paused", !.step = step]]
           /\ node' = [node EXCEPT ![t] = Enter(t, Append(node[t].heard, node[t].heard[Len(node[t].heard)]))]
           /\ UNCHANGED <<meta, crashes, probes>>
    BY Zenon DEF Retry, NotUnderstood, history
  <1>2. /\ cp'[t] = [NoCp EXCEPT !.state = "paused", !.step = step]
        /\ node'[t] = Enter(t, Append(node[t].heard, node[t].heard[Len(node[t].heard)]))
    BY <1>1 DEF ChatTypes, DiskOK, NodeOK
  <1>3. /\ cp'[t].state = "paused" /\ node'[t].pc = "client"
        /\ node'[t].found = meta[t].found /\ node'[t].jobs = meta[t].jobs
    <2> DEFINE again == Append(node[t].heard, node[t].heard[Len(node[t].heard)])
    <2>1. cp'[t].state = "paused"
      BY <1>2, PauseIs
    <2>2. node'[t] = Enter(t, again)
      BY <1>2
    <2> HIDE DEF again
    <2> QED  BY <2>1, <2>2, EnterIs
  <1>4. ThreadInv(t)'
    BY <1>1, <1>3 DEF ThreadInv, Saved, Probed, Ended, Steps
  <1>5. failures' # 0
    BY <1>1 DEF ChatTypes, CountOK
  <1> QED  BY <1>4, <1>5 DEF PlanInv, Follows, Settled, EndsAsShown

\* A thread that has ended goes on to its audit, or stops.
LEMMA EndKeeps ==
    ASSUME ChatTypes, NEW t \in Threads, ThreadInv(t), PlanInv(t), node[t].pc = "handoff",
           node' = [node EXCEPT ![t] = Idle],
           UNCHANGED <<meta, cp, planFile, history, failures, crashes>>
    PROVE  ThreadInv(t)' /\ PlanInv(t)'
  <1>1. node'[t] = Idle
    BY DEF ChatTypes, NodeOK
  <1>2. node'[t].pc = "idle" /\ cp'[t].state = "ended" /\ cp' = cp
    BY <1>1, EnterIs DEF ThreadInv, Ended
  <1>3. UNCHANGED <<meta, shown, quiet, probes, failures, crashes, planFile>>
    BY DEF history
  <1>4. ThreadInv(t)'
    BY <1>2, <1>3 DEF ThreadInv, Saved, Probed, Ended
  <1>5. Follows(t)' /\ Settled(t)' /\ EndsAsShown(t)'
    BY <1>2, <1>3 DEF PlanInv, Follows, Way, Settled, EndsAsShown
  <1> QED  BY <1>4, <1>5 DEF PlanInv

\* A new thread.
LEMMA BeginKeeps ==
    ASSUME ChatTypes, NEW t \in Threads, ThreadInv(t), PlanInv(t), Begins(t)
    PROVE  ThreadInv(t)' /\ PlanInv(t)'
  <1>1. /\ node'[t] = Enter(t, <<>>) /\ cp[t].state = "none" /\ node[t].pc = "idle"
        /\ UNCHANGED <<meta, cp, tape, planFile, shown, quiet, probes, failures, crashes>>
    BY DEF Begins, history, ChatTypes, NodeOK
  <1>2. /\ node'[t].pc = "client" /\ node'[t].at = 0
        /\ node'[t].found = meta[t].found /\ node'[t].jobs = meta[t].jobs
    BY <1>1, EnterIs
  <1>3. ThreadInv(t)'
    BY <1>1, <1>2 DEF ThreadInv, Saved, Probed, Ended
  <1>4. Follows(t)'
    BY <1>2 DEF Follows, Way
  <1>5. Settled(t)' /\ EndsAsShown(t)'
    BY <1>1 DEF ThreadInv, Ended, Settled, EndsAsShown
  <1> QED  BY <1>3, <1>4, <1>5 DEF PlanInv

\* An answer to the question that is open.
LEMMA ResumeKeeps ==
    ASSUME ChatTypes, NEW t \in Threads, ThreadInv(t), PlanInv(t),
           NEW r \in Reply, r.asked = cp[t].step, Resumes(t, r)
    PROVE  ThreadInv(t)' /\ PlanInv(t)'
  <1>0. /\ node[t].pc = "idle" /\ cp[t].state # "none"
        /\ UNCHANGED <<meta, cp, tape, planFile, shown, quiet, probes, failures, crashes>>
        /\ node'[t] = IF cp[t].state = "ended" THEN [Idle EXCEPT !.pc = "handoff", !.run = meta[t].run]
                      ELSE Enter(t, Append(tape[t], r))
    BY DEF Resumes, history, ChatTypes, NodeOK
  <1>1. CASE cp[t].state = "ended"
    <2>1. node'[t].pc = "handoff"
      BY <1>0, <1>1, EnterIs, Zenon
    <2>2. ThreadInv(t)'
      BY <1>0, <1>1, <2>1 DEF ThreadInv, Saved, Probed, Ended
    <2>3. Follows(t)' /\ Settled(t)' /\ EndsAsShown(t)'
      BY <1>0, <1>1, <2>1 DEF PlanInv, Follows, Way, Settled, EndsAsShown
    <2> QED  BY <2>2, <2>3 DEF PlanInv
  <1>2. CASE cp[t].state # "ended"
    <2> DEFINE m == node'[t]
    <2>1. /\ m.pc = "client" /\ m.at = 0 /\ m.heard = Append(tape[t], r)
          /\ m.found = meta[t].found /\ m.jobs = meta[t].jobs
      <3> DEFINE all == Append(tape[t], r)
      <3>1. m = Enter(t, all)
        BY <1>0, <1>2
      <3> HIDE DEF all, m
      <3>2. /\ m.pc = "client" /\ m.at = 0 /\ m.heard = all
            /\ m.found = meta[t].found /\ m.jobs = meta[t].jobs
        BY <3>1, EnterIs
      <3> QED  BY <3>2 DEF all
    <2>2. ThreadInv(t)'
      BY <1>0, <1>2, <2>1 DEF ThreadInv, Saved, Probed, Ended
    <2>3. Follows(t)' /\ EndsAsShown(t)'
      BY <1>0, <1>2, <2>1 DEF Follows, Way, EndsAsShown
    <2>4. Settled(t)'
      <3> SUFFICES ASSUME quiet[t], failures = 0, cp[t].state = "paused"
                   PROVE  /\ cp[t].step = "scope" /\ meta[t].found
                          /\ Leads(tape[t], shown[t], m, meta[t].jobs, planFile)
        BY <1>0 DEF Settled
      <3>1. /\ cp[t].step = "scope" /\ meta[t].found
            /\ Leads(tape[t], shown[t], node[t], meta[t].jobs, planFile)
        BY DEF PlanInv, Settled
      <3>2. PICK a \in 1 .. Len(tape[t]), b \in 1 .. Len(tape[t]) :
               /\ Reached(tape[t], a, b) /\ meta[t].jobs = shown[t]
               /\ \E P \in [b .. Len(tape[t]) -> SUBSET Jobs] :
                    Trace(planFile, P, tape[t], b, Len(tape[t])) /\ P[Len(tape[t])] = shown[t]
        BY <3>1, <1>0, Zenon DEF Leads
      <3> HIDE DEF m
      <3>3. 0 < a
        BY <3>2
      <3>4. ASSUME NEW P PROVE Replays(m, tape[t], shown[t], planFile, a, b, P)
        BY <2>1, <3>1, <3>2, <3>3 DEF Replays
      <3>5. m.pc # "idle"
        BY <2>1
      <3>6. Leads(tape[t], shown[t], m, meta[t].jobs, planFile)
        BY <3>2, <3>4, <3>5, Zenon DEF Leads
      <3> QED  BY <3>1, <3>6
    <2> QED  BY <2>2, <2>3, <2>4 DEF PlanInv
  <1> QED  BY <1>1, <1>2

-----------------------------------------------------------------------------
(* All steps.                                                              *)

\* It is enough to look at the thread of a step.
LEMMA OneThread ==
    ASSUME ChatInv, NEW t \in Threads, ChatTypes', RunsDiffer', Frame(t), ThreadInv(t)', PlanInv(t)',
           ConfirmedIsShown'
    PROVE  ChatInv'
  <1>1. ASSUME NEW u \in Threads PROVE ThreadInv(u)' /\ PlanInv(u)'
    <2>1. CASE u = t
      BY <2>1
    <2>2. CASE u # t
      <3>1. Same(u) /\ UNCHANGED <<planFile, crashes>> /\ failures' \in {failures, failures + 1}
        BY <2>2 DEF Frame
      <3>2. CountOK /\ ThreadInv(u) /\ PlanInv(u)
        BY DEF ChatInv, ChatTypes
      <3> QED  BY <3>1, <3>2, SameKeeps, Zenon
    <2> QED  BY <2>1, <2>2
  <1> QED  BY <1>1 DEF ChatInv

\* Nothing happens to an intake.
LEMMA NoIntake ==
    ASSUME ChatInv, UNCHANGED intakeVars, RouteOK'
    PROVE  ChatInv'
  <1>1. /\ ChatTypes /\ RunsDiffer /\ ConfirmedIsShown
        /\ \A t \in Threads : ThreadInv(t) /\ PlanInv(t)
    BY DEF ChatInv
  <1>2. NodeOK' /\ RunsOK' /\ DiskOK' /\ SeenOK' /\ CountOK'
    BY <1>1 DEF ChatTypes, NodeOK, RunsOK, DiskOK, SeenOK, CountOK, intakeVars
  <1>3. RunsDiffer' /\ ConfirmedIsShown'
    BY <1>1 DEF RunsDiffer, ConfirmedIsShown, intakeVars
  <1>4. ASSUME NEW t \in Threads PROVE ThreadInv(t)' /\ PlanInv(t)'
    <2>1. Same(t) /\ UNCHANGED <<planFile, crashes>> /\ failures' \in {failures, failures + 1} /\ CountOK
      BY <1>1 DEF Same, intakeVars, ChatTypes
    <2> QED  BY <1>1, <2>1, SameKeeps, Zenon
  <1> QED  BY <1>2, <1>3, <1>4 DEF ChatInv, ChatTypes

\* A step that hands nothing over.
LEMMA HandsNone == ConfirmedIsShown /\ UNCHANGED handed => ConfirmedIsShown'
  BY DEF ConfirmedIsShown

\* What is handed over was shown and confirmed.
LEMMA HandsShown ==
    ASSUME ChatInv, NEW t \in Threads, HandOff(t)
    PROVE  ConfirmedIsShown'
  <1>1. /\ ThreadInv(t) /\ PlanInv(t) /\ ConfirmedIsShown
    BY DEF ChatInv
  <1>2. node[t].pc = "handoff"
    BY DEF HandOff
  <1>3. cp[t].state = "ended"
    BY <1>1, <1>2 DEF ThreadInv, Ended
  <1>4. quiet[t] /\ failures = 0 => cp[t].selected = shown[t] /\ cp[t].by = "scope"
    BY <1>1, <1>3 DEF PlanInv, EndsAsShown
  <1> DEFINE h == [thread |-> t, run |-> node[t].run, jobs |-> cp[t].selected,
                   shown |-> shown[t], quiet |-> quiet[t] /\ failures = 0, by |-> cp[t].by]
  <1>5. handed' = handed \cup {h}
    BY Zenon DEF HandOff
  <1>6. /\ h.quiet = (quiet[t] /\ failures = 0) /\ h.jobs = cp[t].selected
        /\ h.shown = shown[t] /\ h.by = cp[t].by
    OBVIOUS
  <1> HIDE DEF h
  <1> QED  BY <1>1, <1>4, <1>5, <1>6 DEF ConfirmedIsShown

\* The invocation of a thread goes on.
LEMMA WorksKeeps ==
    ASSUME ChatInv, NEW t \in Threads, Works(t)
    PROVE  ChatInv'
  <1>0. ChatTypes /\ RunsDiffer /\ ThreadInv(t) /\ PlanInv(t) /\ ConfirmedIsShown
    BY DEF ChatInv
  <1>1. CASE NodeStep(t) /\ UNCHANGED routeVars
    <2>1. ChatTypes' /\ RunsDiffer' /\ Frame(t)
      BY <1>0, <1>1, NodeFrame, Zenon
    <2>2. ThreadInv(t)' /\ PlanInv(t)'
      BY <1>0, <1>1, NodeSaves, NodePlans, Zenon
    <2>3. UNCHANGED handed
      BY <1>1 DEF NodeStep, Client, Bind, Start, Store, Access, Discover, Save, LoadPlan, Scope, Finish
    <2> QED  BY <1>0, <2>1, <2>2, <2>3, HandsNone, OneThread, Zenon
  <1>2. CASE Pause(t)
    <2>1. ChatTypes' /\ RunsDiffer' /\ Frame(t)
      BY <1>0, <1>2, TurnFrame, Zenon
    <2>2. PICK step \in Steps : Asks(t, step)
      BY <1>2, Zenon DEF Pause
    <2>3. ThreadInv(t)' /\ PlanInv(t)' /\ UNCHANGED handed
      BY <1>0, <2>2, PauseKeeps, Zenon DEF Asks
    <2> QED  BY <1>0, <2>1, <2>3, HandsNone, OneThread, Zenon
  <1>3. CASE Retry(t)
    <2>1. ChatTypes' /\ RunsDiffer' /\ Frame(t)
      BY <1>0, <1>3, TurnFrame, Zenon
    <2>2. ThreadInv(t)' /\ PlanInv(t)' /\ UNCHANGED handed
      BY <1>0, <1>3, RetryKeeps, Zenon DEF Retry
    <2> QED  BY <1>0, <2>1, <2>2, HandsNone, OneThread, Zenon
  <1>4. CASE GoesOn(t)
    <2>1. ChatTypes' /\ RunsDiffer' /\ Frame(t)
      BY <1>0, <1>4, TurnFrame, Zenon
    <2>2. ThreadInv(t)' /\ PlanInv(t)'
      BY <1>0, <1>4, EndKeeps, Zenon DEF GoesOn, HandOff, Rejected
    <2>3. ConfirmedIsShown'
      BY <1>0, <1>4, HandsNone, HandsShown, Zenon DEF GoesOn, Rejected
    <2> QED  BY <2>1, <2>2, <2>3, OneThread, Zenon
  <1>5. CASE Stops(t)
    <2>1. ChatTypes' /\ RunsDiffer' /\ Frame(t)
      BY <1>0, <1>5, TurnFrame, Zenon
    <2>2. ThreadInv(t)' /\ PlanInv(t)' /\ UNCHANGED handed
      BY <1>0, <1>5, EndKeeps, Zenon DEF Stops, NoPlan
    <2> QED  BY <1>0, <2>1, <2>2, HandsNone, OneThread, Zenon
  <1> QED  BY <1>1, <1>2, <1>3, <1>4, <1>5, Zenon DEF Works

\* A chat starts an intake or answers one.
LEMMA MessageKeeps ==
    ASSUME ChatInv, NEW c \in Chats,
           \/ \E t \in Threads : Kickoff(c, t)
           \/ \E full \in BOOLEAN : Answer(c, full)
    PROVE  ChatInv'
  <1>0. /\ ChatTypes /\ RunsDiffer /\ RouteOK /\ ConfirmedIsShown
        /\ \A t \in Threads : ThreadInv(t) /\ PlanInv(t)
    BY DEF ChatInv, ChatTypes
  <1>1. CASE \E t \in Threads : Kickoff(c, t)
    <2>1. PICK t \in Threads : Kickoff(c, t)
      BY <1>1
    <2>2. RouteOK'
      BY <1>0, <2>1 DEF Kickoff, RouteOK, NoPointer
    <2>3. Begins(t) /\ UNCHANGED handed
      BY <2>1 DEF Kickoff, Begins
    <2>4. ChatTypes' /\ RunsDiffer' /\ Frame(t)
      BY <1>0, <2>2, <2>3, MessageFrame, Zenon
    <2>5. ThreadInv(t)' /\ PlanInv(t)'
      BY <1>0, <2>3, BeginKeeps, Zenon
    <2> QED  BY <1>0, <2>3, <2>4, <2>5, HandsNone, OneThread, Zenon
  <1>2. CASE \E full \in BOOLEAN : Answer(c, full)
    <2>1. PICK full \in BOOLEAN : Answer(c, full)
      BY <1>2
    <2>2. PICK t : /\ t = Target(c, full).thread /\ t # None
                   /\ \E r \in Sensible(cp[t].step) : Resumes(t, r)
                   /\ asking' = [asking EXCEPT ![t] = c] /\ UNCHANGED <<marker, pointer>>
      BY <2>1, Zenon DEF Answer
    <2>3. t \in Threads
      BY <1>0, <2>2 DEF Target, RouteOK
    <2>4. RouteOK'
      BY <1>0, <2>2, <2>3 DEF RouteOK
    <2>5. PICK r \in Sensible(cp[t].step) : Resumes(t, r)
      BY <2>2, Zenon
    <2>6. r \in Reply /\ r.asked = cp[t].step
      <3>1. cp[t].step \in Steps
        BY <1>0, <2>3 DEF ChatTypes, DiskOK, Checkpoint
      <3> QED  BY <3>1, <2>5, SensibleReply
    <2>7. ChatTypes' /\ RunsDiffer' /\ Frame(t)
      BY <1>0, <2>3, <2>4, <2>5, <2>6, MessageFrame, Zenon
    <2>8. ThreadInv(t)' /\ PlanInv(t)' /\ UNCHANGED handed
      BY <1>0, <2>3, <2>5, <2>6, ResumeKeeps, Zenon DEF Resumes
    <2> QED  BY <1>0, <2>3, <2>7, <2>8, HandsNone, OneThread, Zenon
  <1> QED  BY <1>1, <1>2

\* PLAN.md changes: no prompt counts any longer, no invocation has a straight way.
LEMMA EditKeeps ==
    ASSUME ChatInv, Edit, UNCHANGED routeVars
    PROVE  ChatInv'
  <1>0. /\ ChatTypes /\ RunsDiffer /\ ConfirmedIsShown
        /\ \A t \in Threads : ThreadInv(t) /\ PlanInv(t)
    BY DEF ChatInv
  <1>1. /\ planFile' \in SUBSET Jobs /\ edits' = edits + 1
        /\ \A t \in Threads : quiet'[t] = FALSE
        /\ quiet' \in [Threads -> BOOLEAN]
        /\ UNCHANGED <<runs, meta, tape, cp, handed, shown, probes, failures, crashes>>
    BY DEF Edit
  <1>2. ASSUME NEW t \in Threads
        PROVE  \/ node[t].pc = "idle" /\ node'[t] = node[t]
               \/ node[t].pc # "idle" /\ node'[t] = [node[t] EXCEPT !.fresh = FALSE]
    BY <1>2 DEF Edit
  <1>3. ASSUME NEW t \in Threads
        PROVE  /\ Fits(node'[t]) /\ node'[t].pc = node[t].pc /\ node'[t].jobs = node[t].jobs
               /\ node'[t].found = node[t].found
               /\ node'[t].pc = "idle" \/ node'[t].fresh = FALSE
    <2>1. node[t] \in Invocation /\ Fits(node[t])
      BY <1>0, NodeIs DEF Fits
    <2>2. CASE node[t].pc = "idle" /\ node'[t] = node[t]
      BY <2>1, <2>2
    <2>3. CASE node'[t] = [node[t] EXCEPT !.fresh = FALSE]
      <3>1. node'[t] \in Invocation
        BY <2>1, <2>3, OneField, FALSE \in BOOLEAN, Zenon
      <3>2. /\ node'[t].pc = node[t].pc /\ node'[t].jobs = node[t].jobs
            /\ node'[t].found = node[t].found /\ node'[t].fresh = FALSE
            /\ node'[t].at = node[t].at /\ node'[t].heard = node[t].heard
        BY <2>1, <2>3 DEF Invocation
      <3> QED  BY <2>1, <3>1, <3>2 DEF Fits
    <2> QED  BY <1>2, <2>2, <2>3
  <1>4. NodeOK'
    <2>1. node' = [t \in Threads |-> node'[t]]
      BY DEF Edit
    <2> QED  BY <1>3, <2>1 DEF NodeOK, Fits
  <1>5. ChatTypes' /\ RunsDiffer' /\ ConfirmedIsShown'
    BY <1>0, <1>1, <1>4 DEF ChatTypes, RunsOK, DiskOK, SeenOK, CountOK, RouteOK, routeVars,
                            RunsDiffer, ConfirmedIsShown
  <1>6. ASSUME NEW t \in Threads PROVE ThreadInv(t)' /\ PlanInv(t)'
    <2>1. ThreadInv(t)'
      BY <1>0, <1>1, <1>3, <1>6 DEF ThreadInv, Saved, Probed, Ended
    <2>2. Follows(t)'
      BY <1>3, <1>6 DEF Follows, Way
    <2>3. Settled(t)' /\ EndsAsShown(t)'
      BY <1>1, <1>6 DEF Settled, EndsAsShown
    <2> QED  BY <2>1, <2>2, <2>3 DEF PlanInv
  <1> QED  BY <1>5, <1>6 DEF ChatInv

\* A turn that began an intake is done again: another begins, a call has failed.
LEMMA AgainKeeps ==
    ASSUME ChatInv, NEW t \in Threads, NEW u \in Threads, BeginsAgain(t, u)
    PROVE  ChatInv'
  <1>0. /\ ChatTypes /\ RunsDiffer /\ ConfirmedIsShown
        /\ \A v \in Threads : ThreadInv(v) /\ PlanInv(v)
    BY DEF ChatInv
  <1> DEFINE m == Enter(u, <<>>)
             p == [NoCp EXCEPT !.state = "paused"]
  <1>1. /\ node[t].pc = "client" /\ node[u].pc = "idle" /\ cp[u].state = "none"
        /\ failures' = failures + 1 /\ cp' \in {cp, [cp EXCEPT ![t] = p]}
        /\ node' = [node EXCEPT ![t] = Idle, ![u] = m]
        /\ asking' = [asking EXCEPT ![t] = None, ![u] = asking[t]] /\ pointer' = NoPointer
        /\ UNCHANGED <<runs, meta, tape, planFile, handed, crashes, edits, shown, quiet, probes, marker>>
    BY Zenon DEF BeginsAgain, NotUnderstood, history
  <1>2. /\ Fits(Idle) /\ Fits(m) /\ Idle.pc = "idle" /\ m.pc = "client"
        /\ m.found = meta[u].found /\ m.jobs = meta[u].jobs
    <2>1. Fits(Idle) /\ Fits(m)
      <3>1. <<>> \in Seq(Reply)
        OBVIOUS
      <3> QED  BY <1>0, <3>1, IdleFits, Zenon
    <2>2. Idle.pc = "idle"
      BY DEF Idle
    <2>3. m.pc = "client" /\ m.found = meta[u].found /\ m.jobs = meta[u].jobs
      BY EnterIs
    <2> QED  BY <2>1, <2>2, <2>3
  <1>3. p \in Checkpoint /\ p.state = "paused"
    BY DEF NoCp, Checkpoint, Steps
  <1> HIDE DEF m, p
  <1>4. /\ node'[t] = Idle /\ node'[u] = m /\ \A v \in Threads \ {t, u} : node'[v] = node[v]
        /\ node' = [v \in Threads |-> node'[v]]
    BY <1>0, <1>1 DEF ChatTypes, NodeOK
  <1>5. /\ \A v \in Threads \ {t} : cp'[v] = cp[v]
        /\ cp'[t] = cp[t] \/ cp'[t] = p
        /\ cp' \in [Threads -> Checkpoint]
    BY <1>0, <1>1, <1>3 DEF ChatTypes, DiskOK
  <1>6. NodeOK'
    <2>1. \A v \in Threads : Fits(node'[v])
      BY <1>0, <1>2, <1>4 DEF ChatTypes, NodeOK, Fits
    <2> QED  BY <1>4, <2>1 DEF NodeOK, Fits
  <1>7. RunsOK' /\ DiskOK' /\ SeenOK' /\ CountOK' /\ RunsDiffer' /\ ConfirmedIsShown'
    BY <1>0, <1>1, <1>5 DEF ChatTypes, RunsOK, DiskOK, SeenOK, CountOK, RunsDiffer, ConfirmedIsShown
  <1>8. RouteOK'
    BY <1>0, <1>1 DEF ChatTypes, RouteOK, NoPointer
  <1>9. failures' # 0
    BY <1>0, <1>1 DEF ChatTypes, CountOK
  <1>10. ASSUME NEW v \in Threads PROVE ThreadInv(v)' /\ PlanInv(v)'
    <2>1. PlanInv(v)'
      BY <1>9 DEF PlanInv, Follows, Settled, EndsAsShown
    <2>2. /\ ThreadInv(v) /\ UNCHANGED <<meta, quiet, probes, crashes>>
          /\ cp'[v] = cp[v] \/ (v = t /\ cp'[v].state = "paused")
      <3>1. ThreadInv(v) /\ UNCHANGED <<meta, quiet, probes, crashes>>
        BY <1>0, <1>1, <1>10
      <3>2. cp'[v] = cp[v] \/ (v = t /\ cp'[v].state = "paused")
        BY <1>3, <1>5, <1>10
      <3> QED  BY <3>1, <3>2
    <2>3. \/ node'[v] = node[v]
          \/ /\ node'[v].pc = "idle" /\ node[v].pc = "client"
          \/ /\ node'[v].pc = "client" /\ node'[v].found = meta[v].found
             /\ node'[v].jobs = meta[v].jobs /\ cp[v].state = "none" /\ node[v].pc = "idle"
      BY <1>1, <1>2, <1>4
    <2>4. Saved(v)'
      BY <2>2, <2>3 DEF ThreadInv, Saved
    <2>5. Probed(v)'
      BY <2>2, <2>3 DEF ThreadInv, Probed
    <2>6. Ended(v)'
      BY <1>1, <2>2, <2>3 DEF ThreadInv, Ended
    <2> QED  BY <2>1, <2>4, <2>5, <2>6 DEF ThreadInv
  <1> QED  BY <1>6, <1>7, <1>8, <1>10 DEF ChatInv, ChatTypes

\* The process dies: nobody is in the node, no prompt counts, and one more discovery may
\* be done again.
LEMMA CrashKeeps ==
    ASSUME ChatInv, Crash
    PROVE  ChatInv'
  <1>0. /\ ChatTypes /\ RunsDiffer /\ ConfirmedIsShown
        /\ \A t \in Threads : ThreadInv(t) /\ PlanInv(t)
    BY DEF ChatInv
  <1>1. /\ crashes' = crashes + 1 /\ \A t \in Threads : node'[t] = Idle /\ quiet'[t] = FALSE
        /\ node' = [t \in Threads |-> Idle] /\ quiet' = [t \in Threads |-> FALSE]
        /\ asking' = [t \in Threads |-> None]
        /\ \/ UNCHANGED <<tape, cp>>
           \/ tape' = [t \in Threads |-> <<>>] /\ cp' = [t \in Threads |-> NoCp]
        /\ UNCHANGED <<runs, meta, planFile, handed, shown, probes, failures, edits, marker, pointer>>
    BY DEF Crash, Dies
  <1>2. /\ Idle \in Invocation /\ Idle.at <= Len(Idle.heard) /\ Idle.pc = "idle"
        /\ NoCp \in Checkpoint
    <2>1. Idle.at = 0 /\ Idle.heard = <<>> /\ Idle.pc = "idle"
      BY DEF Idle
    <2>2. NoCp \in Checkpoint
      BY DEF NoCp, Checkpoint, Steps
    <2>3. Idle \in Invocation
      BY DEF Idle, Invocation, Places, Steps
    <2> QED  BY <2>1, <2>2, <2>3
  <1>3. NodeOK'
    BY <1>1, <1>2 DEF NodeOK
  <1>4. DiskOK'
    <2>1. /\ meta \in [Threads -> Progress] /\ planFile \in SUBSET Jobs
          /\ tape \in [Threads -> Seq(Reply)] /\ cp \in [Threads -> Checkpoint]
      BY <1>0 DEF ChatTypes, DiskOK
    <2>2. CASE UNCHANGED <<tape, cp>>
      BY <1>1, <2>1, <2>2 DEF DiskOK
    <2>3. CASE tape' = [t \in Threads |-> <<>>] /\ cp' = [t \in Threads |-> NoCp]
      <3>1. <<>> \in Seq(Reply)
        OBVIOUS
      <3>2. tape' \in [Threads -> Seq(Reply)]
        BY <2>3, <3>1, Zenon
      <3>3. cp' \in [Threads -> Checkpoint]
        BY <1>2, <2>3
      <3> QED  BY <1>1, <2>1, <3>2, <3>3 DEF DiskOK
    <2> QED  BY <1>1, <2>2, <2>3
  <1>5. RunsOK' /\ SeenOK' /\ CountOK' /\ RouteOK' /\ RunsDiffer' /\ ConfirmedIsShown'
    BY <1>0, <1>1 DEF ChatTypes, RunsOK, SeenOK, CountOK, RouteOK, RunsDiffer, ConfirmedIsShown
  <1>6. ASSUME NEW t \in Threads PROVE ThreadInv(t)' /\ PlanInv(t)'
    <2>1. node'[t].pc = "idle" /\ quiet'[t] = FALSE /\ crashes' = crashes + 1 /\ UNCHANGED <<meta, probes>>
      BY <1>1, <1>2, <1>6
    <2>2. Probed(t)'
      <3>1. Probed(t) /\ crashes \in Nat /\ probes[t] \in Nat
        BY <1>0, <1>6 DEF ThreadInv, ChatTypes, CountOK, SeenOK
      <3> QED  BY <2>1, <3>1 DEF Probed
    <2>3. Saved(t)' /\ Ended(t)'
      BY <2>1 DEF Saved, Ended
    <2>4. Follows(t)' /\ Settled(t)' /\ EndsAsShown(t)'
      BY <2>1 DEF Follows, Way, Settled, EndsAsShown
    <2> QED  BY <2>2, <2>3, <2>4 DEF ThreadInv, PlanInv
  <1> QED  BY <1>3, <1>4, <1>5, <1>6 DEF ChatInv, ChatTypes

\* The invariant holds at the start.
LEMMA ChatStarts == ChatInit => ChatInv
  <1> SUFFICES ASSUME ChatInit PROVE ChatInv
    OBVIOUS
  <1> USE DEF ChatInit, IntakeInit
  <1>1. /\ Idle \in Invocation /\ Idle.at <= Len(Idle.heard) /\ Idle.pc = "idle"
        /\ NoCp \in Checkpoint /\ NoMeta \in Progress /\ NoCp.state = "none"
    <2>1. Idle.at = 0 /\ Idle.heard = <<>> /\ Idle.pc = "idle"
      BY DEF Idle
    <2>2. NoCp \in Checkpoint /\ NoMeta \in Progress /\ NoCp.state = "none"
      BY DEF NoCp, Checkpoint, Steps, NoMeta, Progress
    <2>3. Idle \in Invocation
      BY DEF Idle, Invocation, Places, Steps
    <2> QED  BY <2>1, <2>2, <2>3
  <1>2. NodeOK
    BY <1>1 DEF NodeOK
  <1>3. DiskOK
    BY <1>1 DEF DiskOK
  <1>4. RunsOK /\ SeenOK /\ CountOK /\ RouteOK /\ RunsDiffer /\ ConfirmedIsShown
    <2>1. RunsOK
      BY DEF RunsOK
    <2>2. SeenOK
      BY DEF SeenOK
    <2>3. CountOK /\ RouteOK
      BY DEF CountOK, RouteOK, NoPointer
    <2>4. RunsDiffer
      <3>1. DOMAIN runs = {}
        OBVIOUS
      <3> QED  BY <3>1 DEF RunsDiffer
    <2>5. ConfirmedIsShown
      BY DEF ConfirmedIsShown
    <2> QED  BY <2>1, <2>2, <2>3, <2>4, <2>5
  <1>5. ASSUME NEW t \in Threads PROVE ThreadInv(t) /\ PlanInv(t)
    <2>1. node[t].pc = "idle" /\ quiet[t] = FALSE /\ probes[t] = 0 /\ crashes = 0 /\ cp[t].state = "none"
      BY <1>1, <1>5
    <2>2. ThreadInv(t)
      BY <2>1 DEF ThreadInv, Saved, Probed, Ended
    <2>3. PlanInv(t)
      BY <2>1 DEF PlanInv, Follows, Way, Settled, EndsAsShown
    <2> QED  BY <2>2, <2>3
  <1> QED  BY <1>2, <1>3, <1>4, <1>5 DEF ChatInv, ChatTypes

\* And every step keeps it.
LEMMA ChatKeeps == ChatInv /\ [ChatNext]_chatVars => ChatInv'
  <1> SUFFICES ASSUME ChatInv, [ChatNext]_chatVars PROVE ChatInv'
    OBVIOUS
  <1>0. RouteOK
    BY DEF ChatInv, ChatTypes
  <1>1. CASE UNCHANGED chatVars
    <2>1. UNCHANGED intakeVars /\ RouteOK'
      BY <1>0, <1>1 DEF chatVars, routeVars, RouteOK
    <2> QED  BY <2>1, NoIntake, Zenon
  <1>2. CASE Ages
    <2>1. UNCHANGED intakeVars /\ RouteOK'
      BY <1>0, <1>2 DEF Ages, RouteOK, NoPointer
    <2> QED  BY <2>1, NoIntake, Zenon
  <1>3. ASSUME NEW c \in Chats, NEW full \in BOOLEAN, Expired(c, full) PROVE ChatInv'
    <2>1. UNCHANGED intakeVars /\ RouteOK'
      BY <1>0, <1>3 DEF Expired, RouteOK, NoPointer
    <2> QED  BY <2>1, NoIntake, Zenon
  <1>4. ASSUME NEW c \in Chats, Aside(c) PROVE ChatInv'
    BY <1>1, <1>4, Zenon DEF Aside
  <1>5. CASE Silence
    BY <1>1, <1>5, Zenon DEF Silence
  <1> QED  BY <1>1, <1>2, <1>3, <1>4, <1>5, MessageKeeps, WorksKeeps, EditKeeps, CrashKeeps,
           AgainKeeps, Zenon DEF ChatNext

-----------------------------------------------------------------------------
(* Theorems.                                                               *)

\* The invariant holds in every state.
LEMMA ChatAlways == ChatSpec => []ChatInv
  BY ChatStarts, ChatKeeps, PTL DEF ChatSpec

\* One run at most is of a thread, as a number of runs.
LEMMA RunsAreFew == ChatInv => OneRunPerIntake
  <1> SUFFICES ASSUME ChatInv, NEW t \in Threads PROVE Cardinality(RunsOf(t)) <= 1
    BY DEF OneRunPerIntake
  <1>1. CASE RunsOf(t) = {}
    BY <1>1, FS_EmptySet
  <1>2. CASE RunsOf(t) # {}
    <2>1. PICK r : r \in RunsOf(t)
      BY <1>2
    <2>2. RunsOf(t) = {r}
      BY <2>1 DEF RunsOf, ChatInv, RunsDiffer
    <2> QED  BY <2>2, FS_Singleton
  <1> QED  BY <1>1, <1>2

\* A crash apart, the hosts of an intake are discovered once.
LEMMA ProbesAreFew == ChatInv => DiscoveredOnce
  <1> SUFFICES ASSUME ChatInv, NEW t \in Threads PROVE probes[t] <= 1 + crashes
    BY DEF DiscoveredOnce
  <1>1. probes[t] \in Nat /\ crashes \in Nat /\ Probed(t)
    BY DEF ChatInv, ThreadInv, ChatTypes, SeenOK, CountOK
  <1> QED  BY <1>1 DEF Probed

\* find_run_by_base_thread and load_intake_progress: however often the node is replayed,
\* by whatever chat, and however often the process dies, an intake has one audit run.
THEOREM OneRunEach == ChatSpec => []OneRunPerIntake
  BY ChatAlways, RunsAreFew, PTL

\* discovery_complete: the replays do not probe the hosts again; every crash of the
\* process costs one more discovery at most.
THEOREM HostsDiscoveredOnce == ChatSpec => []DiscoveredOnce
  BY ChatAlways, ProbesAreFew, PTL

\* intake_gate, step 3: what goes to the runner is the plan of the last question, and it
\* was confirmed there, although the replay gives all replies to the plan again and starts
\* from the plan they have led to; unless the model failed, PLAN.md changed or the process
\* died in between.
THEOREM PlanConfirmed == ChatSpec => []ConfirmedIsShown
  <1>1. ChatInv => ConfirmedIsShown
    BY DEF ChatInv
  <1> QED  BY <1>1, ChatAlways, PTL
=============================================================================
