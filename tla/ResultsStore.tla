---------------------------- MODULE ResultsStore ----------------------------
(***************************************************************************)
(* The results warehouse (results_store.py): one client's PostgreSQL       *)
(* database of audit sessions, host rows with aggregates and requirement   *)
(* cells.  Every write is one READ COMMITTED transaction: it first resolves *)
(* the session row (Call) and later upserts and commits (Commit), so two   *)
(* writers can resolve before either commits.  The row locks taken by the  *)
(* upserts serialise what follows, which Commit models as one step.  The   *)
(* *_safe wrappers swallow every error: a failed call only disappears.     *)
(*                                                                         *)
(* A finding is [id, n, asset, skip]: its result_id, the number of the     *)
(* finding.json write it comes from (its content), the asset that its      *)
(* logical key names and whether the operator skipped it since.  One       *)
(* framework per host is enough for the keys.                              *)
(***************************************************************************)
EXTENDS Naturals, FiniteSets, FiniteSetsExt

CONSTANTS Runs,        \* audit runs of the client
          Hosts,       \* (host, framework) pairs that a run assesses
          Reqs,        \* requirements of the checklist
          MaxSession   \* largest session number the bounded model allocates

VARIABLES sessions,    \* session number -> the run that owns it and its status
          rows,        \* session number, host -> host_results row
          cells,       \* session number, host, requirement -> requirement cell
          calls        \* transactions that have resolved and not committed

warehouse == <<sessions, rows, cells, calls>>

Numbers   == 1 .. MaxSession
Unowned   == "unowned"          \* a row from before audit_run_id existed
NoSession == [run |-> "none", status |-> "none"]
NoId      == <<"none", 0>>
NoFinding == [id |-> NoId, n |-> 0, asset |-> "none", skip |-> FALSE]
NoCell    == [run |-> "none", id |-> NoId, n |-> 0, asset |-> "none", skip |-> FALSE]
NoRow     == [source |-> "none", counts |-> [q \in Reqs |-> <<0, FALSE>>]]
Nothing   == [q \in Reqs |-> NoFinding]
Sources   == {"assess_start", "live", "refill", "finalize", "update_report"}

\* audit_sessions as it is created, or with one row of a legacy audit.
WarehouseInit(legacy) ==
    /\ sessions = [s \in Numbers |-> IF legacy /\ s = 1
                     THEN [run |-> Unowned, status |-> "interrupted"] ELSE NoSession]
    /\ rows  = [s \in Numbers |-> [h \in Hosts |-> NoRow]]
    /\ cells = [s \in Numbers |-> [h \in Hosts |-> [q \in Reqs |-> NoCell]]]
    /\ calls = {}

Taken    == {s \in Numbers : sessions[s] # NoSession}
OwnedBy(r) == {s \in Numbers : sessions[s].run = r}
NextNumber == IF Taken = {} THEN 1 ELSE Max(Taken) + 1

\* start_session: the run's own row, else the next number.
StartRow(r) ==
    IF OwnedBy(r) # {} THEN [how |-> "found",  num |-> Min(OwnedBy(r))]
                       ELSE [how |-> "insert", num |-> NextNumber]

\* Faulty: the number in meta.json is trusted before the owner is looked up.
ResolveByNumber(r, num) ==
    IF num # 0 /\ sessions[num] # NoSession
    THEN [how |-> "found", num |-> num] ELSE StartRow(r)

\* _resolve_session_row: by audit_run_id, else by the number in meta.json
\* when no other run owns that row (an unowned one is adopted), else a new row.
Resolve(r, num) ==
    IF OwnedBy(r) # {} \/ num = 0 \/ sessions[num] = NoSession THEN StartRow(r)
    ELSE IF sessions[num].run = Unowned THEN [how |-> "adopt", num |-> num]
    ELSE [how |-> "refuse", num |-> num]

-----------------------------------------------------------------------------
(* What the statements of one transaction do to the tables.                *)

SameKey(c, r, f) == c # NoCell /\ c.run = r /\ c.asset = f.asset
SameId(c, r, f)  == c # NoCell /\ c.run = r /\ c.id = f.id

\* existing_by_key and existing_by_id: the logical key is stored under another
\* result_id, or the result_id under another asset.  Ids are unlike each other
\* for each requirement of a run only, UUIDs always.
Duplicate(r, q, f) == \E s \in Numbers, h \in Hosts :
    LET c == cells[s][h][q]
    IN \/ SameKey(c, r, f) /\ c.id # f.id
       \/ SameId(c, r, f) /\ c.asset # f.asset

\* Faulty: the upsert replaces whatever the row holds.
UpsertOver(c, r, f) == IF f = NoFinding THEN c
                       ELSE [run |-> r, id |-> f.id, n |-> f.n, asset |-> f.asset, skip |-> f.skip]

\* _upsert_requirement_cell: ON CONFLICT (host_result_id, req_id) DO UPDATE
\* ... WHERE the row holds the same result_id: any other row stays as it is.
Upsert(c, r, f) == IF f = NoFinding \/ c.id \notin {NoId, f.id} THEN c
                   ELSE [run |-> r, id |-> f.id, n |-> f.n, asset |-> f.asset, skip |-> f.skip]

\* findings_to_compliance_metrics, as what it has counted for each requirement.
Counted(found) == [q \in Reqs |-> <<found[q].n, found[q].skip>>]

\* Faulty: the live write leaves the aggregates to the next one.
RefreshNot(row, line) == row.counts

\* _refresh_host_result_metrics: the aggregates recomputed from the cells.
Refresh(row, line) == Counted(line)

\* snapshot_framework_checklist: an empty row, or the row there is.
SnapshotRow(row) == [source |-> "assess_start", counts |-> row.counts]

\* upsert_requirement_result: cell, then aggregates of all cells of the row.
LiveRow(row, source, line) == [source |-> source, counts |-> Refresh(row, line)]

\* record_host_framework_audit: aggregates of the findings it was given.
RecordRow(source, found) == [source |-> source, counts |-> Counted(found)]

\* start_session and _resolve_session_row: UNIQUE (client_slug,
\* session_number) and UNIQUE (audit_run_id) make the later insert fail.
RowReady(c) == CASE c.how = "insert" -> sessions[c.num] = NoSession /\ OwnedBy(c.run) = {}
                 [] c.how \in {"found", "adopt"} -> sessions[c.num] # NoSession
                 [] c.how = "refuse" -> FALSE

\* No cell of the transaction meets another result_id for its logical key, or
\* another key for its result_id.
CellsAccepted(c) == \A q \in Reqs : c.found[q] # NoFinding => ~Duplicate(c.run, q, c.found[q])

\* The transaction commits only as a whole.
Commits(c) == RowReady(c) /\ (c.source # "start" => CellsAccepted(c))

SessionAfter(c) ==
    LET old == sessions[c.num]
    IN [run    |-> IF c.how \in {"insert", "adopt"} THEN c.run ELSE old.run,
        status |-> IF c.source \in {"finalize", "update_report"} THEN "completed"
                   ELSE IF c.how = "insert" THEN "running" ELSE old.status]

LineAfter(c) == [q \in Reqs |-> Upsert(cells[c.num][c.host][q], c.run, c.found[q])]

RowAfter(c) ==
    LET row == rows[c.num][c.host]
    IN CASE c.source = "assess_start" -> SnapshotRow(row)
         [] c.source \in {"live", "refill"} -> LiveRow(row, c.source, LineAfter(c))
         [] c.source \in {"finalize", "update_report"} -> RecordRow(c.source, c.found)

\* COMMIT of call c.
Apply(c) ==
    /\ sessions' = [sessions EXCEPT ![c.num] = SessionAfter(c)]
    /\ IF c.source = "start" THEN UNCHANGED <<rows, cells>>
       ELSE /\ rows'  = [rows  EXCEPT ![c.num][c.host] = RowAfter(c)]
            /\ cells' = [cells EXCEPT ![c.num][c.host] = LineAfter(c)]

\* connect, BEGIN and the SELECTs that resolve the session row.
Call(r, h, source, found, num) ==
    LET at == IF source = "start" THEN StartRow(r) ELSE Resolve(r, num)
    IN /\ at.num \in Numbers
       /\ calls' = calls \cup {[run |-> r, host |-> h, source |-> source,
                                found |-> found, how |-> at.how, num |-> at.num]}

Open(r, h, source) == {c \in calls : c.run = r /\ c.host = h /\ c.source = source}

\* update_session_status with a number read from meta.json: the row of that
\* number, whoever owns it.
SetStatus(num, status) ==
    sessions' = IF num = 0 \/ sessions[num] = NoSession THEN sessions
                ELSE [sessions EXCEPT ![num].status = status]

-----------------------------------------------------------------------------
(* What the list commands read.                                            *)

\* list_session_requirement_results, host aggregates: /list-results, /dashboard.
ListedCounts(s, h) == rows[s][h].counts

\* list_session_requirement_results, requirement cells.
ListedCells(s, h) == Counted(cells[s][h])

\* list_session_host_status: filled cells of the checklist of the row.
ListedReady(s, h) == {q \in Reqs : cells[s][h][q] # NoCell}

=============================================================================
