----------------------------- MODULE Migrations -----------------------------
(***************************************************************************)
(* Deployments: `alembic upgrade head` before the server starts (and       *)
(* `alembic downgrade` by hand) over a database that earlier programs have *)
(* filled.  alembic/env.py runs all revisions of one call in one           *)
(* transaction, so a refused statement or a killed container leaves the    *)
(* database as it was.  No program writes meanwhile: the first statement   *)
(* of an upgrade locks the tables until the commit.                        *)
(***************************************************************************)
EXTENDS Revisions

CONSTANTS
    Runs,       \* idempotency keys
    Decisions,  \* what the policy may decide
    MaxCalls    \* bound on the calls of alembic

VARIABLES
    revision,   \* alembic_version of the committed database; 0 without tables
    db,         \* the committed database
    txn,        \* the open transaction of a call of alembic, or None
    failed,     \* the statement that made the last call fail, or None
    calls       \* calls of alembic so far

vars == <<revision, db, txn, failed, calls>>

Outcomes == {"approved", "rejected"}
ASSUME NullIsNoOutcome == None \notin Outcomes

Rows(t) == IF t \in Tables(db) THEN db[t].rows ELSE Empty

Init ==
    /\ revision = 0 /\ db = Empty
    /\ txn = None /\ failed = None /\ calls = 0

-----------------------------------------------------------------------------
(***************************************************************************)
(* The program of the revision the database is at.  Only the one of Head   *)
(* is in the repository; the earlier ones are assumed to fill the columns  *)
(* their database has in the same way, and no other.                       *)
(***************************************************************************)
Given(row, columns) == [c \in columns |-> IF c \in DOMAIN row THEN row[c] ELSE None]

Body(row, history) ==
    LET fields == [c \in DOMAIN row \intersect {"policy_version", "review_status", "review_outcome"}
                      |-> row[c]]
    IN  IF "review_events" \in Tables(db) THEN Put(fields, "review_events", history) ELSE fields

(* The row of run k, its pack and its digest, written together. *)
Sealed(k, row, history) ==
    LET body == Body(row, history)
        pack == Given([body |-> body, sha256 |-> body], db["evidence_packs"].columns)
    IN  [db EXCEPT !["runs"].rows = Put(@, k, [row EXCEPT !.evidence_sha256 = body]),
                   !["evidence_packs"].rows = Put(@, k, pack)]

(* store_run: the row names no organization and no repository. *)
StoreRun(k, d) ==
    /\ txn = None /\ revision > 0 /\ k \notin DOMAIN Rows("runs")
    /\ db' = Sealed(k, Given([decision |-> d, policy_version |-> "1.0", schema_version |-> "1.0",
                              review_status |-> IF d = "review" THEN "pending" ELSE "not_required"],
                             db["runs"].columns), <<>>)
    /\ UNCHANGED <<revision, txn, failed, calls>>

(* review_run: a pending run is concluded, with an event once there are events. *)
ReviewRun(k, outcome) ==
    /\ txn = None /\ k \in DOMAIN Rows("runs")
    /\ "review_status" \in db["runs"].columns
    /\ Rows("runs")[k].review_status = "pending"
    /\ LET row == [Rows("runs")[k] EXCEPT !.review_status = outcome, !.review_outcome = outcome]
           new == Sealed(k, row, <<outcome>>)
       IN  db' = IF "review_events" \in Tables(db)
                 THEN [new EXCEPT !["review_events"].rows =
                          Put(@, k, Given([action |-> outcome], new["review_events"].columns))]
                 ELSE new
    /\ UNCHANGED <<revision, txn, failed, calls>>

-----------------------------------------------------------------------------
(***************************************************************************)
(* A call of alembic: one transaction, statement after statement.          *)
(***************************************************************************)
Begin(target) ==
    /\ txn = None /\ calls < MaxCalls /\ target # revision
    /\ txn' = [db |-> db, at |-> revision, done |-> 0, target |-> target]
    /\ failed' = None /\ calls' = calls + 1
    /\ UNCHANGED <<revision, db>>

(* alembic goes revision by revision: done statements of the one in hand are done. *)
Upwards == txn.target > txn.at
Statements == IF Upwards THEN Upgrade[txn.at + 1] ELSE Downgrade[txn.at]
Statement == Statements[txn.done + 1]

New(s) == IF s.op = "update" THEN Updated(txn.db, s.table, s.what) ELSE Effect(txn.db, s)

(* PostgreSQL runs a statement its tables, references and triggers allow. *)
Allowed(s) == /\ Possible(txn.db, s)
              /\ s.op = "update" => ~Touches(txn.db, New(s))

Executes == txn # None /\ txn.at # txn.target

Execute ==
    /\ Executes /\ Allowed(Statement)
    /\ txn' = IF txn.done + 1 < Len(Statements)
              THEN [txn EXCEPT !.db = New(Statement), !.done = @ + 1]
              ELSE [txn EXCEPT !.db = New(Statement), !.done = 0,
                               !.at = IF Upwards THEN @ + 1 ELSE @ - 1]
    /\ UNCHANGED <<revision, db, failed, calls>>

Refuse ==
    /\ Executes /\ ~Allowed(Statement)
    /\ txn' = None /\ failed' = Statement
    /\ UNCHANGED <<revision, db, calls>>

Commit ==
    /\ txn # None /\ txn.at = txn.target
    /\ db' = txn.db /\ revision' = txn.target /\ txn' = None
    /\ UNCHANGED <<failed, calls>>

Killed ==
    /\ txn # None
    /\ txn' = None
    /\ UNCHANGED <<revision, db, failed, calls>>

Next ==
    \/ \E k \in Runs, d \in Decisions : StoreRun(k, d)
    \/ \E k \in Runs, outcome \in Outcomes : ReviewRun(k, outcome)
    \/ \E target \in 0..LastRevision : Begin(target)
    \/ Execute \/ Refuse \/ Commit \/ Killed

Spec == Init /\ [][Next]_vars

-----------------------------------------------------------------------------
(***************************************************************************)
(* Properties.                                                             *)
(***************************************************************************)

(* Every pack carries the digest of its body, and from revision 3 on the   *)
(* row of its run names that digest, whatever upgrades and downgrades      *)
(* rewrote it: _sync_evidence_review_state and every client that kept a    *)
(* digest compare the two.  0002 rewrites packs alone; 0003 makes up for   *)
(* it, in either direction, because both are in one transaction.           *)
PackIsSealed ==
    \A k \in DOMAIN Rows("evidence_packs") :
        LET pack == Rows("evidence_packs")[k]
        IN  /\ pack.sha256 = pack.body
            /\ revision >= 3 => Rows("runs")[k].evidence_sha256 = pack.sha256

(* Row, pack and events of a run agree, as the program of the committed    *)
(* revision writes them, whatever 0002 to 0004 rewrote in either direction: *)
(* the pack has exactly the fields of the revision, they say what the row  *)
(* and the events say, and from revision 4 on the reviewed runs are those  *)
(* with an event of the same outcome, also for reviews older than the      *)
(* table of events (the backfill of 0004) or than a downgrade that dropped *)
(* it.                                                                     *)
RecordsAgree ==
    \A k \in DOMAIN Rows("runs") :
        LET row == Rows("runs")[k]
            history == IF k \in DOMAIN Rows("review_events")
                       THEN <<Rows("review_events")[k].action>> ELSE <<>>
        IN  /\ Rows("evidence_packs")[k].body = Body(row, history)
            /\ revision >= 4 =>
                   history = IF row.review_outcome = None THEN <<>> ELSE <<row.review_outcome>>

(* The parts of a database, and those that a statement brings. *)
Parts(t, columns, refers) ==
    {<<t, "table", t>>} \union {<<t, "column", c>> : c \in columns}
                       \union {<<t, "reference", r>> : r \in refers}
Structure(d) ==
    UNION {Parts(t, d[t].columns, d[t].refers) \union {x \in {<<t, "trigger", t>>} : d[t].guarded}
               : t \in Tables(d)}
Brings(s) ==
    CASE s.op = "create_table" -> Parts(s.table, s.columns, s.refers)
      [] s.op = "add_column" -> {<<s.table, "column", s.column>>}
      [] s.op = "create_foreign_key" -> {<<s.table, "reference", <<s.column, s.to>>>>}
      [] s.op = "create_trigger" -> {<<s.table, "trigger", s.table>>}
      [] OTHER -> {}
Brought(r) == UNION {UNION {Brings(Upgrade[n][i]) : i \in 1..Len(Upgrade[n])} : n \in 1..r}

(* The schema depends on the revision alone, not on the way to it: the     *)
(* parts are what the upgrades up to the revision brought, so each         *)
(* downgrade() undoes its upgrade(), tables, columns, references and       *)
(* triggers, and a later upgrade starts from what it expects.              *)
SchemaFollowsRevision == Structure(db) = Brought(revision)

(* No order of tables, references and rows stops a call of alembic in      *)
(* either direction; what stops one is a review event that 0006 updates    *)
(* and the trigger of 0005 protects.                                       *)
OnlyHistoryStopsACall ==
    failed # None => /\ failed = Update("review_events", "tenant")
                     /\ revision \in 3..5
                     /\ \E k \in DOMAIN Rows("runs") : Rows("runs")[k].review_outcome # None

(* No call of alembic, up or down, and no program that writes afterwards   *)
(* loses a run, its decision, its policy or a review that is concluded: a  *)
(* run goes only with its table, a field only with its column.             *)
Facts == {"decision", "policy_version", "review_status", "review_outcome"}
Keeps(old, new) ==
    \A k \in DOMAIN old :
        /\ k \in DOMAIN new
        /\ \A c \in Facts \intersect DOMAIN old[k] \intersect DOMAIN new[k] :
              old[k][c] \in {None, "pending"} \/ new[k][c] = old[k][c]
RunsAreKept == [][revision' # 0 => Keeps(Rows("runs"), Rows("runs")')]_vars

(* "seed default tenant so existing runs can be migrated" (0006): no       *)
(* upgrade of a database with runs is refused.                             *)
ExistingRunsCanBeMigrated == failed = None
=============================================================================
