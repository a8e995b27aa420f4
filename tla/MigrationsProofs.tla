-------------------------- MODULE MigrationsProofs --------------------------
(***************************************************************************)
(* Proofs about Migrations for any runs, any policy and any number of      *)
(* calls of alembic.  First what the revisions do to packs, rows and       *)
(* events (DatabaseStands); then where each part of the schema comes from  *)
(* and what takes it away, and from that the schema of every revision      *)
(* (SchemaStands) and which statements are ever refused (CallsAreCalm);    *)
(* last, that no call and no program loses a run or what is settled about  *)
(* it (RunsKept).                                                          *)
(***************************************************************************)
EXTENDS Migrations, TLAPS

(* The columns that the properties look at, in the tables that have them. *)
Tracked == [runs |-> {"decision", "evidence_sha256", "policy_version", "review_status", "review_outcome"},
            evidence_packs |-> {"body", "sha256"},
            review_events |-> {"action"}]
LedgerTables == {"runs", "evidence_packs", "review_events"}

(* A row has a value in each column of its table, as far as they are tracked. *)
WellFormed(d) ==
    \A t \in LedgerTables \intersect Tables(d) :
        /\ {"columns", "refers", "guarded", "rows"} \subseteq DOMAIN d[t]
        /\ \A k \in DOMAIN d[t].rows :
              DOMAIN d[t].rows[k] \intersect Tracked[t] = d[t].columns \intersect Tracked[t]

History(d, k) ==
    IF "review_events" \in Tables(d) /\ k \in DOMAIN d["review_events"].rows
    THEN <<d["review_events"].rows[k].action>> ELSE <<>>

(* The body that has these fields of a run. *)
Says(fields, row, history) ==
    [f \in fields |-> IF f = "review_events" THEN history ELSE row[f]]

(* Every run has these tracked columns and one pack, which has these fields of it and
   carries its own digest. *)
Ledger(d, columns, fields) ==
    /\ WellFormed(d)
    /\ {"runs", "evidence_packs"} \subseteq Tables(d)
    /\ d["runs"].columns \intersect Tracked["runs"] = columns
    /\ {"body", "sha256"} \subseteq d["evidence_packs"].columns
    /\ DOMAIN d["evidence_packs"].rows = DOMAIN d["runs"].rows
    /\ \A k \in DOMAIN d["runs"].rows :
          LET row == d["runs"].rows[k]
              pack == d["evidence_packs"].rows[k]
          IN  /\ pack.body = Says(fields, row, History(d, k))
              /\ pack.sha256 = pack.body
              /\ "policy_version" \in columns => row.policy_version = "1.0"

RowsSealed(d) ==
    \A k \in DOMAIN d["runs"].rows :
        d["runs"].rows[k].evidence_sha256 = d["evidence_packs"].rows[k].sha256

(* The events are those of the reviewed runs. *)
EventsAgree(d) ==
    /\ "review_events" \in Tables(d)
    /\ "action" \in d["review_events"].columns
    /\ DOMAIN d["review_events"].rows \subseteq DOMAIN d["runs"].rows
    /\ \A k \in DOMAIN d["runs"].rows :
          LET outcome == d["runs"].rows[k].review_outcome
          IN  History(d, k) = IF outcome = None THEN <<>> ELSE <<outcome>>

(* What the program of revision n and the scripts of its neighbours rely on; nothing that
   the later revisions change is tracked. *)
Columns(n) == {"decision", "evidence_sha256"}
              \union {c \in {"policy_version"} : n >= 2}
              \union {c \in {"review_status", "review_outcome"} : n >= 3}
Fields(n) == {c \in {"policy_version"} : n >= 2}
             \union {c \in {"review_status", "review_outcome"} : n >= 3}
             \union {c \in {"review_events"} : n >= 4}

Standing(d, n) ==
    IF n = 0 THEN LedgerTables \intersect Tables(d) = {}
    ELSE /\ Ledger(d, Columns(n), Fields(n))
         /\ n >= 3 => RowsSealed(d)
         /\ IF n >= 4 THEN EventsAgree(d) ELSE "review_events" \notin Tables(d)

(* Between two statements of revision n, after done of them. *)
Partway(d, n, way, done) ==
    /\ n = 1 => /\ LedgerTables \intersect Tables(d) \subseteq {"runs"}
                /\ way = "up" => /\ WellFormed(d) /\ "runs" \in Tables(d)
                                /\ d["runs"].columns = Columns(1) /\ d["runs"].rows = Empty
    /\ n = 2 => Ledger(d, Columns(2), {}) /\ "review_events" \notin Tables(d)
    /\ n = 3 => /\ Ledger(d, IF done = (IF way = "up" THEN 1 ELSE 2) THEN Columns(3) \ {"review_outcome"}
                             ELSE Columns(3), {"policy_version"})
                /\ "review_events" \notin Tables(d)
    /\ n = 4 => /\ Ledger(d, Columns(3), Fields(3))
                /\ IF way = "up" /\ done = 2 THEN EventsAgree(d)
                   ELSE RowsSealed(d) /\ "review_events" \in Tables(d)
                /\ way = "up" /\ done = 1 => d["review_events"].columns = {"action"}
    /\ n >= 5 => Standing(d, n)

(* The statements of revision n, and what transaction t has in hand. *)
Scripts(n, way) == IF way = "up" THEN Upgrade[n] ELSE Downgrade[n]
Way(t) == IF t.target > t.at THEN "up" ELSE "down"
InHand(t) == IF t.target > t.at THEN t.at + 1 ELSE t.at

Stands(t) ==
    /\ {"db", "at", "done", "target"} \subseteq DOMAIN t
    /\ t.at \in 0..LastRevision /\ t.target \in 0..LastRevision /\ t.done \in Nat
    /\ IF t.done = 0 THEN Standing(t.db, t.at)
       ELSE /\ t.at # t.target /\ t.done < Len(Scripts(InHand(t), Way(t)))
            /\ Partway(t.db, InHand(t), Way(t), t.done)

(* The committed database stands where its revision says, and the open transaction where
   the statements it has done leave it. *)
Inductive ==
    /\ revision \in 0..LastRevision
    /\ Standing(db, revision)
    /\ txn # None => Stands(txn)

-----------------------------------------------------------------------------
(* Databases that differ in nothing tracked *)

(* e has the tracked rows and columns of d. *)
Unscathed(d, e) ==
    \A t \in LedgerTables :
        /\ t \in Tables(e) <=> t \in Tables(d)
        /\ t \in Tables(d) =>
              /\ DOMAIN e[t] = DOMAIN d[t]
              /\ e[t].columns \intersect Tracked[t] = d[t].columns \intersect Tracked[t]
              /\ DOMAIN e[t].rows = DOMAIN d[t].rows
              /\ \A k \in DOMAIN d[t].rows :
                    /\ DOMAIN e[t].rows[k] \intersect Tracked[t] = DOMAIN d[t].rows[k] \intersect Tracked[t]
                    /\ \A c \in Tracked[t] \intersect DOMAIN d[t].rows[k] :
                          e[t].rows[k][c] = d[t].rows[k][c]

LEMMA TrackedColumns ==
    /\ Tracked["runs"] = {"decision", "evidence_sha256", "policy_version", "review_status", "review_outcome"}
    /\ Tracked["evidence_packs"] = {"body", "sha256"}
    /\ Tracked["review_events"] = {"action"}
BY DEF Tracked

LEMMA EmptyIsEmpty == DOMAIN Empty = {}
BY DEF Empty

LEMMA SaysTheSame ==
    ASSUME NEW fields, NEW row, NEW other, NEW history,
           \A f \in fields \ {"review_events"} : other[f] = row[f]
    PROVE  Says(fields, other, history) = Says(fields, row, history)
BY DEF Says

LEMMA UnscathedHistory ==
    ASSUME NEW d, NEW e, Unscathed(d, e), WellFormed(d), NEW k,
           "review_events" \in Tables(d) => "action" \in d["review_events"].columns
    PROVE  History(e, k) = History(d, k)
<1>1. "review_events" \in LedgerTables BY DEF LedgerTables
<1>2. "review_events" \in Tables(e) <=> "review_events" \in Tables(d) BY <1>1 DEF Unscathed
<1>3. CASE "review_events" \notin Tables(d) BY <1>2, <1>3 DEF History
<1>4. CASE "review_events" \in Tables(d)
  <2>1. DOMAIN e["review_events"].rows = DOMAIN d["review_events"].rows
    BY <1>1, <1>4 DEF Unscathed
  <2>2. CASE k \notin DOMAIN d["review_events"].rows BY <2>1, <2>2 DEF History
  <2>3. CASE k \in DOMAIN d["review_events"].rows
    <3>1. "action" \in DOMAIN d["review_events"].rows[k]
      BY <1>1, <1>4, <2>3, TrackedColumns DEF WellFormed
    <3>2. e["review_events"].rows[k]["action"] = d["review_events"].rows[k]["action"]
      BY <1>1, <1>4, <2>3, <3>1, TrackedColumns DEF Unscathed
    <3>3. QED BY <1>2, <1>4, <2>1, <2>3, <3>2 DEF History
  <2>4. QED BY <2>2, <2>3
<1>5. QED BY <1>3, <1>4

LEMMA UnscathedWellFormed ==
    ASSUME NEW d, NEW e, Unscathed(d, e), WellFormed(d) PROVE WellFormed(e)
BY DEF Unscathed, WellFormed

LEMMA LedgerUnscathed ==
    ASSUME NEW d, NEW e, Unscathed(d, e), NEW columns, NEW fields, Ledger(d, columns, fields),
           fields \subseteq columns \union {"review_events"},
           "review_events" \in Tables(d) => "action" \in d["review_events"].columns
    PROVE  Ledger(e, columns, fields)
<1>1. WellFormed(d) /\ {"runs", "evidence_packs"} \subseteq LedgerTables \intersect Tables(d)
  BY DEF Ledger, LedgerTables
<1>2. WellFormed(e) BY <1>1, UnscathedWellFormed
<1>3. {"runs", "evidence_packs"} \subseteq Tables(e) BY <1>1 DEF Unscathed
<1>4. e["runs"].columns \intersect Tracked["runs"] = columns BY <1>1 DEF Unscathed, Ledger
<1>5. {"body", "sha256"} \subseteq e["evidence_packs"].columns
  BY <1>1, TrackedColumns DEF Unscathed, Ledger
<1>6. DOMAIN e["runs"].rows = DOMAIN d["runs"].rows
      /\ DOMAIN e["evidence_packs"].rows = DOMAIN d["evidence_packs"].rows
  BY <1>1 DEF Unscathed
<1>7. ASSUME NEW k \in DOMAIN d["runs"].rows
      PROVE  /\ e["evidence_packs"].rows[k].body = Says(fields, e["runs"].rows[k], History(e, k))
             /\ e["evidence_packs"].rows[k].sha256 = e["evidence_packs"].rows[k].body
             /\ "policy_version" \in columns => e["runs"].rows[k].policy_version = "1.0"
  <2>1. /\ d["evidence_packs"].rows[k].body = Says(fields, d["runs"].rows[k], History(d, k))
        /\ d["evidence_packs"].rows[k].sha256 = d["evidence_packs"].rows[k].body
        /\ "policy_version" \in columns => d["runs"].rows[k].policy_version = "1.0"
        /\ k \in DOMAIN d["evidence_packs"].rows
    BY DEF Ledger
  <2>2. {"body", "sha256"} \subseteq DOMAIN d["evidence_packs"].rows[k]
    <3>1. DOMAIN d["evidence_packs"].rows[k] \intersect Tracked["evidence_packs"]
             = d["evidence_packs"].columns \intersect Tracked["evidence_packs"]
      BY <1>1, <2>1 DEF WellFormed
    <3>2. QED BY <3>1, TrackedColumns DEF Ledger
  <2>3. e["evidence_packs"].rows[k]["body"] = d["evidence_packs"].rows[k]["body"]
        /\ e["evidence_packs"].rows[k]["sha256"] = d["evidence_packs"].rows[k]["sha256"]
    BY <1>1, <2>1, <2>2, TrackedColumns DEF Unscathed
  <2>4. columns \subseteq Tracked["runs"] /\ columns \subseteq DOMAIN d["runs"].rows[k]
    BY <1>1 DEF WellFormed, Ledger
  <2>5. \A c \in columns : e["runs"].rows[k][c] = d["runs"].rows[k][c]
    BY <1>1, <2>4 DEF Unscathed
  <2>6. History(e, k) = History(d, k) BY <1>1, UnscathedHistory
  <2>7. Says(fields, e["runs"].rows[k], History(e, k)) = Says(fields, d["runs"].rows[k], History(d, k))
    BY <2>5, <2>6, SaysTheSame
  <2>8. QED BY <2>1, <2>3, <2>5, <2>7
<1>8. QED BY <1>2, <1>3, <1>4, <1>5, <1>6, <1>7 DEF Ledger

LEMMA ColumnsAndFields ==
    ASSUME NEW n \in 0..LastRevision
    PROVE  /\ Columns(n) \subseteq Tracked["runs"]
           /\ {"decision", "evidence_sha256"} \subseteq Columns(n)
           /\ Fields(n) \subseteq Columns(n) \union {"review_events"}
           /\ "review_events" \in Fields(n) <=> n >= 4
           /\ "review_outcome" \in Columns(n) <=> n >= 3
           /\ "review_status" \in Columns(n) <=> n >= 3
           /\ "policy_version" \in Columns(n) <=> n >= 2
           /\ Fields(n) \ {"review_events"}
                 = Columns(n) \intersect {"policy_version", "review_status", "review_outcome"}
BY TrackedColumns DEF Columns, Fields, LastRevision

(* The rows of a well-formed ledger have its columns. *)
LEMMA RowsHaveColumns ==
    ASSUME NEW d, WellFormed(d), NEW t \in LedgerTables \intersect Tables(d),
           NEW k \in DOMAIN d[t].rows, NEW c \in Tracked[t], c \in d[t].columns
    PROVE  c \in DOMAIN d[t].rows[k]
BY DEF WellFormed

LEMMA LedgerHasColumns ==
    ASSUME NEW d, NEW columns, NEW fields, Ledger(d, columns, fields), NEW k \in DOMAIN d["runs"].rows
    PROVE  /\ columns \subseteq Tracked["runs"]
           /\ DOMAIN d["runs"].rows[k] \intersect Tracked["runs"] = columns
           /\ columns \subseteq DOMAIN d["runs"].rows[k]
           /\ k \in DOMAIN d["evidence_packs"].rows
           /\ {"body", "sha256"} \subseteq DOMAIN d["evidence_packs"].rows[k]
<1>1. "runs" \in LedgerTables \intersect Tables(d) /\ "evidence_packs" \in LedgerTables \intersect Tables(d)
      /\ WellFormed(d)
  BY DEF Ledger, LedgerTables
<1>2. DOMAIN d["runs"].rows[k] \intersect Tracked["runs"] = columns BY <1>1 DEF WellFormed, Ledger
<1>3. k \in DOMAIN d["evidence_packs"].rows BY DEF Ledger
<1>4. DOMAIN d["evidence_packs"].rows[k] \intersect Tracked["evidence_packs"]
         = d["evidence_packs"].columns \intersect Tracked["evidence_packs"]
  BY <1>1, <1>3 DEF WellFormed
<1>5. {"body", "sha256"} \subseteq DOMAIN d["evidence_packs"].rows[k]
  BY <1>4, TrackedColumns DEF Ledger
<1>6. QED BY <1>2, <1>3, <1>5

LEMMA UnscathedStands ==
    ASSUME NEW n \in 0..LastRevision, NEW d, NEW e, Standing(d, n), Unscathed(d, e)
    PROVE  Standing(e, n)
<1>1. CASE n = 0 BY <1>1 DEF Standing, Unscathed
<1>2. CASE n # 0
  <2>1. Ledger(d, Columns(n), Fields(n)) BY <1>2 DEF Standing
  <2>2. "review_events" \in Tables(d) => n >= 4 /\ "action" \in d["review_events"].columns
    BY <1>2 DEF Standing, EventsAgree
  <2>3. Ledger(e, Columns(n), Fields(n))
    <3>1. Fields(n) \subseteq Columns(n) \union {"review_events"} BY ColumnsAndFields
    <3>2. QED BY <2>1, <2>2, <3>1, LedgerUnscathed
  <2>4. "runs" \in LedgerTables \intersect Tables(d) /\ "evidence_packs" \in LedgerTables \intersect Tables(d)
        /\ "review_events" \in LedgerTables /\ WellFormed(d)
    BY <2>1 DEF Ledger, LedgerTables
  <2>5. DOMAIN e["runs"].rows = DOMAIN d["runs"].rows BY <2>4 DEF Unscathed
  <2>6. ASSUME NEW k \in DOMAIN d["runs"].rows, NEW c \in Columns(n)
        PROVE  e["runs"].rows[k][c] = d["runs"].rows[k][c]
    <3>1. c \in Tracked["runs"] \intersect DOMAIN d["runs"].rows[k] BY <2>1, LedgerHasColumns
    <3>2. QED BY <2>4, <3>1 DEF Unscathed
  <2>7. n >= 3 => RowsSealed(e)
    <3>1. SUFFICES ASSUME n >= 3, NEW k \in DOMAIN d["runs"].rows
                   PROVE  e["runs"].rows[k].evidence_sha256 = e["evidence_packs"].rows[k].sha256
      BY <2>5 DEF RowsSealed
    <3>2. d["runs"].rows[k].evidence_sha256 = d["evidence_packs"].rows[k].sha256
      BY <1>2, <3>1 DEF Standing, RowsSealed
    <3>3. e["runs"].rows[k]["evidence_sha256"] = d["runs"].rows[k]["evidence_sha256"]
      BY <2>6, ColumnsAndFields
    <3>4. "sha256" \in Tracked["evidence_packs"] \intersect DOMAIN d["evidence_packs"].rows[k]
          /\ k \in DOMAIN d["evidence_packs"].rows
      BY <2>1, LedgerHasColumns, TrackedColumns
    <3>5. e["evidence_packs"].rows[k]["sha256"] = d["evidence_packs"].rows[k]["sha256"]
      BY <2>4, <3>4 DEF Unscathed
    <3>6. QED BY <3>2, <3>3, <3>5
  <2>8. CASE n >= 4
    <3>1. EventsAgree(d) BY <1>2, <2>8 DEF Standing
    <3>2. "review_events" \in Tables(e) /\ "action" \in e["review_events"].columns
      BY <2>4, <3>1, TrackedColumns DEF EventsAgree, Unscathed
    <3>3. DOMAIN e["review_events"].rows \subseteq DOMAIN e["runs"].rows
      BY <2>4, <2>5, <3>1 DEF EventsAgree, Unscathed
    <3>4. ASSUME NEW k \in DOMAIN d["runs"].rows
          PROVE  /\ History(e, k) = History(d, k)
                 /\ e["runs"].rows[k].review_outcome = d["runs"].rows[k].review_outcome
      <4>1. History(e, k) = History(d, k) BY <2>2, <2>4, UnscathedHistory
      <4>2. e["runs"].rows[k]["review_outcome"] = d["runs"].rows[k]["review_outcome"]
        BY <2>6, <2>8, ColumnsAndFields
      <4>3. QED BY <4>1, <4>2
    <3>5. EventsAgree(e) BY <2>5, <3>1, <3>2, <3>3, <3>4 DEF EventsAgree
    <3>6. QED BY <1>2, <2>3, <2>7, <2>8, <3>5 DEF Standing
  <2>9. CASE ~(n >= 4)
    <3>1. "review_events" \notin Tables(e) BY <2>2, <2>4, <2>9 DEF Unscathed
    <3>2. QED BY <1>2, <2>3, <2>7, <2>9, <3>1 DEF Standing
  <2>10. QED BY <2>8, <2>9
<1>3. QED BY <1>1, <1>2

-----------------------------------------------------------------------------
(* Statements that touch nothing tracked *)

(* What statement s makes of database d. *)
After(d, s) == IF s.op = "update" THEN Updated(d, s.table, s.what) ELSE Effect(d, s)

TableOps == {"create_table", "drop_table"}
ColumnOps == {"add_column", "drop_column"}
GuardOps == {"create_foreign_key", "drop_constraint", "create_trigger", "drop_trigger"}

(* It is about another table, about a column that is not tracked, or about no row at all. *)
Neutral(s) ==
    \/ s.op \in TableOps \union ColumnOps \union {"insert"} /\ s.table \notin LedgerTables
    \/ s.op \in ColumnOps /\ s.table \in LedgerTables /\ s.column \notin Tracked[s.table]
    \/ s.op \in GuardOps
    \/ s.op = "update" /\ s.what = "tenant" /\ s.table \in LedgerTables

LEMMA OtherTable ==
    ASSUME NEW d, NEW e, NEW t, t \notin LedgerTables,
           \A u \in LedgerTables : /\ u \in Tables(e) <=> u \in Tables(d)
                                   /\ u \in Tables(d) => e[u] = d[u]
    PROVE  Unscathed(d, e)
BY DEF Unscathed

(* One table changed in place, its tracked columns and rows not. *)
LEMMA SameTable ==
    ASSUME NEW d, NEW e, NEW t \in Tables(d), Tables(e) = Tables(d),
           \A u \in Tables(d) \ {t} : e[u] = d[u],
           t \in LedgerTables =>
               /\ DOMAIN e[t] = DOMAIN d[t]
               /\ e[t].columns \intersect Tracked[t] = d[t].columns \intersect Tracked[t]
               /\ DOMAIN e[t].rows = DOMAIN d[t].rows
               /\ \A k \in DOMAIN d[t].rows :
                     /\ DOMAIN e[t].rows[k] \intersect Tracked[t] = DOMAIN d[t].rows[k] \intersect Tracked[t]
                     /\ \A c \in Tracked[t] \intersect DOMAIN d[t].rows[k] :
                           e[t].rows[k][c] = d[t].rows[k][c]
    PROVE  Unscathed(d, e)
BY DEF Unscathed

LEMMA NeutralTable ==
    ASSUME NEW d, NEW s, Possible(d, s), s.table \notin LedgerTables,
           s.op \in TableOps \union ColumnOps \union {"insert"}
    PROVE  Unscathed(d, After(d, s))
<1>1. CASE s.op = "create_table"
  BY <1>1, OtherTable DEF After, Effect, Put, Tables, Possible
<1>2. CASE s.op = "drop_table"
  BY <1>2, OtherTable DEF After, Effect, Restrict, Tables
<1>3. CASE s.op = "add_column"
  BY <1>3, OtherTable DEF After, Effect, Tables
<1>4. CASE s.op = "drop_column"
  <2>1. After(d, s) = [d EXCEPT ![s.table].columns = @ \ {s.column},
                                ![s.table].refers = {r \in @ : r[1] # s.column},
                                ![s.table].rows = Dropped(@, s.column)]
    BY <1>4 DEF After, Effect
  <2>2. DOMAIN After(d, s) = DOMAIN d BY <2>1
  <2>3. \A u \in DOMAIN d : u # s.table => After(d, s)[u] = d[u] BY <2>1
  <2>4. QED BY <2>2, <2>3, OtherTable DEF Tables
<1>5. CASE s.op = "insert"
  BY <1>5, OtherTable DEF After, Effect, Tables
<1>6. QED BY <1>1, <1>2, <1>3, <1>4, <1>5 DEF TableOps, ColumnOps

LEMMA NeutralGuard ==
    ASSUME NEW d, NEW s, Possible(d, s), WellFormed(d), s.op \in GuardOps
    PROVE  Unscathed(d, After(d, s))
<1>1. s.table \in Tables(d) BY DEF Possible, GuardOps
<1>2. s.table \in LedgerTables => {"columns", "refers", "guarded", "rows"} \subseteq DOMAIN d[s.table]
  BY <1>1 DEF WellFormed
<1>3. CASE s.op = "create_foreign_key"
  BY <1>1, <1>2, <1>3, SameTable DEF After, Effect, Tables
<1>4. CASE s.op = "drop_constraint"
  BY <1>1, <1>2, <1>4, SameTable DEF After, Effect, Tables
<1>5. CASE s.op = "create_trigger"
  BY <1>1, <1>2, <1>5, SameTable DEF After, Effect, Tables
<1>6. CASE s.op = "drop_trigger"
  BY <1>1, <1>2, <1>6, SameTable DEF After, Effect, Tables
<1>7. QED BY <1>3, <1>4, <1>5, <1>6 DEF GuardOps

(* e is d with column c more or less in table t; value is what the rows have in it. *)
Altered(d, e, t) ==
    /\ Tables(e) = Tables(d)
    /\ \A u \in Tables(d) \ {t} : e[u] = d[u]
    /\ DOMAIN e[t] = DOMAIN d[t]
    /\ DOMAIN e[t].rows = DOMAIN d[t].rows

Widened(d, e, t, c, value) ==
    /\ Altered(d, e, t)
    /\ e[t].columns = d[t].columns \union {c}
    /\ \A k \in DOMAIN d[t].rows :
          /\ DOMAIN e[t].rows[k] = DOMAIN d[t].rows[k] \union {c}
          /\ \A x \in DOMAIN d[t].rows[k] \ {c} : e[t].rows[k][x] = d[t].rows[k][x]
          /\ e[t].rows[k][c] = value

Narrowed(d, e, t, c) ==
    /\ Altered(d, e, t)
    /\ e[t].columns = d[t].columns \ {c}
    /\ \A k \in DOMAIN d[t].rows :
          /\ DOMAIN e[t].rows[k] = DOMAIN d[t].rows[k] \ {c}
          /\ \A x \in DOMAIN d[t].rows[k] \ {c} : e[t].rows[k][x] = d[t].rows[k][x]

LEMMA ColumnAdded ==
    ASSUME NEW d, NEW s, s.op = "add_column", s.table \in Tables(d),
           {"columns", "refers", "guarded", "rows"} \subseteq DOMAIN d[s.table]
    PROVE  Widened(d, After(d, s), s.table, s.column, s.default)
<1> DEFINE t == s.table
           e == After(d, s)
           columns == d[t].columns \union {s.column}
           rows == Filled(d[t].rows, s.column, [k \in DOMAIN d[t].rows |-> s.default])
<1>1. e = [d EXCEPT ![t].columns = columns, ![t].rows = rows]
  BY DEF After, Effect
<1>2. \A k \in DOMAIN d[t].rows :
         /\ DOMAIN rows[k] = DOMAIN d[t].rows[k] \union {s.column}
         /\ \A c \in DOMAIN d[t].rows[k] \ {s.column} : rows[k][c] = d[t].rows[k][c]
         /\ rows[k][s.column] = s.default
  BY DEF Filled, Put
<1>3. DOMAIN rows = DOMAIN d[t].rows BY DEF Filled
<1> HIDE DEF e, columns, rows
<1>4. Tables(e) = Tables(d) /\ \A u \in Tables(d) \ {t} : e[u] = d[u]
  BY <1>1 DEF Tables
<1>5. DOMAIN e[t] = DOMAIN d[t] /\ e[t].columns = columns /\ e[t].rows = rows
  BY <1>1 DEF Tables
<1>6. QED BY <1>2, <1>3, <1>4, <1>5 DEF e, columns, Widened, Altered

LEMMA ColumnDropped ==
    ASSUME NEW d, NEW s, s.op = "drop_column", s.table \in Tables(d),
           {"columns", "refers", "guarded", "rows"} \subseteq DOMAIN d[s.table]
    PROVE  Narrowed(d, After(d, s), s.table, s.column)
<1> DEFINE t == s.table
           e == After(d, s)
           columns == d[t].columns \ {s.column}
           refers == {r \in d[t].refers : r[1] # s.column}
           rows == Dropped(d[t].rows, s.column)
<1>1. e = [d EXCEPT ![t].columns = columns, ![t].refers = refers, ![t].rows = rows]
  BY DEF After, Effect
<1>2. \A k \in DOMAIN d[t].rows :
         /\ DOMAIN rows[k] = DOMAIN d[t].rows[k] \ {s.column}
         /\ \A c \in DOMAIN d[t].rows[k] \ {s.column} : rows[k][c] = d[t].rows[k][c]
  BY DEF Dropped, Restrict
<1>3. DOMAIN rows = DOMAIN d[t].rows BY DEF Dropped
<1> HIDE DEF e, columns, refers, rows
<1>4. Tables(e) = Tables(d) /\ \A u \in Tables(d) \ {t} : e[u] = d[u]
  BY <1>1 DEF Tables
<1>5. DOMAIN e[t] = DOMAIN d[t] /\ e[t].columns = columns /\ e[t].rows = rows
  BY <1>1 DEF Tables
<1>6. QED BY <1>2, <1>3, <1>4, <1>5 DEF e, columns, Narrowed, Altered

LEMMA NeutralColumn ==
    ASSUME NEW d, NEW s, Possible(d, s), WellFormed(d), s.op \in ColumnOps,
           s.table \in LedgerTables, s.column \notin Tracked[s.table]
    PROVE  Unscathed(d, After(d, s))
<1>1. s.table \in Tables(d) BY DEF Possible, ColumnOps
<1>2. {"columns", "refers", "guarded", "rows"} \subseteq DOMAIN d[s.table]
  BY <1>1 DEF WellFormed
<1>3. CASE s.op = "add_column"
  <2>1. Widened(d, After(d, s), s.table, s.column, s.default) BY <1>1, <1>2, <1>3, ColumnAdded
  <2>2. QED BY <1>1, <2>1, SameTable DEF Widened, Altered
<1>4. CASE s.op = "drop_column"
  <2>1. Narrowed(d, After(d, s), s.table, s.column) BY <1>1, <1>2, <1>4, ColumnDropped
  <2>2. QED BY <1>1, <2>1, SameTable DEF Narrowed, Altered
<1>5. QED BY <1>3, <1>4 DEF ColumnOps

(* 0006 gives the rows an organization and looks at nothing else. *)
LEMMA NeutralTenant ==
    ASSUME NEW d, NEW s, Possible(d, s), WellFormed(d), s.op = "update", s.what = "tenant",
           s.table \in LedgerTables
    PROVE  Unscathed(d, After(d, s))
<1> DEFINE t == s.table
           e == After(d, s)
           given == IF t = "runs" THEN {"organization_id", "repository_id", "evidence_source_id"}
                    ELSE {"organization_id"}
           Tenant(row) == IF row.organization_id = None THEN Over([c \in given |-> Default], row) ELSE row
<1>1. t \in Tables(d) BY DEF Possible
<1>2. {"columns", "refers", "guarded", "rows"} \subseteq DOMAIN d[t]
  BY <1>1 DEF WellFormed
<1>3. e = [d EXCEPT ![t].rows = [k \in DOMAIN d[t].rows |-> Tenant(d[t].rows[k])]]
  BY DEF After, Updated, BackfillTenant
<1>4. given \intersect Tracked[t] = {}
  BY TrackedColumns DEF LedgerTables
<1>5. ASSUME NEW row
      PROVE  DOMAIN Tenant(row) \intersect Tracked[t] = DOMAIN row \intersect Tracked[t]
             /\ \A c \in Tracked[t] \intersect DOMAIN row : Tenant(row)[c] = row[c]
  BY <1>4 DEF Over
<1> HIDE DEF given, Tenant
<1>6. Tables(e) = Tables(d) /\ \A u \in Tables(d) \ {t} : e[u] = d[u]
  BY <1>3 DEF Tables
<1>7. DOMAIN e[t] = DOMAIN d[t] /\ e[t].columns = d[t].columns
      /\ e[t].rows = [k \in DOMAIN d[t].rows |-> Tenant(d[t].rows[k])]
  BY <1>1, <1>2, <1>3 DEF Tables
<1> HIDE DEF e, t
<1>8. QED BY <1>1, <1>5, <1>6, <1>7, SameTable DEF e, t

LEMMA NeutralUnscathed ==
    ASSUME NEW d, NEW s, Possible(d, s), WellFormed(d), Neutral(s)
    PROVE  Unscathed(d, After(d, s))
<1>1. CASE s.op \in TableOps \union ColumnOps \union {"insert"} /\ s.table \notin LedgerTables
  BY <1>1, NeutralTable
<1>2. CASE s.op \in ColumnOps /\ s.table \in LedgerTables /\ s.column \notin Tracked[s.table]
  BY <1>2, NeutralColumn
<1>3. CASE s.op \in GuardOps BY <1>3, NeutralGuard
<1>4. CASE s.op = "update" /\ s.what = "tenant" /\ s.table \in LedgerTables BY <1>4, NeutralTenant
<1>5. QED BY <1>1, <1>2, <1>3, <1>4 DEF Neutral

(* From revision 5 on the scripts say nothing else. *)
LEMMA LaterStatements ==
    ASSUME NEW n \in 5..LastRevision
    PROVE  /\ \A i \in 1..Len(Upgrade[n]) : Neutral(Upgrade[n][i])
           /\ \A i \in 1..Len(Downgrade[n]) : Neutral(Downgrade[n][i])
           /\ Len(Upgrade[n]) \in Nat /\ Len(Downgrade[n]) \in Nat
<1> USE TrackedColumns
    DEF Neutral, TableOps, ColumnOps, GuardOps, LedgerTables, CreateTable, DropTable, AddColumn, DropColumn,
        CreateForeignKey, DropConstraint, CreateTrigger, DropTrigger, Insert, Update
<1>5. CASE n = 5 BY <1>5 DEF Upgrade, Downgrade, Up0005, Down0005
<1>6. CASE n = 6
  <2>1. Len(Up0006) = 23 /\ Len(Down0006) = 17 BY DEF Up0006, Down0006
  <2>2. \A i \in 1..9 : Neutral(Up0006[i]) BY DEF Up0006
  <2>3. /\ Neutral(Up0006[10]) /\ Neutral(Up0006[11])
        /\ Neutral(Up0006[12]) /\ Neutral(Up0006[13])
    <3>1. Neutral(Up0006[10]) BY DEF Up0006
    <3>2. Neutral(Up0006[11]) BY DEF Up0006
    <3>3. Neutral(Up0006[12]) BY DEF Up0006
    <3>4. Neutral(Up0006[13]) BY DEF Up0006
    <3>5. QED BY <3>1, <3>2, <3>3, <3>4
  <2>4. \A i \in 14..23 : Neutral(Up0006[i]) BY DEF Up0006
  <2>5. \A i \in 1..11 : Neutral(Down0006[i]) BY DEF Down0006
  <2>6. \A i \in 12..17 : Neutral(Down0006[i]) BY DEF Down0006
  <2>7. Upgrade[6] = Up0006 /\ Downgrade[6] = Down0006 BY DEF Upgrade, Downgrade
  <2> HIDE DEF Neutral
  <2>8. \A i \in 1..23 : Neutral(Up0006[i]) BY <2>2, <2>3, <2>4
  <2>9. \A i \in 1..17 : Neutral(Down0006[i]) BY <2>5, <2>6
  <2>10. Upgrade[n] = Up0006 /\ Downgrade[n] = Down0006 BY <1>6, <2>7
  <2>11. \A i \in 1..Len(Upgrade[n]) : Neutral(Upgrade[n][i]) BY <2>1, <2>8, <2>10
  <2>12. \A i \in 1..Len(Downgrade[n]) : Neutral(Downgrade[n][i]) BY <2>1, <2>9, <2>10
  <2>13. Len(Upgrade[n]) \in Nat /\ Len(Downgrade[n]) \in Nat BY <2>1, <2>10
  <2>14. QED BY <2>11, <2>12, <2>13
<1>7. CASE n = 7 BY <1>7 DEF Upgrade, Downgrade, Up0007, Down0007
<1>8. CASE n = 8 BY <1>8 DEF Upgrade, Downgrade, Up0008, Down0008
<1>9. CASE n = 9 BY <1>9 DEF Upgrade, Downgrade, Up0009, Down0009
<1>10. CASE n = 10 BY <1>10 DEF Upgrade, Downgrade, Up0010, Down0010
<1>11. CASE n = 11 BY <1>11 DEF Upgrade, Downgrade, Up0011, Down0011
<1>12. CASE n = 12 BY <1>12 DEF Upgrade, Downgrade, Up0012, Down0012
<1>13. CASE n = 13 BY <1>13 DEF Upgrade, Downgrade, Up0013, Down0013
<1>14. CASE n = 14 BY <1>14 DEF Upgrade, Downgrade, Up0014, Down0014
<1> HIDE DEF Neutral
<1>15. n \in {5, 6, 7, 8, 9, 10, 11, 12, 13, 14} BY DEF LastRevision
<1>16. QED BY <1>5, <1>6, <1>7, <1>8, <1>9, <1>10, <1>11, <1>12, <1>13, <1>14, <1>15

-----------------------------------------------------------------------------
(* Statements of 0002 to 0004: columns of runs *)

LEMMA SameHistory ==
    ASSUME NEW d, NEW e, "review_events" \in Tables(e) <=> "review_events" \in Tables(d),
           "review_events" \in Tables(d) => e["review_events"] = d["review_events"], NEW k
    PROVE  History(e, k) = History(d, k)
BY DEF History

(* The runs get other columns, or other values where no pack looks. *)
LEMMA LedgerOfOtherRuns ==
    ASSUME NEW d, NEW e, NEW columns, NEW new, NEW fields, Ledger(d, columns, fields),
           Tables(e) = Tables(d), \A u \in Tables(d) \ {"runs"} : e[u] = d[u],
           DOMAIN e["runs"] = DOMAIN d["runs"],
           e["runs"].columns \intersect Tracked["runs"] = new,
           DOMAIN e["runs"].rows = DOMAIN d["runs"].rows,
           \A k \in DOMAIN d["runs"].rows :
              /\ DOMAIN e["runs"].rows[k] \intersect Tracked["runs"] = new
              /\ \A f \in fields \ {"review_events"} : e["runs"].rows[k][f] = d["runs"].rows[k][f]
              /\ "policy_version" \in new => e["runs"].rows[k].policy_version = "1.0"
    PROVE  Ledger(e, new, fields)
<1>1. WellFormed(d) /\ {"runs", "evidence_packs"} \subseteq LedgerTables \intersect Tables(d)
      /\ "review_events" \in LedgerTables
  BY DEF Ledger, LedgerTables
<1>2. WellFormed(e) BY <1>1 DEF WellFormed
<1>3. e["evidence_packs"] = d["evidence_packs"] BY <1>1
<1>4. ASSUME NEW k \in DOMAIN d["runs"].rows
      PROVE  /\ e["evidence_packs"].rows[k].body = Says(fields, e["runs"].rows[k], History(e, k))
             /\ e["evidence_packs"].rows[k].sha256 = e["evidence_packs"].rows[k].body
             /\ "policy_version" \in new => e["runs"].rows[k].policy_version = "1.0"
  <2>1. /\ d["evidence_packs"].rows[k].body = Says(fields, d["runs"].rows[k], History(d, k))
        /\ d["evidence_packs"].rows[k].sha256 = d["evidence_packs"].rows[k].body
    BY DEF Ledger
  <2>2. History(e, k) = History(d, k) BY SameHistory
  <2>3. \A f \in fields \ {"review_events"} : e["runs"].rows[k][f] = d["runs"].rows[k][f]
    OBVIOUS
  <2>4. Says(fields, e["runs"].rows[k], History(d, k)) = Says(fields, d["runs"].rows[k], History(d, k))
    BY <2>3, SaysTheSame
  <2>5. QED BY <1>3, <2>1, <2>2, <2>4
<1>5. QED BY <1>1, <1>2, <1>3, <1>4 DEF Ledger

LEMMA LedgerColumnAdded ==
    ASSUME NEW d, NEW e, NEW columns, NEW fields, Ledger(d, columns, fields),
           fields \subseteq columns \union {"review_events"},
           NEW c \in Tracked["runs"], c \notin columns, NEW value, c = "policy_version" => value = "1.0",
           Widened(d, e, "runs", c, value)
    PROVE  Ledger(e, columns \union {c}, fields)
<1>1. e["runs"].columns \intersect Tracked["runs"] = columns \union {c} BY DEF Ledger, Widened
<1>2. ASSUME NEW k \in DOMAIN d["runs"].rows
      PROVE  /\ DOMAIN e["runs"].rows[k] \intersect Tracked["runs"] = columns \union {c}
             /\ \A f \in fields \ {"review_events"} : e["runs"].rows[k][f] = d["runs"].rows[k][f]
             /\ "policy_version" \in columns \union {c} => e["runs"].rows[k].policy_version = "1.0"
  <2>1. columns \subseteq DOMAIN d["runs"].rows[k]
        /\ DOMAIN d["runs"].rows[k] \intersect Tracked["runs"] = columns
    BY LedgerHasColumns
  <2>2. \A x \in columns : e["runs"].rows[k][x] = d["runs"].rows[k][x] BY <2>1 DEF Widened
  <2>3. "policy_version" \in columns => e["runs"].rows[k]["policy_version"] = "1.0"
    BY <2>2 DEF Ledger
  <2>4. DOMAIN e["runs"].rows[k] = DOMAIN d["runs"].rows[k] \union {c} /\ e["runs"].rows[k][c] = value
    BY DEF Widened
  <2>5. QED BY <2>1, <2>2, <2>3, <2>4
<1>3. Altered(d, e, "runs") BY DEF Widened
<1>4. QED BY <1>1, <1>2, <1>3, LedgerOfOtherRuns DEF Altered

LEMMA LedgerColumnDropped ==
    ASSUME NEW d, NEW e, NEW columns, NEW fields, Ledger(d, columns, fields),
           NEW c, c \notin fields, fields \subseteq columns \union {"review_events"},
           Narrowed(d, e, "runs", c)
    PROVE  Ledger(e, columns \ {c}, fields)
<1>1. e["runs"].columns \intersect Tracked["runs"] = columns \ {c} BY DEF Ledger, Narrowed
<1>2. ASSUME NEW k \in DOMAIN d["runs"].rows
      PROVE  /\ DOMAIN e["runs"].rows[k] \intersect Tracked["runs"] = columns \ {c}
             /\ \A f \in fields \ {"review_events"} : e["runs"].rows[k][f] = d["runs"].rows[k][f]
             /\ "policy_version" \in columns \ {c} => e["runs"].rows[k].policy_version = "1.0"
  <2>1. columns \subseteq DOMAIN d["runs"].rows[k]
        /\ DOMAIN d["runs"].rows[k] \intersect Tracked["runs"] = columns
    BY LedgerHasColumns
  <2>2. \A x \in columns \ {c} : e["runs"].rows[k][x] = d["runs"].rows[k][x] BY <2>1 DEF Narrowed
  <2>3. "policy_version" \in columns \ {c} => e["runs"].rows[k]["policy_version"] = "1.0"
    BY <2>2 DEF Ledger
  <2>4. DOMAIN e["runs"].rows[k] = DOMAIN d["runs"].rows[k] \ {c} BY DEF Narrowed
  <2>5. QED BY <2>1, <2>2, <2>3, <2>4
<1>3. Altered(d, e, "runs") BY DEF Narrowed
<1>4. QED BY <1>1, <1>2, <1>3, LedgerOfOtherRuns DEF Altered

(* 0003 fills review_status; no pack has it yet. *)
LEMMA LedgerReviewStatus ==
    ASSUME NEW d, NEW columns, NEW fields, Ledger(d, columns, fields),
           "review_status" \in columns, "review_status" \notin fields,
           fields \subseteq columns \union {"review_events"}
    PROVE  LET e == UpdateReviewStatus(d)
           IN  Ledger(e, columns, fields) /\ Tables(e) = Tables(d)
<1> DEFINE e == UpdateReviewStatus(d)
           runs == d["runs"].rows
           Initial == [k \in DOMAIN runs |->
                          IF runs[k].decision = "review" THEN "pending" ELSE "not_required"]
           rows == Filled(runs, "review_status", Initial)
<1>1. e = [d EXCEPT !["runs"].rows = rows] BY DEF UpdateReviewStatus
<1>2. "runs" \in Tables(d) /\ {"columns", "refers", "guarded", "rows"} \subseteq DOMAIN d["runs"]
  BY DEF Ledger, WellFormed, LedgerTables
<1>3. /\ DOMAIN rows = DOMAIN runs
      /\ \A k \in DOMAIN runs :
            /\ DOMAIN rows[k] = DOMAIN runs[k] \union {"review_status"}
            /\ \A x \in DOMAIN runs[k] \ {"review_status"} : rows[k][x] = runs[k][x]
  BY DEF Filled, Put
<1> HIDE DEF e, rows
<1>4. /\ Tables(e) = Tables(d)
      /\ \A u \in Tables(d) \ {"runs"} : e[u] = d[u]
      /\ DOMAIN e["runs"] = DOMAIN d["runs"]
      /\ e["runs"].columns = d["runs"].columns
      /\ e["runs"].rows = rows
  BY <1>1, <1>2 DEF Tables
<1>5. e["runs"].columns \intersect Tracked["runs"] = columns BY <1>4 DEF Ledger
<1>6. ASSUME NEW k \in DOMAIN d["runs"].rows
      PROVE  /\ DOMAIN e["runs"].rows[k] \intersect Tracked["runs"] = columns
             /\ \A f \in fields \ {"review_events"} : e["runs"].rows[k][f] = d["runs"].rows[k][f]
             /\ "policy_version" \in columns => e["runs"].rows[k].policy_version = "1.0"
  <2>1. columns \subseteq DOMAIN d["runs"].rows[k]
        /\ DOMAIN d["runs"].rows[k] \intersect Tracked["runs"] = columns
    BY LedgerHasColumns
  <2>2. \A x \in columns \ {"review_status"} : e["runs"].rows[k][x] = d["runs"].rows[k][x]
    BY <1>3, <1>4, <2>1
  <2>3. "policy_version" \in columns => e["runs"].rows[k]["policy_version"] = "1.0"
    BY <2>2 DEF Ledger
  <2>4. DOMAIN e["runs"].rows[k] = DOMAIN d["runs"].rows[k] BY <1>3, <1>4, <2>1
  <2>5. QED BY <2>1, <2>2, <2>3, <2>4
<1>7. DOMAIN e["runs"].rows = DOMAIN d["runs"].rows BY <1>3, <1>4
<1>8. Ledger(e, columns, fields) BY <1>4, <1>5, <1>6, <1>7, LedgerOfOtherRuns
<1>9. QED BY <1>4, <1>8 DEF e

-----------------------------------------------------------------------------
(* Statements of 0002 to 0004: bodies *)

LEMMA SaysAddsVersion ==
    ASSUME NEW row, NEW history, row.policy_version = "1.0"
    PROVE  Over(Says({}, row, history), [policy_version |-> "1.0"]) = Says({"policy_version"}, row, history)
BY DEF Says, Over

LEMMA SaysPops ==
    ASSUME NEW fields, NEW row, NEW history, NEW f
    PROVE  Pop(Says(fields, row, history), f) = Says(fields \ {f}, row, history)
BY DEF Says, Pop

LEMMA SaysAddsReview ==
    ASSUME NEW row, NEW history
    PROVE  Over([review_status |-> row.review_status, review_outcome |-> row.review_outcome],
                Says({"policy_version"}, row, history))
           = Says({"policy_version", "review_status", "review_outcome"}, row, history)
BY DEF Says, Over

LEMMA SaysAddsEvents ==
    ASSUME NEW fields, NEW row, NEW history, NEW old
    PROVE  Put(Says(fields, row, old), "review_events", history)
           = Says(fields \union {"review_events"}, row, history)
BY DEF Says, Put

LEMMA SaysNoHistory ==
    ASSUME NEW fields, "review_events" \notin fields, NEW row, NEW history, NEW other
    PROVE  Says(fields, row, history) = Says(fields, row, other)
BY DEF Says

(* e is d with the bodies f, and with their digests in the rows as well. *)
Rewritten(d, e, f) == e = Reseal(d, f, TRUE) \/ e = Reseal(d, f, FALSE)
Relabelled(d, e, f) == e = Reseal(d, f, TRUE)

(* The packs say something else of the same runs. *)
LEMMA LedgerResealed ==
    ASSUME NEW d, NEW e, NEW f, NEW columns, NEW fields, NEW new,
           Ledger(d, columns, fields), Rewritten(d, e, f),
           \A k \in DOMAIN d["runs"].rows : f[k] = Says(new, d["runs"].rows[k], History(d, k)),
           "evidence_sha256" \in columns, "evidence_sha256" \notin new,
           new \subseteq columns \union {"review_events"}
    PROVE  /\ Ledger(e, columns, new)
           /\ Tables(e) = Tables(d)
           /\ \A u \in Tables(d) \ {"runs", "evidence_packs"} : e[u] = d[u]
           /\ Relabelled(d, e, f) => RowsSealed(e)
           /\ EventsAgree(d) /\ "review_outcome" \in columns => EventsAgree(e)
<1> DEFINE packs == d["evidence_packs"].rows
           runs == d["runs"].rows
           newPacks == [k \in DOMAIN packs |-> [packs[k] EXCEPT !.body = f[k], !.sha256 = f[k]]]
           sealed == e = Reseal(d, f, TRUE)
           newRuns == IF sealed
                      THEN [k \in DOMAIN runs |-> [runs[k] EXCEPT !.evidence_sha256 = newPacks[k].body]]
                      ELSE runs
<1>1. {"runs", "evidence_packs"} \subseteq LedgerTables \intersect Tables(d)
      /\ "review_events" \in LedgerTables /\ WellFormed(d)
  BY DEF Ledger, LedgerTables
<1>2. {"columns", "refers", "guarded", "rows"} \subseteq DOMAIN d["runs"]
      /\ {"columns", "refers", "guarded", "rows"} \subseteq DOMAIN d["evidence_packs"]
  BY <1>1 DEF WellFormed
<1>3. DOMAIN packs = DOMAIN runs BY DEF Ledger
<1>4. DOMAIN newPacks = DOMAIN runs /\ DOMAIN newRuns = DOMAIN runs BY <1>3
<1>5. ASSUME NEW k \in DOMAIN runs
      PROVE  /\ newPacks[k].body = f[k] /\ newPacks[k].sha256 = f[k]
             /\ DOMAIN newPacks[k] = DOMAIN packs[k]
  <2>1. {"body", "sha256"} \subseteq DOMAIN packs[k] BY LedgerHasColumns
  <2>2. newPacks[k] = [packs[k] EXCEPT !.body = f[k], !.sha256 = f[k]] BY <1>3
  <2>3. QED BY <2>1, <2>2
<1>6. ASSUME NEW k \in DOMAIN runs
      PROVE  /\ DOMAIN newRuns[k] = DOMAIN runs[k]
             /\ sealed => newRuns[k].evidence_sha256 = newPacks[k].body
             /\ \A c \in DOMAIN runs[k] \ {"evidence_sha256"} : newRuns[k][c] = runs[k][c]
  <2>1. "evidence_sha256" \in DOMAIN runs[k] BY LedgerHasColumns
  <2>2. CASE sealed
    <3>1. newRuns[k] = [runs[k] EXCEPT !.evidence_sha256 = newPacks[k].body] BY <2>2
    <3> HIDE DEF newRuns, newPacks
    <3>2. QED BY <2>1, <3>1
  <2>3. CASE ~sealed BY <2>3
  <2>4. QED BY <2>2, <2>3
<1>7. e = [d EXCEPT !["evidence_packs"].rows = newPacks, !["runs"].rows = newRuns]
  BY DEF Reseal, Rewritten
<1> HIDE DEF newPacks, newRuns, sealed
<1>8. /\ Tables(e) = Tables(d)
      /\ \A u \in Tables(d) \ {"runs", "evidence_packs"} : e[u] = d[u]
  BY <1>7 DEF Tables
<1>9. /\ DOMAIN e["runs"] = DOMAIN d["runs"] /\ e["runs"].columns = d["runs"].columns
      /\ e["runs"].rows = newRuns
  BY <1>1, <1>2, <1>7 DEF Tables
<1>10. /\ DOMAIN e["evidence_packs"] = DOMAIN d["evidence_packs"]
       /\ e["evidence_packs"].columns = d["evidence_packs"].columns
       /\ e["evidence_packs"].rows = newPacks
  BY <1>1, <1>2, <1>7 DEF Tables
<1>11. \A k : History(e, k) = History(d, k) BY <1>8, SameHistory
<1>12. WellFormed(e)
  <2>1. SUFFICES ASSUME NEW t \in LedgerTables \intersect Tables(d)
                 PROVE  /\ {"columns", "refers", "guarded", "rows"} \subseteq DOMAIN e[t]
                        /\ \A k \in DOMAIN e[t].rows :
                              DOMAIN e[t].rows[k] \intersect Tracked[t] = e[t].columns \intersect Tracked[t]
    BY <1>8 DEF WellFormed
  <2>2. CASE t = "runs" BY <1>1, <1>4, <1>6, <1>9, <2>2 DEF WellFormed
  <2>3. CASE t = "evidence_packs" BY <1>1, <1>3, <1>4, <1>5, <1>10, <2>3 DEF WellFormed
  <2>4. CASE t = "review_events" BY <1>1, <1>8, <2>4 DEF WellFormed
  <2>5. QED BY <2>2, <2>3, <2>4 DEF LedgerTables
<1>13. ASSUME NEW k \in DOMAIN runs
       PROVE  /\ newPacks[k].body = Says(new, newRuns[k], History(e, k))
              /\ newPacks[k].sha256 = newPacks[k].body
              /\ "policy_version" \in columns => newRuns[k].policy_version = "1.0"
              /\ "review_outcome" \in columns => newRuns[k].review_outcome = runs[k].review_outcome
  <2>1. columns \subseteq DOMAIN runs[k] BY LedgerHasColumns
  <2>2. \A c \in columns \ {"evidence_sha256"} : newRuns[k][c] = runs[k][c] BY <1>6, <2>1
  <2>3. \A c \in new \ {"review_events"} : newRuns[k][c] = runs[k][c]
    BY <2>2
  <2>4. Says(new, newRuns[k], History(d, k)) = Says(new, runs[k], History(d, k))
    BY <2>3, SaysTheSame
  <2>5. "policy_version" \in columns => runs[k].policy_version = "1.0" BY DEF Ledger
  <2>6. QED BY <1>5, <1>11, <2>2, <2>4, <2>5
<1>14. e["runs"].columns \intersect Tracked["runs"] = columns BY <1>9 DEF Ledger
<1>15. Ledger(e, columns, new)
  <2>1. {"runs", "evidence_packs"} \subseteq Tables(e) BY <1>1, <1>8
  <2>2. {"body", "sha256"} \subseteq e["evidence_packs"].columns BY <1>10 DEF Ledger
  <2>3. QED BY <1>4, <1>9, <1>10, <1>12, <1>13, <1>14, <2>1, <2>2 DEF Ledger
<1>16. sealed => RowsSealed(e) BY <1>4, <1>5, <1>6, <1>9, <1>10 DEF RowsSealed
<1>17. ASSUME EventsAgree(d), "review_outcome" \in columns PROVE EventsAgree(e)
  <2>1. e["review_events"] = d["review_events"] /\ "review_events" \in Tables(e)
    BY <1>8, <1>17 DEF EventsAgree
  <2>2. \A k \in DOMAIN runs : e["runs"].rows[k].review_outcome = d["runs"].rows[k].review_outcome
    BY <1>9, <1>13, <1>17
  <2>3. QED BY <1>4, <1>9, <1>11, <1>17, <2>1, <2>2 DEF EventsAgree
<1>18. QED BY <1>8, <1>15, <1>16, <1>17 DEF sealed, Relabelled

-----------------------------------------------------------------------------
(* The statements of each revision, in either direction *)

(* e is d with one more table, or with one less. *)
Created(d, e, t, columns) ==
    /\ t \notin Tables(d)
    /\ Tables(e) = Tables(d) \union {t}
    /\ \A u \in Tables(d) : e[u] = d[u]
    /\ {"columns", "refers", "guarded", "rows"} = DOMAIN e[t]
    /\ e[t].columns = columns
    /\ e[t].rows = Empty

Removed(d, e, t) ==
    /\ Tables(e) = Tables(d) \ {t}
    /\ \A u \in Tables(d) \ {t} : e[u] = d[u]

LEMMA TableCreated ==
    ASSUME NEW d, NEW s, s.op = "create_table", Possible(d, s)
    PROVE  Created(d, After(d, s), s.table, s.columns)
BY DEF Created, After, Effect, Put, Tables, Possible

LEMMA TableDropped ==
    ASSUME NEW d, NEW s, s.op = "drop_table"
    PROVE  Removed(d, After(d, s), s.table)
BY DEF Removed, After, Effect, Restrict, Tables

(* done statements of revision n are done, the next one is run. *)
Before(d, n, way, done) ==
    IF done = 0 THEN Standing(d, IF way = "up" THEN n - 1 ELSE n) ELSE Partway(d, n, way, done)
Afterwards(d, n, way, done, length) ==
    IF done = length THEN Standing(d, IF way = "up" THEN n ELSE n - 1) ELSE Partway(d, n, way, done)

LEMMA Upgrade1 ==
    ASSUME NEW d, NEW done \in 0..2, NEW s, s = Up0001[done + 1], Possible(d, s), Before(d, 1, "up", done)
    PROVE  Afterwards(After(d, s), 1, "up", done + 1, 3)
<1> DEFINE e == After(d, s)
<1>1. CASE done = 0
  <2>1. s.op = "create_table" /\ s.table = "runs" /\ s.columns = {"decision", "evidence_sha256"}
    BY <1>1 DEF Up0001, CreateTable
  <2>2. Created(d, e, "runs", {"decision", "evidence_sha256"}) BY <2>1, TableCreated
  <2>3. LedgerTables \intersect Tables(d) = {} BY <1>1 DEF Before, Standing
  <2> HIDE DEF e
  <2>4. LedgerTables \intersect Tables(e) = {"runs"} BY <2>2, <2>3 DEF LedgerTables, Created
  <2>5. WellFormed(e) BY <2>2, <2>4, EmptyIsEmpty DEF WellFormed, Created
  <2>6. e["runs"].columns = Columns(1) BY <2>2 DEF Columns, Created
  <2>7. Partway(e, 1, "up", 1) BY <2>2, <2>4, <2>5, <2>6 DEF Partway, Created
  <2>8. done + 1 = 1 BY <1>1
  <2>9. Afterwards(e, 1, "up", 1, 3) BY <2>7 DEF Afterwards
  <2>10. QED BY <2>8, <2>9 DEF e
<1>2. CASE done = 1
  <2>1. s.op = "create_table" /\ s.table = "violations" BY <1>2 DEF Up0001, CreateTable
  <2>2. Created(d, e, "violations", s.columns) BY <2>1, TableCreated
  <2>3. /\ LedgerTables \intersect Tables(d) \subseteq {"runs"}
        /\ WellFormed(d) /\ "runs" \in Tables(d)
        /\ d["runs"].columns = Columns(1) /\ d["runs"].rows = Empty
    BY <1>2 DEF Before, Partway
  <2> HIDE DEF e
  <2>4. LedgerTables \intersect Tables(e) = LedgerTables \intersect Tables(d)
    BY <2>2 DEF LedgerTables, Created
  <2>5. WellFormed(e) BY <2>2, <2>3, <2>4 DEF WellFormed, Created
  <2>6. Partway(e, 1, "up", 2) BY <2>2, <2>3, <2>4, <2>5 DEF Partway, Created
  <2>7. done + 1 = 2 BY <1>2
  <2>8. Afterwards(e, 1, "up", 2, 3) BY <2>6 DEF Afterwards
  <2>9. QED BY <2>7, <2>8 DEF e
<1>3. CASE done = 2
  <2>1. s.op = "create_table" /\ s.table = "evidence_packs" /\ s.columns = {"body", "sha256"}
    BY <1>3 DEF Up0001, CreateTable
  <2>2. Created(d, e, "evidence_packs", {"body", "sha256"}) BY <2>1, TableCreated
  <2>3. /\ LedgerTables \intersect Tables(d) \subseteq {"runs"}
        /\ WellFormed(d) /\ "runs" \in Tables(d)
        /\ d["runs"].columns = Columns(1) /\ d["runs"].rows = Empty
    BY <1>3 DEF Before, Partway
  <2> HIDE DEF e
  <2>4. LedgerTables \intersect Tables(e) = {"runs", "evidence_packs"} BY <2>2, <2>3 DEF LedgerTables, Created
  <2>5. WellFormed(e) BY <2>2, <2>3, <2>4, EmptyIsEmpty DEF WellFormed, Created
  <2>6. e["runs"] = d["runs"] BY <2>2, <2>3 DEF Created
  <2>7. /\ e["runs"].columns \intersect Tracked["runs"] = Columns(1)
        /\ e["evidence_packs"].columns = {"body", "sha256"}
        /\ DOMAIN e["evidence_packs"].rows = {} /\ DOMAIN e["runs"].rows = {}
    BY <2>2, <2>3, <2>6, EmptyIsEmpty, ColumnsAndFields DEF LastRevision, Created
  <2>8. Ledger(e, Columns(1), Fields(1)) BY <2>4, <2>5, <2>7 DEF Ledger
  <2>9. "review_events" \notin Tables(e) BY <2>4 DEF LedgerTables
  <2>10. Standing(e, 1) BY <2>8, <2>9 DEF Standing
  <2>11. done + 1 = 3 BY <1>3
  <2>12. QED BY <2>10, <2>11 DEF Afterwards, e
<1>4. done = 0 \/ done = 1 \/ done = 2 OBVIOUS
<1>5. QED BY <1>1, <1>2, <1>3, <1>4

LEMMA Downgrade1 ==
    ASSUME NEW d, NEW done \in 0..2, NEW s, s = Down0001[done + 1], Before(d, 1, "down", done)
    PROVE  Afterwards(After(d, s), 1, "down", done + 1, 3)
<1> DEFINE e == After(d, s)
<1>1. CASE done = 0
  <2>1. s.op = "drop_table" /\ s.table = "evidence_packs" BY <1>1 DEF Down0001, DropTable
  <2>2. Tables(e) = Tables(d) \ {"evidence_packs"} BY <2>1, TableDropped DEF Removed
  <2>3. "review_events" \notin Tables(d) BY <1>1 DEF Before, Standing
  <2>4. LedgerTables \intersect Tables(e) \subseteq {"runs"} BY <2>2, <2>3 DEF LedgerTables
  <2>5. QED BY <1>1, <2>4 DEF Afterwards, Partway
<1>2. CASE done = 1
  <2>1. s.op = "drop_table" /\ s.table = "violations" BY <1>2 DEF Down0001, DropTable
  <2>2. Tables(e) \subseteq Tables(d) BY <2>1, TableDropped DEF Removed
  <2>3. LedgerTables \intersect Tables(d) \subseteq {"runs"} BY <1>2 DEF Before, Partway
  <2>4. LedgerTables \intersect Tables(e) \subseteq {"runs"} BY <2>2, <2>3
  <2>5. QED BY <1>2, <2>4 DEF Afterwards, Partway
<1>3. CASE done = 2
  <2>1. s.op = "drop_table" /\ s.table = "runs" BY <1>3 DEF Down0001, DropTable
  <2>2. Tables(e) = Tables(d) \ {"runs"} BY <2>1, TableDropped DEF Removed
  <2>3. LedgerTables \intersect Tables(d) \subseteq {"runs"} BY <1>3 DEF Before, Partway
  <2>4. LedgerTables \intersect Tables(e) = {} BY <2>2, <2>3
  <2>5. QED BY <1>3, <2>4 DEF Afterwards, Standing
<1>4. done = 0 \/ done = 1 \/ done = 2 OBVIOUS
<1>5. QED BY <1>1, <1>2, <1>3, <1>4

LEMMA LedgerShape ==
    ASSUME NEW d, NEW columns, NEW fields, Ledger(d, columns, fields)
    PROVE  /\ WellFormed(d)
           /\ "runs" \in Tables(d) /\ {"columns", "refers", "guarded", "rows"} \subseteq DOMAIN d["runs"]
           /\ "evidence_packs" \in Tables(d)
           /\ DOMAIN d["evidence_packs"].rows = DOMAIN d["runs"].rows
           /\ \A k \in DOMAIN d["runs"].rows :
                 /\ d["evidence_packs"].rows[k].body = Says(fields, d["runs"].rows[k], History(d, k))
                 /\ "policy_version" \in columns => d["runs"].rows[k].policy_version = "1.0"
BY DEF Ledger, WellFormed, LedgerTables

LEMMA ColumnsOf ==
    /\ Columns(1) = {"decision", "evidence_sha256"}
    /\ Columns(2) = {"decision", "evidence_sha256", "policy_version"}
    /\ Columns(3) = {"decision", "evidence_sha256", "policy_version", "review_status", "review_outcome"}
    /\ Columns(4) = Columns(3)
    /\ Fields(1) = {} /\ Fields(2) = {"policy_version"}
    /\ Fields(3) = {"policy_version", "review_status", "review_outcome"}
    /\ Fields(4) = {"policy_version", "review_status", "review_outcome", "review_events"}
BY DEF Columns, Fields

LEMMA Upgrade2 ==
    ASSUME NEW d, NEW done \in 0..1, NEW s, s = Up0002[done + 1], Before(d, 2, "up", done)
    PROVE  Afterwards(After(d, s), 2, "up", done + 1, 2)
<1> DEFINE e == After(d, s)
<1>1. CASE done = 0
  <2>1. s.op = "add_column" /\ s.table = "runs" /\ s.column = "policy_version" /\ s.default = "1.0"
    BY <1>1 DEF Up0002, AddColumn
  <2>2. Ledger(d, Columns(1), Fields(1)) /\ "review_events" \notin Tables(d)
    BY <1>1 DEF Before, Standing
  <2>3. "runs" \in Tables(d) /\ {"columns", "refers", "guarded", "rows"} \subseteq DOMAIN d["runs"]
    BY <2>2, LedgerShape
  <2>4. Widened(d, e, "runs", "policy_version", "1.0") BY <2>1, <2>3, ColumnAdded
  <2> HIDE DEF e
  <2>5. Ledger(e, Columns(1) \union {"policy_version"}, {})
    <3>1. Ledger(d, Columns(1), {}) BY <2>2, ColumnsOf
    <3>2. "policy_version" \in Tracked["runs"] /\ "policy_version" \notin Columns(1)
      BY ColumnsOf, TrackedColumns
    <3>3. QED BY <2>4, <3>1, <3>2, LedgerColumnAdded
  <2>6. Columns(1) \union {"policy_version"} = Columns(2) BY ColumnsOf
  <2>7. "review_events" \notin Tables(e) BY <2>2, <2>4 DEF Widened, Altered
  <2>8. Partway(e, 2, "up", 1) BY <2>5, <2>6, <2>7 DEF Partway
  <2>9. done + 1 = 1 BY <1>1
  <2>10. QED BY <2>8, <2>9 DEF Afterwards, e
<1>2. CASE done = 1
  <2>1. s = Update("evidence_packs", "add_policy_version") BY <1>2 DEF Up0002
  <2>2. Ledger(d, Columns(2), {}) /\ "review_events" \notin Tables(d) BY <1>2 DEF Before, Partway
  <2> DEFINE f == [k \in DOMAIN d["evidence_packs"].rows |->
                     Over(d["evidence_packs"].rows[k].body, [policy_version |-> "1.0"])]
  <2>3. e = Reseal(d, f, FALSE)
    BY <2>1 DEF After, Update, Updated, RewriteEvidenceBodies
  <2>4. ASSUME NEW k \in DOMAIN d["runs"].rows
        PROVE  f[k] = Says({"policy_version"}, d["runs"].rows[k], History(d, k))
    <3>1. f[k] = Over(Says({}, d["runs"].rows[k], History(d, k)), [policy_version |-> "1.0"])
      BY <2>2, LedgerShape
    <3>2. d["runs"].rows[k].policy_version = "1.0" BY <2>2, LedgerShape, ColumnsOf
    <3>3. QED BY <3>1, <3>2, SaysAddsVersion
  <2> HIDE DEF e, f
  <2>5. Ledger(e, Columns(2), {"policy_version"}) /\ Tables(e) = Tables(d)
    <3>1. "evidence_sha256" \in Columns(2) /\ {"policy_version"} \subseteq Columns(2) \union {"review_events"}
      BY ColumnsOf
    <3>2. Rewritten(d, e, f) BY <2>3 DEF Rewritten
    <3>3. QED BY <2>2, <2>4, <3>1, <3>2, LedgerResealed
  <2>6. Standing(e, 2) BY <2>2, <2>5, ColumnsOf DEF Standing
  <2>7. done + 1 = 2 BY <1>2
  <2>8. QED BY <2>6, <2>7 DEF Afterwards, e
<1>3. done = 0 \/ done = 1 OBVIOUS
<1>4. QED BY <1>1, <1>2, <1>3

LEMMA Downgrade2 ==
    ASSUME NEW d, NEW done \in 0..1, NEW s, s = Down0002[done + 1], Before(d, 2, "down", done)
    PROVE  Afterwards(After(d, s), 2, "down", done + 1, 2)
<1> DEFINE e == After(d, s)
<1>1. CASE done = 0
  <2>1. s = Update("evidence_packs", "pop_policy_version") BY <1>1 DEF Down0002
  <2>2. Ledger(d, Columns(2), {"policy_version"}) /\ "review_events" \notin Tables(d)
    BY <1>1, ColumnsOf DEF Before, Standing
  <2> DEFINE f == [k \in DOMAIN d["evidence_packs"].rows |->
                     Pop(d["evidence_packs"].rows[k].body, "policy_version")]
  <2>3. e = Reseal(d, f, FALSE)
    BY <2>1 DEF After, Update, Updated, RewriteEvidenceBodies
  <2>4. ASSUME NEW k \in DOMAIN d["runs"].rows
        PROVE  f[k] = Says({}, d["runs"].rows[k], History(d, k))
    <3>1. f[k] = Pop(Says({"policy_version"}, d["runs"].rows[k], History(d, k)), "policy_version")
      BY <2>2, LedgerShape
    <3>2. {"policy_version"} \ {"policy_version"} = {} OBVIOUS
    <3>3. QED BY <3>1, <3>2, SaysPops
  <2> HIDE DEF e, f
  <2>5. Ledger(e, Columns(2), {}) /\ Tables(e) = Tables(d)
    <3>1. "evidence_sha256" \in Columns(2) /\ {} \subseteq Columns(2) \union {"review_events"}
      BY ColumnsOf
    <3>2. Rewritten(d, e, f) BY <2>3 DEF Rewritten
    <3>3. QED BY <2>2, <2>4, <3>1, <3>2, LedgerResealed
  <2>6. Partway(e, 2, "down", 1) BY <2>2, <2>5 DEF Partway
  <2>7. done + 1 = 1 BY <1>1
  <2>8. QED BY <2>6, <2>7 DEF Afterwards, e
<1>2. CASE done = 1
  <2>1. s.op = "drop_column" /\ s.table = "runs" /\ s.column = "policy_version"
    BY <1>2 DEF Down0002, DropColumn
  <2>2. Ledger(d, Columns(2), {}) /\ "review_events" \notin Tables(d) BY <1>2 DEF Before, Partway
  <2>3. "runs" \in Tables(d) /\ {"columns", "refers", "guarded", "rows"} \subseteq DOMAIN d["runs"]
    BY <2>2, LedgerShape
  <2>4. Narrowed(d, e, "runs", "policy_version") BY <2>1, <2>3, ColumnDropped
  <2> HIDE DEF e
  <2>5. Ledger(e, Columns(2) \ {"policy_version"}, {}) BY <2>2, <2>4, LedgerColumnDropped
  <2>6. Columns(2) \ {"policy_version"} = Columns(1) BY ColumnsOf
  <2>7. "review_events" \notin Tables(e) BY <2>2, <2>4 DEF Narrowed, Altered
  <2>8. Standing(e, 1) BY <2>5, <2>6, <2>7, ColumnsOf DEF Standing
  <2>9. done + 1 = 2 BY <1>2
  <2>10. QED BY <2>8, <2>9 DEF Afterwards, e
<1>3. done = 0 \/ done = 1 OBVIOUS
<1>4. QED BY <1>1, <1>2, <1>3

LEMMA Upgrade3 ==
    ASSUME NEW d, NEW done \in 0..3, NEW s, s = Up0003[done + 1], Before(d, 3, "up", done)
    PROVE  Afterwards(After(d, s), 3, "up", done + 1, 4)
<1> DEFINE e == After(d, s)
<1>1. CASE done = 0
  <2>1. s.op = "add_column" /\ s.table = "runs" /\ s.column = "review_status" /\ s.default = None
    BY <1>1 DEF Up0003, AddColumn
  <2>2. Ledger(d, Columns(2), {"policy_version"}) /\ "review_events" \notin Tables(d)
    BY <1>1, ColumnsOf DEF Before, Standing
  <2>3. "runs" \in Tables(d) /\ {"columns", "refers", "guarded", "rows"} \subseteq DOMAIN d["runs"]
    BY <2>2, LedgerShape
  <2>4. Widened(d, e, "runs", "review_status", None) BY <2>1, <2>3, ColumnAdded
  <2> HIDE DEF e
  <2>5. Ledger(e, Columns(2) \union {"review_status"}, {"policy_version"})
    BY <2>2, <2>4, LedgerColumnAdded, ColumnsOf, TrackedColumns
  <2>6. Columns(2) \union {"review_status"} = Columns(3) \ {"review_outcome"} BY ColumnsOf
  <2>7. "review_events" \notin Tables(e) BY <2>2, <2>4 DEF Widened, Altered
  <2>8. Partway(e, 3, "up", 1) BY <2>5, <2>6, <2>7 DEF Partway
  <2>9. done + 1 = 1 BY <1>1
  <2>10. QED BY <2>8, <2>9 DEF Afterwards, e
<1>2. CASE done = 1
  <2>1. s.op = "add_column" /\ s.table = "runs" /\ s.column = "review_outcome" /\ s.default = None
    BY <1>2 DEF Up0003, AddColumn
  <2>2. Ledger(d, Columns(3) \ {"review_outcome"}, {"policy_version"}) /\ "review_events" \notin Tables(d)
    BY <1>2 DEF Before, Partway
  <2>3. "runs" \in Tables(d) /\ {"columns", "refers", "guarded", "rows"} \subseteq DOMAIN d["runs"]
    BY <2>2, LedgerShape
  <2>4. Widened(d, e, "runs", "review_outcome", None) BY <2>1, <2>3, ColumnAdded
  <2> HIDE DEF e
  <2>5. Ledger(e, (Columns(3) \ {"review_outcome"}) \union {"review_outcome"}, {"policy_version"})
    <3>1. {"policy_version"} \subseteq (Columns(3) \ {"review_outcome"}) \union {"review_events"}
      BY ColumnsOf
    <3>2. QED BY <2>2, <2>4, <3>1, LedgerColumnAdded, TrackedColumns
  <2>6. (Columns(3) \ {"review_outcome"}) \union {"review_outcome"} = Columns(3) BY ColumnsOf
  <2>7. "review_events" \notin Tables(e) BY <2>2, <2>4 DEF Widened, Altered
  <2>8. Partway(e, 3, "up", 2) BY <2>5, <2>6, <2>7 DEF Partway
  <2>9. done + 1 = 2 BY <1>2
  <2>10. QED BY <2>8, <2>9 DEF Afterwards, e
<1>3. CASE done = 2
  <2>1. s = Update("runs", "review_status") BY <1>3 DEF Up0003
  <2>2. Ledger(d, Columns(3), {"policy_version"}) /\ "review_events" \notin Tables(d)
    BY <1>3 DEF Before, Partway
  <2>3. e = UpdateReviewStatus(d) BY <2>1 DEF After, Update, Updated
  <2>4. Ledger(e, Columns(3), {"policy_version"}) /\ Tables(e) = Tables(d)
    BY <2>2, <2>3, ColumnsOf, LedgerReviewStatus
  <2>5. Partway(e, 3, "up", 3) BY <2>2, <2>4 DEF Partway
  <2>6. done + 1 = 3 BY <1>3
  <2>7. QED BY <2>5, <2>6 DEF Afterwards
<1>4. CASE done = 3
  <2>1. s = Update("evidence_packs", "add_review_fields") BY <1>4 DEF Up0003
  <2>2. Ledger(d, Columns(3), {"policy_version"}) /\ "review_events" \notin Tables(d)
    BY <1>4 DEF Before, Partway
  <2> DEFINE f == [k \in DOMAIN d["evidence_packs"].rows |->
                     Over([review_status |-> d["runs"].rows[k].review_status,
                           review_outcome |-> d["runs"].rows[k].review_outcome],
                          d["evidence_packs"].rows[k].body)]
  <2>3. Rewritten(d, e, f) /\ Relabelled(d, e, f)
    BY <2>1 DEF After, Update, Updated, RewriteEvidenceReviewFields, Rewritten, Relabelled
  <2>4. ASSUME NEW k \in DOMAIN d["runs"].rows
        PROVE  f[k] = Says(Fields(3), d["runs"].rows[k], History(d, k))
    <3>1. f[k] = Over([review_status |-> d["runs"].rows[k].review_status,
                       review_outcome |-> d["runs"].rows[k].review_outcome],
                      Says({"policy_version"}, d["runs"].rows[k], History(d, k)))
      BY <2>2, LedgerShape
    <3>2. QED BY <3>1, SaysAddsReview, ColumnsOf
  <2> HIDE DEF e, f
  <2>5. Ledger(e, Columns(3), Fields(3)) /\ Tables(e) = Tables(d) /\ RowsSealed(e)
    <3>1. "evidence_sha256" \in Columns(3) /\ Fields(3) \subseteq Columns(3) \union {"review_events"}
          /\ "evidence_sha256" \notin Fields(3)
      BY ColumnsOf
    <3>2. QED BY <2>2, <2>3, <2>4, <3>1, LedgerResealed
  <2>6. Standing(e, 3) BY <2>2, <2>5 DEF Standing
  <2>7. done + 1 = 4 BY <1>4
  <2>8. QED BY <2>6, <2>7 DEF Afterwards, e
<1>5. done = 0 \/ done = 1 \/ done = 2 \/ done = 3 OBVIOUS
<1>6. QED BY <1>1, <1>2, <1>3, <1>4, <1>5

LEMMA Downgrade3 ==
    ASSUME NEW d, NEW done \in 0..2, NEW s, s = Down0003[done + 1], Before(d, 3, "down", done)
    PROVE  Afterwards(After(d, s), 3, "down", done + 1, 3)
<1> DEFINE e == After(d, s)
<1>1. CASE done = 0
  <2>1. s = Update("evidence_packs", "pop_review_fields") BY <1>1 DEF Down0003
  <2>2. Ledger(d, Columns(3), Fields(3)) /\ "review_events" \notin Tables(d)
    BY <1>1 DEF Before, Standing
  <2> DEFINE f == [k \in DOMAIN d["evidence_packs"].rows |->
                     Pop(Pop(d["evidence_packs"].rows[k].body, "review_status"), "review_outcome")]
  <2>3. Rewritten(d, e, f)
    BY <2>1 DEF After, Update, Updated, RewriteEvidenceReviewFields, Rewritten
  <2>4. ASSUME NEW k \in DOMAIN d["runs"].rows
        PROVE  f[k] = Says({"policy_version"}, d["runs"].rows[k], History(d, k))
    <3>1. f[k] = Pop(Pop(Says(Fields(3), d["runs"].rows[k], History(d, k)), "review_status"),
                     "review_outcome")
      BY <2>2, LedgerShape
    <3>2. (Fields(3) \ {"review_status"}) \ {"review_outcome"} = {"policy_version"} BY ColumnsOf
    <3>3. Pop(Says(Fields(3), d["runs"].rows[k], History(d, k)), "review_status")
             = Says(Fields(3) \ {"review_status"}, d["runs"].rows[k], History(d, k))
      BY SaysPops
    <3>4. Pop(Says(Fields(3) \ {"review_status"}, d["runs"].rows[k], History(d, k)), "review_outcome")
             = Says((Fields(3) \ {"review_status"}) \ {"review_outcome"}, d["runs"].rows[k], History(d, k))
      BY SaysPops
    <3>5. QED BY <3>1, <3>2, <3>3, <3>4
  <2> HIDE DEF e, f
  <2>5. Ledger(e, Columns(3), {"policy_version"}) /\ Tables(e) = Tables(d)
    <3>1. "evidence_sha256" \in Columns(3) /\ {"policy_version"} \subseteq Columns(3) \union {"review_events"}
      BY ColumnsOf
    <3>2. QED BY <2>2, <2>3, <2>4, <3>1, LedgerResealed
  <2>6. Partway(e, 3, "down", 1) BY <2>2, <2>5 DEF Partway
  <2>7. done + 1 = 1 BY <1>1
  <2>8. QED BY <2>6, <2>7 DEF Afterwards, e
<1>2. CASE done = 1
  <2>1. s.op = "drop_column" /\ s.table = "runs" /\ s.column = "review_outcome"
    BY <1>2 DEF Down0003, DropColumn
  <2>2. Ledger(d, Columns(3), {"policy_version"}) /\ "review_events" \notin Tables(d)
    BY <1>2 DEF Before, Partway
  <2>3. "runs" \in Tables(d) /\ {"columns", "refers", "guarded", "rows"} \subseteq DOMAIN d["runs"]
    BY <2>2, LedgerShape
  <2>4. Narrowed(d, e, "runs", "review_outcome") BY <2>1, <2>3, ColumnDropped
  <2> HIDE DEF e
  <2>5. Ledger(e, Columns(3) \ {"review_outcome"}, {"policy_version"})
    BY <2>2, <2>4, LedgerColumnDropped, ColumnsOf
  <2>6. "review_events" \notin Tables(e) BY <2>2, <2>4 DEF Narrowed, Altered
  <2>7. Partway(e, 3, "down", 2) BY <2>5, <2>6 DEF Partway
  <2>8. done + 1 = 2 BY <1>2
  <2>9. QED BY <2>7, <2>8 DEF Afterwards, e
<1>3. CASE done = 2
  <2>1. s.op = "drop_column" /\ s.table = "runs" /\ s.column = "review_status"
    BY <1>3 DEF Down0003, DropColumn
  <2>2. Ledger(d, Columns(3) \ {"review_outcome"}, {"policy_version"}) /\ "review_events" \notin Tables(d)
    BY <1>3 DEF Before, Partway
  <2>3. "runs" \in Tables(d) /\ {"columns", "refers", "guarded", "rows"} \subseteq DOMAIN d["runs"]
    BY <2>2, LedgerShape
  <2>4. Narrowed(d, e, "runs", "review_status") BY <2>1, <2>3, ColumnDropped
  <2> HIDE DEF e
  <2>5. Ledger(e, (Columns(3) \ {"review_outcome"}) \ {"review_status"}, {"policy_version"})
    <3>1. {"policy_version"} \subseteq (Columns(3) \ {"review_outcome"}) \union {"review_events"}
      BY ColumnsOf
    <3>2. QED BY <2>2, <2>4, <3>1, LedgerColumnDropped
  <2>6. (Columns(3) \ {"review_outcome"}) \ {"review_status"} = Columns(2) BY ColumnsOf
  <2>7. "review_events" \notin Tables(e) BY <2>2, <2>4 DEF Narrowed, Altered
  <2>8. Standing(e, 2) BY <2>5, <2>6, <2>7, ColumnsOf DEF Standing
  <2>9. done + 1 = 3 BY <1>3
  <2>10. QED BY <2>8, <2>9 DEF Afterwards, e
<1>4. done = 0 \/ done = 1 \/ done = 2 OBVIOUS
<1>5. QED BY <1>1, <1>2, <1>3, <1>4

LEMMA Upgrade4 ==
    ASSUME NEW d, NEW done \in 0..2, NEW s, s = Up0004[done + 1], Possible(d, s), Before(d, 4, "up", done)
    PROVE  Afterwards(After(d, s), 4, "up", done + 1, 3)
<1> DEFINE e == After(d, s)
<1>1. CASE done = 0
  <2>1. s.op = "create_table" /\ s.table = "review_events" /\ s.columns = {"action"}
    BY <1>1 DEF Up0004, CreateTable
  <2>2. Ledger(d, Columns(3), Fields(3)) /\ "review_events" \notin Tables(d) /\ RowsSealed(d)
    BY <1>1 DEF Before, Standing
  <2>3. Created(d, e, "review_events", {"action"}) BY <2>1, TableCreated
  <2> HIDE DEF e
  <2>4. /\ "runs" \in Tables(d) /\ "evidence_packs" \in Tables(d) /\ WellFormed(d)
    BY <2>2, LedgerShape
  <2>5. e["runs"] = d["runs"] /\ e["evidence_packs"] = d["evidence_packs"] BY <2>3, <2>4 DEF Created
  <2>6. WellFormed(e)
    <3>1. SUFFICES ASSUME NEW t \in LedgerTables \intersect Tables(e)
                   PROVE  /\ {"columns", "refers", "guarded", "rows"} \subseteq DOMAIN e[t]
                          /\ \A k \in DOMAIN e[t].rows :
                                DOMAIN e[t].rows[k] \intersect Tracked[t] = e[t].columns \intersect Tracked[t]
      BY DEF WellFormed
    <3>2. CASE t = "review_events" BY <2>3, <3>2, EmptyIsEmpty DEF Created
    <3>3. CASE t # "review_events"
      <4>1. t \in Tables(d) /\ e[t] = d[t] BY <2>3, <3>3 DEF Created
      <4>2. QED BY <2>4, <4>1 DEF WellFormed
    <3>4. QED BY <3>2, <3>3
  <2>7. ASSUME NEW k \in DOMAIN d["runs"].rows
        PROVE  d["evidence_packs"].rows[k].body = Says(Fields(3), d["runs"].rows[k], History(e, k))
    <3>1. d["evidence_packs"].rows[k].body = Says(Fields(3), d["runs"].rows[k], History(d, k))
      BY <2>2, LedgerShape
    <3>2. "review_events" \notin Fields(3) BY ColumnsOf
    <3>3. QED BY <3>1, <3>2, SaysNoHistory
  <2>8. {"runs", "evidence_packs"} \subseteq Tables(e) BY <2>3, <2>4 DEF Created
  <2>9. Ledger(e, Columns(3), Fields(3)) BY <2>2, <2>5, <2>6, <2>7, <2>8 DEF Ledger
  <2>10. RowsSealed(e) BY <2>2, <2>5 DEF RowsSealed
  <2>11. "review_events" \in Tables(e) /\ e["review_events"].columns = {"action"} BY <2>3 DEF Created
  <2>12. Partway(e, 4, "up", 1) BY <2>9, <2>10, <2>11 DEF Partway
  <2>13. done + 1 = 1 BY <1>1
  <2>14. QED BY <2>12, <2>13 DEF Afterwards, e
<1>2. CASE done = 1
  <2>1. s = Update("review_events", "backfill") BY <1>2 DEF Up0004
  <2>2. /\ Ledger(d, Columns(3), Fields(3)) /\ "review_events" \in Tables(d)
        /\ d["review_events"].columns = {"action"}
    BY <1>2 DEF Before, Partway
  <2> DEFINE runs == d["runs"].rows
             events == [k \in {r \in DOMAIN runs : runs[r].review_outcome # None} |->
                          [action |-> runs[k].review_outcome]]
  <2>3. e = [d EXCEPT !["review_events"].rows = events]
    BY <2>1 DEF After, Update, Updated, BackfillReviewEvents
  <2>4. /\ DOMAIN events \subseteq DOMAIN runs
        /\ \A k \in DOMAIN runs : k \in DOMAIN events <=> runs[k].review_outcome # None
        /\ \A k \in DOMAIN events : DOMAIN events[k] = {"action"} /\ events[k].action = runs[k].review_outcome
    OBVIOUS
  <2>5. /\ "runs" \in Tables(d) /\ "evidence_packs" \in Tables(d) /\ WellFormed(d)
    BY <2>2, LedgerShape
  <2>6. {"columns", "refers", "guarded", "rows"} \subseteq DOMAIN d["review_events"]
    BY <2>2, <2>5 DEF WellFormed, LedgerTables
  <2> HIDE DEF e, events
  <2>7. Tables(e) = Tables(d) /\ \A u \in Tables(d) \ {"review_events"} : e[u] = d[u]
    BY <2>3 DEF Tables
  <2>8. /\ e["review_events"].rows = events /\ e["review_events"].columns = {"action"}
        /\ DOMAIN e["review_events"] = DOMAIN d["review_events"]
    BY <2>2, <2>3, <2>6 DEF Tables
  <2>9. e["runs"] = d["runs"] /\ e["evidence_packs"] = d["evidence_packs"] BY <2>5, <2>7
  <2>10. WellFormed(e)
    <3>1. SUFFICES ASSUME NEW t \in LedgerTables \intersect Tables(e)
                   PROVE  /\ {"columns", "refers", "guarded", "rows"} \subseteq DOMAIN e[t]
                          /\ \A k \in DOMAIN e[t].rows :
                                DOMAIN e[t].rows[k] \intersect Tracked[t] = e[t].columns \intersect Tracked[t]
      BY DEF WellFormed
    <3>2. CASE t = "review_events" BY <2>4, <2>6, <2>8, <3>2
    <3>3. CASE t # "review_events"
      <4>1. t \in Tables(d) /\ e[t] = d[t] BY <2>7, <3>3
      <4>2. QED BY <2>5, <4>1 DEF WellFormed
    <3>4. QED BY <3>2, <3>3
  <2>11. ASSUME NEW k \in DOMAIN runs
         PROVE  /\ d["evidence_packs"].rows[k].body = Says(Fields(3), runs[k], History(e, k))
                /\ History(e, k) = IF runs[k].review_outcome = None THEN <<>> ELSE <<runs[k].review_outcome>>
    <3>1. d["evidence_packs"].rows[k].body = Says(Fields(3), runs[k], History(d, k))
      BY <2>2, LedgerShape
    <3>2. "review_events" \notin Fields(3) BY ColumnsOf
    <3>3. d["evidence_packs"].rows[k].body = Says(Fields(3), runs[k], History(e, k))
      BY <3>1, <3>2, SaysNoHistory
    <3>4. "review_events" \in Tables(e) BY <2>2, <2>7
    <3>5. CASE runs[k].review_outcome = None BY <2>4, <2>8, <3>3, <3>5 DEF History
    <3>6. CASE runs[k].review_outcome # None BY <2>4, <2>8, <3>3, <3>4, <3>6 DEF History
    <3>7. QED BY <3>5, <3>6
  <2>12. {"runs", "evidence_packs"} \subseteq Tables(e) BY <2>5, <2>7
  <2>13. Ledger(e, Columns(3), Fields(3)) BY <2>2, <2>9, <2>10, <2>11, <2>12 DEF Ledger
  <2>14. EventsAgree(e) BY <2>2, <2>4, <2>7, <2>8, <2>9, <2>11 DEF EventsAgree
  <2>15. Partway(e, 4, "up", 2) BY <2>13, <2>14 DEF Partway
  <2>16. done + 1 = 2 BY <1>2
  <2>17. QED BY <2>15, <2>16 DEF Afterwards, e
<1>3. CASE done = 2
  <2>1. s = Update("evidence_packs", "add_review_events") BY <1>3 DEF Up0004
  <2>2. Ledger(d, Columns(3), Fields(3)) /\ EventsAgree(d) BY <1>3 DEF Before, Partway
  <2> DEFINE events == d["review_events"].rows
             EventsOf(k) == IF k \in DOMAIN events THEN <<events[k].action>> ELSE <<>>
             f == [k \in DOMAIN d["evidence_packs"].rows |->
                     Put(d["evidence_packs"].rows[k].body, "review_events", EventsOf(k))]
  <2>3. Rewritten(d, e, f) /\ Relabelled(d, e, f)
    BY <2>1 DEF After, Update, Updated, RewriteEvidenceReviewEvents, Rewritten, Relabelled
  <2>4. ASSUME NEW k \in DOMAIN d["runs"].rows
        PROVE  f[k] = Says(Fields(4), d["runs"].rows[k], History(d, k))
    <3>1. EventsOf(k) = History(d, k) BY <2>2 DEF History, EventsAgree
    <3>2. f[k] = Put(Says(Fields(3), d["runs"].rows[k], History(d, k)), "review_events", History(d, k))
      BY <2>2, <3>1, LedgerShape
    <3>3. Fields(3) \union {"review_events"} = Fields(4) BY ColumnsOf
    <3>4. QED BY <3>2, <3>3, SaysAddsEvents
  <2> HIDE DEF e, f
  <2>5. Ledger(e, Columns(3), Fields(4)) /\ Tables(e) = Tables(d) /\ RowsSealed(e) /\ EventsAgree(e)
    <3>1. "evidence_sha256" \in Columns(3) /\ Fields(4) \subseteq Columns(3) \union {"review_events"}
          /\ "evidence_sha256" \notin Fields(4) /\ "review_outcome" \in Columns(3)
      BY ColumnsOf
    <3>2. QED BY <2>2, <2>3, <2>4, <3>1, LedgerResealed
  <2>6. Standing(e, 4) BY <2>5, ColumnsOf DEF Standing
  <2>7. done + 1 = 3 BY <1>3
  <2>8. QED BY <2>6, <2>7 DEF Afterwards, e
<1>4. done = 0 \/ done = 1 \/ done = 2 OBVIOUS
<1>5. QED BY <1>1, <1>2, <1>3, <1>4

LEMMA Downgrade4 ==
    ASSUME NEW d, NEW done \in 0..1, NEW s, s = Down0004[done + 1], Before(d, 4, "down", done)
    PROVE  Afterwards(After(d, s), 4, "down", done + 1, 2)
<1> DEFINE e == After(d, s)
<1>1. CASE done = 0
  <2>1. s = Update("evidence_packs", "pop_review_events") BY <1>1 DEF Down0004
  <2>2. Ledger(d, Columns(3), Fields(4)) /\ EventsAgree(d) BY <1>1, ColumnsOf DEF Before, Standing
  <2> DEFINE f == [k \in DOMAIN d["evidence_packs"].rows |->
                     Pop(d["evidence_packs"].rows[k].body, "review_events")]
  <2>3. Rewritten(d, e, f) /\ Relabelled(d, e, f)
    BY <2>1 DEF After, Update, Updated, RewriteEvidenceReviewEvents, Rewritten, Relabelled
  <2>4. ASSUME NEW k \in DOMAIN d["runs"].rows
        PROVE  f[k] = Says(Fields(3), d["runs"].rows[k], History(d, k))
    <3>1. f[k] = Pop(Says(Fields(4), d["runs"].rows[k], History(d, k)), "review_events")
      BY <2>2, LedgerShape
    <3>2. Fields(4) \ {"review_events"} = Fields(3) BY ColumnsOf
    <3>3. QED BY <3>1, <3>2, SaysPops
  <2> HIDE DEF e, f
  <2>5. Ledger(e, Columns(3), Fields(3)) /\ Tables(e) = Tables(d) /\ RowsSealed(e)
    <3>1. "evidence_sha256" \in Columns(3) /\ Fields(3) \subseteq Columns(3) \union {"review_events"}
          /\ "evidence_sha256" \notin Fields(3)
      BY ColumnsOf
    <3>2. Ledger(d, Columns(3), Fields(4)) BY <2>2
    <3>3. QED BY <2>3, <2>4, <3>1, <3>2, LedgerResealed
  <2>6. Partway(e, 4, "down", 1) BY <2>2, <2>5 DEF Partway, EventsAgree
  <2>7. done + 1 = 1 BY <1>1
  <2>8. QED BY <2>6, <2>7 DEF Afterwards, e
<1>2. CASE done = 1
  <2>1. s.op = "drop_table" /\ s.table = "review_events" BY <1>2 DEF Down0004, DropTable
  <2>2. Ledger(d, Columns(3), Fields(3)) /\ RowsSealed(d) BY <1>2 DEF Before, Partway
  <2>3. Removed(d, e, "review_events") BY <2>1, TableDropped
  <2> HIDE DEF e
  <2>4. /\ "runs" \in Tables(d) /\ "evidence_packs" \in Tables(d) /\ WellFormed(d)
    BY <2>2, LedgerShape
  <2>5. e["runs"] = d["runs"] /\ e["evidence_packs"] = d["evidence_packs"] BY <2>3, <2>4 DEF Removed
  <2>6. WellFormed(e) BY <2>3, <2>4 DEF WellFormed, Removed
  <2>7. ASSUME NEW k \in DOMAIN d["runs"].rows
        PROVE  d["evidence_packs"].rows[k].body = Says(Fields(3), d["runs"].rows[k], History(e, k))
    <3>1. d["evidence_packs"].rows[k].body = Says(Fields(3), d["runs"].rows[k], History(d, k))
      BY <2>2, LedgerShape
    <3>2. "review_events" \notin Fields(3) BY ColumnsOf
    <3>3. QED BY <3>1, <3>2, SaysNoHistory
  <2>8. {"runs", "evidence_packs"} \subseteq Tables(e) BY <2>3, <2>4 DEF Removed
  <2>9. Ledger(e, Columns(3), Fields(3)) BY <2>2, <2>5, <2>6, <2>7, <2>8 DEF Ledger
  <2>10. RowsSealed(e) BY <2>2, <2>5 DEF RowsSealed
  <2>11. "review_events" \notin Tables(e) BY <2>3 DEF Removed
  <2>12. Standing(e, 3) BY <2>9, <2>10, <2>11 DEF Standing
  <2>13. done + 1 = 2 BY <1>2
  <2>14. QED BY <2>12, <2>13 DEF Afterwards, e
<1>3. done = 0 \/ done = 1 OBVIOUS
<1>4. QED BY <1>1, <1>2, <1>3

LEMMA SettledColumns ==
    ASSUME NEW n \in 4..LastRevision PROVE Columns(n) = Columns(4) /\ Fields(n) = Fields(4)
BY DEF Columns, Fields

LEMMA Settled ==
    ASSUME NEW n \in 4..LastRevision, NEW m \in 4..LastRevision, NEW d, Standing(d, n)
    PROVE  Standing(d, m)
<1>1. Columns(n) = Columns(m) /\ Fields(n) = Fields(m) BY SettledColumns
<1>2. n # 0 /\ m # 0 /\ n >= 4 /\ m >= 4 /\ n >= 3 /\ m >= 3 BY DEF LastRevision
<1>3. Ledger(d, Columns(n), Fields(n)) /\ RowsSealed(d) /\ EventsAgree(d) BY <1>2 DEF Standing
<1>4. QED BY <1>1, <1>2, <1>3 DEF Standing

LEMMA LaterRevision ==
    ASSUME NEW n \in 5..LastRevision, NEW way \in {"up", "down"}, NEW done \in Nat, NEW length \in Nat,
           NEW d, NEW s, Possible(d, s), Neutral(s), Before(d, n, way, done)
    PROVE  Afterwards(After(d, s), n, way, done + 1, length)
<1> DEFINE e == After(d, s)
<1>1. n \in 4..LastRevision /\ n - 1 \in 4..LastRevision /\ n >= 5 /\ n \in 0..LastRevision /\ n # 0
  BY DEF LastRevision
<1>2. Standing(d, n)
  <2>1. CASE done = 0
    <3>1. Standing(d, IF way = "up" THEN n - 1 ELSE n) BY <2>1 DEF Before
    <3>2. QED BY <1>1, <3>1, Settled
  <2>2. CASE done # 0
    <3>1. Partway(d, n, way, done) BY <2>2 DEF Before
    <3>2. QED BY <1>1, <3>1 DEF Partway
  <2>3. QED BY <2>1, <2>2
<1>3. WellFormed(d) BY <1>1, <1>2 DEF Standing, Ledger
<1>4. Unscathed(d, e) BY <1>3, NeutralUnscathed
<1>5. Standing(e, n) BY <1>1, <1>2, <1>4, UnscathedStands
<1>6. Standing(e, n - 1) BY <1>1, <1>5, Settled
<1>7. Partway(e, n, way, done + 1) BY <1>1, <1>5 DEF Partway
<1> HIDE DEF e
<1>8. Afterwards(e, n, way, done + 1, length) BY <1>5, <1>6, <1>7 DEF Afterwards
<1>9. QED BY <1>8 DEF e

LEMMA StatementStands ==
    ASSUME NEW n \in 1..LastRevision, NEW way \in {"up", "down"}, NEW done \in Nat, NEW d, NEW s,
           NEW next, next = done + 1, NEW length, length = Len(Scripts(n, way)),
           done < Len(Scripts(n, way)), s = Scripts(n, way)[done + 1], Possible(d, s), Before(d, n, way, done)
    PROVE  length \in Nat /\ Afterwards(After(d, s), n, way, next, length)
<1>1. CASE n = 1 /\ way = "up"
  <2>1. Scripts(n, way) = Up0001 BY <1>1 DEF Scripts, Upgrade
  <2>2. Len(Up0001) = 3 BY DEF Up0001
  <2>3. done \in 0..2 BY <2>1, <2>2
  <2>4. s = Up0001[done + 1] /\ Before(d, 1, "up", done) BY <1>1, <2>1
  <2>5. Afterwards(After(d, s), 1, "up", done + 1, 3) BY <2>3, <2>4, Upgrade1
  <2>6. length = 3 /\ next = done + 1 BY <2>1, <2>2
  <2>7. Afterwards(After(d, s), n, way, done + 1, 3) BY <1>1, <2>5
  <2>8. Afterwards(After(d, s), n, way, next, length) BY <2>6, <2>7
  <2>9. QED BY <2>6, <2>8
<1>2. CASE n = 1 /\ way = "down"
  <2>1. Scripts(n, way) = Down0001 BY <1>2 DEF Scripts, Downgrade
  <2>2. Len(Down0001) = 3 BY DEF Down0001
  <2>3. done \in 0..2 BY <2>1, <2>2
  <2>4. s = Down0001[done + 1] /\ Before(d, 1, "down", done) BY <1>2, <2>1
  <2>5. Afterwards(After(d, s), 1, "down", done + 1, 3) BY <2>3, <2>4, Downgrade1
  <2>6. length = 3 /\ next = done + 1 BY <2>1, <2>2
  <2>7. Afterwards(After(d, s), n, way, done + 1, 3) BY <1>2, <2>5
  <2>8. Afterwards(After(d, s), n, way, next, length) BY <2>6, <2>7
  <2>9. QED BY <2>6, <2>8
<1>3. CASE n = 2 /\ way = "up"
  <2>1. Scripts(n, way) = Up0002 BY <1>3 DEF Scripts, Upgrade
  <2>2. Len(Up0002) = 2 BY DEF Up0002
  <2>3. done \in 0..1 BY <2>1, <2>2
  <2>4. s = Up0002[done + 1] /\ Before(d, 2, "up", done) BY <1>3, <2>1
  <2>5. Afterwards(After(d, s), 2, "up", done + 1, 2) BY <2>3, <2>4, Upgrade2
  <2>6. length = 2 /\ next = done + 1 BY <2>1, <2>2
  <2>7. Afterwards(After(d, s), n, way, done + 1, 2) BY <1>3, <2>5
  <2>8. Afterwards(After(d, s), n, way, next, length) BY <2>6, <2>7
  <2>9. QED BY <2>6, <2>8
<1>4. CASE n = 2 /\ way = "down"
  <2>1. Scripts(n, way) = Down0002 BY <1>4 DEF Scripts, Downgrade
  <2>2. Len(Down0002) = 2 BY DEF Down0002
  <2>3. done \in 0..1 BY <2>1, <2>2
  <2>4. s = Down0002[done + 1] /\ Before(d, 2, "down", done) BY <1>4, <2>1
  <2>5. Afterwards(After(d, s), 2, "down", done + 1, 2) BY <2>3, <2>4, Downgrade2
  <2>6. length = 2 /\ next = done + 1 BY <2>1, <2>2
  <2>7. Afterwards(After(d, s), n, way, done + 1, 2) BY <1>4, <2>5
  <2>8. Afterwards(After(d, s), n, way, next, length) BY <2>6, <2>7
  <2>9. QED BY <2>6, <2>8
<1>5. CASE n = 3 /\ way = "up"
  <2>1. Scripts(n, way) = Up0003 BY <1>5 DEF Scripts, Upgrade
  <2>2. Len(Up0003) = 4 BY DEF Up0003
  <2>3. done \in 0..3 BY <2>1, <2>2
  <2>4. s = Up0003[done + 1] /\ Before(d, 3, "up", done) BY <1>5, <2>1
  <2>5. Afterwards(After(d, s), 3, "up", done + 1, 4) BY <2>3, <2>4, Upgrade3
  <2>6. length = 4 /\ next = done + 1 BY <2>1, <2>2
  <2>7. Afterwards(After(d, s), n, way, done + 1, 4) BY <1>5, <2>5
  <2>8. Afterwards(After(d, s), n, way, next, length) BY <2>6, <2>7
  <2>9. QED BY <2>6, <2>8
<1>6. CASE n = 3 /\ way = "down"
  <2>1. Scripts(n, way) = Down0003 BY <1>6 DEF Scripts, Downgrade
  <2>2. Len(Down0003) = 3 BY DEF Down0003
  <2>3. done \in 0..2 BY <2>1, <2>2
  <2>4. s = Down0003[done + 1] /\ Before(d, 3, "down", done) BY <1>6, <2>1
  <2>5. Afterwards(After(d, s), 3, "down", done + 1, 3) BY <2>3, <2>4, Downgrade3
  <2>6. length = 3 /\ next = done + 1 BY <2>1, <2>2
  <2>7. Afterwards(After(d, s), n, way, done + 1, 3) BY <1>6, <2>5
  <2>8. Afterwards(After(d, s), n, way, next, length) BY <2>6, <2>7
  <2>9. QED BY <2>6, <2>8
<1>7. CASE n = 4 /\ way = "up"
  <2>1. Scripts(n, way) = Up0004 BY <1>7 DEF Scripts, Upgrade
  <2>2. Len(Up0004) = 3 BY DEF Up0004
  <2>3. done \in 0..2 BY <2>1, <2>2
  <2>4. s = Up0004[done + 1] /\ Before(d, 4, "up", done) BY <1>7, <2>1
  <2>5. Afterwards(After(d, s), 4, "up", done + 1, 3) BY <2>3, <2>4, Upgrade4
  <2>6. length = 3 /\ next = done + 1 BY <2>1, <2>2
  <2>7. Afterwards(After(d, s), n, way, done + 1, 3) BY <1>7, <2>5
  <2>8. Afterwards(After(d, s), n, way, next, length) BY <2>6, <2>7
  <2>9. QED BY <2>6, <2>8
<1>8. CASE n = 4 /\ way = "down"
  <2>1. Scripts(n, way) = Down0004 BY <1>8 DEF Scripts, Downgrade
  <2>2. Len(Down0004) = 2 BY DEF Down0004
  <2>3. done \in 0..1 BY <2>1, <2>2
  <2>4. s = Down0004[done + 1] /\ Before(d, 4, "down", done) BY <1>8, <2>1
  <2>5. Afterwards(After(d, s), 4, "down", done + 1, 2) BY <2>3, <2>4, Downgrade4
  <2>6. length = 2 /\ next = done + 1 BY <2>1, <2>2
  <2>7. Afterwards(After(d, s), n, way, done + 1, 2) BY <1>8, <2>5
  <2>8. Afterwards(After(d, s), n, way, next, length) BY <2>6, <2>7
  <2>9. QED BY <2>6, <2>8
<1>9. CASE n >= 5
  <2>1. n \in 5..LastRevision BY <1>9 DEF LastRevision
  <2>2. Len(Scripts(n, way)) \in Nat
        /\ \A i \in 1..Len(Scripts(n, way)) : Neutral(Scripts(n, way)[i])
    BY <2>1, LaterStatements DEF Scripts
  <2>3. Neutral(s) BY <2>2
  <2>4. QED BY <2>1, <2>2, <2>3, LaterRevision
<1>10. n \in {1, 2, 3, 4} \/ n >= 5 BY DEF LastRevision
<1>11. QED BY <1>1, <1>2, <1>3, <1>4, <1>5, <1>6, <1>7, <1>8, <1>9, <1>10

-----------------------------------------------------------------------------
(* The program of a revision writes what the revision stands for *)

LEMMA BodySays ==
    ASSUME NEW n \in 1..LastRevision, Standing(db, n), NEW row, NEW history,
           DOMAIN row \intersect Tracked["runs"] = Columns(n)
    PROVE  Body(row, history) = Says(Fields(n), row, history)
<1> DEFINE plain == [c \in DOMAIN row \intersect {"policy_version", "review_status", "review_outcome"}
                        |-> row[c]]
<1>1. n \in 0..LastRevision /\ n # 0 BY DEF LastRevision
<1>2. "review_events" \in Tables(db) <=> n >= 4 BY <1>1 DEF Standing, EventsAgree
<1>3. "review_events" \in Fields(n) <=> n >= 4 BY <1>1, ColumnsAndFields
<1>4. DOMAIN row \intersect {"policy_version", "review_status", "review_outcome"}
         = Fields(n) \ {"review_events"}
  BY <1>1, ColumnsAndFields, TrackedColumns
<1>5. plain = [c \in Fields(n) \ {"review_events"} |-> row[c]] BY <1>4
<1>6. Body(row, history) = IF n >= 4 THEN Put(plain, "review_events", history) ELSE plain
  BY <1>2 DEF Body
<1> HIDE DEF plain
<1>7. CASE n >= 4
  <2>1. Put(plain, "review_events", history) = Says(Fields(n), row, history)
    BY <1>3, <1>5, <1>7 DEF Put, Says
  <2>2. QED BY <1>6, <1>7, <2>1
<1>8. CASE ~(n >= 4)
  <2>1. plain = Says(Fields(n), row, history) BY <1>3, <1>5, <1>8 DEF Says
  <2>2. QED BY <1>6, <1>8, <2>1
<1>9. QED BY <1>7, <1>8

(* The row and the pack that are written together. *)
Recorded(e, k, row, body) ==
    /\ DOMAIN e["runs"] = DOMAIN db["runs"] /\ e["runs"].columns = db["runs"].columns
    /\ DOMAIN e["runs"].rows = DOMAIN db["runs"].rows \union {k}
    /\ \A j \in DOMAIN db["runs"].rows \ {k} : e["runs"].rows[j] = db["runs"].rows[j]
    /\ DOMAIN e["runs"].rows[k] = DOMAIN row
    /\ \A c \in DOMAIN row \ {"evidence_sha256"} : e["runs"].rows[k][c] = row[c]
    /\ e["runs"].rows[k].evidence_sha256 = body
    /\ DOMAIN e["evidence_packs"] = DOMAIN db["evidence_packs"]
    /\ e["evidence_packs"].columns = db["evidence_packs"].columns
    /\ DOMAIN e["evidence_packs"].rows = DOMAIN db["evidence_packs"].rows \union {k}
    /\ \A j \in DOMAIN db["evidence_packs"].rows \ {k} :
          e["evidence_packs"].rows[j] = db["evidence_packs"].rows[j]
    /\ DOMAIN e["evidence_packs"].rows[k] = db["evidence_packs"].columns
    /\ e["evidence_packs"].rows[k].body = body /\ e["evidence_packs"].rows[k].sha256 = body

LEMMA SealedRecords ==
    ASSUME NEW n \in 1..LastRevision, Standing(db, n), NEW k, NEW row, NEW history,
           "evidence_sha256" \in DOMAIN row
    PROVE  LET new == Sealed(k, row, history)
           IN  /\ Tables(new) = Tables(db)
               /\ \A u \in Tables(db) \ {"runs", "evidence_packs"} : new[u] = db[u]
               /\ Recorded(new, k, row, Body(row, history))
<1> DEFINE new == Sealed(k, row, history)
           body == Body(row, history)
           pack == Given([body |-> body, sha256 |-> body], db["evidence_packs"].columns)
           sealed == [row EXCEPT !.evidence_sha256 = body]
           runs == Put(db["runs"].rows, k, sealed)
           packs == Put(db["evidence_packs"].rows, k, pack)
<1>1. Ledger(db, Columns(n), Fields(n)) BY DEF Standing, LastRevision
<1>2. /\ "runs" \in Tables(db) /\ {"columns", "refers", "guarded", "rows"} \subseteq DOMAIN db["runs"]
      /\ "evidence_packs" \in Tables(db)
      /\ {"columns", "refers", "guarded", "rows"} \subseteq DOMAIN db["evidence_packs"]
      /\ {"body", "sha256"} \subseteq db["evidence_packs"].columns
  BY <1>1 DEF Ledger, WellFormed, LedgerTables
<1>3. new = [db EXCEPT !["runs"].rows = runs, !["evidence_packs"].rows = packs]
  BY DEF Sealed
<1> HIDE DEF body
<1>4. DOMAIN pack = db["evidence_packs"].columns /\ pack.body = body /\ pack.sha256 = body
  BY <1>2 DEF Given
<1>5. /\ DOMAIN sealed = DOMAIN row /\ sealed.evidence_sha256 = body
      /\ \A c \in DOMAIN row \ {"evidence_sha256"} : sealed[c] = row[c]
  OBVIOUS
<1> HIDE DEF pack, sealed
<1>6. /\ DOMAIN runs = DOMAIN db["runs"].rows \union {k} /\ runs[k] = sealed
      /\ \A j \in DOMAIN db["runs"].rows \ {k} : runs[j] = db["runs"].rows[j]
  BY DEF Put
<1>7. /\ DOMAIN packs = DOMAIN db["evidence_packs"].rows \union {k} /\ packs[k] = pack
      /\ \A j \in DOMAIN db["evidence_packs"].rows \ {k} : packs[j] = db["evidence_packs"].rows[j]
  BY DEF Put
<1> HIDE DEF runs, packs, new
<1>8. /\ Tables(new) = Tables(db)
      /\ \A u \in Tables(db) \ {"runs", "evidence_packs"} : new[u] = db[u]
  BY <1>3 DEF Tables
<1>9. /\ DOMAIN new["runs"] = DOMAIN db["runs"] /\ new["runs"].columns = db["runs"].columns
      /\ new["runs"].rows = runs
  BY <1>2, <1>3 DEF Tables
<1>10. /\ DOMAIN new["evidence_packs"] = DOMAIN db["evidence_packs"]
       /\ new["evidence_packs"].columns = db["evidence_packs"].columns
       /\ new["evidence_packs"].rows = packs
  BY <1>2, <1>3 DEF Tables
<1>11. Recorded(new, k, row, body)
  <2>1. new["runs"].rows[k] = sealed /\ new["evidence_packs"].rows[k] = pack BY <1>6, <1>7, <1>9, <1>10
  <2>2. QED BY <1>4, <1>5, <1>6, <1>7, <1>9, <1>10, <2>1 DEF Recorded
<1>12. QED BY <1>8, <1>11 DEF new, body

LEMMA RecordStands ==
    ASSUME NEW n \in 1..LastRevision, Standing(db, n), NEW e, NEW k, NEW row, NEW history,
           DOMAIN row \intersect Tracked["runs"] = Columns(n),
           "policy_version" \in Columns(n) => row.policy_version = "1.0",
           Tables(e) = Tables(db), Recorded(e, k, row, Body(row, history)),
           n >= 4 =>
               /\ {"columns", "refers", "guarded", "rows"} \subseteq DOMAIN e["review_events"]
               /\ e["review_events"].columns = db["review_events"].columns
               /\ \A j \in DOMAIN e["review_events"].rows :
                     DOMAIN e["review_events"].rows[j] \intersect Tracked["review_events"]
                        = db["review_events"].columns \intersect Tracked["review_events"]
               /\ DOMAIN e["review_events"].rows \subseteq DOMAIN db["runs"].rows \union {k}
               /\ History(e, k) = history
               /\ \A j \in DOMAIN db["runs"].rows \ {k} : History(e, j) = History(db, j)
               /\ history = IF row.review_outcome = None THEN <<>> ELSE <<row.review_outcome>>
    PROVE  Standing(e, n)
<1>1. n \in 0..LastRevision /\ n # 0 BY DEF LastRevision
<1>2. Ledger(db, Columns(n), Fields(n)) BY <1>1 DEF Standing
<1>3. /\ {"runs", "evidence_packs"} \subseteq LedgerTables \intersect Tables(db)
      /\ "review_events" \in LedgerTables /\ WellFormed(db)
      /\ DOMAIN db["evidence_packs"].rows = DOMAIN db["runs"].rows
      /\ db["runs"].columns \intersect Tracked["runs"] = Columns(n)
      /\ {"body", "sha256"} \subseteq db["evidence_packs"].columns
  BY <1>2 DEF Ledger, LedgerTables
<1>4. "review_events" \in Tables(db) <=> n >= 4 BY <1>1 DEF Standing, EventsAgree
<1>5. WellFormed(e)
  <2>1. SUFFICES ASSUME NEW t \in LedgerTables \intersect Tables(db)
                 PROVE  /\ {"columns", "refers", "guarded", "rows"} \subseteq DOMAIN e[t]
                        /\ \A j \in DOMAIN e[t].rows :
                              DOMAIN e[t].rows[j] \intersect Tracked[t] = e[t].columns \intersect Tracked[t]
    BY DEF WellFormed
  <2>2. CASE t = "runs"
    <3>1. {"columns", "refers", "guarded", "rows"} \subseteq DOMAIN e["runs"]
      BY <1>3 DEF WellFormed, Recorded
    <3>2. ASSUME NEW j \in DOMAIN e["runs"].rows
          PROVE  DOMAIN e["runs"].rows[j] \intersect Tracked["runs"]
                    = e["runs"].columns \intersect Tracked["runs"]
      <4>1. CASE j = k BY <1>3, <4>1 DEF Recorded
      <4>2. CASE j # k
        <5>1. j \in DOMAIN db["runs"].rows /\ e["runs"].rows[j] = db["runs"].rows[j]
          BY <3>2, <4>2 DEF Recorded
        <5>2. QED BY <1>3, <5>1 DEF WellFormed, Recorded
      <4>3. QED BY <4>1, <4>2
    <3>3. QED BY <2>2, <3>1, <3>2
  <2>3. CASE t = "evidence_packs"
    <3>1. {"columns", "refers", "guarded", "rows"} \subseteq DOMAIN e["evidence_packs"]
      BY <1>3 DEF WellFormed, Recorded
    <3>2. ASSUME NEW j \in DOMAIN e["evidence_packs"].rows
          PROVE  DOMAIN e["evidence_packs"].rows[j] \intersect Tracked["evidence_packs"]
                    = e["evidence_packs"].columns \intersect Tracked["evidence_packs"]
      <4>1. CASE j = k BY <1>3, <4>1 DEF Recorded
      <4>2. CASE j # k
        <5>1. j \in DOMAIN db["evidence_packs"].rows
              /\ e["evidence_packs"].rows[j] = db["evidence_packs"].rows[j]
          BY <3>2, <4>2 DEF Recorded
        <5>2. QED BY <1>3, <5>1 DEF WellFormed, Recorded
      <4>3. QED BY <4>1, <4>2
    <3>3. QED BY <2>3, <3>1, <3>2
  <2>4. CASE t = "review_events" BY <1>3, <1>4, <2>4
  <2>5. QED BY <2>2, <2>3, <2>4 DEF LedgerTables
<1>6. Body(row, history) = Says(Fields(n), row, history) BY BodySays
<1>7. "evidence_sha256" \notin Fields(n) /\ Columns(n) \subseteq DOMAIN row
      /\ Fields(n) \ {"review_events"} \subseteq DOMAIN row \ {"evidence_sha256"}
  <2>1. "evidence_sha256" \notin Fields(n) BY DEF Fields
  <2>2. Columns(n) \subseteq DOMAIN row OBVIOUS
  <2>3. Fields(n) \subseteq Columns(n) \union {"review_events"} BY <1>1, ColumnsAndFields
  <2>4. QED BY <2>1, <2>2, <2>3
<1>8. \A c \in Columns(n) \ {"evidence_sha256"} : e["runs"].rows[k][c] = row[c]
  BY <1>7 DEF Recorded
<1>9. ASSUME NEW j \in DOMAIN e["runs"].rows
      PROVE  /\ e["evidence_packs"].rows[j].body = Says(Fields(n), e["runs"].rows[j], History(e, j))
             /\ e["evidence_packs"].rows[j].sha256 = e["evidence_packs"].rows[j].body
             /\ "policy_version" \in Columns(n) => e["runs"].rows[j].policy_version = "1.0"
             /\ n >= 3 => e["runs"].rows[j].evidence_sha256 = e["evidence_packs"].rows[j].sha256
  <2>1. CASE j = k
    <3>1. Says(Fields(n), e["runs"].rows[k], History(e, k)) = Says(Fields(n), row, History(e, k))
      <4>1. \A f \in Fields(n) \ {"review_events"} : e["runs"].rows[k][f] = row[f]
        BY <1>7 DEF Recorded
      <4>2. QED BY <4>1, SaysTheSame
    <3>2. Says(Fields(n), row, History(e, k)) = Says(Fields(n), row, history)
      <4>1. CASE n >= 4 BY <4>1
      <4>2. CASE ~(n >= 4)
        <5>1. "review_events" \notin Fields(n) BY <1>1, <4>2, ColumnsAndFields
        <5>2. QED BY <5>1, SaysNoHistory
      <4>3. QED BY <4>1, <4>2
    <3>3. "policy_version" \in Columns(n) => e["runs"].rows[k]["policy_version"] = "1.0" BY <1>8
    <3>4. e["evidence_packs"].rows[k].body = Says(Fields(n), row, history)
          /\ e["evidence_packs"].rows[k].sha256 = Says(Fields(n), row, history)
          /\ e["runs"].rows[k].evidence_sha256 = Says(Fields(n), row, history)
      BY <1>6 DEF Recorded
    <3>5. QED BY <2>1, <3>1, <3>2, <3>3, <3>4
  <2>2. CASE j # k
    <3>1. /\ j \in DOMAIN db["runs"].rows /\ e["runs"].rows[j] = db["runs"].rows[j]
          /\ e["evidence_packs"].rows[j] = db["evidence_packs"].rows[j]
      BY <1>3, <2>2, <1>9 DEF Recorded
    <3>2. /\ db["evidence_packs"].rows[j].body = Says(Fields(n), db["runs"].rows[j], History(db, j))
          /\ db["evidence_packs"].rows[j].sha256 = db["evidence_packs"].rows[j].body
          /\ "policy_version" \in Columns(n) => db["runs"].rows[j].policy_version = "1.0"
      BY <1>2, <3>1 DEF Ledger
    <3>3. Says(Fields(n), db["runs"].rows[j], History(db, j))
             = Says(Fields(n), db["runs"].rows[j], History(e, j))
      <4>1. CASE n >= 4 BY <2>2, <3>1, <4>1
      <4>2. CASE ~(n >= 4)
        <5>1. "review_events" \notin Fields(n) BY <1>1, <4>2, ColumnsAndFields
        <5>2. QED BY <5>1, SaysNoHistory
      <4>3. QED BY <4>1, <4>2
    <3>4. n >= 3 => db["runs"].rows[j].evidence_sha256 = db["evidence_packs"].rows[j].sha256
      BY <1>1, <3>1 DEF Standing, RowsSealed
    <3>5. QED BY <3>1, <3>2, <3>3, <3>4
  <2>3. QED BY <2>1, <2>2
<1>10. Ledger(e, Columns(n), Fields(n))
  <2>1. {"runs", "evidence_packs"} \subseteq Tables(e) BY <1>3
  <2>2. e["runs"].columns \intersect Tracked["runs"] = Columns(n)
        /\ {"body", "sha256"} \subseteq e["evidence_packs"].columns
        /\ DOMAIN e["evidence_packs"].rows = DOMAIN e["runs"].rows
    BY <1>3 DEF Recorded
  <2>3. QED BY <1>5, <1>9, <2>1, <2>2 DEF Ledger
<1>11. n >= 3 => RowsSealed(e) BY <1>9 DEF RowsSealed
<1>12. CASE n >= 4
  <2>1. EventsAgree(db) BY <1>1, <1>12 DEF Standing
  <2>2. "review_events" \in Tables(e) /\ "action" \in e["review_events"].columns
    BY <1>12, <2>1 DEF EventsAgree
  <2>3. DOMAIN e["review_events"].rows \subseteq DOMAIN e["runs"].rows BY <1>12 DEF Recorded
  <2>4. ASSUME NEW j \in DOMAIN e["runs"].rows
        PROVE  History(e, j) = IF e["runs"].rows[j].review_outcome = None THEN <<>>
                               ELSE <<e["runs"].rows[j].review_outcome>>
    <3>1. CASE j = k
      <4>1. e["runs"].rows[k]["review_outcome"] = row["review_outcome"]
        BY <1>1, <1>8, <1>12, ColumnsAndFields
      <4>2. QED BY <1>12, <3>1, <4>1
    <3>2. CASE j # k
      <4>1. j \in DOMAIN db["runs"].rows /\ e["runs"].rows[j] = db["runs"].rows[j]
        BY <2>4, <3>2 DEF Recorded
      <4>2. History(e, j) = History(db, j) BY <1>12, <3>2, <4>1
      <4>3. QED BY <2>1, <4>1, <4>2 DEF EventsAgree
    <3>3. QED BY <3>1, <3>2
  <2>5. EventsAgree(e) BY <2>2, <2>3, <2>4 DEF EventsAgree
  <2>6. QED BY <1>1, <1>10, <1>11, <1>12, <2>5 DEF Standing
<1>13. CASE ~(n >= 4)
  <2>1. "review_events" \notin Tables(e) BY <1>4, <1>13
  <2>2. QED BY <1>1, <1>10, <1>11, <1>13, <2>1 DEF Standing
<1>14. QED BY <1>12, <1>13

LEMMA StoreRunStands ==
    ASSUME revision \in 0..LastRevision, Standing(db, revision), NEW k, NEW d, StoreRun(k, d)
    PROVE  Standing(db', revision)
<1> DEFINE n == revision
           values == [decision |-> d, policy_version |-> "1.0", schema_version |-> "1.0",
                      review_status |-> IF d = "review" THEN "pending" ELSE "not_required"]
           row == Given(values, db["runs"].columns)
           new == Sealed(k, row, <<>>)
<1>1. n \in 1..LastRevision /\ n # 0 BY DEF StoreRun, LastRevision
<1>2. db' = new /\ k \notin DOMAIN Rows("runs") BY DEF StoreRun
<1>3. Ledger(db, Columns(n), Fields(n)) BY <1>1 DEF Standing
<1>4. "runs" \in Tables(db) /\ db["runs"].columns \intersect Tracked["runs"] = Columns(n)
      /\ WellFormed(db)
  BY <1>3 DEF Ledger
<1>5. DOMAIN row = db["runs"].columns BY DEF Given
<1>6. DOMAIN row \intersect Tracked["runs"] = Columns(n) BY <1>4, <1>5
<1>7. "policy_version" \in DOMAIN row => row.policy_version = "1.0" BY <1>5 DEF Given
<1>8. "review_outcome" \in DOMAIN row => row.review_outcome = None BY <1>5 DEF Given
<1> HIDE DEF row
<1>9. "evidence_sha256" \in DOMAIN row BY <1>1, <1>6, ColumnsAndFields DEF LastRevision
<1>10. /\ Tables(new) = Tables(db)
       /\ \A u \in Tables(db) \ {"runs", "evidence_packs"} : new[u] = db[u]
       /\ Recorded(new, k, row, Body(row, <<>>))
  BY <1>1, <1>9, SealedRecords
<1> HIDE DEF new
<1>11. ASSUME n >= 4
       PROVE  /\ {"columns", "refers", "guarded", "rows"} \subseteq DOMAIN new["review_events"]
              /\ new["review_events"].columns = db["review_events"].columns
              /\ \A j \in DOMAIN new["review_events"].rows :
                    DOMAIN new["review_events"].rows[j] \intersect Tracked["review_events"]
                       = db["review_events"].columns \intersect Tracked["review_events"]
              /\ DOMAIN new["review_events"].rows \subseteq DOMAIN db["runs"].rows \union {k}
              /\ History(new, k) = <<>>
              /\ \A j \in DOMAIN db["runs"].rows \ {k} : History(new, j) = History(db, j)
              /\ <<>> = IF row.review_outcome = None THEN <<>> ELSE <<row.review_outcome>>
  <2>1. EventsAgree(db) BY <1>1, <1>11 DEF Standing
  <2>2. "review_events" \in Tables(db) \ {"runs", "evidence_packs"} /\ "review_events" \in LedgerTables
    BY <2>1 DEF EventsAgree, LedgerTables
  <2>3. new["review_events"] = db["review_events"] BY <1>10, <2>2
  <2>4. /\ {"columns", "refers", "guarded", "rows"} \subseteq DOMAIN db["review_events"]
        /\ \A j \in DOMAIN db["review_events"].rows :
              DOMAIN db["review_events"].rows[j] \intersect Tracked["review_events"]
                 = db["review_events"].columns \intersect Tracked["review_events"]
    BY <1>4, <2>2 DEF WellFormed
  <2>5. DOMAIN db["review_events"].rows \subseteq DOMAIN db["runs"].rows BY <2>1 DEF EventsAgree
  <2>6. k \notin DOMAIN db["runs"].rows BY <1>2, <1>4 DEF Rows
  <2>7. \A j : History(new, j) = History(db, j) BY <1>10, <2>3, SameHistory
  <2>8. History(db, k) = <<>> BY <2>5, <2>6 DEF History
  <2>9. row["review_outcome"] = None
    <3>1. "review_outcome" \in Columns(n) BY <1>11, ColumnsAndFields
    <3>2. QED BY <1>6, <1>8, <3>1
  <2>10. QED BY <2>3, <2>4, <2>5, <2>7, <2>8, <2>9
<1>12. "policy_version" \in Columns(n) => row.policy_version = "1.0" BY <1>6, <1>7
<1>13. Standing(new, n) BY <1>1, <1>6, <1>10, <1>11, <1>12, RecordStands
<1>14. QED BY <1>2, <1>13

LEMMA ReviewRunStands ==
    ASSUME revision \in 0..LastRevision, Standing(db, revision), NEW k, NEW outcome \in Outcomes,
           ReviewRun(k, outcome)
    PROVE  Standing(db', revision)
<1> DEFINE n == revision
           old == db["runs"].rows[k]
           row == [old EXCEPT !.review_status = outcome, !.review_outcome = outcome]
           new == Sealed(k, row, <<outcome>>)
           event == Given([action |-> outcome], new["review_events"].columns)
<1>1. "runs" \in Tables(db) /\ k \in DOMAIN db["runs"].rows /\ Rows("runs") = db["runs"].rows
  BY EmptyIsEmpty DEF ReviewRun, Rows
<1>2. n # 0 /\ n \in 1..LastRevision BY <1>1 DEF Standing, LedgerTables, LastRevision
<1>3. Ledger(db, Columns(n), Fields(n)) BY <1>2 DEF Standing
<1>4. db["runs"].columns \intersect Tracked["runs"] = Columns(n) /\ WellFormed(db)
  BY <1>3 DEF Ledger
<1>5. n >= 3 /\ "review_outcome" \in Columns(n) /\ "review_status" \in Columns(n)
      /\ "evidence_sha256" \in Columns(n)
  <2>1. "review_status" \in db["runs"].columns BY DEF ReviewRun
  <2>2. "review_status" \in Columns(n) BY <1>4, <2>1, TrackedColumns
  <2>3. n >= 3 BY <2>2, ColumnsAndFields
  <2>4. QED BY <2>2, <2>3, ColumnsAndFields
<1>6. /\ DOMAIN old \intersect Tracked["runs"] = Columns(n) /\ Columns(n) \subseteq DOMAIN old
      /\ "policy_version" \in Columns(n) => old.policy_version = "1.0"
  BY <1>1, <1>3, LedgerHasColumns, LedgerShape
<1> HIDE DEF old
<1>7. /\ DOMAIN row = DOMAIN old
      /\ row.review_outcome = outcome
      /\ "policy_version" \in Columns(n) => row.policy_version = "1.0"
  <2>1. "review_outcome" \in DOMAIN old BY <1>5, <1>6
  <2>2. "policy_version" \in Columns(n) => "policy_version" \in DOMAIN old BY <1>6
  <2>3. QED BY <1>6, <2>1, <2>2
<1>8. db' = IF "review_events" \in Tables(db)
            THEN [new EXCEPT !["review_events"].rows = Put(@, k, event)]
            ELSE new
  BY <1>1 DEF ReviewRun, old
<1> HIDE DEF row
<1>9. "evidence_sha256" \in DOMAIN row BY <1>5, <1>6, <1>7
<1>10. /\ Tables(new) = Tables(db)
       /\ \A u \in Tables(db) \ {"runs", "evidence_packs"} : new[u] = db[u]
       /\ Recorded(new, k, row, Body(row, <<outcome>>))
  BY <1>2, <1>9, SealedRecords
<1> HIDE DEF new
<1>11. DOMAIN row \intersect Tracked["runs"] = Columns(n) BY <1>6, <1>7
<1>12. "review_events" \in Tables(db) <=> n >= 4 BY <1>2 DEF Standing, EventsAgree
<1>13. CASE ~(n >= 4)
  <2>1. db' = new BY <1>8, <1>12, <1>13
  <2>2. Standing(new, n) BY <1>2, <1>7, <1>10, <1>11, <1>13, RecordStands
  <2>3. QED BY <2>1, <2>2
<1>14. CASE n >= 4
  <2> DEFINE events == db["review_events"].rows
             columns == db["review_events"].columns
             rows == Put(events, k, event)
  <2>1. PICK e : e = [new EXCEPT !["review_events"].rows = rows]
    OBVIOUS
  <2>2. EventsAgree(db) BY <1>2, <1>14 DEF Standing
  <2>3. "review_events" \in Tables(db) /\ "review_events" \in LedgerTables
        /\ "review_events" \notin {"runs", "evidence_packs"}
    BY <2>2 DEF EventsAgree, LedgerTables
  <2>4. new["review_events"] = db["review_events"] BY <1>10, <2>3
  <2>5. db' = e BY <1>8, <2>1, <2>3, <2>4
  <2>6. /\ {"columns", "refers", "guarded", "rows"} \subseteq DOMAIN db["review_events"]
        /\ \A j \in DOMAIN events :
              DOMAIN events[j] \intersect Tracked["review_events"]
                  = columns \intersect Tracked["review_events"]
        /\ "action" \in columns /\ DOMAIN events \subseteq DOMAIN db["runs"].rows
    BY <1>4, <2>2, <2>3 DEF WellFormed, EventsAgree
  <2>7. DOMAIN event = columns /\ event.action = outcome BY <2>4, <2>6 DEF Given
  <2> HIDE DEF event
  <2>8. /\ DOMAIN rows = DOMAIN events \union {k} /\ rows[k] = event
        /\ \A j \in DOMAIN events \ {k} : rows[j] = events[j]
    BY DEF Put
  <2> HIDE DEF rows
  <2>9. /\ Tables(e) = Tables(db)
        /\ e["runs"] = new["runs"] /\ e["evidence_packs"] = new["evidence_packs"]
    <3>1. DOMAIN e = DOMAIN new /\ \A u \in DOMAIN new : u # "review_events" => e[u] = new[u] BY <2>1
    <3>2. Tables(e) = Tables(db) BY <1>10, <3>1 DEF Tables
    <3>3. {"runs", "evidence_packs"} \subseteq DOMAIN new BY <1>3, <1>10 DEF Ledger, Tables
    <3>4. QED BY <3>1, <3>2, <3>3
  <2>10. /\ DOMAIN e["review_events"] = DOMAIN db["review_events"]
         /\ e["review_events"].columns = columns /\ e["review_events"].rows = rows
    <3>1. "review_events" \in DOMAIN new BY <1>10, <2>3 DEF Tables
    <3>2. e["review_events"] = [new["review_events"] EXCEPT !.rows = rows] BY <2>1, <3>1
    <3>3. QED BY <2>4, <2>6, <3>2
  <2>11. Recorded(e, k, row, Body(row, <<outcome>>)) BY <1>10, <2>9 DEF Recorded
  <2>12. History(e, k) = <<outcome>> BY <2>3, <2>7, <2>8, <2>9, <2>10 DEF History
  <2>13. ASSUME NEW j, j # k PROVE History(e, j) = History(db, j)
    <3>1. CASE j \in DOMAIN events
      <4>1. rows[j] = events[j] /\ j \in DOMAIN rows BY <2>8, <2>13, <3>1
      <4>2. QED BY <2>3, <2>9, <2>10, <3>1, <4>1 DEF History
    <3>2. CASE j \notin DOMAIN events
      <4>1. j \notin DOMAIN rows BY <2>8, <2>13, <3>2
      <4>2. QED BY <2>3, <2>9, <2>10, <3>2, <4>1 DEF History
    <3>3. QED BY <3>1, <3>2
  <2>14. \A j \in DOMAIN rows :
            DOMAIN rows[j] \intersect Tracked["review_events"] = columns \intersect Tracked["review_events"]
    BY <2>6, <2>7, <2>8
  <2>15. <<outcome>> = IF row.review_outcome = None THEN <<>> ELSE <<row.review_outcome>>
    BY <1>7, NullIsNoOutcome
  <2>16. {"columns", "refers", "guarded", "rows"} \subseteq DOMAIN e["review_events"]
         /\ DOMAIN e["review_events"].rows \subseteq DOMAIN db["runs"].rows \union {k}
    BY <2>6, <2>8, <2>10
  <2>17. /\ e["review_events"].columns = db["review_events"].columns
         /\ \A j \in DOMAIN e["review_events"].rows :
               DOMAIN e["review_events"].rows[j] \intersect Tracked["review_events"]
                  = db["review_events"].columns \intersect Tracked["review_events"]
    BY <2>10, <2>14
  <2>18. Standing(e, n)
    BY <1>2, <1>7, <1>11, <2>9, <2>11, <2>12, <2>13, <2>15, <2>16, <2>17, RecordStands
  <2>19. QED BY <2>5, <2>18
<1>15. QED BY <1>13, <1>14

-----------------------------------------------------------------------------
(* The transaction of a call of alembic *)

LEMMA NoEmptyScript ==
    ASSUME NEW n \in 1..LastRevision, NEW way \in {"up", "down"}
    PROVE  Len(Scripts(n, way)) \in Nat \ {0}
<1> USE DEF Scripts, Upgrade, Downgrade
<1>1. CASE n = 1 BY <1>1 DEF Up0001, Down0001
<1>2. CASE n = 2 BY <1>2 DEF Up0002, Down0002
<1>3. CASE n = 3 BY <1>3 DEF Up0003, Down0003
<1>4. CASE n = 4 BY <1>4 DEF Up0004, Down0004
<1>5. CASE n = 5 BY <1>5 DEF Up0005, Down0005
<1>6. CASE n = 6
  <2>1. Len(Up0006) = 23 /\ Len(Down0006) = 17 BY DEF Up0006, Down0006
  <2>2. Scripts(n, way) \in {Up0006, Down0006} BY <1>6
  <2> HIDE DEF Scripts
  <2>3. Len(Scripts(n, way)) \in {17, 23} BY <2>1, <2>2
  <2>4. QED BY <2>3
<1>7. CASE n = 7 BY <1>7 DEF Up0007, Down0007
<1>8. CASE n = 8 BY <1>8 DEF Up0008, Down0008
<1>9. CASE n = 9 BY <1>9 DEF Up0009, Down0009
<1>10. CASE n = 10 BY <1>10 DEF Up0010, Down0010
<1>11. CASE n = 11 BY <1>11 DEF Up0011, Down0011
<1>12. CASE n = 12 BY <1>12 DEF Up0012, Down0012
<1>13. CASE n = 13 BY <1>13 DEF Up0013, Down0013
<1>14. CASE n = 14 BY <1>14 DEF Up0014, Down0014
<1>15. QED BY <1>1, <1>2, <1>3, <1>4, <1>5, <1>6, <1>7, <1>8, <1>9, <1>10, <1>11, <1>12, <1>13, <1>14
           DEF LastRevision

LEMMA ExecuteStands ==
    ASSUME txn # None, Stands(txn), Execute PROVE Stands(txn')
<1> DEFINE n == InHand(txn)
           way == Way(txn)
           done == txn.done
           script == Scripts(n, way)
           s == script[done + 1]
           e == After(txn.db, s)
<1>1. /\ txn.at \in 0..LastRevision /\ txn.target \in 0..LastRevision /\ done \in Nat
      /\ {"db", "at", "done", "target"} \subseteq DOMAIN txn
      /\ txn.at # txn.target
  BY DEF Stands, Execute, Executes
<1>2. n \in 1..LastRevision /\ way \in {"up", "down"} BY <1>1 DEF InHand, Way, LastRevision
<1>3. Statements = script /\ (Upwards <=> way = "up")
  BY DEF Statements, Upwards, Scripts, InHand, Way
<1>4. Statement = s /\ New(s) = e BY <1>3 DEF Statement, New, After
<1>5. Possible(txn.db, s) BY <1>4 DEF Execute, Allowed
<1>6. Len(script) \in Nat \ {0} BY <1>2, NoEmptyScript
<1>7. done < Len(script) BY <1>1, <1>6 DEF Stands
<1>8. Before(txn.db, n, way, done)
  <2>1. CASE done = 0
    <3>1. Standing(txn.db, txn.at) BY <2>1 DEF Stands
    <3>2. txn.at = IF way = "up" THEN n - 1 ELSE n BY <1>1 DEF InHand, Way, LastRevision
    <3>3. QED BY <2>1, <3>1, <3>2 DEF Before
  <2>2. CASE done # 0
    <3>1. Partway(txn.db, n, way, done) BY <2>2 DEF Stands
    <3>2. QED BY <2>2, <3>1 DEF Before
  <2>3. QED BY <2>1, <2>2
<1>9. PICK next, length : next = done + 1 /\ length = Len(script) OBVIOUS
<1>10. Afterwards(e, n, way, next, length)
  <2> HIDE DEF n, way, done
  <2>1. QED BY <1>1, <1>2, <1>5, <1>7, <1>8, <1>9, StatementStands
<1>11. txn' = IF next < length
              THEN [txn EXCEPT !.db = e, !.done = next]
              ELSE [txn EXCEPT !.db = e, !.done = 0, !.at = IF way = "up" THEN txn.at + 1 ELSE txn.at - 1]
  BY <1>1, <1>3, <1>4, <1>9 DEF Execute
<1>12. next \in Nat \ {0} /\ length \in Nat /\ next <= length BY <1>1, <1>6, <1>7, <1>9
<1>13. CASE next < length
  <2>1. /\ {"db", "at", "done", "target"} \subseteq DOMAIN txn'
        /\ txn'.db = e /\ txn'.done = next /\ txn'.at = txn.at /\ txn'.target = txn.target
    <3> HIDE DEF e
    <3>1. txn' = [txn EXCEPT !.db = e, !.done = next] BY <1>11, <1>13
    <3>2. QED BY <1>1, <3>1
  <2>2. InHand(txn') = n /\ Way(txn') = way BY <2>1 DEF InHand, Way
  <2>3. Partway(e, n, way, next) BY <1>10, <1>12, <1>13 DEF Afterwards
  <2> HIDE DEF e, n, way
  <2>4. Partway(txn'.db, InHand(txn'), Way(txn'), txn'.done) BY <2>1, <2>2, <2>3
  <2>5. txn'.done < Len(Scripts(InHand(txn'), Way(txn'))) BY <1>9, <1>13, <2>1, <2>2
  <2>6. QED BY <1>1, <1>12, <2>1, <2>4, <2>5 DEF Stands
<1>14. CASE ~(next < length)
  <2>1. /\ {"db", "at", "done", "target"} \subseteq DOMAIN txn'
        /\ txn'.db = e /\ txn'.done = 0 /\ txn'.target = txn.target
        /\ txn'.at = IF way = "up" THEN txn.at + 1 ELSE txn.at - 1
    <3> HIDE DEF e, way
    <3>1. txn' = [txn EXCEPT !.db = e, !.done = 0, !.at = IF way = "up" THEN txn.at + 1 ELSE txn.at - 1]
      BY <1>11, <1>14
    <3>2. QED BY <1>1, <3>1
  <2>2. txn'.at = IF way = "up" THEN n ELSE n - 1 BY <1>1, <2>1 DEF InHand, Way
  <2>3. txn'.at \in 0..LastRevision BY <1>2, <2>2 DEF LastRevision
  <2>4. next = length BY <1>12, <1>14
  <2>5. Standing(e, IF way = "up" THEN n ELSE n - 1) BY <1>10, <2>4 DEF Afterwards
  <2> HIDE DEF e, n, way
  <2>6. Standing(txn'.db, txn'.at) BY <2>1, <2>2, <2>5
  <2>7. QED BY <1>1, <2>1, <2>3, <2>6 DEF Stands
<1>15. QED BY <1>13, <1>14

(* At any time the committed database is what the program of its revision
   relies on, and the open transaction is where its statements leave it. *)
THEOREM DatabaseStands == Spec => []Inductive
<1>1. Init => Inductive
  <2>1. Tables(Empty) = {} BY EmptyIsEmpty DEF Tables
  <2>2. QED BY <2>1 DEF Init, Inductive, Standing, LastRevision
<1>2. Inductive /\ [Next]_vars => Inductive'
  <2>1. SUFFICES ASSUME Inductive, [Next]_vars PROVE Inductive' OBVIOUS
  <2>2. revision \in 0..LastRevision /\ Standing(db, revision) /\ (txn # None => Stands(txn))
    BY <2>1 DEF Inductive
  <2>3. CASE \E k \in Runs, d \in Decisions : StoreRun(k, d)
    <3>1. Standing(db', revision) BY <2>2, <2>3, StoreRunStands
    <3>2. UNCHANGED <<revision, txn>> BY <2>3 DEF StoreRun
    <3>3. QED BY <2>2, <3>1, <3>2 DEF Inductive
  <2>4. CASE \E k \in Runs, outcome \in Outcomes : ReviewRun(k, outcome)
    <3>1. Standing(db', revision) BY <2>2, <2>4, ReviewRunStands
    <3>2. UNCHANGED <<revision, txn>> BY <2>4 DEF ReviewRun
    <3>3. QED BY <2>2, <3>1, <3>2 DEF Inductive
  <2>5. ASSUME NEW target \in 0..LastRevision, Begin(target) PROVE Inductive'
    <3>1. txn' = [db |-> db, at |-> revision, done |-> 0, target |-> target]
          /\ UNCHANGED <<revision, db>>
      BY <2>5 DEF Begin
    <3>2. /\ {"db", "at", "done", "target"} \subseteq DOMAIN txn'
          /\ txn'.db = db /\ txn'.at = revision /\ txn'.done = 0 /\ txn'.target = target
      BY <3>1
    <3>3. Stands(txn') BY <2>2, <3>2 DEF Stands
    <3>4. QED BY <2>2, <3>1, <3>3 DEF Inductive
  <2>6. CASE Execute
    <3>1. txn # None BY <2>6 DEF Execute, Executes
    <3>2. Stands(txn') BY <2>2, <2>6, <3>1, ExecuteStands
    <3>3. UNCHANGED <<revision, db>> BY <2>6 DEF Execute
    <3>4. QED BY <2>2, <3>2, <3>3 DEF Inductive
  <2>7. CASE Refuse \/ Killed
    <3>1. txn' = None /\ UNCHANGED <<revision, db>> BY <2>7 DEF Refuse, Killed
    <3>2. QED BY <2>2, <3>1 DEF Inductive
  <2>8. CASE Commit
    <3>1. /\ txn # None /\ txn.at = txn.target
          /\ db' = txn.db /\ revision' = txn.target /\ txn' = None
      BY <2>8 DEF Commit
    <3>2. txn.target \in 0..LastRevision /\ Standing(txn.db, txn.at) BY <2>2, <3>1 DEF Stands
    <3>3. QED BY <3>1, <3>2 DEF Inductive
  <2>9. CASE UNCHANGED vars BY <2>2, <2>9 DEF Inductive, vars
  <2>10. QED BY <2>1, <2>3, <2>4, <2>5, <2>6, <2>7, <2>8, <2>9 DEF Next
<1>3. QED BY <1>1, <1>2, PTL DEF Spec

-----------------------------------------------------------------------------
(* The properties *)

(* Every pack carries the digest of its body, and from revision 3 on the row
   of its run names that digest, whatever 0002 to 0004 rewrote (_rewrite_evidence_bodies,
   _rewrite_evidence_review_fields, _rewrite_evidence_review_events). *)
THEOREM PacksStaySealed == Spec => []PackIsSealed
<1>1. Inductive => PackIsSealed
  <2>1. SUFFICES ASSUME Inductive, NEW k \in DOMAIN Rows("evidence_packs")
                 PROVE  /\ Rows("evidence_packs")[k].sha256 = Rows("evidence_packs")[k].body
                        /\ revision >= 3 =>
                              Rows("runs")[k].evidence_sha256 = Rows("evidence_packs")[k].sha256
    BY DEF PackIsSealed
  <2>2. "evidence_packs" \in Tables(db) BY <2>1, EmptyIsEmpty DEF Rows
  <2>3. revision # 0 BY <2>1, <2>2 DEF Inductive, Standing, LedgerTables
  <2>4. Ledger(db, Columns(revision), Fields(revision)) BY <2>1, <2>3 DEF Inductive, Standing
  <2>5. "runs" \in Tables(db) /\ k \in DOMAIN db["runs"].rows
    BY <2>1, <2>2, <2>4 DEF Ledger, Rows
  <2>6. Rows("runs") = db["runs"].rows /\ Rows("evidence_packs") = db["evidence_packs"].rows
    BY <2>2, <2>5 DEF Rows
  <2>7. db["evidence_packs"].rows[k].sha256 = db["evidence_packs"].rows[k].body
    BY <2>4, <2>5 DEF Ledger
  <2>8. revision >= 3 => RowsSealed(db) BY <2>1, <2>3 DEF Inductive, Standing
  <2>9. QED BY <2>5, <2>6, <2>7, <2>8 DEF RowsSealed
<1>2. QED BY <1>1, DatabaseStands, PTL

(* Pack, row and events of a run say the same, in exactly the fields that the
   program of the revision writes (build_evidence_pack), after any upgrades and downgrades. *)
THEOREM RecordsStayTrue == Spec => []RecordsAgree
<1>1. Inductive => RecordsAgree
  <2> DEFINE Told(k) == IF k \in DOMAIN Rows("review_events")
                        THEN <<Rows("review_events")[k].action>> ELSE <<>>
  <2>1. SUFFICES ASSUME Inductive, NEW k \in DOMAIN Rows("runs")
                 PROVE  /\ Rows("evidence_packs")[k].body = Body(Rows("runs")[k], Told(k))
                        /\ revision >= 4 =>
                              Told(k) = IF Rows("runs")[k].review_outcome = None THEN <<>>
                                        ELSE <<Rows("runs")[k].review_outcome>>
    BY DEF RecordsAgree
  <2>2. "runs" \in Tables(db) /\ k \in DOMAIN db["runs"].rows /\ Rows("runs") = db["runs"].rows
    BY <2>1, EmptyIsEmpty DEF Rows
  <2>3. revision # 0 /\ revision \in 1..LastRevision
    BY <2>1, <2>2 DEF Inductive, Standing, LedgerTables, LastRevision
  <2>4. Standing(db, revision) /\ Ledger(db, Columns(revision), Fields(revision))
    BY <2>1, <2>3 DEF Inductive, Standing
  <2>5. Rows("evidence_packs") = db["evidence_packs"].rows BY <2>4 DEF Ledger, Rows
  <2>6. Told(k) = History(db, k) BY EmptyIsEmpty DEF Rows, History
  <2> HIDE DEF Told
  <2>7. db["evidence_packs"].rows[k].body
           = Says(Fields(revision), db["runs"].rows[k], History(db, k))
    BY <2>2, <2>4, LedgerShape
  <2>8. DOMAIN db["runs"].rows[k] \intersect Tracked["runs"] = Columns(revision)
    BY <2>2, <2>4, LedgerHasColumns
  <2>9. Body(db["runs"].rows[k], History(db, k))
           = Says(Fields(revision), db["runs"].rows[k], History(db, k))
    BY <2>3, <2>4, <2>8, BodySays
  <2>10. revision >= 4 =>
            History(db, k) = IF db["runs"].rows[k].review_outcome = None THEN <<>>
                             ELSE <<db["runs"].rows[k].review_outcome>>
    BY <2>2, <2>3, <2>4 DEF Standing, EventsAgree
  <2>11. QED BY <2>2, <2>5, <2>6, <2>7, <2>9, <2>10
<1>2. QED BY <1>1, DatabaseStands, PTL

-----------------------------------------------------------------------------
(* Where the parts of the schema come from and what takes them away *)

(* The statement that brings each table, as its revision and its position there. *)
Born == [
    runs |-> <<1, 1>>, violations |-> <<1, 2>>, evidence_packs |-> <<1, 3>>, review_events |-> <<4, 1>>,
    organizations |-> <<6, 1>>, users |-> <<6, 2>>, memberships |-> <<6, 3>>, repositories |-> <<6, 4>>,
    evidence_sources |-> <<6, 5>>, policy_configs |-> <<6, 6>>, sessions |-> <<7, 1>>,
    github_installations |-> <<8, 1>>, github_repositories |-> <<8, 2>>, github_pull_requests |-> <<8, 3>>,
    github_check_runs |-> <<8, 4>>, github_webhook_deliveries |-> <<8, 5>>, repo_settings |-> <<8, 6>>,
    cases |-> <<11, 1>>, case_participants |-> <<11, 2>>, case_messages |-> <<11, 3>>,
    case_events |-> <<11, 4>>, case_external_links |-> <<11, 5>>, advisor_findings |-> <<12, 1>>,
    audit_events |-> <<13, 1>>]

(* The columns and the references that came later than their table, and the triggers. *)
Added == [
    runs |-> [policy_version |-> <<2, 1>>, review_status |-> <<3, 1>>, review_outcome |-> <<3, 2>>,
              organization_id |-> <<6, 10>>, repository_id |-> <<6, 11>>, evidence_source_id |-> <<6, 12>>,
              schema_version |-> <<10, 2>>, source_run_url |-> <<10, 3>>, pull_request_json |-> <<10, 4>>,
              scanner_results_json |-> <<10, 5>>, artifact_refs_json |-> <<10, 6>>],
    evidence_packs |-> [organization_id |-> <<6, 13>>],
    review_events |-> [organization_id |-> <<6, 14>>, actor_user_id |-> <<6, 15>>],
    policy_configs |-> [repo_name |-> <<9, 1>>, is_active |-> <<9, 2>>],
    evidence_sources |-> [repo_name |-> <<10, 1>>]]
Keyed == [
    runs |-> [organization_id |-> <<6, 19>>, repository_id |-> <<6, 20>>, evidence_source_id |-> <<6, 21>>],
    evidence_packs |-> [organization_id |-> <<6, 22>>],
    review_events |-> [organization_id |-> <<6, 23>>]]
Guarding == [review_events |-> <<5, 1>>, audit_events |-> <<14, 1>>]

Came(later, t, c) == t \in DOMAIN later /\ c \in DOMAIN later[t]
ColumnPlace(t, c) == IF Came(Added, t, c) THEN Added[t][c] ELSE Born[t]
ReferencePlace(t, c) == IF Came(Keyed, t, c) THEN Keyed[t][c] ELSE Born[t]
Place(e) == CASE e[2] = "column" -> ColumnPlace(e[1], e[3])
              [] e[2] = "reference" -> ReferencePlace(e[1], e[3][1])
              [] e[2] = "trigger" -> Guarding[e[1]]
              [] OTHER -> Born[e[1]]

(* The statement of the downgrade that takes away what each statement of the upgrade
   brought; 0 when it brought nothing. *)
Undo == <<
    <<3, 2, 1>>, <<2, 0>>, <<3, 2, 0, 0>>, <<2, 0, 0>>, <<1>>,
    <<17, 16, 15, 14, 13, 12, 0, 0, 0, 11, 10, 9, 8, 7, 6, 0, 0, 0, 5, 4, 3, 2, 1>>,
    <<1>>, <<6, 5, 4, 2, 3, 1>>, <<2, 1>>, <<6, 5, 4, 3, 2, 1>>, <<5, 4, 3, 2, 1>>, <<1>>, <<1>>, <<1>>>>

Earlier(p, q) == p[1] < q[1] \/ (p[1] = q[1] /\ p[2] < q[2])

(* The statement of a downgrade that takes away what statement s brought. *)
BringingOps == {"create_table", "add_column", "create_foreign_key", "create_trigger"}
Opposite(s) == CASE s.op = "create_table" -> DropTable(s.table)
                [] s.op = "add_column" -> DropColumn(s.table, s.column)
                [] s.op = "create_foreign_key" -> DropConstraint(s.table, s.column, s.to)
                [] s.op = "create_trigger" -> DropTrigger(s.table)

(* The tables that a statement refers to. *)
Targets(s) == CASE s.op = "create_table" -> {r[2] : r \in s.refers}
                [] s.op = "create_foreign_key" -> {s.to}
                [] OTHER -> {}

(* Statement s is where the tables above place what it brings. *)
InPlace(n, i, s) ==
    /\ s.op \in BringingOps \union {"insert", "update"}
    /\ s.table \in DOMAIN Born
    /\ IF s.op = "create_table" THEN Born[s.table] = <<n, i>> ELSE Earlier(Born[s.table], <<n, i>>)
    /\ s.op = "add_column" => Came(Added, s.table, s.column) /\ Added[s.table][s.column] = <<n, i>>
    /\ s.op = "create_foreign_key" => /\ Came(Keyed, s.table, s.column) /\ Keyed[s.table][s.column] = <<n, i>>
                                      /\ Came(Added, s.table, s.column)
    /\ s.op = "create_trigger" => s.table \in DOMAIN Guarding /\ Guarding[s.table] = <<n, i>>

(* The columns of a new table and the tables it refers to. *)
OwnParts(s) ==
    s.op = "create_table" => /\ \A c \in s.columns : ~Came(Added, s.table, c)
                             /\ \A r \in s.refers : ~Came(Added, s.table, r[1]) /\ ~Came(Keyed, s.table, r[1])
TargetsThere(n, i, s) == \A u \in Targets(s) : u \in DOMAIN Born /\ Earlier(Born[u], <<n, i>>)

(* The downgrade undoes s before it drops the table of s or one that s refers to, and a
   reference before its column. *)
Undone(n, i, s) == Undo[n][i] \in 1..Len(Downgrade[n]) /\ Downgrade[n][Undo[n][i]] = Opposite(s)
KeyUndoneFirst(n, i, s) ==
    Came(Keyed, s.table, s.column) =>
        Keyed[s.table][s.column][1] = n /\ Undo[n][Keyed[s.table][s.column][2]] <= Undo[n][i]
UndoneInTime(n, i, s) ==
    /\ Born[s.table][1] = n => Undo[n][i] <= Undo[n][Born[s.table][2]]
    /\ \A u \in Targets(s) : Born[u][1] = n => Undo[n][i] < Undo[n][Born[u][2]]
    /\ s.op = "add_column" => KeyUndoneFirst(n, i, s)

Rewrites == {"add_policy_version", "pop_policy_version", "review_status", "add_review_fields",
             "pop_review_fields", "backfill", "add_review_events", "pop_review_events", "tenant"}

(* Statement s of an upgrade is where the lists above say, and its downgrade undoes it. *)
Fits(n, i, s) ==
    /\ InPlace(n, i, s) /\ OwnParts(s) /\ TargetsThere(n, i, s)
    /\ s.op \in BringingOps => Undone(n, i, s) /\ UndoneInTime(n, i, s)
    /\ s.op = "update" => s.what \in Rewrites

(* The lists, entry by entry. *)
LEMMA BornIs ==
    /\ DOMAIN Born = {"runs", "violations", "evidence_packs", "review_events", "organizations", "users",
                      "memberships", "repositories", "evidence_sources", "policy_configs", "sessions",
                      "github_installations", "github_repositories", "github_pull_requests",
                      "github_check_runs", "github_webhook_deliveries", "repo_settings", "cases",
                      "case_participants", "case_messages", "case_events", "case_external_links",
                      "advisor_findings", "audit_events"}
    /\ Born["runs"] = <<1, 1>>
    /\ Born["violations"] = <<1, 2>>
    /\ Born["evidence_packs"] = <<1, 3>>
    /\ Born["review_events"] = <<4, 1>>
    /\ Born["organizations"] = <<6, 1>>
    /\ Born["users"] = <<6, 2>>
    /\ Born["memberships"] = <<6, 3>>
    /\ Born["repositories"] = <<6, 4>>
    /\ Born["evidence_sources"] = <<6, 5>>
    /\ Born["policy_configs"] = <<6, 6>>
    /\ Born["sessions"] = <<7, 1>>
    /\ Born["github_installations"] = <<8, 1>>
    /\ Born["github_repositories"] = <<8, 2>>
    /\ Born["github_pull_requests"] = <<8, 3>>
    /\ Born["github_check_runs"] = <<8, 4>>
    /\ Born["github_webhook_deliveries"] = <<8, 5>>
    /\ Born["repo_settings"] = <<8, 6>>
    /\ Born["cases"] = <<11, 1>>
    /\ Born["case_participants"] = <<11, 2>>
    /\ Born["case_messages"] = <<11, 3>>
    /\ Born["case_events"] = <<11, 4>>
    /\ Born["case_external_links"] = <<11, 5>>
    /\ Born["advisor_findings"] = <<12, 1>>
    /\ Born["audit_events"] = <<13, 1>>
BY DEF Born

LEMMA UndoIs ==
    /\ Undo[1][1] = 3 /\ Undo[1][2] = 2 /\ Undo[1][3] = 1
    /\ Undo[2][1] = 2
    /\ Undo[3][1] = 3 /\ Undo[3][2] = 2
    /\ Undo[4][1] = 2
    /\ Undo[5][1] = 1
    /\ Undo[6][1] = 17 /\ Undo[6][2] = 16 /\ Undo[6][3] = 15
    /\ Undo[6][4] = 14 /\ Undo[6][5] = 13 /\ Undo[6][6] = 12
    /\ Undo[6][10] = 11 /\ Undo[6][11] = 10 /\ Undo[6][12] = 9
    /\ Undo[6][13] = 8 /\ Undo[6][14] = 7 /\ Undo[6][15] = 6
    /\ Undo[6][19] = 5 /\ Undo[6][20] = 4 /\ Undo[6][21] = 3
    /\ Undo[6][22] = 2 /\ Undo[6][23] = 1
    /\ Undo[7][1] = 1
    /\ Undo[8][1] = 6 /\ Undo[8][2] = 5 /\ Undo[8][3] = 4
    /\ Undo[8][4] = 2 /\ Undo[8][5] = 3 /\ Undo[8][6] = 1
    /\ Undo[9][1] = 2 /\ Undo[9][2] = 1
    /\ Undo[10][1] = 6 /\ Undo[10][2] = 5 /\ Undo[10][3] = 4
    /\ Undo[10][4] = 3 /\ Undo[10][5] = 2 /\ Undo[10][6] = 1
    /\ Undo[11][1] = 5 /\ Undo[11][2] = 4 /\ Undo[11][3] = 3
    /\ Undo[11][4] = 2 /\ Undo[11][5] = 1
    /\ Undo[12][1] = 1
    /\ Undo[13][1] = 1
    /\ Undo[14][1] = 1
BY DEF Undo

LEMMA AddedNames ==
    \A t, c : Came(Added, t, c) <=>
       \/ t = "runs" /\ c \in {"policy_version", "review_status", "review_outcome",
                               "organization_id", "repository_id", "evidence_source_id",
                               "schema_version", "source_run_url", "pull_request_json",
                               "scanner_results_json", "artifact_refs_json"}
       \/ t = "evidence_packs" /\ c \in {"organization_id"}
       \/ t = "review_events" /\ c \in {"organization_id", "actor_user_id"}
       \/ t = "policy_configs" /\ c \in {"repo_name", "is_active"}
       \/ t = "evidence_sources" /\ c \in {"repo_name"}
BY DEF Added, Came

LEMMA AddedIs ==
    /\ Came(Added, "runs", "policy_version") /\ Added["runs"]["policy_version"] = <<2, 1>>
    /\ Came(Added, "runs", "review_status") /\ Added["runs"]["review_status"] = <<3, 1>>
    /\ Came(Added, "runs", "review_outcome") /\ Added["runs"]["review_outcome"] = <<3, 2>>
    /\ Came(Added, "runs", "organization_id") /\ Added["runs"]["organization_id"] = <<6, 10>>
    /\ Came(Added, "runs", "repository_id") /\ Added["runs"]["repository_id"] = <<6, 11>>
    /\ Came(Added, "runs", "evidence_source_id") /\ Added["runs"]["evidence_source_id"] = <<6, 12>>
    /\ Came(Added, "runs", "schema_version") /\ Added["runs"]["schema_version"] = <<10, 2>>
    /\ Came(Added, "runs", "source_run_url") /\ Added["runs"]["source_run_url"] = <<10, 3>>
    /\ Came(Added, "runs", "pull_request_json") /\ Added["runs"]["pull_request_json"] = <<10, 4>>
    /\ Came(Added, "runs", "scanner_results_json") /\ Added["runs"]["scanner_results_json"] = <<10, 5>>
    /\ Came(Added, "runs", "artifact_refs_json") /\ Added["runs"]["artifact_refs_json"] = <<10, 6>>
    /\ Came(Added, "evidence_packs", "organization_id")
       /\ Added["evidence_packs"]["organization_id"] = <<6, 13>>
    /\ Came(Added, "review_events", "organization_id")
       /\ Added["review_events"]["organization_id"] = <<6, 14>>
    /\ Came(Added, "review_events", "actor_user_id")
       /\ Added["review_events"]["actor_user_id"] = <<6, 15>>
    /\ Came(Added, "policy_configs", "repo_name")
       /\ Added["policy_configs"]["repo_name"] = <<9, 1>>
    /\ Came(Added, "policy_configs", "is_active")
       /\ Added["policy_configs"]["is_active"] = <<9, 2>>
    /\ Came(Added, "evidence_sources", "repo_name")
       /\ Added["evidence_sources"]["repo_name"] = <<10, 1>>
BY DEF Added, Came

LEMMA KeyedNames ==
    \A t, c : Came(Keyed, t, c) <=>
       \/ t = "runs" /\ c \in {"organization_id", "repository_id", "evidence_source_id"}
       \/ t = "evidence_packs" /\ c \in {"organization_id"}
       \/ t = "review_events" /\ c \in {"organization_id"}
BY DEF Keyed, Came

LEMMA KeyedIs ==
    /\ Came(Keyed, "runs", "organization_id") /\ Keyed["runs"]["organization_id"] = <<6, 19>>
    /\ Came(Keyed, "runs", "repository_id") /\ Keyed["runs"]["repository_id"] = <<6, 20>>
    /\ Came(Keyed, "runs", "evidence_source_id") /\ Keyed["runs"]["evidence_source_id"] = <<6, 21>>
    /\ Came(Keyed, "evidence_packs", "organization_id")
       /\ Keyed["evidence_packs"]["organization_id"] = <<6, 22>>
    /\ Came(Keyed, "review_events", "organization_id")
       /\ Keyed["review_events"]["organization_id"] = <<6, 23>>
BY DEF Keyed, Came

(* When a statement of an upgrade is where the lists say. *)
LEMMA CreateFits ==
    ASSUME NEW n, NEW i, NEW s, s.op = "create_table", s.table \in DOMAIN Born, Born[s.table] = <<n, i>>,
           OwnParts(s), TargetsThere(n, i, s), Undone(n, i, s),
           \A u \in Targets(s) : Born[u][1] = n => Undo[n][i] < Undo[n][Born[u][2]]
    PROVE  Fits(n, i, s)
<1>1. InPlace(n, i, s) BY DEF InPlace, BringingOps
<1>2. Undo[n][i] \in Int BY DEF Undone
<1>3. UndoneInTime(n, i, s) BY <1>2 DEF UndoneInTime
<1>4. QED BY <1>1, <1>3 DEF Fits, BringingOps

LEMMA AddFits ==
    ASSUME NEW n \in Nat, NEW i, NEW s, s.op = "add_column", s.table \in DOMAIN Born,
           Born[s.table][1] \in Nat, Born[s.table][1] < n,
           Came(Added, s.table, s.column), Added[s.table][s.column] = <<n, i>>, Undone(n, i, s),
           KeyUndoneFirst(n, i, s)
    PROVE  Fits(n, i, s)
<1>1. InPlace(n, i, s) BY DEF InPlace, BringingOps, Earlier
<1>2. Targets(s) = {} BY DEF Targets
<1>3. TargetsThere(n, i, s) /\ OwnParts(s) BY <1>2 DEF TargetsThere, OwnParts
<1>4. UndoneInTime(n, i, s) BY <1>2 DEF UndoneInTime
<1>5. QED BY <1>1, <1>3, <1>4 DEF Fits, BringingOps

LEMMA KeyFits ==
    ASSUME NEW n \in Nat, NEW i, NEW s, s.op = "create_foreign_key", s.table \in DOMAIN Born,
           Born[s.table][1] \in Nat, Born[s.table][1] < n,
           Came(Keyed, s.table, s.column), Came(Added, s.table, s.column),
           Keyed[s.table][s.column] = <<n, i>>, Undone(n, i, s), TargetsThere(n, i, s),
           \A u \in Targets(s) : Born[u][1] = n => Undo[n][i] < Undo[n][Born[u][2]]
    PROVE  Fits(n, i, s)
<1>1. InPlace(n, i, s) BY DEF InPlace, BringingOps, Earlier
<1>2. OwnParts(s) BY DEF OwnParts
<1>3. UndoneInTime(n, i, s) BY DEF UndoneInTime
<1>4. QED BY <1>1, <1>2, <1>3 DEF Fits, BringingOps

LEMMA TriggerFits ==
    ASSUME NEW n \in Nat, NEW i, NEW s, s.op = "create_trigger", s.table \in DOMAIN Born,
           Born[s.table][1] \in Nat, Born[s.table][1] < n,
           s.table \in DOMAIN Guarding, Guarding[s.table] = <<n, i>>, Undone(n, i, s)
    PROVE  Fits(n, i, s)
<1>1. InPlace(n, i, s) BY DEF InPlace, BringingOps, Earlier
<1>2. Targets(s) = {} BY DEF Targets
<1>3. TargetsThere(n, i, s) /\ OwnParts(s) BY <1>2 DEF TargetsThere, OwnParts
<1>4. UndoneInTime(n, i, s) BY <1>2 DEF UndoneInTime
<1>5. QED BY <1>1, <1>3, <1>4 DEF Fits, BringingOps

LEMMA RowsFit ==
    ASSUME NEW n, NEW i, NEW s, s.op \in {"insert", "update"}, s.table \in DOMAIN Born,
           Earlier(Born[s.table], <<n, i>>), s.op = "update" => s.what \in Rewrites
    PROVE  Fits(n, i, s)
<1>1. InPlace(n, i, s) BY DEF InPlace, BringingOps
<1>2. Targets(s) = {} BY DEF Targets
<1>3. TargetsThere(n, i, s) /\ OwnParts(s) BY <1>2 DEF TargetsThere, OwnParts
<1>4. QED BY <1>1, <1>3 DEF Fits, BringingOps

(* The statements of 0001 to 0014 are. *)
LEMMA Fits1 == \A i \in 1..3 : Fits(1, i, Up0001[i])
<1> SUFFICES ASSUME NEW i \in 1..3 PROVE Fits(1, i, Up0001[i])
  OBVIOUS
<1>1. Up0001[i].op = "create_table"
  BY DEF Up0001, CreateTable
<1>2. Up0001[i].table \in DOMAIN Born /\ Born[Up0001[i].table] = <<1, i>>
  BY BornIs DEF Up0001, CreateTable
<1>3. OwnParts(Up0001[i])
  <2>1. CASE i = 1
    <3>1. Up0001[1].table = "runs" /\ Up0001[1].columns = {"decision", "evidence_sha256"}
          /\ Up0001[1].refers = {}
      BY DEF Up0001, CreateTable
    <3>2. "decision" \notin DOMAIN Added["runs"] BY DEF Added
    <3>3. "evidence_sha256" \notin DOMAIN Added["runs"] BY DEF Added
    <3>4. QED BY <2>1, <3>1, <3>2, <3>3 DEF OwnParts, Came
  <2>2. CASE i = 2 BY <2>2 DEF Up0001, CreateTable, OwnParts, Came, Added, Keyed
  <2>3. CASE i = 3
    <3>1. /\ Up0001[3].table = "evidence_packs" /\ Up0001[3].columns = {"body", "sha256"}
          /\ Up0001[3].refers = {<<"run_id", "runs">>}
      BY DEF Up0001, CreateTable
    <3>2. DOMAIN Added["evidence_packs"] = {"organization_id"} BY DEF Added
    <3>3. DOMAIN Keyed["evidence_packs"] = {"organization_id"} BY DEF Keyed
    <3>4. QED BY <2>3, <3>1, <3>2, <3>3 DEF OwnParts, Came
  <2>4. QED BY <2>1, <2>2, <2>3
<1>4. TargetsThere(1, i, Up0001[i])
  BY BornIs DEF Up0001, CreateTable, TargetsThere, Targets, Earlier
<1>5. Undone(1, i, Up0001[i])
  BY UndoIs DEF Up0001, Down0001, Downgrade, CreateTable, DropTable, Undone, Opposite
<1>6. \A u \in Targets(Up0001[i]) :
        Born[u][1] = 1 => Undo[1][i] < Undo[1][Born[u][2]]
  BY BornIs, UndoIs DEF Up0001, CreateTable, Targets
<1>7. QED BY <1>1, <1>2, <1>3, <1>4, <1>5, <1>6, CreateFits

LEMMA Fits2 == \A i \in 1..2 : Fits(2, i, Up0002[i])
<1>1. Fits(2, 1, Up0002[1])
  <2>1. Up0002[1].op = "add_column" /\ Up0002[1].table \in DOMAIN Born
        /\ Born[Up0002[1].table][1] \in Nat /\ Born[Up0002[1].table][1] < 2
    BY BornIs DEF Up0002, AddColumn
  <2>2. Came(Added, Up0002[1].table, Up0002[1].column)
        /\ Added[Up0002[1].table][Up0002[1].column] = <<2, 1>>
    BY AddedIs DEF Up0002, AddColumn
  <2>3. Undone(2, 1, Up0002[1])
    BY UndoIs DEF Up0002, Down0002, Downgrade, AddColumn, DropColumn, Undone, Opposite
  <2>4. KeyUndoneFirst(2, 1, Up0002[1])
    BY KeyedNames DEF Up0002, AddColumn, KeyUndoneFirst
  <2>5. QED BY <2>1, <2>2, <2>3, <2>4, AddFits
<1>2. Fits(2, 2, Up0002[2])
  <2>1. Up0002[2].op \in {"insert", "update"} /\ (Up0002[2].op = "update" => Up0002[2].what \in Rewrites)
    BY DEF Up0002, Insert, Update, Rewrites
  <2>2. Up0002[2].table \in DOMAIN Born /\ Earlier(Born[Up0002[2].table], <<2, 2>>)
    BY BornIs DEF Up0002, Insert, Update, Earlier
  <2>3. QED BY <2>1, <2>2, RowsFit
<1>3. QED BY <1>1, <1>2

LEMMA Fits3 == \A i \in 1..4 : Fits(3, i, Up0003[i])
<1>1. ASSUME NEW i \in 1..2, NEW s, s = Up0003[i] PROVE Fits(3, i, s)
  <2>1. s.op = "add_column" /\ s.table \in DOMAIN Born /\ Born[s.table][1] \in Nat /\ Born[s.table][1] < 3
    BY BornIs, <1>1 DEF Up0003, AddColumn
  <2>2. Came(Added, s.table, s.column) /\ Added[s.table][s.column] = <<3, i>>
    <3>1. i = 1 => s.table = "runs" /\ s.column = "review_status" BY <1>1 DEF Up0003, AddColumn
    <3>2. i = 2 => s.table = "runs" /\ s.column = "review_outcome"
      BY <1>1 DEF Up0003, AddColumn
    <3>3. QED BY <1>1, <3>1, <3>2, AddedIs
  <2>3. Undone(3, i, s)
    BY UndoIs, <1>1 DEF Up0003, Down0003, Downgrade, AddColumn, DropColumn, Undone, Opposite
  <2>4. KeyUndoneFirst(3, i, s)
    <3>1. i = 1 => s.table = "runs" /\ s.column = "review_status" BY <1>1 DEF Up0003, AddColumn
    <3>2. i = 2 => s.table = "runs" /\ s.column = "review_outcome"
      BY <1>1 DEF Up0003, AddColumn
    <3>3. QED BY <1>1, <3>1, <3>2, KeyedNames DEF KeyUndoneFirst
  <2>5. QED BY <2>1, <2>2, <2>3, <2>4, AddFits
<1>2. ASSUME NEW i \in 3..4, NEW s, s = Up0003[i] PROVE Fits(3, i, s)
  <2>1. s.op \in {"insert", "update"} /\ (s.op = "update" => s.what \in Rewrites)
    BY <1>2 DEF Up0003, Insert, Update, Rewrites
  <2>2. s.table \in DOMAIN Born /\ Earlier(Born[s.table], <<3, i>>)
    BY BornIs, <1>2 DEF Up0003, Insert, Update, Earlier
  <2>3. QED BY <2>1, <2>2, RowsFit
<1>3. QED BY <1>1, <1>2

LEMMA Fits4 == \A i \in 1..3 : Fits(4, i, Up0004[i])
<1>1. Fits(4, 1, Up0004[1])
  <2>1. Up0004[1].op = "create_table"
    BY DEF Up0004, CreateTable
  <2>2. Up0004[1].table \in DOMAIN Born /\ Born[Up0004[1].table] = <<4, 1>>
    BY BornIs DEF Up0004, CreateTable
  <2>3. OwnParts(Up0004[1])
    BY DEF Up0004, CreateTable, OwnParts, Came, Added, Keyed
  <2>4. TargetsThere(4, 1, Up0004[1])
    BY BornIs DEF Up0004, CreateTable, TargetsThere, Targets, Earlier
  <2>5. Undone(4, 1, Up0004[1])
    BY UndoIs DEF Up0004, Down0004, Downgrade, CreateTable, DropTable, Undone, Opposite
  <2>6. \A u \in Targets(Up0004[1]) :
          Born[u][1] = 4 => Undo[4][1] < Undo[4][Born[u][2]]
    BY BornIs, UndoIs DEF Up0004, CreateTable, Targets
  <2>7. QED BY <2>1, <2>2, <2>3, <2>4, <2>5, <2>6, CreateFits
<1>2. ASSUME NEW i \in 2..3, NEW s, s = Up0004[i] PROVE Fits(4, i, s)
  <2>1. s.op \in {"insert", "update"} /\ (s.op = "update" => s.what \in Rewrites)
    BY <1>2 DEF Up0004, Insert, Update, Rewrites
  <2>2. s.table \in DOMAIN Born /\ Earlier(Born[s.table], <<4, i>>)
    BY BornIs, <1>2 DEF Up0004, Insert, Update, Earlier
  <2>3. QED BY <2>1, <2>2, RowsFit
<1>3. QED BY <1>1, <1>2

LEMMA Fits5 == \A i \in 1..1 : Fits(5, i, Up0005[i])
<1>1. Up0005[1].op = "create_trigger" /\ Up0005[1].table \in DOMAIN Born
      /\ Born[Up0005[1].table][1] \in Nat /\ Born[Up0005[1].table][1] < 5
  BY BornIs DEF Up0005, CreateTrigger
<1>2. Up0005[1].table \in DOMAIN Guarding /\ Guarding[Up0005[1].table] = <<5, 1>>
  BY DEF Up0005, CreateTrigger, Guarding
<1>3. Undone(5, 1, Up0005[1])
  BY UndoIs DEF Up0005, Down0005, Downgrade, CreateTrigger, DropTrigger, Undone, Opposite
<1>4. Fits(5, 1, Up0005[1]) BY <1>1, <1>2, <1>3, TriggerFits
<1>5. QED BY <1>4

LEMMA Fits6 == \A i \in 1..23 : Fits(6, i, Up0006[i])
<1>1. ASSUME NEW i \in 1..6, NEW s, s = Up0006[i] PROVE Fits(6, i, s)
  <2>1. s.op = "create_table"
    BY <1>1 DEF Up0006, CreateTable
  <2>2. s.table \in DOMAIN Born /\ Born[s.table] = <<6, i>>
    <3>1. i = 1 => s.table = "organizations" BY <1>1 DEF Up0006, CreateTable
    <3>2. i = 2 => s.table = "users" BY <1>1 DEF Up0006, CreateTable
    <3>3. i = 3 => s.table = "memberships" BY <1>1 DEF Up0006, CreateTable
    <3>4. i = 4 => s.table = "repositories" BY <1>1 DEF Up0006, CreateTable
    <3>5. i = 5 => s.table = "evidence_sources" BY <1>1 DEF Up0006, CreateTable
    <3>6. i = 6 => s.table = "policy_configs" BY <1>1 DEF Up0006, CreateTable
    <3>7. QED BY <1>1, <3>1, <3>2, <3>3, <3>4, <3>5, <3>6, BornIs
  <2>3. OwnParts(s)
    <3>1. i = 1 => OwnParts(s) BY <1>1 DEF Up0006, CreateTable, OwnParts, Came, Added, Keyed
    <3>2. i = 2 => OwnParts(s) BY <1>1 DEF Up0006, CreateTable, OwnParts, Came, Added, Keyed
    <3>3. i = 3 => OwnParts(s) BY <1>1 DEF Up0006, CreateTable, OwnParts, Came, Added, Keyed
    <3>4. i = 4 => OwnParts(s) BY <1>1 DEF Up0006, CreateTable, OwnParts, Came, Added, Keyed
    <3>5. i = 5 => OwnParts(s) BY <1>1 DEF Up0006, CreateTable, OwnParts, Came, Added, Keyed
    <3>6. i = 6 => OwnParts(s) BY <1>1 DEF Up0006, CreateTable, OwnParts, Came, Added, Keyed
    <3>7. QED BY <3>1, <3>2, <3>3, <3>4, <3>5, <3>6
  <2>4. TargetsThere(6, i, s)
    <3>1. i = 1 => TargetsThere(6, i, s)
      BY BornIs, <1>1 DEF Up0006, CreateTable, TargetsThere, Targets, Earlier
    <3>2. i = 2 => TargetsThere(6, i, s)
      BY BornIs, <1>1 DEF Up0006, CreateTable, TargetsThere, Targets, Earlier
    <3>3. i = 3 => TargetsThere(6, i, s)
      BY BornIs, <1>1 DEF Up0006, CreateTable, TargetsThere, Targets, Earlier
    <3>4. i = 4 => TargetsThere(6, i, s)
      BY BornIs, <1>1 DEF Up0006, CreateTable, TargetsThere, Targets, Earlier
    <3>5. i = 5 => TargetsThere(6, i, s)
      BY BornIs, <1>1 DEF Up0006, CreateTable, TargetsThere, Targets, Earlier
    <3>6. i = 6 => TargetsThere(6, i, s)
      BY BornIs, <1>1 DEF Up0006, CreateTable, TargetsThere, Targets, Earlier
    <3>7. QED BY <3>1, <3>2, <3>3, <3>4, <3>5, <3>6
  <2>5. Undone(6, i, s)
    BY UndoIs, <1>1 DEF Up0006, Down0006, Downgrade, CreateTable, DropTable, Undone, Opposite
  <2>6. \A u \in Targets(s) :
          Born[u][1] = 6 => Undo[6][i] < Undo[6][Born[u][2]]
    BY BornIs, UndoIs, <1>1 DEF Up0006, CreateTable, Targets
  <2>7. QED BY <2>1, <2>2, <2>3, <2>4, <2>5, <2>6, CreateFits
<1>2. ASSUME NEW i \in 7..9, NEW s, s = Up0006[i] PROVE Fits(6, i, s)
  <2>1. s.op \in {"insert", "update"} /\ (s.op = "update" => s.what \in Rewrites)
    BY <1>2 DEF Up0006, Insert, Update, Rewrites
  <2>2. s.table \in DOMAIN Born /\ Earlier(Born[s.table], <<6, i>>)
    <3>1. i = 7 => s.table = "organizations" BY <1>2 DEF Up0006, Insert
    <3>2. i = 8 => s.table = "repositories" BY <1>2 DEF Up0006, Insert
    <3>3. i = 9 => s.table = "evidence_sources" BY <1>2 DEF Up0006, Insert
    <3>4. QED BY <1>2, <3>1, <3>2, <3>3, BornIs DEF Earlier
  <2>3. QED BY <2>1, <2>2, RowsFit
<1>3. ASSUME NEW i \in 10..12, NEW s, s = Up0006[i] PROVE Fits(6, i, s)
  <2>1. s.op = "add_column" /\ s.table \in DOMAIN Born /\ Born[s.table][1] \in Nat /\ Born[s.table][1] < 6
    BY BornIs, <1>3 DEF Up0006, AddColumn
  <2>2. Came(Added, s.table, s.column) /\ Added[s.table][s.column] = <<6, i>>
    <3>1. i = 10 => s.table = "runs" /\ s.column = "organization_id"
      BY <1>3 DEF Up0006, AddColumn
    <3>2. i = 11 => s.table = "runs" /\ s.column = "repository_id"
      BY <1>3 DEF Up0006, AddColumn
    <3>3. i = 12 => s.table = "runs" /\ s.column = "evidence_source_id"
      BY <1>3 DEF Up0006, AddColumn
    <3>4. QED BY <1>3, <3>1, <3>2, <3>3, AddedIs
  <2>3. Undone(6, i, s)
    BY UndoIs, <1>3 DEF Up0006, Down0006, Downgrade, AddColumn, DropColumn, Undone, Opposite
  <2>4. KeyUndoneFirst(6, i, s)
    <3>1. i = 10 => KeyUndoneFirst(6, 10, s) BY <1>3, UndoIs, KeyedIs DEF Up0006, AddColumn, KeyUndoneFirst
    <3>2. i = 11 => KeyUndoneFirst(6, 11, s) BY <1>3, UndoIs, KeyedIs DEF Up0006, AddColumn, KeyUndoneFirst
    <3>3. i = 12 => KeyUndoneFirst(6, 12, s) BY <1>3, UndoIs, KeyedIs DEF Up0006, AddColumn, KeyUndoneFirst
    <3>4. QED BY <3>1, <3>2, <3>3
  <2>5. QED BY <2>1, <2>2, <2>3, <2>4, AddFits
<1>4. ASSUME NEW i \in 13..15, NEW s, s = Up0006[i] PROVE Fits(6, i, s)
  <2>1. s.op = "add_column" /\ s.table \in DOMAIN Born /\ Born[s.table][1] \in Nat /\ Born[s.table][1] < 6
    BY BornIs, <1>4 DEF Up0006, AddColumn
  <2>2. Came(Added, s.table, s.column) /\ Added[s.table][s.column] = <<6, i>>
    <3>1. i = 13 => s.table = "evidence_packs" /\ s.column = "organization_id"
      BY <1>4 DEF Up0006, AddColumn
    <3>2. i = 14 => s.table = "review_events" /\ s.column = "organization_id"
      BY <1>4 DEF Up0006, AddColumn
    <3>3. i = 15 => s.table = "review_events" /\ s.column = "actor_user_id"
      BY <1>4 DEF Up0006, AddColumn
    <3>4. QED BY <1>4, <3>1, <3>2, <3>3, AddedIs
  <2>3. Undone(6, i, s)
    BY UndoIs, <1>4 DEF Up0006, Down0006, Downgrade, AddColumn, DropColumn, Undone, Opposite
  <2>4. KeyUndoneFirst(6, i, s)
    <3>1. i = 13 => KeyUndoneFirst(6, 13, s) BY <1>4, UndoIs, KeyedIs DEF Up0006, AddColumn, KeyUndoneFirst
    <3>2. i = 14 => KeyUndoneFirst(6, 14, s) BY <1>4, UndoIs, KeyedIs DEF Up0006, AddColumn, KeyUndoneFirst
    <3>3. i = 15 => KeyUndoneFirst(6, 15, s) BY <1>4, UndoIs, KeyedNames DEF Up0006, AddColumn, KeyUndoneFirst
    <3>4. QED BY <3>1, <3>2, <3>3
  <2>5. QED BY <2>1, <2>2, <2>3, <2>4, AddFits
<1>5. ASSUME NEW i \in 16..18, NEW s, s = Up0006[i] PROVE Fits(6, i, s)
  <2>1. s.op \in {"insert", "update"} /\ (s.op = "update" => s.what \in Rewrites)
    BY <1>5 DEF Up0006, Insert, Update, Rewrites
  <2>2. s.table \in DOMAIN Born /\ Earlier(Born[s.table], <<6, i>>)
    <3>1. i = 16 => s.table = "runs" BY <1>5 DEF Up0006, Update
    <3>2. i = 17 => s.table = "evidence_packs" BY <1>5 DEF Up0006, Update
    <3>3. i = 18 => s.table = "review_events" BY <1>5 DEF Up0006, Update
    <3>4. QED BY <1>5, <3>1, <3>2, <3>3, BornIs DEF Earlier
  <2>3. QED BY <2>1, <2>2, RowsFit
<1>6. ASSUME NEW i \in 19..23, NEW s, s = Up0006[i] PROVE Fits(6, i, s)
  <2>1. s.op = "create_foreign_key" /\ s.table \in DOMAIN Born /\ Born[s.table][1] \in Nat
        /\ Born[s.table][1] < 6
    BY BornIs, <1>6 DEF Up0006, CreateForeignKey
  <2>2. /\ Came(Added, s.table, s.column) /\ Came(Keyed, s.table, s.column)
          /\ Keyed[s.table][s.column] = <<6, i>>
    <3>1. i = 19 => s.table = "runs" /\ s.column = "organization_id"
      BY <1>6 DEF Up0006, CreateForeignKey
    <3>2. i = 20 => s.table = "runs" /\ s.column = "repository_id"
      BY <1>6 DEF Up0006, CreateForeignKey
    <3>3. i = 21 => s.table = "runs" /\ s.column = "evidence_source_id"
      BY <1>6 DEF Up0006, CreateForeignKey
    <3>4. i = 22 => s.table = "evidence_packs" /\ s.column = "organization_id"
      BY <1>6 DEF Up0006, CreateForeignKey
    <3>5. i = 23 => s.table = "review_events" /\ s.column = "organization_id"
      BY <1>6 DEF Up0006, CreateForeignKey
    <3>6. QED BY <1>6, <3>1, <3>2, <3>3, <3>4, <3>5, AddedIs, KeyedIs
  <2>3. Undone(6, i, s)
    BY UndoIs, <1>6 DEF Up0006, Down0006, Downgrade, CreateForeignKey, DropConstraint, Undone, Opposite
  <2>4. TargetsThere(6, i, s)
    BY BornIs, <1>6 DEF Up0006, CreateForeignKey, TargetsThere, Targets, Earlier
  <2>5. \A u \in Targets(s) : Born[u][1] = 6 => Undo[6][i] < Undo[6][Born[u][2]]
    BY BornIs, UndoIs, <1>6 DEF Up0006, CreateForeignKey, Targets
  <2>6. QED BY <2>1, <2>2, <2>3, <2>4, <2>5, KeyFits
<1>7. QED BY <1>1, <1>2, <1>3, <1>4, <1>5, <1>6

LEMMA Fits7 == \A i \in 1..1 : Fits(7, i, Up0007[i])
<1> SUFFICES ASSUME NEW i \in 1..1 PROVE Fits(7, i, Up0007[i])
  OBVIOUS
<1>1. Up0007[i].op = "create_table"
  BY DEF Up0007, CreateTable
<1>2. Up0007[i].table \in DOMAIN Born /\ Born[Up0007[i].table] = <<7, i>>
  BY BornIs DEF Up0007, CreateTable
<1>3. OwnParts(Up0007[i])
  BY DEF Up0007, CreateTable, OwnParts, Came, Added, Keyed
<1>4. TargetsThere(7, i, Up0007[i])
  BY BornIs DEF Up0007, CreateTable, TargetsThere, Targets, Earlier
<1>5. Undone(7, i, Up0007[i])
  BY UndoIs DEF Up0007, Down0007, Downgrade, CreateTable, DropTable, Undone, Opposite
<1>6. \A u \in Targets(Up0007[i]) :
        Born[u][1] = 7 => Undo[7][i] < Undo[7][Born[u][2]]
  BY BornIs, UndoIs DEF Up0007, CreateTable, Targets
<1>7. QED BY <1>1, <1>2, <1>3, <1>4, <1>5, <1>6, CreateFits

LEMMA Fits8 == \A i \in 1..6 : Fits(8, i, Up0008[i])
<1> SUFFICES ASSUME NEW i \in 1..6 PROVE Fits(8, i, Up0008[i])
  OBVIOUS
<1>1. Up0008[i].op = "create_table"
  BY DEF Up0008, CreateTable
<1>2. Up0008[i].table \in DOMAIN Born /\ Born[Up0008[i].table] = <<8, i>>
  BY BornIs DEF Up0008, CreateTable
<1>3. OwnParts(Up0008[i])
  BY DEF Up0008, CreateTable, OwnParts, Came, Added, Keyed
<1>4. TargetsThere(8, i, Up0008[i])
  BY BornIs DEF Up0008, CreateTable, TargetsThere, Targets, Earlier
<1>5. Undone(8, i, Up0008[i])
  BY UndoIs DEF Up0008, Down0008, Downgrade, CreateTable, DropTable, Undone, Opposite
<1>6. \A u \in Targets(Up0008[i]) :
        Born[u][1] = 8 => Undo[8][i] < Undo[8][Born[u][2]]
  BY BornIs, UndoIs DEF Up0008, CreateTable, Targets
<1>7. QED BY <1>1, <1>2, <1>3, <1>4, <1>5, <1>6, CreateFits

LEMMA Fits9 == \A i \in 1..2 : Fits(9, i, Up0009[i])
<1>1. ASSUME NEW i \in 1..2, NEW s, s = Up0009[i] PROVE Fits(9, i, s)
  <2>1. s.op = "add_column" /\ s.table \in DOMAIN Born /\ Born[s.table][1] \in Nat /\ Born[s.table][1] < 9
    BY BornIs, <1>1 DEF Up0009, AddColumn
  <2>2. Came(Added, s.table, s.column) /\ Added[s.table][s.column] = <<9, i>>
    <3>1. i = 1 => s.table = "policy_configs" /\ s.column = "repo_name"
      BY <1>1 DEF Up0009, AddColumn
    <3>2. i = 2 => s.table = "policy_configs" /\ s.column = "is_active"
      BY <1>1 DEF Up0009, AddColumn
    <3>3. QED BY <1>1, <3>1, <3>2, AddedIs
  <2>3. Undone(9, i, s)
    BY UndoIs, <1>1 DEF Up0009, Down0009, Downgrade, AddColumn, DropColumn, Undone, Opposite
  <2>4. KeyUndoneFirst(9, i, s)
    <3>1. i = 1 => s.table = "policy_configs" /\ s.column = "repo_name"
      BY <1>1 DEF Up0009, AddColumn
    <3>2. i = 2 => s.table = "policy_configs" /\ s.column = "is_active"
      BY <1>1 DEF Up0009, AddColumn
    <3>3. QED BY <1>1, <3>1, <3>2, KeyedNames DEF KeyUndoneFirst
  <2>5. QED BY <2>1, <2>2, <2>3, <2>4, AddFits
<1>2. QED BY <1>1

LEMMA Fits10 == \A i \in 1..6 : Fits(10, i, Up0010[i])
<1>1. ASSUME NEW i \in 1..3, NEW s, s = Up0010[i] PROVE Fits(10, i, s)
  <2>1. s.op = "add_column" /\ s.table \in DOMAIN Born /\ Born[s.table][1] \in Nat /\ Born[s.table][1] < 10
    BY BornIs, <1>1 DEF Up0010, AddColumn
  <2>2. Came(Added, s.table, s.column) /\ Added[s.table][s.column] = <<10, i>>
    <3>1. i = 1 => s.table = "evidence_sources" /\ s.column = "repo_name"
      BY <1>1 DEF Up0010, AddColumn
    <3>2. i = 2 => s.table = "runs" /\ s.column = "schema_version"
      BY <1>1 DEF Up0010, AddColumn
    <3>3. i = 3 => s.table = "runs" /\ s.column = "source_run_url"
      BY <1>1 DEF Up0010, AddColumn
    <3>4. QED BY <1>1, <3>1, <3>2, <3>3, AddedIs
  <2>3. Undone(10, i, s)
    BY UndoIs, <1>1 DEF Up0010, Down0010, Downgrade, AddColumn, DropColumn, Undone, Opposite
  <2>4. KeyUndoneFirst(10, i, s)
    <3>1. i = 1 => KeyUndoneFirst(10, 1, s) BY <1>1, KeyedNames DEF Up0010, AddColumn, KeyUndoneFirst
    <3>2. i = 2 => KeyUndoneFirst(10, 2, s) BY <1>1, KeyedNames DEF Up0010, AddColumn, KeyUndoneFirst
    <3>3. i = 3 => KeyUndoneFirst(10, 3, s) BY <1>1, KeyedNames DEF Up0010, AddColumn, KeyUndoneFirst
    <3>4. QED BY <3>1, <3>2, <3>3
  <2>5. QED BY <2>1, <2>2, <2>3, <2>4, AddFits
<1>2. ASSUME NEW i \in 4..6, NEW s, s = Up0010[i] PROVE Fits(10, i, s)
  <2>1. s.op = "add_column" /\ s.table \in DOMAIN Born /\ Born[s.table][1] \in Nat /\ Born[s.table][1] < 10
    BY BornIs, <1>2 DEF Up0010, AddColumn
  <2>2. Came(Added, s.table, s.column) /\ Added[s.table][s.column] = <<10, i>>
    <3>1. i = 4 => s.table = "runs" /\ s.column = "pull_request_json"
      BY <1>2 DEF Up0010, AddColumn
    <3>2. i = 5 => s.table = "runs" /\ s.column = "scanner_results_json"
      BY <1>2 DEF Up0010, AddColumn
    <3>3. i = 6 => s.table = "runs" /\ s.column = "artifact_refs_json"
      BY <1>2 DEF Up0010, AddColumn
    <3>4. QED BY <1>2, <3>1, <3>2, <3>3, AddedIs
  <2>3. Undone(10, i, s)
    BY UndoIs, <1>2 DEF Up0010, Down0010, Downgrade, AddColumn, DropColumn, Undone, Opposite
  <2>4. KeyUndoneFirst(10, i, s)
    <3>1. i = 4 => KeyUndoneFirst(10, 4, s) BY <1>2, KeyedNames DEF Up0010, AddColumn, KeyUndoneFirst
    <3>2. i = 5 => KeyUndoneFirst(10, 5, s) BY <1>2, KeyedNames DEF Up0010, AddColumn, KeyUndoneFirst
    <3>3. i = 6 => KeyUndoneFirst(10, 6, s) BY <1>2, KeyedNames DEF Up0010, AddColumn, KeyUndoneFirst
    <3>4. QED BY <3>1, <3>2, <3>3
  <2>5. QED BY <2>1, <2>2, <2>3, <2>4, AddFits
<1>3. QED BY <1>1, <1>2

LEMMA Fits11 == \A i \in 1..5 : Fits(11, i, Up0011[i])
<1> SUFFICES ASSUME NEW i \in 1..5 PROVE Fits(11, i, Up0011[i])
  OBVIOUS
<1>1. Up0011[i].op = "create_table"
  BY DEF Up0011, CreateTable
<1>2. Up0011[i].table \in DOMAIN Born /\ Born[Up0011[i].table] = <<11, i>>
  BY BornIs DEF Up0011, CreateTable
<1>3. OwnParts(Up0011[i])
  BY DEF Up0011, CreateTable, OwnParts, Came, Added, Keyed
<1>4. TargetsThere(11, i, Up0011[i])
  BY BornIs DEF Up0011, CreateTable, TargetsThere, Targets, Earlier
<1>5. Undone(11, i, Up0011[i])
  BY UndoIs DEF Up0011, Down0011, Downgrade, CreateTable, DropTable, Undone, Opposite
<1>6. \A u \in Targets(Up0011[i]) :
        Born[u][1] = 11 => Undo[11][i] < Undo[11][Born[u][2]]
  BY BornIs, UndoIs DEF Up0011, CreateTable, Targets
<1>7. QED BY <1>1, <1>2, <1>3, <1>4, <1>5, <1>6, CreateFits

LEMMA Fits12 == \A i \in 1..1 : Fits(12, i, Up0012[i])
<1> SUFFICES ASSUME NEW i \in 1..1 PROVE Fits(12, i, Up0012[i])
  OBVIOUS
<1>1. Up0012[i].op = "create_table"
  BY DEF Up0012, CreateTable
<1>2. Up0012[i].table \in DOMAIN Born /\ Born[Up0012[i].table] = <<12, i>>
  BY BornIs DEF Up0012, CreateTable
<1>3. OwnParts(Up0012[i])
  BY DEF Up0012, CreateTable, OwnParts, Came, Added, Keyed
<1>4. TargetsThere(12, i, Up0012[i])
  BY BornIs DEF Up0012, CreateTable, TargetsThere, Targets, Earlier
<1>5. Undone(12, i, Up0012[i])
  BY UndoIs DEF Up0012, Down0012, Downgrade, CreateTable, DropTable, Undone, Opposite
<1>6. \A u \in Targets(Up0012[i]) :
        Born[u][1] = 12 => Undo[12][i] < Undo[12][Born[u][2]]
  BY BornIs, UndoIs DEF Up0012, CreateTable, Targets
<1>7. QED BY <1>1, <1>2, <1>3, <1>4, <1>5, <1>6, CreateFits

LEMMA Fits13 == \A i \in 1..1 : Fits(13, i, Up0013[i])
<1> SUFFICES ASSUME NEW i \in 1..1 PROVE Fits(13, i, Up0013[i])
  OBVIOUS
<1>1. Up0013[i].op = "create_table"
  BY DEF Up0013, CreateTable
<1>2. Up0013[i].table \in DOMAIN Born /\ Born[Up0013[i].table] = <<13, i>>
  BY BornIs DEF Up0013, CreateTable
<1>3. OwnParts(Up0013[i])
  BY DEF Up0013, CreateTable, OwnParts, Came, Added, Keyed
<1>4. TargetsThere(13, i, Up0013[i])
  BY BornIs DEF Up0013, CreateTable, TargetsThere, Targets, Earlier
<1>5. Undone(13, i, Up0013[i])
  BY UndoIs DEF Up0013, Down0013, Downgrade, CreateTable, DropTable, Undone, Opposite
<1>6. \A u \in Targets(Up0013[i]) :
        Born[u][1] = 13 => Undo[13][i] < Undo[13][Born[u][2]]
  BY BornIs, UndoIs DEF Up0013, CreateTable, Targets
<1>7. QED BY <1>1, <1>2, <1>3, <1>4, <1>5, <1>6, CreateFits

LEMMA Fits14 == \A i \in 1..1 : Fits(14, i, Up0014[i])
<1>1. Up0014[1].op = "create_trigger" /\ Up0014[1].table \in DOMAIN Born
      /\ Born[Up0014[1].table][1] \in Nat /\ Born[Up0014[1].table][1] < 14
  BY BornIs DEF Up0014, CreateTrigger
<1>2. Up0014[1].table \in DOMAIN Guarding /\ Guarding[Up0014[1].table] = <<14, 1>>
  BY DEF Up0014, CreateTrigger, Guarding
<1>3. Undone(14, 1, Up0014[1])
  BY UndoIs DEF Up0014, Down0014, Downgrade, CreateTrigger, DropTrigger, Undone, Opposite
<1>4. Fits(14, 1, Up0014[1]) BY <1>1, <1>2, <1>3, TriggerFits
<1>5. QED BY <1>4

(* The scripts. *)
LEMMA Lengths ==
    /\ Len(Up0001) = 3 /\ Len(Up0002) = 2 /\ Len(Up0003) = 4 /\ Len(Up0004) = 3 /\ Len(Up0005) = 1
    /\ Len(Up0006) = 23 /\ Len(Up0007) = 1 /\ Len(Up0008) = 6 /\ Len(Up0009) = 2 /\ Len(Up0010) = 6
    /\ Len(Up0011) = 5 /\ Len(Up0012) = 1 /\ Len(Up0013) = 1 /\ Len(Up0014) = 1
    /\ Len(Down0001) = 3 /\ Len(Down0002) = 2 /\ Len(Down0003) = 3 /\ Len(Down0004) = 2 /\ Len(Down0005) = 1
    /\ Len(Down0006) = 17 /\ Len(Down0007) = 1 /\ Len(Down0008) = 6 /\ Len(Down0009) = 2 /\ Len(Down0010) = 6
    /\ Len(Down0011) = 5 /\ Len(Down0012) = 1 /\ Len(Down0013) = 1 /\ Len(Down0014) = 1
<1>1. Len(Up0006) = 23 BY DEF Up0006
<1>2. Len(Down0006) = 17 BY DEF Down0006
<1>3. /\ Len(Up0001) = 3 /\ Len(Up0002) = 2 /\ Len(Up0003) = 4 /\ Len(Up0004) = 3 /\ Len(Up0005) = 1
      /\ Len(Up0007) = 1 /\ Len(Up0008) = 6
  BY DEF Up0001, Up0002, Up0003, Up0004, Up0005, Up0007, Up0008
<1>4. /\ Len(Up0009) = 2 /\ Len(Up0010) = 6
      /\ Len(Up0011) = 5 /\ Len(Up0012) = 1 /\ Len(Up0013) = 1 /\ Len(Up0014) = 1
  BY DEF Up0009, Up0010, Up0011, Up0012, Up0013, Up0014
<1>5. /\ Len(Down0001) = 3 /\ Len(Down0002) = 2 /\ Len(Down0003) = 3 /\ Len(Down0004) = 2
      /\ Len(Down0005) = 1
      /\ Len(Down0007) = 1 /\ Len(Down0008) = 6
  BY DEF Down0001, Down0002, Down0003, Down0004, Down0005, Down0007, Down0008
<1>6. /\ Len(Down0009) = 2 /\ Len(Down0010) = 6
      /\ Len(Down0011) = 5 /\ Len(Down0012) = 1 /\ Len(Down0013) = 1 /\ Len(Down0014) = 1
  BY DEF Down0009, Down0010, Down0011, Down0012, Down0013, Down0014
<1>7. QED BY <1>1, <1>2, <1>3, <1>4, <1>5, <1>6

LEMMA ScriptOf ==
    /\ Upgrade[1] = Up0001 /\ Upgrade[2] = Up0002 /\ Upgrade[3] = Up0003 /\ Upgrade[4] = Up0004
    /\ Upgrade[5] = Up0005 /\ Upgrade[6] = Up0006 /\ Upgrade[7] = Up0007 /\ Upgrade[8] = Up0008
    /\ Upgrade[9] = Up0009 /\ Upgrade[10] = Up0010 /\ Upgrade[11] = Up0011 /\ Upgrade[12] = Up0012
    /\ Upgrade[13] = Up0013 /\ Upgrade[14] = Up0014
    /\ Downgrade[1] = Down0001 /\ Downgrade[2] = Down0002 /\ Downgrade[3] = Down0003
    /\ Downgrade[4] = Down0004 /\ Downgrade[5] = Down0005 /\ Downgrade[6] = Down0006
    /\ Downgrade[7] = Down0007 /\ Downgrade[8] = Down0008 /\ Downgrade[9] = Down0009
    /\ Downgrade[10] = Down0010 /\ Downgrade[11] = Down0011 /\ Downgrade[12] = Down0012
    /\ Downgrade[13] = Down0013 /\ Downgrade[14] = Down0014
BY DEF Upgrade, Downgrade

LEMMA Revision14 == \A n \in 1..LastRevision : n \in {1, 2, 3, 4, 5, 6, 7, 8, 9, 10, 11, 12, 13, 14}
BY DEF LastRevision

(* Every upgrade is where the lists say. *)
LEMMA UpgradeFits ==
    ASSUME NEW n \in 1..LastRevision, NEW i \in 1..Len(Upgrade[n]) PROVE Fits(n, i, Upgrade[n][i])
<1>1. CASE n = 1 BY <1>1, Fits1, Lengths, ScriptOf
<1>2. CASE n = 2 BY <1>2, Fits2, Lengths, ScriptOf
<1>3. CASE n = 3 BY <1>3, Fits3, Lengths, ScriptOf
<1>4. CASE n = 4 BY <1>4, Fits4, Lengths, ScriptOf
<1>5. CASE n = 5 BY <1>5, Fits5, Lengths, ScriptOf
<1>6. CASE n = 6 BY <1>6, Fits6, Lengths, ScriptOf
<1>7. CASE n = 7 BY <1>7, Fits7, Lengths, ScriptOf
<1>8. CASE n = 8 BY <1>8, Fits8, Lengths, ScriptOf
<1>9. CASE n = 9 BY <1>9, Fits9, Lengths, ScriptOf
<1>10. CASE n = 10 BY <1>10, Fits10, Lengths, ScriptOf
<1>11. CASE n = 11 BY <1>11, Fits11, Lengths, ScriptOf
<1>12. CASE n = 12 BY <1>12, Fits12, Lengths, ScriptOf
<1>13. CASE n = 13 BY <1>13, Fits13, Lengths, ScriptOf
<1>14. CASE n = 14 BY <1>14, Fits14, Lengths, ScriptOf
<1>15. QED BY <1>1, <1>2, <1>3, <1>4, <1>5, <1>6, <1>7, <1>8, <1>9, <1>10, <1>11, <1>12, <1>13, <1>14,
           Revision14

(* A downgrade says nothing else: each of its statements undoes the one that brought its part. *)
UndoneAt(p, n, j) == p[1] = n /\ Undo[n][p[2]] = j
Drops(n, j, s) ==
    \/ s.op = "drop_table" /\ s.table \in DOMAIN Born /\ UndoneAt(Born[s.table], n, j)
    \/ s.op = "drop_column" /\ Came(Added, s.table, s.column) /\ UndoneAt(Added[s.table][s.column], n, j)
    \/ s.op = "drop_constraint" /\ Came(Keyed, s.table, s.column) /\ UndoneAt(Keyed[s.table][s.column], n, j)
    \/ s.op = "drop_trigger" /\ s.table \in DOMAIN Guarding /\ UndoneAt(Guarding[s.table], n, j)
DownFits(n, j, s) ==
    \/ n \in 2..4 /\ j = 1 /\ s.op = "update" /\ s.table = "evidence_packs" /\ s.what \in Rewrites
    \/ Drops(n, j, s)

(* The statements of the downgrades of 0001 to 0014 do. *)
LEMMA DownFits1 == \A j \in 1..3 : DownFits(1, j, Down0001[j])
<1>1. ASSUME NEW j \in {1, 2, 3}, NEW s, s = Down0001[j] PROVE DownFits(1, j, s)
  <2>1. s.op = "drop_table" BY <1>1 DEF Down0001, DropTable
  <2>2. s.table \in DOMAIN Born /\ UndoneAt(Born[s.table], 1, j)
    BY BornIs, UndoIs, <1>1 DEF Down0001, DropTable, UndoneAt
  <2>3. QED BY <2>1, <2>2 DEF DownFits, Drops
<1>2. \A j \in 1..3 : j \in {1, 2, 3} OBVIOUS
<1>3. QED BY <1>1, <1>2

LEMMA DownFits2 == \A j \in 1..2 : DownFits(2, j, Down0002[j])
<1>1. ASSUME NEW j \in {1}, NEW s, s = Down0002[j] PROVE DownFits(2, j, s)
  BY <1>1 DEF Down0002, Update, DownFits, Rewrites
<1>2. ASSUME NEW j \in {2}, NEW s, s = Down0002[j] PROVE DownFits(2, j, s)
  <2>1. s.op = "drop_column" BY <1>2 DEF Down0002, DropColumn
  <2>2. Came(Added, s.table, s.column) /\ Added[s.table][s.column] = <<2, 1>>
    <3>1. j = 2 => s.table = "runs" /\ s.column = "policy_version"
      BY <1>2 DEF Down0002, DropColumn
    <3>2. QED BY <1>2, <3>1, AddedIs
  <2>3. Undo[2][1] = j BY UndoIs, <1>2
  <2>4. QED BY <2>1, <2>2, <2>3 DEF DownFits, Drops, UndoneAt
<1>3. \A j \in 1..2 : j \in {1, 2} OBVIOUS
<1>4. QED BY <1>1, <1>2, <1>3

LEMMA DownFits3 == \A j \in 1..3 : DownFits(3, j, Down0003[j])
<1>1. ASSUME NEW j \in {1}, NEW s, s = Down0003[j] PROVE DownFits(3, j, s)
  BY <1>1 DEF Down0003, Update, DownFits, Rewrites
<1>2. ASSUME NEW j \in {2, 3}, NEW s, s = Down0003[j] PROVE DownFits(3, j, s)
  <2>1. s.op = "drop_column" BY <1>2 DEF Down0003, DropColumn
  <2>2. Came(Added, s.table, s.column) /\ Added[s.table][s.column] = <<3, 4 - j>>
    <3>1. j = 2 => s.table = "runs" /\ s.column = "review_outcome"
      BY <1>2 DEF Down0003, DropColumn
    <3>2. j = 3 => s.table = "runs" /\ s.column = "review_status"
      BY <1>2 DEF Down0003, DropColumn
    <3>3. QED BY <1>2, <3>1, <3>2, AddedIs
  <2>3. Undo[3][4 - j] = j BY UndoIs, <1>2
  <2>4. QED BY <2>1, <2>2, <2>3 DEF DownFits, Drops, UndoneAt
<1>3. \A j \in 1..3 : j \in {1, 2, 3} OBVIOUS
<1>4. QED BY <1>1, <1>2, <1>3

LEMMA DownFits4 == \A j \in 1..2 : DownFits(4, j, Down0004[j])
<1>1. ASSUME NEW j \in {1}, NEW s, s = Down0004[j] PROVE DownFits(4, j, s)
  BY <1>1 DEF Down0004, Update, DownFits, Rewrites
<1>2. ASSUME NEW j \in {2}, NEW s, s = Down0004[j] PROVE DownFits(4, j, s)
  <2>1. s.op = "drop_table" BY <1>2 DEF Down0004, DropTable
  <2>2. s.table \in DOMAIN Born /\ UndoneAt(Born[s.table], 4, j)
    BY BornIs, UndoIs, <1>2 DEF Down0004, DropTable, UndoneAt
  <2>3. QED BY <2>1, <2>2 DEF DownFits, Drops
<1>3. \A j \in 1..2 : j \in {1, 2} OBVIOUS
<1>4. QED BY <1>1, <1>2, <1>3

LEMMA DownFits5 == \A j \in 1..1 : DownFits(5, j, Down0005[j])
<1>1. ASSUME NEW j \in {1}, NEW s, s = Down0005[j] PROVE DownFits(5, j, s)
  <2>1. s.op = "drop_trigger" BY <1>1 DEF Down0005, DropTrigger
  <2>2. s.table \in DOMAIN Guarding /\ UndoneAt(Guarding[s.table], 5, j)
    BY UndoIs, <1>1 DEF Down0005, DropTrigger, UndoneAt, Guarding
  <2>3. QED BY <2>1, <2>2 DEF DownFits, Drops
<1>2. \A j \in 1..1 : j \in {1} OBVIOUS
<1>3. QED BY <1>1, <1>2

LEMMA DownFits6 == \A j \in 1..17 : DownFits(6, j, Down0006[j])
<1>1. ASSUME NEW j \in {1, 2, 3, 4, 5}, NEW s, s = Down0006[j] PROVE DownFits(6, j, s)
  <2>1. s.op = "drop_constraint" BY <1>1 DEF Down0006, DropConstraint
  <2>2. Came(Keyed, s.table, s.column) BY KeyedIs, <1>1 DEF Down0006, DropConstraint
  <2>3. Keyed[s.table][s.column] = <<6, 24 - j>>
    <3>1. j = 1 => s.table = "review_events" /\ s.column = "organization_id"
      BY <1>1 DEF Down0006, DropConstraint
    <3>2. j = 2 => s.table = "evidence_packs" /\ s.column = "organization_id"
      BY <1>1 DEF Down0006, DropConstraint
    <3>3. j = 3 => s.table = "runs" /\ s.column = "evidence_source_id"
      BY <1>1 DEF Down0006, DropConstraint
    <3>4. j = 4 => s.table = "runs" /\ s.column = "repository_id"
      BY <1>1 DEF Down0006, DropConstraint
    <3>5. j = 5 => s.table = "runs" /\ s.column = "organization_id"
      BY <1>1 DEF Down0006, DropConstraint
    <3>6. QED BY <1>1, <3>1, <3>2, <3>3, <3>4, <3>5, KeyedIs
  <2>4. Undo[6][24 - j] = j BY UndoIs, <1>1
  <2>5. QED BY <2>1, <2>2, <2>3, <2>4 DEF DownFits, Drops, UndoneAt
<1>2. ASSUME NEW j \in {6, 7, 8}, NEW s, s = Down0006[j] PROVE DownFits(6, j, s)
  <2>1. s.op = "drop_column" BY <1>2 DEF Down0006, DropColumn
  <2>2. Came(Added, s.table, s.column) BY AddedIs, <1>2 DEF Down0006, DropColumn
  <2>3. Added[s.table][s.column] = <<6, 21 - j>>
    <3>1. j = 6 => s.table = "review_events" /\ s.column = "actor_user_id"
      BY <1>2 DEF Down0006, DropColumn
    <3>2. j = 7 => s.table = "review_events" /\ s.column = "organization_id"
      BY <1>2 DEF Down0006, DropColumn
    <3>3. j = 8 => s.table = "evidence_packs" /\ s.column = "organization_id"
      BY <1>2 DEF Down0006, DropColumn
    <3>4. QED BY <1>2, <3>1, <3>2, <3>3, AddedIs
  <2>4. Undo[6][21 - j] = j BY UndoIs, <1>2
  <2>5. QED BY <2>1, <2>2, <2>3, <2>4 DEF DownFits, Drops, UndoneAt
<1>3. ASSUME NEW j \in {9, 10, 11}, NEW s, s = Down0006[j] PROVE DownFits(6, j, s)
  <2>1. s.op = "drop_column" BY <1>3 DEF Down0006, DropColumn
  <2>2. Came(Added, s.table, s.column) BY AddedIs, <1>3 DEF Down0006, DropColumn
  <2>3. Added[s.table][s.column] = <<6, 21 - j>>
    <3>1. j = 9 => s.table = "runs" /\ s.column = "evidence_source_id"
      BY <1>3 DEF Down0006, DropColumn
    <3>2. j = 10 => s.table = "runs" /\ s.column = "repository_id"
      BY <1>3 DEF Down0006, DropColumn
    <3>3. j = 11 => s.table = "runs" /\ s.column = "organization_id"
      BY <1>3 DEF Down0006, DropColumn
    <3>4. QED BY <1>3, <3>1, <3>2, <3>3, AddedIs
  <2>4. Undo[6][21 - j] = j BY UndoIs, <1>3
  <2>5. QED BY <2>1, <2>2, <2>3, <2>4 DEF DownFits, Drops, UndoneAt
<1>4. ASSUME NEW j \in {12, 13, 14, 15, 16, 17}, NEW s, s = Down0006[j] PROVE DownFits(6, j, s)
  <2>1. s.op = "drop_table" BY <1>4 DEF Down0006, DropTable
  <2>2. s.table \in DOMAIN Born /\ UndoneAt(Born[s.table], 6, j)
    <3>1. j = 12 => s.table = "policy_configs" BY <1>4 DEF Down0006, DropTable
    <3>2. j = 13 => s.table = "evidence_sources" BY <1>4 DEF Down0006, DropTable
    <3>3. j = 14 => s.table = "repositories" BY <1>4 DEF Down0006, DropTable
    <3>4. j = 15 => s.table = "memberships" BY <1>4 DEF Down0006, DropTable
    <3>5. j = 16 => s.table = "users" BY <1>4 DEF Down0006, DropTable
    <3>6. j = 17 => s.table = "organizations" BY <1>4 DEF Down0006, DropTable
    <3>7. QED BY <1>4, <3>1, <3>2, <3>3, <3>4, <3>5, <3>6, BornIs, UndoIs DEF UndoneAt
  <2>3. QED BY <2>1, <2>2 DEF DownFits, Drops
<1>5. \A j \in 1..17 : j \in {1, 2, 3, 4, 5, 6, 7, 8, 9, 10, 11, 12, 13, 14, 15, 16, 17} OBVIOUS
<1>6. QED BY <1>1, <1>2, <1>3, <1>4, <1>5

LEMMA DownFits7 == \A j \in 1..1 : DownFits(7, j, Down0007[j])
<1>1. ASSUME NEW j \in {1}, NEW s, s = Down0007[j] PROVE DownFits(7, j, s)
  <2>1. s.op = "drop_table" BY <1>1 DEF Down0007, DropTable
  <2>2. s.table \in DOMAIN Born /\ UndoneAt(Born[s.table], 7, j)
    BY BornIs, UndoIs, <1>1 DEF Down0007, DropTable, UndoneAt
  <2>3. QED BY <2>1, <2>2 DEF DownFits, Drops
<1>2. \A j \in 1..1 : j \in {1} OBVIOUS
<1>3. QED BY <1>1, <1>2

LEMMA DownFits8 == \A j \in 1..6 : DownFits(8, j, Down0008[j])
<1>1. ASSUME NEW j \in {1, 2, 3, 4, 5, 6}, NEW s, s = Down0008[j] PROVE DownFits(8, j, s)
  <2>1. s.op = "drop_table" BY <1>1 DEF Down0008, DropTable
  <2>2. s.table \in DOMAIN Born /\ UndoneAt(Born[s.table], 8, j)
    BY BornIs, UndoIs, <1>1 DEF Down0008, DropTable, UndoneAt
  <2>3. QED BY <2>1, <2>2 DEF DownFits, Drops
<1>2. \A j \in 1..6 : j \in {1, 2, 3, 4, 5, 6} OBVIOUS
<1>3. QED BY <1>1, <1>2

LEMMA DownFits9 == \A j \in 1..2 : DownFits(9, j, Down0009[j])
<1>1. ASSUME NEW j \in {1, 2}, NEW s, s = Down0009[j] PROVE DownFits(9, j, s)
  <2>1. s.op = "drop_column" BY <1>1 DEF Down0009, DropColumn
  <2>2. Came(Added, s.table, s.column) /\ Added[s.table][s.column] = <<9, 3 - j>>
    <3>1. j = 1 => s.table = "policy_configs" /\ s.column = "is_active"
      BY <1>1 DEF Down0009, DropColumn
    <3>2. j = 2 => s.table = "policy_configs" /\ s.column = "repo_name"
      BY <1>1 DEF Down0009, DropColumn
    <3>3. QED BY <1>1, <3>1, <3>2, AddedIs
  <2>3. Undo[9][3 - j] = j BY UndoIs, <1>1
  <2>4. QED BY <2>1, <2>2, <2>3 DEF DownFits, Drops, UndoneAt
<1>2. \A j \in 1..2 : j \in {1, 2} OBVIOUS
<1>3. QED BY <1>1, <1>2

LEMMA DownFits10 == \A j \in 1..6 : DownFits(10, j, Down0010[j])
<1>1. ASSUME NEW j \in {1, 2, 3}, NEW s, s = Down0010[j] PROVE DownFits(10, j, s)
  <2>1. s.op = "drop_column" BY <1>1 DEF Down0010, DropColumn
  <2>2. Came(Added, s.table, s.column) /\ Added[s.table][s.column] = <<10, 7 - j>>
    <3>1. j = 1 => s.table = "runs" /\ s.column = "artifact_refs_json"
      BY <1>1 DEF Down0010, DropColumn
    <3>2. j = 2 => s.table = "runs" /\ s.column = "scanner_results_json"
      BY <1>1 DEF Down0010, DropColumn
    <3>3. j = 3 => s.table = "runs" /\ s.column = "pull_request_json"
      BY <1>1 DEF Down0010, DropColumn
    <3>4. QED BY <1>1, <3>1, <3>2, <3>3, AddedIs
  <2>3. Undo[10][7 - j] = j BY UndoIs, <1>1
  <2>4. QED BY <2>1, <2>2, <2>3 DEF DownFits, Drops, UndoneAt
<1>2. ASSUME NEW j \in {4, 5, 6}, NEW s, s = Down0010[j] PROVE DownFits(10, j, s)
  <2>1. s.op = "drop_column" BY <1>2 DEF Down0010, DropColumn
  <2>2. Came(Added, s.table, s.column) /\ Added[s.table][s.column] = <<10, 7 - j>>
    <3>1. j = 4 => s.table = "runs" /\ s.column = "source_run_url"
      BY <1>2 DEF Down0010, DropColumn
    <3>2. j = 5 => s.table = "runs" /\ s.column = "schema_version"
      BY <1>2 DEF Down0010, DropColumn
    <3>3. j = 6 => s.table = "evidence_sources" /\ s.column = "repo_name"
      BY <1>2 DEF Down0010, DropColumn
    <3>4. QED BY <1>2, <3>1, <3>2, <3>3, AddedIs
  <2>3. Undo[10][7 - j] = j BY UndoIs, <1>2
  <2>4. QED BY <2>1, <2>2, <2>3 DEF DownFits, Drops, UndoneAt
<1>3. \A j \in 1..6 : j \in {1, 2, 3, 4, 5, 6} OBVIOUS
<1>4. QED BY <1>1, <1>2, <1>3

LEMMA DownFits11 == \A j \in 1..5 : DownFits(11, j, Down0011[j])
<1>1. ASSUME NEW j \in {1, 2, 3, 4, 5}, NEW s, s = Down0011[j] PROVE DownFits(11, j, s)
  <2>1. s.op = "drop_table" BY <1>1 DEF Down0011, DropTable
  <2>2. s.table \in DOMAIN Born /\ UndoneAt(Born[s.table], 11, j)
    BY BornIs, UndoIs, <1>1 DEF Down0011, DropTable, UndoneAt
  <2>3. QED BY <2>1, <2>2 DEF DownFits, Drops
<1>2. \A j \in 1..5 : j \in {1, 2, 3, 4, 5} OBVIOUS
<1>3. QED BY <1>1, <1>2

LEMMA DownFits12 == \A j \in 1..1 : DownFits(12, j, Down0012[j])
<1>1. ASSUME NEW j \in {1}, NEW s, s = Down0012[j] PROVE DownFits(12, j, s)
  <2>1. s.op = "drop_table" BY <1>1 DEF Down0012, DropTable
  <2>2. s.table \in DOMAIN Born /\ UndoneAt(Born[s.table], 12, j)
    BY BornIs, UndoIs, <1>1 DEF Down0012, DropTable, UndoneAt
  <2>3. QED BY <2>1, <2>2 DEF DownFits, Drops
<1>2. \A j \in 1..1 : j \in {1} OBVIOUS
<1>3. QED BY <1>1, <1>2

LEMMA DownFits13 == \A j \in 1..1 : DownFits(13, j, Down0013[j])
<1>1. ASSUME NEW j \in {1}, NEW s, s = Down0013[j] PROVE DownFits(13, j, s)
  <2>1. s.op = "drop_table" BY <1>1 DEF Down0013, DropTable
  <2>2. s.table \in DOMAIN Born /\ UndoneAt(Born[s.table], 13, j)
    BY BornIs, UndoIs, <1>1 DEF Down0013, DropTable, UndoneAt
  <2>3. QED BY <2>1, <2>2 DEF DownFits, Drops
<1>2. \A j \in 1..1 : j \in {1} OBVIOUS
<1>3. QED BY <1>1, <1>2

LEMMA DownFits14 == \A j \in 1..1 : DownFits(14, j, Down0014[j])
<1>1. ASSUME NEW j \in {1}, NEW s, s = Down0014[j] PROVE DownFits(14, j, s)
  <2>1. s.op = "drop_trigger" BY <1>1 DEF Down0014, DropTrigger
  <2>2. s.table \in DOMAIN Guarding /\ UndoneAt(Guarding[s.table], 14, j)
    BY UndoIs, <1>1 DEF Down0014, DropTrigger, UndoneAt, Guarding
  <2>3. QED BY <2>1, <2>2 DEF DownFits, Drops
<1>2. \A j \in 1..1 : j \in {1} OBVIOUS
<1>3. QED BY <1>1, <1>2

LEMMA DowngradeFits ==
    ASSUME NEW n \in 1..LastRevision, NEW j \in 1..Len(Downgrade[n]) PROVE DownFits(n, j, Downgrade[n][j])
<1>1. CASE n = 1 BY <1>1, DownFits1, Lengths, ScriptOf
<1>2. CASE n = 2 BY <1>2, DownFits2, Lengths, ScriptOf
<1>3. CASE n = 3 BY <1>3, DownFits3, Lengths, ScriptOf
<1>4. CASE n = 4 BY <1>4, DownFits4, Lengths, ScriptOf
<1>5. CASE n = 5 BY <1>5, DownFits5, Lengths, ScriptOf
<1>6. CASE n = 6 BY <1>6, DownFits6, Lengths, ScriptOf
<1>7. CASE n = 7 BY <1>7, DownFits7, Lengths, ScriptOf
<1>8. CASE n = 8 BY <1>8, DownFits8, Lengths, ScriptOf
<1>9. CASE n = 9 BY <1>9, DownFits9, Lengths, ScriptOf
<1>10. CASE n = 10 BY <1>10, DownFits10, Lengths, ScriptOf
<1>11. CASE n = 11 BY <1>11, DownFits11, Lengths, ScriptOf
<1>12. CASE n = 12 BY <1>12, DownFits12, Lengths, ScriptOf
<1>13. CASE n = 13 BY <1>13, DownFits13, Lengths, ScriptOf
<1>14. CASE n = 14 BY <1>14, DownFits14, Lengths, ScriptOf
<1>15. QED BY <1>1, <1>2, <1>3, <1>4, <1>5, <1>6, <1>7, <1>8, <1>9, <1>10, <1>11, <1>12, <1>13, <1>14,
           Revision14

(* Each part comes with the statement that the lists name. *)
LEMMA BornCreates ==
    ASSUME NEW t \in DOMAIN Born
    PROVE  /\ Born[t][1] \in 1..LastRevision /\ Born[t][2] \in 1..Len(Upgrade[Born[t][1]])
           /\ Upgrade[Born[t][1]][Born[t][2]].op = "create_table"
           /\ Upgrade[Born[t][1]][Born[t][2]].table = t
<1> DEFINE At(n, i, u) == /\ n \in 1..LastRevision /\ i \in 1..Len(Upgrade[n])
                      /\ Upgrade[n][i].op = "create_table" /\ Upgrade[n][i].table = u
<1>1. /\ At(1, 1, "runs")
      /\ At(1, 2, "violations")
      /\ At(1, 3, "evidence_packs")
  BY ScriptOf, Lengths DEF Up0001, CreateTable, LastRevision
<1>2. /\ At(4, 1, "review_events")
  BY ScriptOf, Lengths DEF Up0004, CreateTable, LastRevision
<1>3. /\ At(6, 1, "organizations")
      /\ At(6, 2, "users")
      /\ At(6, 3, "memberships")
      /\ At(6, 4, "repositories")
      /\ At(6, 5, "evidence_sources")
      /\ At(6, 6, "policy_configs")
  BY ScriptOf, Lengths DEF Up0006, CreateTable, LastRevision
<1>4. /\ At(7, 1, "sessions")
  BY ScriptOf, Lengths DEF Up0007, CreateTable, LastRevision
<1>5. /\ At(8, 1, "github_installations")
      /\ At(8, 2, "github_repositories")
      /\ At(8, 3, "github_pull_requests")
      /\ At(8, 4, "github_check_runs")
      /\ At(8, 5, "github_webhook_deliveries")
      /\ At(8, 6, "repo_settings")
  BY ScriptOf, Lengths DEF Up0008, CreateTable, LastRevision
<1>6. /\ At(11, 1, "cases")
      /\ At(11, 2, "case_participants")
      /\ At(11, 3, "case_messages")
      /\ At(11, 4, "case_events")
      /\ At(11, 5, "case_external_links")
  BY ScriptOf, Lengths DEF Up0011, CreateTable, LastRevision
<1>7. /\ At(12, 1, "advisor_findings")
  BY ScriptOf, Lengths DEF Up0012, CreateTable, LastRevision
<1>8. /\ At(13, 1, "audit_events")
  BY ScriptOf, Lengths DEF Up0013, CreateTable, LastRevision
<1> HIDE DEF At
<1>9. At(Born[t][1], Born[t][2], t)
  BY <1>1, <1>2, <1>3, <1>4, <1>5, <1>6, <1>7, <1>8, BornIs
<1>10. QED BY <1>9 DEF At

(* Statement i of the upgrade of revision n is of this kind, for column c of table t. *)
StatementAt(op, n, i, t, c) ==
    /\ n \in 1..LastRevision /\ i \in 1..Len(Upgrade[n])
    /\ Upgrade[n][i].op = op
    /\ Upgrade[n][i].table = t /\ Upgrade[n][i].column = c

LEMMA AddedComes ==
    ASSUME NEW t, NEW c, Came(Added, t, c), NEW p, p = Added[t][c]
    PROVE  StatementAt("add_column", p[1], p[2], t, c)
<1>1. /\ StatementAt("add_column", 2, 1, "runs", "policy_version")
  BY ScriptOf, Lengths DEF Up0002, AddColumn, LastRevision, StatementAt
<1>2. /\ StatementAt("add_column", 3, 1, "runs", "review_status")
      /\ StatementAt("add_column", 3, 2, "runs", "review_outcome")
  BY ScriptOf, Lengths DEF Up0003, AddColumn, LastRevision, StatementAt
<1>3. /\ StatementAt("add_column", 6, 10, "runs", "organization_id")
      /\ StatementAt("add_column", 6, 11, "runs", "repository_id")
      /\ StatementAt("add_column", 6, 12, "runs", "evidence_source_id")
  BY ScriptOf, Lengths DEF Up0006, AddColumn, LastRevision, StatementAt
<1>4. /\ StatementAt("add_column", 6, 13, "evidence_packs", "organization_id")
      /\ StatementAt("add_column", 6, 14, "review_events", "organization_id")
      /\ StatementAt("add_column", 6, 15, "review_events", "actor_user_id")
  BY ScriptOf, Lengths DEF Up0006, AddColumn, LastRevision, StatementAt
<1>5. /\ StatementAt("add_column", 9, 1, "policy_configs", "repo_name")
      /\ StatementAt("add_column", 9, 2, "policy_configs", "is_active")
  BY ScriptOf, Lengths DEF Up0009, AddColumn, LastRevision, StatementAt
<1>6. /\ StatementAt("add_column", 10, 1, "evidence_sources", "repo_name")
      /\ StatementAt("add_column", 10, 2, "runs", "schema_version")
      /\ StatementAt("add_column", 10, 3, "runs", "source_run_url")
  BY ScriptOf, Lengths DEF Up0010, AddColumn, LastRevision, StatementAt
<1>7. /\ StatementAt("add_column", 10, 4, "runs", "pull_request_json")
      /\ StatementAt("add_column", 10, 5, "runs", "scanner_results_json")
      /\ StatementAt("add_column", 10, 6, "runs", "artifact_refs_json")
  BY ScriptOf, Lengths DEF Up0010, AddColumn, LastRevision, StatementAt
<1>8. QED BY <1>1, <1>2, <1>3, <1>4, <1>5, <1>6, <1>7, AddedNames, AddedIs

LEMMA KeyedComes ==
    ASSUME NEW t, NEW c, Came(Keyed, t, c), NEW p, p = Keyed[t][c]
    PROVE  StatementAt("create_foreign_key", p[1], p[2], t, c)
<1>1. /\ StatementAt("create_foreign_key", 6, 19, "runs", "organization_id")
      /\ StatementAt("create_foreign_key", 6, 20, "runs", "repository_id")
      /\ StatementAt("create_foreign_key", 6, 21, "runs", "evidence_source_id")
  BY ScriptOf, Lengths DEF Up0006, CreateForeignKey, LastRevision, StatementAt
<1>2. /\ StatementAt("create_foreign_key", 6, 22, "evidence_packs", "organization_id")
      /\ StatementAt("create_foreign_key", 6, 23, "review_events", "organization_id")
  BY ScriptOf, Lengths DEF Up0006, CreateForeignKey, LastRevision, StatementAt
<1>3. QED BY <1>1, <1>2, KeyedNames, KeyedIs

-----------------------------------------------------------------------------
(* What is there between two statements *)

(* The parts that statement s takes away: a table with all its parts, a column with its
   references. *)
Takes(s, e) ==
    \/ s.op = "drop_table" /\ e[1] = s.table
    \/ /\ s.op = "drop_column" /\ e[1] = s.table
       /\ (e[2] = "column" /\ e[3] = s.column) \/ (e[2] = "reference" /\ e[3][1] = s.column)
    \/ s.op = "drop_constraint" /\ e[1] = s.table /\ e[2] = "reference" /\ e[3] = <<s.column, s.to>>
    \/ s.op = "drop_trigger" /\ e[1] = s.table /\ e[2] = "trigger"

(* After done statements of revision n. *)
Present(n, way, done) ==
    IF way = "up" THEN Brought(n - 1) \union UNION {Brings(Upgrade[n][i]) : i \in 1..done}
    ELSE {e \in Brought(n) : \A j \in 1..done : ~Takes(Downgrade[n][j], e)}

(* The statement of Place(e) brings e. *)
Comes(e) ==
    LET n == Place(e)[1]
        i == Place(e)[2]
    IN  /\ n \in 1..LastRevision /\ i \in 1..Len(Upgrade[n])
        /\ Place(e) = <<n, i>> /\ e \in Brings(Upgrade[n][i])

(* What a statement brings is of its table. *)
LEMMA BringsParts ==
    ASSUME NEW s, NEW e \in Brings(s)
    PROVE  /\ s.op \in BringingOps
           /\ e[1] = s.table
           /\ \/ s.op = "create_table" /\ e = <<s.table, "table", s.table>>
              \/ s.op = "create_table" /\ \E c \in s.columns : e = <<s.table, "column", c>>
              \/ s.op = "create_table" /\ \E r \in s.refers : e = <<s.table, "reference", r>>
              \/ s.op = "add_column" /\ e = <<s.table, "column", s.column>>
              \/ s.op = "create_foreign_key" /\ e = <<s.table, "reference", <<s.column, s.to>>>>
              \/ s.op = "create_trigger" /\ e = <<s.table, "trigger", s.table>>
<1>1. s.op \in BringingOps BY DEF Brings, BringingOps
<1>2. CASE s.op = "create_table" BY <1>2, <1>1 DEF Brings, Parts
<1>3. CASE s.op # "create_table" BY <1>3, <1>1 DEF Brings, BringingOps
<1>4. QED BY <1>2, <1>3

(* Each part is placed where its statement is. *)
LEMMA PlaceOf ==
    ASSUME NEW n, NEW i, NEW s, Fits(n, i, s), NEW e \in Brings(s)
    PROVE  /\ Place(e) = <<n, i>>
           /\ e[2] = "reference" =>
                 /\ e[3][2] \in Targets(s)
                 /\ Came(Added, e[1], e[3][1]) =>
                        Came(Keyed, e[1], e[3][1]) /\ Keyed[e[1]][e[3][1]] = <<n, i>>
<1>1. InPlace(n, i, s) /\ OwnParts(s) BY DEF Fits
<1>2. CASE s.op = "create_table" /\ e = <<s.table, "table", s.table>>
  BY <1>1, <1>2 DEF InPlace, Place
<1>3. CASE s.op = "create_table" /\ \E c \in s.columns : e = <<s.table, "column", c>>
  BY <1>1, <1>3 DEF InPlace, OwnParts, Place, ColumnPlace
<1>4. CASE s.op = "create_table" /\ \E r \in s.refers : e = <<s.table, "reference", r>>
  BY <1>1, <1>4 DEF InPlace, OwnParts, Place, ReferencePlace, Targets
<1>5. CASE s.op = "add_column" /\ e = <<s.table, "column", s.column>>
  BY <1>1, <1>5 DEF InPlace, Place, ColumnPlace
<1>6. CASE s.op = "create_foreign_key" /\ e = <<s.table, "reference", <<s.column, s.to>>>>
  BY <1>1, <1>6 DEF InPlace, Place, ReferencePlace, Targets
<1>7. CASE s.op = "create_trigger" /\ e = <<s.table, "trigger", s.table>>
  BY <1>1, <1>7 DEF InPlace, Place
<1>8. QED BY <1>2, <1>3, <1>4, <1>5, <1>6, <1>7, BringsParts

(* What the upgrades up to r have brought is what has a place among them. *)
LEMMA BroughtBy ==
    ASSUME NEW r \in 0..LastRevision, NEW e \in Brought(r)
    PROVE  Comes(e) /\ Place(e)[1] \in 1..r
<1>1. PICK n \in 1..r : e \in UNION {Brings(Upgrade[n][i]) : i \in 1..Len(Upgrade[n])} BY DEF Brought
<1>2. PICK i \in 1..Len(Upgrade[n]) : e \in Brings(Upgrade[n][i]) BY <1>1
<1>3. n \in 1..LastRevision BY DEF LastRevision
<1>4. Place(e) = <<n, i>> BY <1>2, <1>3, UpgradeFits, PlaceOf
<1>5. QED BY <1>2, <1>3, <1>4 DEF Comes

LEMMA ComesBrought ==
    ASSUME NEW r \in 0..LastRevision, NEW e, Comes(e), Place(e)[1] <= r PROVE e \in Brought(r)
<1>1. Place(e)[1] \in 1..r BY DEF Comes, LastRevision
<1>2. QED BY <1>1 DEF Comes, Brought

(* What stands in a list of parts is of the form of its table. *)
LEMMA ComesFits ==
    ASSUME NEW e, Comes(e), NEW n, NEW i, Place(e) = <<n, i>>
    PROVE  /\ n \in 1..LastRevision /\ i \in 1..Len(Upgrade[n])
           /\ Fits(n, i, Upgrade[n][i]) /\ e \in Brings(Upgrade[n][i])
           /\ Upgrade[n][i].op \in BringingOps /\ e[1] = Upgrade[n][i].table
<1>1. n \in 1..LastRevision /\ i \in 1..Len(Upgrade[n]) /\ e \in Brings(Upgrade[n][i]) BY DEF Comes
<1>2. QED BY <1>1, UpgradeFits, BringsParts

(* The statement named by Undo takes away what its statement brought. *)
LEMMA UndoTakes ==
    ASSUME NEW e, Comes(e), NEW n, NEW i, Place(e) = <<n, i>>
    PROVE  Undo[n][i] \in 1..Len(Downgrade[n]) /\ Takes(Downgrade[n][Undo[n][i]], e)
<1> DEFINE s == Upgrade[n][i]
<1>1. Fits(n, i, s) /\ e \in Brings(s) /\ s.op \in BringingOps BY ComesFits
<1>2. Undo[n][i] \in 1..Len(Downgrade[n]) /\ Downgrade[n][Undo[n][i]] = Opposite(s) BY <1>1 DEF Fits, Undone
<1> HIDE DEF s
<1>3. Takes(Opposite(s), e)
  <2>1. CASE s.op = "create_table" BY <1>1, <2>1, BringsParts DEF Opposite, DropTable, Takes
  <2>2. CASE s.op = "add_column" BY <1>1, <2>2, BringsParts DEF Opposite, DropColumn, Takes
  <2>3. CASE s.op = "create_foreign_key" BY <1>1, <2>3, BringsParts DEF Opposite, DropConstraint, Takes
  <2>4. CASE s.op = "create_trigger" BY <1>1, <2>4, BringsParts DEF Opposite, DropTrigger, Takes
  <2>5. QED BY <1>1, <2>1, <2>2, <2>3, <2>4 DEF BringingOps
<1>4. QED BY <1>2, <1>3

(* A downgrade takes away nothing that an earlier revision brought, and nothing before the
   statement that Undo names. *)
(* No other statement of a downgrade takes it away. *)
LEMMA Takers ==
    ASSUME NEW n \in 1..LastRevision, NEW j \in 1..Len(Downgrade[n]), NEW e \in Brought(n),
           Takes(Downgrade[n][j], e)
    PROVE  Place(e)[1] = n /\ Undo[n][Place(e)[2]] \in 1..j
<1> DEFINE s == Downgrade[n][j]
           m == Place(e)[1]
           i == Place(e)[2]
           u == Upgrade[m][i]
<1>1. n \in 0..LastRevision BY DEF LastRevision
<1>2. Comes(e) /\ m \in 1..n BY <1>1, BroughtBy
<1>3. Place(e) = <<m, i>> BY <1>2 DEF Comes
<1>4. Fits(m, i, u) /\ e \in Brings(u) /\ u.op \in BringingOps /\ e[1] = u.table /\ i \in 1..Len(Upgrade[m])
  BY <1>2, <1>3, ComesFits
<1>5. DownFits(n, j, s) BY DowngradeFits
<1>6. Takes(s, e) OBVIOUS
<1>7. Undo[m][i] \in Int /\ Undo[m][i] > 0
  <2>1. Len(Downgrade[m]) \in Nat /\ Undo[m][i] \in 1..Len(Downgrade[m]) BY <1>2, <1>3, UndoTakes
  <2>2. QED BY <2>1
<1> HIDE DEF s, m, i, u
<1>8. SUFFICES m = n /\ Undo[n][i] <= j BY <1>7 DEF m, i
<1>9. CASE s.op = "drop_table"
  <2>1. e[1] = s.table BY <1>6, <1>9 DEF Takes
  <2>2. UndoneAt(Born[s.table], n, j) BY <1>5, <1>9 DEF DownFits, Drops
  <2>3. Born[s.table] = <<m, i>> \/ Earlier(Born[s.table], <<m, i>>) BY <1>4, <2>1 DEF Fits, InPlace
  <2>4. m = n BY <1>2, <2>2, <2>3 DEF UndoneAt, Earlier
  <2>5. Undo[n][i] <= Undo[n][Born[s.table][2]] BY <1>4, <2>1, <2>2, <2>4 DEF Fits, UndoneInTime, UndoneAt
  <2>6. QED BY <2>2, <2>4, <2>5 DEF UndoneAt
<1>10. CASE s.op = "drop_column"
  <2>1. Came(Added, s.table, s.column) /\ UndoneAt(Added[s.table][s.column], n, j)
    BY <1>5, <1>10 DEF DownFits, Drops
  <2>2. e[1] = s.table /\ ((e[2] = "column" /\ e[3] = s.column) \/ (e[2] = "reference"
        /\ e[3][1] = s.column))
    BY <1>6, <1>10 DEF Takes
  <2>3. CASE e[2] = "column" /\ e[3] = s.column
    <3>1. Added[s.table][s.column] = <<m, i>> BY <1>3, <2>1, <2>2, <2>3 DEF Place, ColumnPlace
    <3>2. QED BY <2>1, <3>1 DEF UndoneAt
  <2>4. CASE e[2] = "reference" /\ e[3][1] = s.column
    <3>1. Came(Keyed, s.table, s.column) /\ Keyed[s.table][s.column] = <<m, i>>
      BY <1>4, <2>1, <2>2, <2>4, PlaceOf
    <3>2. PICK p : p = Added[s.table][s.column] OBVIOUS
    <3>3. p[1] = n /\ Undo[n][p[2]] = j BY <2>1, <3>2 DEF UndoneAt
    <3>4. /\ p[1] \in 1..LastRevision /\ p[2] \in 1..Len(Upgrade[p[1]])
          /\ Upgrade[p[1]][p[2]].op = "add_column" /\ Upgrade[p[1]][p[2]].table = s.table
          /\ Upgrade[p[1]][p[2]].column = s.column
      <4>1. PICK t, c : t = s.table /\ c = s.column OBVIOUS
      <4>2. Came(Added, t, c) BY <2>1, <4>1
      <4>3. Added[t][c] = p BY <3>2, <4>1
      <4>4. /\ p[1] \in 1..LastRevision /\ p[2] \in 1..Len(Upgrade[p[1]])
            /\ Upgrade[p[1]][p[2]].op = "add_column" /\ Upgrade[p[1]][p[2]].table = t
            /\ Upgrade[p[1]][p[2]].column = c
        <5>1. StatementAt("add_column", p[1], p[2], t, c) BY <4>2, <4>3, AddedComes
        <5>2. QED BY <5>1 DEF StatementAt
      <4>5. QED BY <4>1, <4>4
    <3>5. PICK x : x = p[2] OBVIOUS
    <3>6. /\ x \in 1..Len(Upgrade[n]) /\ Undo[n][x] = j
          /\ Upgrade[n][x].op = "add_column" /\ Upgrade[n][x].table = s.table
          /\ Upgrade[n][x].column = s.column
      BY <3>3, <3>4, <3>5
    <3>7. Fits(n, x, Upgrade[n][x]) BY <3>6, UpgradeFits
    <3>8. KeyUndoneFirst(n, x, Upgrade[n][x]) BY <3>6, <3>7 DEF Fits, UndoneInTime, BringingOps
    <3>9. QED BY <3>1, <3>6, <3>8 DEF KeyUndoneFirst
  <2>5. QED BY <2>2, <2>3, <2>4
<1>11. CASE s.op = "drop_constraint"
  <2>1. Came(Keyed, s.table, s.column) /\ UndoneAt(Keyed[s.table][s.column], n, j)
    BY <1>5, <1>11 DEF DownFits, Drops
  <2>2. e[1] = s.table /\ e[2] = "reference" /\ e[3] = <<s.column, s.to>> BY <1>6, <1>11 DEF Takes
  <2>3. e[3][1] = s.column BY <2>2
  <2>4. Keyed[s.table][s.column] = <<m, i>> BY <1>3, <2>1, <2>2, <2>3 DEF Place, ReferencePlace
  <2>5. QED BY <2>1, <2>4 DEF UndoneAt
<1>12. CASE s.op = "drop_trigger"
  <2>1. UndoneAt(Guarding[s.table], n, j) BY <1>5, <1>12 DEF DownFits, Drops
  <2>2. Guarding[s.table] = <<m, i>> BY <1>3, <1>6, <1>12 DEF Takes, Place
  <2>3. QED BY <2>1, <2>2 DEF UndoneAt
<1>13. QED BY <1>6, <1>9, <1>10, <1>11, <1>12 DEF Takes

(* In the middle of a downgrade those parts are left whose turn has not come. *)
LEMMA PresentDown ==
    ASSUME NEW n \in 1..LastRevision, NEW k \in 0..Len(Downgrade[n]), NEW e \in Brought(n)
    PROVE  e \in Present(n, "down", k) <=> Place(e)[1] < n \/ Undo[n][Place(e)[2]] > k
<1>1. n \in 0..LastRevision BY DEF LastRevision
<1>2. PICK m, i : m = Place(e)[1] /\ i = Place(e)[2] OBVIOUS
<1>3. Comes(e) /\ m \in 1..n /\ Place(e) = <<m, i>> BY <1>1, <1>2, BroughtBy DEF Comes
<1>4. Undo[m][i] \in 1..Len(Downgrade[m]) /\ Takes(Downgrade[m][Undo[m][i]], e) BY <1>3, UndoTakes
<1>5. e \in Present(n, "down", k) <=> \A j \in 1..k : ~Takes(Downgrade[n][j], e) BY DEF Present
<1>6. Len(Downgrade[n]) \in Nat /\ k \in Nat /\ k <= Len(Downgrade[n])
  <2>1. Len(Downgrade[n]) \in Nat BY NoEmptyScript DEF Scripts
  <2>2. QED BY <2>1
<1>7. \A j \in 1..k : Takes(Downgrade[n][j], e) => m = n /\ Undo[n][i] \in 1..j
  <2>1. \A j \in 1..k : j \in 1..Len(Downgrade[n]) BY <1>6
  <2>2. QED BY <1>2, <2>1, Takers
<1>8. CASE m < n BY <1>2, <1>3, <1>5, <1>7, <1>8
<1>9. CASE m = n
  <2>1. Undo[n][i] \in 1..Len(Downgrade[n]) /\ Takes(Downgrade[n][Undo[n][i]], e) BY <1>4, <1>9
  <2>2. CASE Undo[n][i] > k BY <1>2, <1>5, <1>6, <1>7, <2>1, <2>2
  <2>3. CASE ~(Undo[n][i] > k)
    <3>1. Undo[n][i] \in 1..k BY <1>6, <2>1, <2>3
    <3>2. QED BY <1>2, <1>3, <1>5, <1>9, <2>1, <2>3, <3>1
  <2>4. QED BY <2>2, <2>3
<1>10. QED BY <1>3, <1>8, <1>9

(* A script ends where the next one begins. *)
LEMMA UpgradeEnds ==
    ASSUME NEW n \in 1..LastRevision PROVE Present(n, "up", Len(Upgrade[n])) = Brought(n)
<1>1. \A m : m \in 1..n <=> m \in 1..(n - 1) \/ m = n BY DEF LastRevision
<1>2. QED BY <1>1 DEF Present, Brought

LEMMA DowngradeEnds ==
    ASSUME NEW n \in 1..LastRevision PROVE Present(n, "down", Len(Downgrade[n])) = Brought(n - 1)
<1> DEFINE k == Len(Downgrade[n])
<1>1. k \in Nat /\ k \in 0..k
  <2>1. k \in Nat BY NoEmptyScript DEF Scripts
  <2>2. QED BY <2>1
<1>2. n \in 0..LastRevision /\ n - 1 \in 0..LastRevision BY DEF LastRevision
<1>3. Present(n, "down", k) \subseteq Brought(n) BY DEF Present
<1>4. ASSUME NEW e \in Brought(n) PROVE e \in Present(n, "down", k) <=> e \in Brought(n - 1)
  <2>1. PICK m, i : m = Place(e)[1] /\ i = Place(e)[2] OBVIOUS
  <2>2. Comes(e) /\ m \in 1..n /\ Place(e) = <<m, i>> BY <1>2, <2>1, BroughtBy DEF Comes
  <2>3. Undo[m][i] \in 1..Len(Downgrade[m]) BY <2>2, UndoTakes
  <2>4. e \in Present(n, "down", k) <=> m < n \/ Undo[n][i] > k
    <3> HIDE DEF k
    <3>1. k \in 0..Len(Downgrade[n]) BY <1>1 DEF k
    <3>2. QED BY <2>1, <3>1, PresentDown
  <2>5. CASE m < n
    <3>1. e \in Brought(n - 1)
      <4>1. m <= n - 1 BY <2>2, <2>5
      <4>2. QED BY <1>2, <2>1, <2>2, <4>1, ComesBrought
    <3>2. QED BY <2>4, <2>5, <3>1
  <2>6. CASE m = n
    <3>1. ~(Undo[n][i] > k) BY <1>1, <2>3, <2>6
    <3>2. e \notin Brought(n - 1)
      <4>1. SUFFICES ASSUME e \in Brought(n - 1) PROVE FALSE OBVIOUS
      <4>2. Place(e)[1] \in 1..(n - 1) BY <1>2, <4>1, BroughtBy
      <4>3. QED BY <2>1, <2>6, <4>2
    <3>3. QED BY <2>4, <2>6, <3>1, <3>2
  <2>7. QED BY <2>2, <2>5, <2>6
<1>5. Brought(n - 1) \subseteq Brought(n)
  <2>1. \A m \in 1..(n - 1) : m \in 1..n OBVIOUS
  <2>2. QED BY <2>1 DEF Brought
<1>6. QED BY <1>3, <1>4, <1>5

-----------------------------------------------------------------------------
(* What a statement does to the parts of a database *)

(* A database of these parts. *)
Built(d, parts) ==
    /\ Structure(d) = parts
    /\ \A t \in Tables(d) : {"columns", "refers", "guarded", "rows"} \subseteq DOMAIN d[t]

PartsOf(d, t) == Parts(t, d[t].columns, d[t].refers) \union {x \in {<<t, "trigger", t>>} : d[t].guarded}

(* The parts of a database, table by table. *)
LEMMA StructureParts ==
    ASSUME NEW d PROVE Structure(d) = UNION {PartsOf(d, t) : t \in Tables(d)}
BY DEF Structure, PartsOf

LEMMA OwnTable == ASSUME NEW d, NEW t, NEW x \in PartsOf(d, t) PROVE x[1] = t
BY DEF PartsOf, Parts

LEMMA PartIs ==
    ASSUME NEW d, NEW t, NEW x
    PROVE  x \in PartsOf(d, t) <=>
              \/ x = <<t, "table", t>>
              \/ \E c \in d[t].columns : x = <<t, "column", c>>
              \/ \E r \in d[t].refers : x = <<t, "reference", r>>
              \/ d[t].guarded /\ x = <<t, "trigger", t>>
BY DEF PartsOf, Parts

LEMMA HasParts ==
    ASSUME NEW d, NEW t
    PROVE  /\ t \in Tables(d) <=> <<t, "table", t>> \in Structure(d)
           /\ t \in Tables(d) =>
                 /\ \A c : c \in d[t].columns <=> <<t, "column", c>> \in Structure(d)
                 /\ \A r : r \in d[t].refers <=> <<t, "reference", r>> \in Structure(d)
                 /\ d[t].guarded <=> <<t, "trigger", t>> \in Structure(d)
<1>1. ASSUME NEW x \in Structure(d), x[1] = t PROVE t \in Tables(d) /\ x \in PartsOf(d, t)
  BY <1>1, StructureParts, OwnTable
<1>2. t \in Tables(d) => PartsOf(d, t) \subseteq Structure(d) BY StructureParts
<1>3. <<t, "table", t>> \in PartsOf(d, t) BY DEF PartsOf, Parts
<1>4. \A c : c \in d[t].columns <=> <<t, "column", c>> \in PartsOf(d, t) BY DEF PartsOf, Parts
<1>5. \A r : r \in d[t].refers <=> <<t, "reference", r>> \in PartsOf(d, t) BY DEF PartsOf, Parts
<1>6. d[t].guarded <=> <<t, "trigger", t>> \in PartsOf(d, t) BY DEF PartsOf, Parts
<1>7. t \in Tables(d) <=> <<t, "table", t>> \in Structure(d) BY <1>1, <1>2, <1>3
<1>8. ASSUME t \in Tables(d) PROVE \A c : c \in d[t].columns <=> <<t, "column", c>> \in Structure(d)
  BY <1>1, <1>2, <1>4, <1>8
<1>9. ASSUME t \in Tables(d) PROVE \A r : r \in d[t].refers <=> <<t, "reference", r>> \in Structure(d)
  BY <1>1, <1>2, <1>5, <1>9
<1>10. ASSUME t \in Tables(d) PROVE d[t].guarded <=> <<t, "trigger", t>> \in Structure(d)
  BY <1>1, <1>2, <1>6, <1>10
<1>11. QED BY <1>7, <1>8, <1>9, <1>10

(* The statement changed table t alone. *)
LEMMA OneTable ==
    ASSUME NEW d, NEW e, NEW t \in Tables(d), Tables(e) = Tables(d),
           \A u \in Tables(d) \ {t} : e[u] = d[u], DOMAIN e[t] = DOMAIN d[t],
           NEW parts, Built(d, parts)
    PROVE  Built(e, {x \in parts : x[1] # t} \union PartsOf(e, t))
<1>1. \A u \in Tables(d) \ {t} : PartsOf(e, u) = PartsOf(d, u) BY DEF PartsOf
<1>2. Structure(e) = {x \in parts : x[1] # t} \union PartsOf(e, t)
  BY <1>1, StructureParts, OwnTable DEF Built
<1>3. QED BY <1>2 DEF Built

(* What stays of table t, and what is new. *)
LEMMA PartsGrow ==
    ASSUME NEW d, NEW e, NEW t \in Tables(d), Tables(e) = Tables(d),
           \A u \in Tables(d) \ {t} : e[u] = d[u], DOMAIN e[t] = DOMAIN d[t],
           NEW parts, Built(d, parts), NEW new, PartsOf(e, t) = PartsOf(d, t) \union new
    PROVE  Built(e, parts \union new)
<1>1. Built(e, {x \in parts : x[1] # t} \union PartsOf(e, t)) BY OneTable
<1>2. PartsOf(d, t) = {x \in parts : x[1] = t} BY StructureParts, OwnTable DEF Built
<1>3. {x \in parts : x[1] # t} \union PartsOf(e, t) = parts \union new BY <1>2
<1>4. QED BY <1>1, <1>3

LEMMA PartsShrink ==
    ASSUME NEW d, NEW e, NEW t \in Tables(d), Tables(e) = Tables(d),
           \A u \in Tables(d) \ {t} : e[u] = d[u], DOMAIN e[t] = DOMAIN d[t],
           NEW parts, Built(d, parts), NEW s, s.table = t, \A x : Takes(s, x) => x[1] = t,
           PartsOf(e, t) = {x \in PartsOf(d, t) : ~Takes(s, x)}
    PROVE  Built(e, {x \in parts : ~Takes(s, x)})
<1>1. Built(e, {x \in parts : x[1] # t} \union PartsOf(e, t)) BY OneTable
<1>2. PartsOf(d, t) = {x \in parts : x[1] = t} BY StructureParts, OwnTable DEF Built
<1>3. {x \in parts : x[1] # t} \union PartsOf(e, t) = {x \in parts : ~Takes(s, x)} BY <1>2
<1>4. QED BY <1>1, <1>3

LEMMA TakesOwn == ASSUME NEW s, NEW x, Takes(s, x) PROVE x[1] = s.table
BY DEF Takes

(* Every statement of an upgrade but those about rows adds what it brings. *)
LEMMA CreateBuilds ==
    ASSUME NEW d, NEW s, Possible(d, s), s.op = "create_table", NEW parts, Built(d, parts)
    PROVE  Built(After(d, s), parts \union Brings(s))
<1> DEFINE t == s.table
           e == After(d, s)
           new == [columns |-> s.columns, refers |-> s.refers, guarded |-> FALSE, rows |-> Empty]
<1>1. e = Put(d, t, new) BY DEF After, Effect
<1>2. t \notin Tables(d) BY DEF Possible
<1>3. Tables(e) = Tables(d) \union {t} /\ e[t] = new /\ \A u \in Tables(d) : e[u] = d[u]
  BY <1>1, <1>2 DEF Put, Tables
<1>4. /\ DOMAIN new = {"columns", "refers", "guarded", "rows"}
      /\ new.columns = s.columns /\ new.refers = s.refers /\ new.guarded = FALSE
  OBVIOUS
<1> HIDE DEF e, new, t
<1>5. \A u \in Tables(d) : PartsOf(e, u) = PartsOf(d, u) BY <1>3 DEF PartsOf
<1>6. PartsOf(e, t) = Parts(t, s.columns, s.refers) BY <1>3, <1>4 DEF PartsOf
<1>7. Brings(s) = Parts(t, s.columns, s.refers) BY DEF Brings, t
<1>8. Structure(e) = parts \union Brings(s) BY <1>3, <1>5, <1>6, <1>7, StructureParts DEF Built
<1>9. \A u \in Tables(e) : {"columns", "refers", "guarded", "rows"} \subseteq DOMAIN e[u]
  BY <1>3, <1>4 DEF Built
<1>10. QED BY <1>8, <1>9 DEF Built, e

LEMMA AddBuilds ==
    ASSUME NEW d, NEW s, Possible(d, s), s.op \in {"add_column", "create_foreign_key", "create_trigger"},
           NEW parts, Built(d, parts)
    PROVE  Built(After(d, s), parts \union Brings(s))
<1> DEFINE t == s.table
           e == After(d, s)
<1>1. t \in Tables(d) /\ {"columns", "refers", "guarded", "rows"} \subseteq DOMAIN d[t]
  BY DEF Possible, Built
<1>2. CASE s.op = "add_column"
  <2>1. Widened(d, e, t, s.column, s.default) BY <1>1, <1>2, ColumnAdded
  <2>2. e = [d EXCEPT ![t].columns = @ \union {s.column},
                      ![t].rows = Filled(@, s.column, [k \in DOMAIN @ |-> s.default])]
    BY <1>2 DEF After, Effect
  <2>3. e[t].refers = d[t].refers /\ e[t].guarded = d[t].guarded
    BY <1>1, <2>2 DEF Tables
  <2>4. e[t].columns = d[t].columns \union {s.column} BY <2>1 DEF Widened
  <2>5. Brings(s) = {<<t, "column", s.column>>} BY <1>2 DEF Brings
  <2> HIDE DEF e, t
  <2>6. PartsOf(e, t) = PartsOf(d, t) \union Brings(s)
    BY <2>3, <2>4, <2>5 DEF PartsOf, Parts
  <2>7. /\ Tables(e) = Tables(d) /\ DOMAIN e[t] = DOMAIN d[t]
        /\ \A u \in Tables(d) \ {t} : e[u] = d[u]
    BY <2>1 DEF Widened, Altered
  <2>8. Built(e, parts \union Brings(s)) BY <1>1, <2>6, <2>7, PartsGrow
  <2>9. QED BY <2>8 DEF e
<1>3. CASE s.op = "create_foreign_key"
  <2>1. e = [d EXCEPT ![t].refers = @ \union {<<s.column, s.to>>}] BY <1>3 DEF After, Effect
  <2>2. Brings(s) = {<<t, "reference", <<s.column, s.to>>>>} BY <1>3 DEF Brings
  <2> HIDE DEF e, t
  <2>3. Tables(e) = Tables(d) /\ \A u \in Tables(d) \ {t} : e[u] = d[u] BY <2>1 DEF Tables
  <2>4. /\ DOMAIN e[t] = DOMAIN d[t] /\ e[t].columns = d[t].columns /\ e[t].guarded = d[t].guarded
        /\ e[t].refers = d[t].refers \union {<<s.column, s.to>>}
    BY <1>1, <2>1 DEF Tables
  <2>5. PartsOf(e, t) = PartsOf(d, t) \union Brings(s) BY <2>2, <2>4 DEF PartsOf, Parts
  <2>6. QED BY <1>1, <2>3, <2>4, <2>5, PartsGrow DEF e
<1>4. CASE s.op = "create_trigger"
  <2>1. e = [d EXCEPT ![t].guarded = TRUE] BY <1>4 DEF After, Effect
  <2>2. Brings(s) = {<<t, "trigger", t>>} BY <1>4 DEF Brings
  <2> HIDE DEF e, t
  <2>3. Tables(e) = Tables(d) /\ \A u \in Tables(d) \ {t} : e[u] = d[u] BY <2>1 DEF Tables
  <2>4. /\ DOMAIN e[t] = DOMAIN d[t] /\ e[t].columns = d[t].columns /\ e[t].refers = d[t].refers
        /\ e[t].guarded = TRUE
    BY <1>1, <2>1 DEF Tables
  <2>5. PartsOf(e, t) = PartsOf(d, t) \union Brings(s) BY <2>2, <2>4 DEF PartsOf, Parts
  <2>6. QED BY <1>1, <2>3, <2>4, <2>5, PartsGrow DEF e
<1>5. QED BY <1>2, <1>3, <1>4

(* Every statement of a downgrade takes away its own. *)
LEMMA DropTableBuilds ==
    ASSUME NEW d, NEW s, s.op = "drop_table", NEW parts, Built(d, parts)
    PROVE  Built(After(d, s), {x \in parts : ~Takes(s, x)})
<1> DEFINE t == s.table
           e == After(d, s)
<1>1. e = Restrict(d, Tables(d) \ {t}) BY DEF After, Effect
<1>2. \A x : Takes(s, x) <=> x[1] = t BY DEF Takes
<1> HIDE DEF e, t
<1>3. Tables(e) = Tables(d) \ {t} /\ \A u \in Tables(e) : e[u] = d[u] BY <1>1 DEF Restrict, Tables
<1>4. \A u \in Tables(e) : PartsOf(e, u) = PartsOf(d, u) BY <1>3 DEF PartsOf
<1>5. Structure(e) = {x \in parts : x[1] # t}
  BY <1>3, <1>4, StructureParts, OwnTable DEF Built
<1>6. Structure(e) = {x \in parts : ~Takes(s, x)} BY <1>2, <1>5
<1>7. QED BY <1>3, <1>6 DEF Built, e

LEMMA DropBuilds ==
    ASSUME NEW d, NEW s, Possible(d, s), s.op \in {"drop_column", "drop_constraint", "drop_trigger"},
           NEW parts, Built(d, parts)
    PROVE  Built(After(d, s), {x \in parts : ~Takes(s, x)})
<1> DEFINE t == s.table
           e == After(d, s)
<1>1. t \in Tables(d) /\ {"columns", "refers", "guarded", "rows"} \subseteq DOMAIN d[t]
  BY DEF Possible, Built
<1>2. CASE s.op = "drop_column"
  <2>1. Narrowed(d, e, t, s.column) BY <1>1, <1>2, ColumnDropped
  <2> DEFINE columns == d[t].columns \ {s.column}
             refers == {r \in d[t].refers : r[1] # s.column}
             rows == Dropped(d[t].rows, s.column)
  <2>2. e = [d EXCEPT ![t].columns = columns, ![t].refers = refers, ![t].rows = rows]
    BY <1>2 DEF After, Effect
  <2>3. ASSUME NEW x
        PROVE  Takes(s, x) <=> \/ x[1] = t /\ x[2] = "column" /\ x[3] = s.column
                               \/ x[1] = t /\ x[2] = "reference" /\ x[3][1] = s.column
    BY <1>2 DEF Takes
  <2>4. e[t].columns = d[t].columns \ {s.column} BY <2>1 DEF Narrowed
  <2> HIDE DEF e, t, columns, refers, rows
  <2>5. e[t].refers = refers /\ e[t].guarded = d[t].guarded
    BY <1>1, <2>2 DEF Tables
  <2>6. \A r : r \in e[t].refers <=> r \in d[t].refers /\ r[1] # s.column BY <2>5 DEF refers
  <2>7. ASSUME NEW x PROVE x \in PartsOf(e, t) <=> x \in PartsOf(d, t) /\ ~Takes(s, x)
    BY <2>3, <2>4, <2>5, <2>6, PartIs
  <2>8. PartsOf(e, t) = {x \in PartsOf(d, t) : ~Takes(s, x)} BY <2>7
  <2>9. /\ Tables(e) = Tables(d) /\ DOMAIN e[t] = DOMAIN d[t]
        /\ \A u \in Tables(d) \ {t} : e[u] = d[u]
    BY <2>1 DEF Widened, Altered, Narrowed
  <2>10. Built(e, {x \in parts : ~Takes(s, x)}) BY <1>1, <2>8, <2>9, PartsShrink, TakesOwn DEF t
  <2>11. QED BY <2>10 DEF e
<1>3. CASE s.op = "drop_constraint"
  <2>1. PICK key : key = <<s.column, s.to>> OBVIOUS
  <2>2. e = [d EXCEPT ![t].refers = @ \ {key}] BY <1>3, <2>1 DEF After, Effect
  <2>3. \A x : Takes(s, x) <=> x[1] = t /\ x[2] = "reference" /\ x[3] = key
    BY <1>3, <2>1 DEF Takes
  <2> HIDE DEF e, t
  <2>4. /\ DOMAIN e[t] = DOMAIN d[t] /\ e[t].columns = d[t].columns /\ e[t].guarded = d[t].guarded
        /\ e[t].refers = d[t].refers \ {key} /\ Tables(e) = Tables(d)
        /\ \A u \in Tables(d) \ {t} : e[u] = d[u]
    BY <1>1, <2>2 DEF Tables
  <2>5. ASSUME NEW x PROVE x \in PartsOf(e, t) <=> x \in PartsOf(d, t) /\ ~Takes(s, x)
    BY <2>3, <2>4, PartIs
  <2>6. PartsOf(e, t) = {x \in PartsOf(d, t) : ~Takes(s, x)} BY <2>5
  <2>7. QED BY <1>1, <2>4, <2>6, PartsShrink, TakesOwn DEF e, t
<1>4. CASE s.op = "drop_trigger"
  <2>1. e = [d EXCEPT ![t].guarded = FALSE] BY <1>4 DEF After, Effect
  <2>2. \A x : Takes(s, x) <=> x[1] = t /\ x[2] = "trigger" BY <1>4 DEF Takes
  <2> HIDE DEF e, t
  <2>3. Tables(e) = Tables(d) /\ \A u \in Tables(d) \ {t} : e[u] = d[u] BY <2>1 DEF Tables
  <2>4. /\ DOMAIN e[t] = DOMAIN d[t] /\ e[t].columns = d[t].columns /\ e[t].refers = d[t].refers
        /\ e[t].guarded = FALSE
    BY <1>1, <2>1 DEF Tables
  <2>5. ASSUME NEW x PROVE x \in PartsOf(e, t) <=> x \in PartsOf(d, t) /\ ~Takes(s, x)
    BY <2>2, <2>4, PartIs
  <2>6. PartsOf(e, t) = {x \in PartsOf(d, t) : ~Takes(s, x)} BY <2>5
  <2>7. QED BY <1>1, <2>3, <2>4, <2>6, PartsShrink, TakesOwn DEF e, t
<1>5. QED BY <1>2, <1>3, <1>4

(* A statement about rows changes no part. *)
SameSchema(d, e) ==
    /\ Tables(e) = Tables(d)
    /\ \A t \in Tables(d) : /\ DOMAIN e[t] = DOMAIN d[t]
                            /\ e[t].columns = d[t].columns /\ e[t].refers = d[t].refers
                            /\ e[t].guarded = d[t].guarded

LEMMA SameSchemaBuilt ==
    ASSUME NEW d, NEW e, SameSchema(d, e), NEW parts, Built(d, parts) PROVE Built(e, parts)
<1>1. \A t \in Tables(d) : PartsOf(e, t) = PartsOf(d, t) BY DEF SameSchema, PartsOf
<1>2. Structure(e) = Structure(d) BY <1>1, StructureParts DEF SameSchema
<1>3. QED BY <1>2 DEF SameSchema, Built

LEMMA RowsOfOne ==
    ASSUME NEW d, NEW t, NEW rows, NEW e, e = [d EXCEPT ![t].rows = rows] PROVE SameSchema(d, e)
BY DEF SameSchema, Tables

(* Among them every UPDATE and INSERT of the revisions. *)
LEMMA ResealSchema ==
    ASSUME NEW d, NEW f, NEW sealed \in BOOLEAN PROVE SameSchema(d, Reseal(d, f, sealed))
<1>1. PICK rows, others : Reseal(d, f, sealed) =
           [d EXCEPT !["evidence_packs"].rows = rows, !["runs"].rows = others]
  BY DEF Reseal
<1> DEFINE c == [d EXCEPT !["evidence_packs"].rows = rows]
           e == [c EXCEPT !["runs"].rows = others]
<1>2. SameSchema(d, c) BY RowsOfOne
<1>3. e = Reseal(d, f, sealed) BY <1>1
<1>4. SameSchema(c, e)
  <2> HIDE DEF c
  <2>1. QED BY RowsOfOne
<1> HIDE DEF c, e
<1>5. SameSchema(d, e) BY <1>2, <1>4 DEF SameSchema
<1>6. QED BY <1>3, <1>5

LEMMA RowsSchema ==
    ASSUME NEW d, NEW s, s.op = "insert" \/ (s.op = "update" /\ s.what \in Rewrites)
    PROVE  SameSchema(d, After(d, s))
<1>1. CASE s.op = "insert" BY <1>1, RowsOfOne DEF After, Effect
<1>2. CASE s.op = "update"
  <2>1. After(d, s) = Updated(d, s.table, s.what) BY <1>2 DEF After
  <2>2. CASE s.what = "add_policy_version"
    BY <2>1, <2>2, ResealSchema DEF Updated, RewriteEvidenceBodies
  <2>3. CASE s.what = "pop_policy_version"
    BY <2>1, <2>3, ResealSchema DEF Updated, RewriteEvidenceBodies
  <2>4. CASE s.what = "review_status"
    <3>1. PICK rows : UpdateReviewStatus(d) = [d EXCEPT !["runs"].rows = rows] BY DEF UpdateReviewStatus
    <3>2. After(d, s) = [d EXCEPT !["runs"].rows = rows] BY <3>1, <2>1, <2>4 DEF Updated
    <3>3. QED BY <3>2, RowsOfOne
  <2>5. CASE s.what = "add_review_fields"
    BY <2>1, <2>5, ResealSchema DEF Updated, RewriteEvidenceReviewFields
  <2>6. CASE s.what = "pop_review_fields"
    BY <2>1, <2>6, ResealSchema DEF Updated, RewriteEvidenceReviewFields
  <2>7. CASE s.what = "backfill"
    <3>1. PICK rows : BackfillReviewEvents(d) = [d EXCEPT !["review_events"].rows = rows]
      BY DEF BackfillReviewEvents
    <3>2. After(d, s) = [d EXCEPT !["review_events"].rows = rows] BY <3>1, <2>1, <2>7 DEF Updated
    <3>3. QED BY <3>2, RowsOfOne
  <2>8. CASE s.what = "add_review_events"
    BY <2>1, <2>8, ResealSchema DEF Updated, RewriteEvidenceReviewEvents
  <2>9. CASE s.what = "pop_review_events"
    BY <2>1, <2>9, ResealSchema DEF Updated, RewriteEvidenceReviewEvents
  <2>10. CASE s.what = "tenant"
    <3>1. PICK rows : BackfillTenant(d, s.table) = [d EXCEPT ![s.table].rows = rows] BY DEF BackfillTenant
    <3>2. After(d, s) = [d EXCEPT ![s.table].rows = rows] BY <3>1, <2>1, <2>10 DEF Updated
    <3>3. QED BY <3>2, RowsOfOne
  <2>11. QED BY <1>2, <2>2, <2>3, <2>4, <2>5, <2>6, <2>7, <2>8, <2>9, <2>10 DEF Rewrites
<1>3. QED BY <1>1, <1>2

-----------------------------------------------------------------------------
(* The schema follows the revision *)

(* The committed database has the parts of its revision, that of the open transaction those
   that its statements leave. *)
Structured ==
    /\ Built(db, Brought(revision))
    /\ txn # None => Built(txn.db, Present(InHand(txn), Way(txn), txn.done))

(* One more statement of an upgrade or a downgrade, one more part or one less. *)
LEMMA UpgradeBuilds ==
    ASSUME NEW n \in 1..LastRevision, NEW done \in Nat, done < Len(Upgrade[n]),
           NEW next, next = done + 1,
           NEW d, NEW s, s = Upgrade[n][next], Possible(d, s), Built(d, Present(n, "up", done))
    PROVE  Built(After(d, s), Present(n, "up", next))
<1> DEFINE parts == Present(n, "up", done)
<1>1. next \in 1..Len(Upgrade[n])
  <2>1. Len(Upgrade[n]) \in Nat BY NoEmptyScript DEF Scripts
  <2>2. QED BY <2>1
<1>2. Fits(n, next, s) BY <1>1, UpgradeFits
<1>3. Present(n, "up", next) = parts \union Brings(s)
  <2>1. \A i : i \in 1..next <=> i \in 1..done \/ i = next OBVIOUS
  <2>2. QED BY <2>1 DEF Present
<1>4. CASE s.op \in BringingOps
  <2>1. Built(After(d, s), parts \union Brings(s))
    BY <1>4, CreateBuilds, AddBuilds DEF BringingOps
  <2>2. QED BY <1>3, <2>1
<1>5. CASE s.op \in {"insert", "update"}
  <2>1. s.op = "update" => s.what \in Rewrites BY <1>2 DEF Fits
  <2>2. SameSchema(d, After(d, s)) BY <1>5, <2>1, RowsSchema
  <2>3. Brings(s) = {} BY <1>5 DEF Brings
  <2>4. Built(After(d, s), parts) BY <2>2, SameSchemaBuilt
  <2>5. QED BY <1>3, <2>3, <2>4
<1>6. QED BY <1>2, <1>4, <1>5 DEF Fits, InPlace

LEMMA DowngradeBuilds ==
    ASSUME NEW n \in 1..LastRevision, NEW done \in Nat, done < Len(Downgrade[n]),
           NEW next, next = done + 1,
           NEW d, NEW s, s = Downgrade[n][next], Possible(d, s), Built(d, Present(n, "down", done))
    PROVE  Built(After(d, s), Present(n, "down", next))
<1> DEFINE parts == Present(n, "down", done)
<1>1. next \in 1..Len(Downgrade[n])
  <2>1. Len(Downgrade[n]) \in Nat BY NoEmptyScript DEF Scripts
  <2>2. QED BY <2>1
<1>2. DownFits(n, next, s) BY <1>1, DowngradeFits
<1>3. Present(n, "down", next) = {x \in parts : ~Takes(s, x)}
  <2>1. \A i : i \in 1..next <=> i \in 1..done \/ i = next OBVIOUS
  <2>2. QED BY <2>1 DEF Present
<1>4. CASE Drops(n, next, s)
  <2>1. Built(After(d, s), {x \in parts : ~Takes(s, x)})
    <3> HIDE DEF parts
    <3>1. QED BY <1>4, DropTableBuilds, DropBuilds DEF Drops, parts
  <2>2. QED BY <1>3, <2>1
<1>5. CASE s.op = "update" /\ s.what \in Rewrites
  <2>1. SameSchema(d, After(d, s)) BY <1>5, RowsSchema
  <2>2. \A x : ~Takes(s, x) BY <1>5 DEF Takes
  <2>3. Built(After(d, s), parts) BY <2>1, SameSchemaBuilt
  <2>4. {x \in parts : ~Takes(s, x)} = parts BY <2>2
  <2>5. QED BY <1>3, <2>3, <2>4
<1>6. QED BY <1>2, <1>4, <1>5 DEF DownFits

(* What a transaction that has nothing of a revision in hand begins with. *)
LEMMA PresentFirst ==
    ASSUME NEW t, t.at \in 0..LastRevision, t.target \in 0..LastRevision, t.done = 0
    PROVE  Present(InHand(t), Way(t), t.done) = Brought(t.at)
<1>1. CASE t.target > t.at
  <2>1. Way(t) = "up" /\ InHand(t) - 1 = t.at BY <1>1 DEF Way, InHand, LastRevision
  <2>2. \A i : i \notin 1..t.done OBVIOUS
  <2>3. QED BY <2>1, <2>2 DEF Present
<1>2. CASE ~(t.target > t.at)
  <2>1. Way(t) = "down" /\ InHand(t) = t.at BY <1>2 DEF Way, InHand
  <2>2. \A i : i \notin 1..t.done OBVIOUS
  <2>3. QED BY <2>1, <2>2 DEF Present
<1>3. QED BY <1>1, <1>2

(* One statement of the open transaction. *)
Steps(t, u, s) ==
    LET n == InHand(t)
        way == Way(t)
        next == t.done + 1
    IN  /\ t.at \in 0..LastRevision /\ t.target \in 0..LastRevision /\ t.done \in Nat
        /\ n \in 1..LastRevision /\ way \in {"up", "down"}
        /\ n = IF way = "up" THEN t.at + 1 ELSE t.at
        /\ t.done < Len(Scripts(n, way)) /\ s = Scripts(n, way)[next]
        /\ u.db = After(t.db, s) /\ u.target = t.target /\ u.at \in 0..LastRevision
        /\ \/ next < Len(Scripts(n, way)) /\ u.done = next /\ u.at = t.at
           \/ /\ next = Len(Scripts(n, way)) /\ u.done = 0
              /\ u.at = IF way = "up" THEN n ELSE n - 1

(* The transaction has a statement at hand, s. *)
LEMMA StatementInHand ==
    ASSUME txn # None, Stands(txn), Executes
    PROVE  LET n == InHand(txn)
               way == Way(txn)
           IN  /\ txn.at \in 0..LastRevision /\ txn.target \in 0..LastRevision /\ txn.done \in Nat
               /\ n \in 1..LastRevision /\ way \in {"up", "down"}
               /\ n = IF way = "up" THEN txn.at + 1 ELSE txn.at
               /\ Len(Scripts(n, way)) \in Nat /\ txn.done < Len(Scripts(n, way))
               /\ Statement = Scripts(n, way)[txn.done + 1]
               /\ New(Statement) = After(txn.db, Statement)
               /\ Upwards <=> way = "up"
               /\ Statements = Scripts(n, way)
<1> DEFINE n == InHand(txn)
           way == Way(txn)
<1>1. /\ txn.at \in 0..LastRevision /\ txn.target \in 0..LastRevision /\ txn.done \in Nat
      /\ txn.at # txn.target
  BY DEF Stands, Executes
<1>2. n \in 1..LastRevision /\ way \in {"up", "down"} BY <1>1 DEF InHand, Way, LastRevision
<1>3. Statements = Scripts(n, way) /\ (Upwards <=> way = "up")
  BY DEF Statements, Upwards, Scripts, InHand, Way
<1>4. Statement = Scripts(n, way)[txn.done + 1] BY <1>3 DEF Statement
<1>5. New(Statement) = After(txn.db, Statement) BY DEF New, After
<1>6. Len(Scripts(n, way)) \in Nat \ {0} BY <1>2, NoEmptyScript
<1>7. txn.done < Len(Scripts(n, way)) BY <1>1, <1>6 DEF Stands
<1>8. n = IF way = "up" THEN txn.at + 1 ELSE txn.at BY <1>1 DEF InHand, Way, LastRevision
<1> HIDE DEF n, way
<1>9. QED BY <1>1, <1>2, <1>3, <1>4, <1>5, <1>6, <1>7, <1>8 DEF n, way

LEMMA ExecuteSteps ==
    ASSUME txn # None, Stands(txn), Execute PROVE Steps(txn, txn', Statement)
<1> DEFINE n == InHand(txn)
           way == Way(txn)
           e == After(txn.db, Statement)
<1>1. /\ txn.at \in 0..LastRevision /\ txn.target \in 0..LastRevision /\ txn.done \in Nat
      /\ n \in 1..LastRevision /\ way \in {"up", "down"}
      /\ n = IF way = "up" THEN txn.at + 1 ELSE txn.at
      /\ Len(Scripts(n, way)) \in Nat /\ txn.done < Len(Scripts(n, way))
      /\ Statement = Scripts(n, way)[txn.done + 1]
      /\ New(Statement) = e
      /\ Upwards <=> way = "up"
      /\ Statements = Scripts(n, way)
  BY StatementInHand DEF Execute
<1>2. {"db", "at", "done", "target"} \subseteq DOMAIN txn BY DEF Stands
<1>3. PICK next, length : next = txn.done + 1 /\ length = Len(Scripts(n, way)) OBVIOUS
<1>4. PICK end : end = IF way = "up" THEN txn.at + 1 ELSE txn.at - 1 OBVIOUS
<1>5. txn' = IF next < length
             THEN [txn EXCEPT !.db = e, !.done = next]
             ELSE [txn EXCEPT !.db = e, !.done = 0, !.at = end]
  BY <1>1, <1>3, <1>4 DEF Execute
<1>6. next \in Nat /\ length \in Nat /\ next <= length BY <1>1, <1>3
<1>7. end = (IF way = "up" THEN n ELSE n - 1) /\ end \in 0..LastRevision
  BY <1>1, <1>4 DEF LastRevision
<1> HIDE DEF e, n, way
<1>8. CASE next < length
  <2>1. txn' = [txn EXCEPT !.db = e, !.done = next] BY <1>5, <1>8
  <2>2. txn'.db = e /\ txn'.done = next /\ txn'.at = txn.at /\ txn'.target = txn.target BY <1>2, <2>1
  <2>3. QED BY <1>1, <1>3, <1>8, <2>2 DEF Steps, e, n, way
<1>9. CASE ~(next < length)
  <2>1. txn' = [txn EXCEPT !.db = e, !.done = 0, !.at = end] BY <1>5, <1>9
  <2>2. txn'.db = e /\ txn'.done = 0 /\ txn'.at = end /\ txn'.target = txn.target BY <1>2, <2>1
  <2>3. next = length BY <1>6, <1>9
  <2>4. QED BY <1>1, <1>3, <1>7, <2>2, <2>3 DEF Steps, e, n, way
<1>10. QED BY <1>8, <1>9

LEMMA StepBuilds ==
    ASSUME NEW t, NEW u, NEW s, Steps(t, u, s), Possible(t.db, s),
           Built(t.db, Present(InHand(t), Way(t), t.done))
    PROVE  Built(u.db, Present(InHand(u), Way(u), u.done))
<1>1. PICK n, way, done, next : n = InHand(t) /\ way = Way(t) /\ done = t.done /\ next = done + 1
  OBVIOUS
<1>2. /\ t.at \in 0..LastRevision /\ t.target \in 0..LastRevision /\ done \in Nat
      /\ n \in 1..LastRevision /\ way \in {"up", "down"}
      /\ done < Len(Scripts(n, way)) /\ s = Scripts(n, way)[next]
      /\ u.db = After(t.db, s) /\ u.target = t.target /\ u.at \in 0..LastRevision
  BY <1>1 DEF Steps
<1>3. Built(t.db, Present(n, way, done)) BY <1>1
<1>4. Built(u.db, Present(n, way, next))
  <2>1. CASE way = "up"
    <3>1. Scripts(n, way) = Upgrade[n] BY <2>1 DEF Scripts
    <3>2. Built(t.db, Present(n, "up", done)) BY <1>3, <2>1
    <3>3. Built(After(t.db, s), Present(n, "up", next)) BY <1>1, <1>2, <3>1, <3>2, UpgradeBuilds
    <3>4. QED BY <1>2, <2>1, <3>3
  <2>2. CASE way = "down"
    <3>1. Scripts(n, way) = Downgrade[n] BY <2>2 DEF Scripts
    <3>2. Built(t.db, Present(n, "down", done)) BY <1>3, <2>2
    <3>3. Built(After(t.db, s), Present(n, "down", next)) BY <1>1, <1>2, <3>1, <3>2, DowngradeBuilds
    <3>4. QED BY <1>2, <2>2, <3>3
  <2>3. QED BY <1>2, <2>1, <2>2
<1>5. CASE u.done = next /\ u.at = t.at
  <2>1. InHand(u) = n /\ Way(u) = way BY <1>1, <1>2, <1>5 DEF InHand, Way
  <2>2. QED BY <1>4, <1>5, <2>1
<1>6. CASE next = Len(Scripts(n, way)) /\ u.done = 0 /\ u.at = IF way = "up" THEN n ELSE n - 1
  <2>1. Present(InHand(u), Way(u), u.done) = Brought(u.at) BY <1>2, <1>6, PresentFirst
  <2>2. Present(n, way, next) = Brought(u.at)
    <3>1. CASE way = "up"
      <4>1. next = Len(Upgrade[n]) /\ u.at = n BY <1>6, <3>1 DEF Scripts
      <4>2. Present(n, "up", next) = Brought(u.at) BY <1>2, <4>1, UpgradeEnds
      <4>3. QED BY <3>1, <4>2
    <3>2. CASE way = "down"
      <4>1. next = Len(Downgrade[n]) /\ u.at = n - 1 BY <1>6, <3>2 DEF Scripts
      <4>2. Present(n, "down", next) = Brought(u.at) BY <1>2, <4>1, DowngradeEnds
      <4>3. QED BY <3>2, <4>2
    <3>3. QED BY <1>2, <3>1, <3>2
  <2>3. QED BY <1>4, <2>1, <2>2
<1>7. QED BY <1>1, <1>5, <1>6 DEF Steps

(* The program of a revision writes rows only. *)
LEMMA SealedSchema ==
    ASSUME NEW k, NEW row, NEW history PROVE SameSchema(db, Sealed(k, row, history))
<1>1. PICK rows, others : Sealed(k, row, history) =
           [db EXCEPT !["runs"].rows = rows, !["evidence_packs"].rows = others]
  BY DEF Sealed
<1> DEFINE c == [db EXCEPT !["runs"].rows = rows]
           e == [c EXCEPT !["evidence_packs"].rows = others]
<1>2. SameSchema(db, c) BY RowsOfOne
<1>3. e = Sealed(k, row, history) BY <1>1
<1>4. SameSchema(c, e)
  <2> HIDE DEF c
  <2>1. QED BY RowsOfOne
<1> HIDE DEF c, e
<1>5. SameSchema(db, e) BY <1>2, <1>4 DEF SameSchema
<1>6. QED BY <1>3, <1>5

LEMMA ProgramSchema ==
    ASSUME \/ \E k \in Runs, d \in Decisions : StoreRun(k, d)
           \/ \E k \in Runs, outcome \in Outcomes : ReviewRun(k, outcome)
    PROVE  SameSchema(db, db')
<1>1. CASE \E k \in Runs, d \in Decisions : StoreRun(k, d)
  BY <1>1, SealedSchema DEF StoreRun
<1>2. ASSUME NEW k \in Runs, NEW outcome \in Outcomes, ReviewRun(k, outcome)
      PROVE  SameSchema(db, db')
  <2>1. PICK row : db' = IF "review_events" \in Tables(db)
                         THEN [Sealed(k, row, <<outcome>>) EXCEPT !["review_events"].rows =
                                  Put(@, k, Given([action |-> outcome],
                                      Sealed(k, row, <<outcome>>)["review_events"].columns))]
                         ELSE Sealed(k, row, <<outcome>>)
    BY <1>2 DEF ReviewRun
  <2> DEFINE new == Sealed(k, row, <<outcome>>)
  <2>2. SameSchema(db, new) BY SealedSchema
  <2> HIDE DEF new
  <2>3. db' = new \/ \E rows : db' = [new EXCEPT !["review_events"].rows = rows]
    BY <2>1 DEF new
  <2>4. CASE \E rows : db' = [new EXCEPT !["review_events"].rows = rows]
    <3>1. SameSchema(new, db') BY <2>4, RowsOfOne
    <3>2. QED BY <2>2, <3>1 DEF SameSchema
  <2>5. QED BY <2>2, <2>3, <2>4
<1>3. QED BY <1>1, <1>2

(* At any time the committed database has the parts of its revision, and that of the open
   transaction those that the statements so far have brought and left: every downgrade() of
   0001 to 0014 takes away what its upgrade() brought, in an order the references allow. *)
THEOREM SchemaStands == Spec => []Structured
<1>1. Init => Structured
  <2>1. Tables(Empty) = {} BY EmptyIsEmpty DEF Tables
  <2>2. Structure(Empty) = {} BY <2>1 DEF Structure
  <2>3. Brought(0) = {} BY DEF Brought
  <2>4. QED BY <2>1, <2>2, <2>3 DEF Init, Structured, Built
<1>2. Inductive /\ Structured /\ [Next]_vars => Structured'
  <2>1. SUFFICES ASSUME Inductive, Structured, [Next]_vars PROVE Structured' OBVIOUS
  <2>2. /\ Built(db, Brought(revision)) /\ revision \in 0..LastRevision
        /\ txn # None => Stands(txn) /\ Built(txn.db, Present(InHand(txn), Way(txn), txn.done))
    BY <2>1 DEF Inductive, Structured
  <2>3. CASE \/ \E k \in Runs, d \in Decisions : StoreRun(k, d)
             \/ \E k \in Runs, outcome \in Outcomes : ReviewRun(k, outcome)
    <3>1. SameSchema(db, db') BY <2>3, ProgramSchema
    <3>2. Built(db', Brought(revision)) BY <2>2, <3>1, SameSchemaBuilt
    <3>3. UNCHANGED <<revision, txn>> BY <2>3 DEF StoreRun, ReviewRun
    <3>4. QED BY <2>2, <3>2, <3>3 DEF Structured
  <2>4. ASSUME NEW target \in 0..LastRevision, Begin(target) PROVE Structured'
    <3>1. txn' = [db |-> db, at |-> revision, done |-> 0, target |-> target]
          /\ UNCHANGED <<revision, db>>
      BY <2>4 DEF Begin
    <3>2. txn'.db = db /\ txn'.at = revision /\ txn'.done = 0 /\ txn'.target = target BY <3>1
    <3>3. Present(InHand(txn'), Way(txn'), txn'.done) = Brought(revision) BY <2>2, <3>2, PresentFirst
    <3>4. QED BY <2>2, <3>1, <3>2, <3>3 DEF Structured
  <2>5. CASE Execute
    <3>1. txn # None /\ UNCHANGED <<revision, db>> BY <2>5 DEF Execute, Executes
    <3>2. Steps(txn, txn', Statement) BY <2>2, <2>5, <3>1, ExecuteSteps
    <3>3. Possible(txn.db, Statement) BY <2>5 DEF Execute, Allowed
    <3>4. Built(txn'.db, Present(InHand(txn'), Way(txn'), txn'.done))
      BY <2>2, <3>1, <3>2, <3>3, StepBuilds
    <3>5. QED BY <2>2, <3>1, <3>4 DEF Structured
  <2>6. CASE Refuse \/ Killed
    <3>1. txn' = None /\ UNCHANGED <<revision, db>> BY <2>6 DEF Refuse, Killed
    <3>2. QED BY <2>2, <3>1 DEF Structured
  <2>7. CASE Commit
    <3>1. /\ txn # None /\ txn.at = txn.target
          /\ db' = txn.db /\ revision' = txn.target /\ txn' = None
      BY <2>7 DEF Commit
    <3>2. txn.at \in 0..LastRevision /\ txn.done = 0 BY <2>2, <3>1 DEF Stands
    <3>3. Present(InHand(txn), Way(txn), txn.done) = Brought(txn.at) BY <3>1, <3>2, PresentFirst
    <3>4. QED BY <2>2, <3>1, <3>3 DEF Structured
  <2>8. CASE UNCHANGED vars BY <2>2, <2>8 DEF Structured, vars
  <2>9. QED BY <2>1, <2>3, <2>4, <2>5, <2>6, <2>7, <2>8 DEF Next
<1>3. QED BY <1>1, <1>2, DatabaseStands, PTL DEF Spec

(* The schema depends on the revision alone, not on the way to it: each downgrade() of 0001 to
   0014 undoes its upgrade(), and a later upgrade starts from what it expects. *)
THEOREM SchemaFollows == Spec => []SchemaFollowsRevision
<1>1. Structured => SchemaFollowsRevision BY DEF Structured, Built, SchemaFollowsRevision
<1>2. QED BY <1>1, SchemaStands, PTL

-----------------------------------------------------------------------------
(* What stops a call *)

(* The rows that 0006 inserts, by the position of their statement. *)
Seeds == [organizations |-> 7, repositories |-> 8, evidence_sources |-> 9]

(* After done statements of the upgrade of 0006: the rows of the tables that other tables refer
   to; the values of the columns that become references; the rows of review_events are a
   function, so that an UPDATE of no row leaves them equal. *)
Seeded(d, done) == \A t \in DOMAIN Seeds : done >= Seeds[t] => Default \in DOMAIN d[t].rows
Tenanted(d) ==
    \A t \in DOMAIN Keyed : \A c \in DOMAIN Keyed[t] \intersect d[t].columns : \A k \in DOMAIN d[t].rows :
        c \in DOMAIN d[t].rows[k] /\ d[t].rows[k][c] \in {None, Default}
Listed(d) ==
    "organization_id" \in d["review_events"].columns =>
        d["review_events"].rows = [k \in DOMAIN d["review_events"].rows |-> d["review_events"].rows[k]]
Filling(d, done) == Seeded(d, done) /\ Tenanted(d) /\ Listed(d)

(* The reviewed runs. *)
Reviewed(d) ==
    IF "runs" \in Tables(d) /\ "review_outcome" \in d["runs"].columns
    THEN {k \in DOMAIN d["runs"].rows : d["runs"].rows[k].review_outcome # None} ELSE {}

(* The open transaction is on its way from the committed revision to its target, and no
   upgrade up to 0006 has reviewed a run. *)
Between(t) == (revision <= t.at /\ t.at <= t.target) \/ (t.target <= t.at /\ t.at <= revision)
Underway(t) ==
    /\ failed = None /\ Between(t)
    /\ Way(t) = "up" /\ InHand(t) = 6 => Filling(t.db, t.done)
    /\ Way(t) = "up" /\ InHand(t) <= 6 => Reviewed(t.db) \subseteq Reviewed(db)
Calm == OnlyHistoryStopsACall /\ (txn # None => Underway(txn))

(* What an upgrade has brought by its k-th statement. *)
LEMMA PresentUp ==
    ASSUME NEW n \in 1..LastRevision, NEW k \in Nat, k <= Len(Upgrade[n]), NEW e
    PROVE  e \in Present(n, "up", k) <=>
              Comes(e) /\ (Place(e)[1] < n \/ (Place(e)[1] = n /\ Place(e)[2] <= k))
<1>1. n - 1 \in 0..LastRevision /\ Len(Upgrade[n]) \in Nat
  <2>1. Len(Upgrade[n]) \in Nat BY NoEmptyScript DEF Scripts
  <2>2. QED BY <2>1 DEF LastRevision
<1>2. ASSUME e \in Brought(n - 1) PROVE Comes(e) /\ Place(e)[1] < n
  <2>1. Comes(e) /\ Place(e)[1] \in 1..(n - 1) BY <1>1, <1>2, BroughtBy
  <2>2. QED BY <2>1
<1>3. ASSUME NEW i \in 1..k, e \in Brings(Upgrade[n][i]) PROVE Comes(e) /\ Place(e)[1] = n
      /\ Place(e)[2] <= k
  <2>1. i \in 1..Len(Upgrade[n]) BY <1>1
  <2>2. Place(e) = <<n, i>> BY <1>3, <2>1, UpgradeFits, PlaceOf
  <2>3. QED BY <1>3, <2>1, <2>2 DEF Comes
<1>4. ASSUME Comes(e), Place(e)[1] < n PROVE e \in Brought(n - 1)
  <2>1. Place(e)[1] <= n - 1 BY <1>4 DEF Comes
  <2>2. QED BY <1>1, <1>4, <2>1, ComesBrought
<1>5. ASSUME Comes(e), Place(e)[1] = n, Place(e)[2] <= k
      PROVE  \E i \in 1..k : e \in Brings(Upgrade[n][i])
  <2>1. Place(e)[2] \in 1..k /\ e \in Brings(Upgrade[n][Place(e)[2]]) BY <1>1, <1>5 DEF Comes
  <2>2. QED BY <2>1
<1>6. e \in Present(n, "up", k) <=> e \in Brought(n - 1) \/ \E i \in 1..k : e \in Brings(Upgrade[n][i])
  BY DEF Present
<1>7. QED BY <1>2, <1>3, <1>4, <1>5, <1>6

(* Tables, columns, references and triggers are where the lists say. *)
LEMMA TablePlace ==
    ASSUME NEW t \in DOMAIN Born
    PROVE  /\ Comes(<<t, "table", t>>) /\ Place(<<t, "table", t>>) = Born[t]
           /\ Born[t][1] \in 1..LastRevision
<1>1. PICK n, i : n = Born[t][1] /\ i = Born[t][2] OBVIOUS
<1>2. /\ n \in 1..LastRevision /\ i \in 1..Len(Upgrade[n])
      /\ Upgrade[n][i].op = "create_table" /\ Upgrade[n][i].table = t
  BY <1>1, BornCreates
<1>3. Born[t] = <<n, i>> BY <1>2, UpgradeFits DEF Fits, InPlace
<1>4. Place(<<t, "table", t>>) = Born[t] BY DEF Place
<1>5. <<t, "table", t>> \in Brings(Upgrade[n][i]) BY <1>2 DEF Brings, Parts
<1>6. QED BY <1>1, <1>2, <1>3, <1>4, <1>5 DEF Comes

LEMMA ColumnHasPlace ==
    ASSUME NEW t, NEW c, Came(Added, t, c)
    PROVE  Comes(<<t, "column", c>>) /\ Place(<<t, "column", c>>) = Added[t][c]
<1>1. PICK p : p = Added[t][c] OBVIOUS
<1>2. /\ p[1] \in 1..LastRevision /\ p[2] \in 1..Len(Upgrade[p[1]])
      /\ Upgrade[p[1]][p[2]].op = "add_column" /\ Upgrade[p[1]][p[2]].table = t
      /\ Upgrade[p[1]][p[2]].column = c
  <2>1. StatementAt("add_column", p[1], p[2], t, c) BY <1>1, AddedComes
  <2>2. QED BY <2>1 DEF StatementAt
<1>3. PICK n, i : n = p[1] /\ i = p[2] OBVIOUS
<1>4. /\ n \in 1..LastRevision /\ i \in 1..Len(Upgrade[n])
      /\ Upgrade[n][i].op = "add_column" /\ Upgrade[n][i].table = t
      /\ Upgrade[n][i].column = c
  BY <1>2, <1>3
<1>5. Added[t][c] = <<n, i>> BY <1>4, UpgradeFits DEF Fits, InPlace
<1>6. Place(<<t, "column", c>>) = Added[t][c] BY DEF Place, ColumnPlace
<1>7. <<t, "column", c>> \in Brings(Upgrade[n][i]) BY <1>4 DEF Brings
<1>8. QED BY <1>4, <1>5, <1>6, <1>7 DEF Comes

LEMMA KeyHasPlace ==
    ASSUME NEW n \in 1..LastRevision, NEW j \in 1..Len(Downgrade[n]), NEW s, s = Downgrade[n][j],
           s.op = "drop_constraint"
    PROVE  LET e == <<s.table, "reference", <<s.column, s.to>>>>
           IN  Comes(e) /\ Place(e)[1] = n /\ Undo[n][Place(e)[2]] = j
<1> DEFINE e == <<s.table, "reference", <<s.column, s.to>>>>
<1>1. Came(Keyed, s.table, s.column) /\ UndoneAt(Keyed[s.table][s.column], n, j)
  BY DowngradeFits DEF DownFits, Drops
<1>2. PICK t, c : t = s.table /\ c = s.column OBVIOUS
<1>3. PICK p : p = Keyed[t][c] OBVIOUS
<1>4. Came(Keyed, t, c) /\ p[1] = n /\ Undo[n][p[2]] = j BY <1>1, <1>2, <1>3 DEF UndoneAt
<1>5. /\ p[2] \in 1..Len(Upgrade[p[1]])
      /\ Upgrade[p[1]][p[2]].op = "create_foreign_key" /\ Upgrade[p[1]][p[2]].table = t
      /\ Upgrade[p[1]][p[2]].column = c
  <2>1. Came(Keyed, t, c) BY <1>4
  <2>2. StatementAt("create_foreign_key", p[1], p[2], t, c) BY <1>3, <2>1, KeyedComes
  <2>3. QED BY <2>2 DEF StatementAt
<1>6. PICK i, u : i = p[2] /\ u = Upgrade[n][i] OBVIOUS
<1>7. i \in 1..Len(Upgrade[n]) /\ u.op = "create_foreign_key" /\ u.table = t /\ u.column = c
  BY <1>4, <1>5, <1>6
<1>8. Fits(n, i, u) BY <1>6, <1>7, UpgradeFits
<1>9. Keyed[t][c] = <<n, i>> BY <1>7, <1>8 DEF Fits, InPlace
<1>10. Downgrade[n][Undo[n][i]] = DropConstraint(u.table, u.column, u.to)
  BY <1>7, <1>8 DEF Fits, Undone, Opposite, BringingOps
<1>11. s = DropConstraint(u.table, u.column, u.to) BY <1>4, <1>6, <1>10
<1>12. s.to = u.to BY <1>11 DEF DropConstraint
<1>13. Place(e) = <<n, i>> BY <1>2, <1>4, <1>9 DEF Place, ReferencePlace
<1>14. e \in Brings(u) BY <1>2, <1>7, <1>12 DEF Brings
<1> HIDE DEF e
<1>15. Comes(e) BY <1>6, <1>7, <1>13, <1>14 DEF Comes
<1>16. QED BY <1>4, <1>6, <1>13, <1>15 DEF e

LEMMA GuardPlace ==
    ASSUME NEW t \in DOMAIN Guarding
    PROVE  t \in DOMAIN Born /\ Born[t][1] < Guarding[t][1] /\ Guarding[t][1] \in {5, 14}
           /\ (Guarding[t][1] = 5 => t = "review_events")
BY BornIs DEF Guarding

(* Each statement of an upgrade finds the tables it needs, and not what it brings. *)
LEMMA UpPossible ==
    ASSUME NEW n \in 1..LastRevision, NEW done \in Nat, done < Len(Upgrade[n]), NEW next, next = done + 1,
           NEW s, s = Upgrade[n][next], NEW d, Built(d, Present(n, "up", done)),
           s.op = "create_foreign_key" =>
               \A k \in DOMAIN d[s.table].rows : Refers(d, d[s.table].rows[k], s.column, s.to),
           s.op = "insert" => \A r \in d[s.table].refers : Refers(d, s.row, r[1], r[2])
    PROVE  Possible(d, s)
<1>1. Len(Upgrade[n]) \in Nat /\ next \in 1..Len(Upgrade[n]) /\ done <= Len(Upgrade[n])
  <2>1. Len(Upgrade[n]) \in Nat BY NoEmptyScript DEF Scripts
  <2>2. QED BY <2>1
<1>2. InPlace(n, next, s) /\ TargetsThere(n, next, s) BY <1>1, UpgradeFits DEF Fits
<1>3. ASSUME NEW t \in DOMAIN Born, Earlier(Born[t], <<n, next>>) PROVE t \in Tables(d)
  <2>1. Comes(<<t, "table", t>>) /\ Place(<<t, "table", t>>) = Born[t] BY TablePlace
  <2>2. Born[t][1] < n \/ (Born[t][1] = n /\ Born[t][2] < next) BY <1>3 DEF Earlier
  <2>3. Born[t][2] \in Int BY <2>1 DEF Comes
  <2>4. Born[t][1] < n \/ (Born[t][1] = n /\ Born[t][2] <= done) BY <2>2, <2>3
  <2>5. <<t, "table", t>> \in Present(n, "up", done) BY <1>1, <2>1, <2>4, PresentUp
  <2>6. QED BY <2>5, HasParts DEF Built
<1>4. ASSUME NEW e, Place(e) = <<n, next>> PROVE e \notin Structure(d)
  <2>1. e \notin Present(n, "up", done) BY <1>1, <1>4, PresentUp
  <2>2. QED BY <2>1 DEF Built
<1>5. CASE s.op = "create_table"
  <2>1. Born[s.table] = <<n, next>> /\ s.table \in DOMAIN Born BY <1>2, <1>5 DEF InPlace
  <2>2. Place(<<s.table, "table", s.table>>) = <<n, next>> BY <2>1, TablePlace
  <2>3. s.table \notin Tables(d) BY <1>4, <2>2, HasParts
  <2>4. \A r \in s.refers : r[2] \in Tables(d) BY <1>2, <1>3, <1>5 DEF TargetsThere, Targets
  <2>5. QED BY <1>5, <2>3, <2>4 DEF Possible
<1>6. CASE s.op # "create_table"
  <2>1. s.table \in Tables(d) BY <1>2, <1>3, <1>6 DEF InPlace
  <2>2. s.op \in {"add_column", "create_foreign_key", "create_trigger", "insert", "update"}
    BY <1>2, <1>6 DEF InPlace, BringingOps
  <2>3. s.op = "add_column" => s.column \notin d[s.table].columns
    <3>1. SUFFICES ASSUME s.op = "add_column" PROVE s.column \notin d[s.table].columns OBVIOUS
    <3>2. Place(<<s.table, "column", s.column>>) = <<n, next>> BY <1>2, <3>1 DEF InPlace, Place, ColumnPlace
    <3>3. QED BY <1>4, <2>1, <3>2, HasParts
  <2>4. s.op = "create_foreign_key" => s.to \in Tables(d)
    BY <1>2, <1>3 DEF TargetsThere, Targets
  <2>5. QED BY <1>6, <2>1, <2>2, <2>3, <2>4 DEF Possible
<1>7. QED BY <1>5, <1>6

(* Each statement of a downgrade finds what it takes away, and no reference to the table it drops. *)
LEMMA DownPossible ==
    ASSUME NEW n \in 1..LastRevision, NEW done \in Nat, done < Len(Downgrade[n]), NEW next, next = done + 1,
           NEW s, s = Downgrade[n][next], NEW d, Built(d, Present(n, "down", done))
    PROVE  Possible(d, s)
<1>1. Len(Downgrade[n]) \in Nat /\ next \in 1..Len(Downgrade[n]) /\ done \in 0..Len(Downgrade[n])
      /\ n \in 0..LastRevision
  <2>1. Len(Downgrade[n]) \in Nat BY NoEmptyScript DEF Scripts
  <2>2. QED BY <2>1 DEF LastRevision
<1>2. DownFits(n, next, s) BY <1>1, DowngradeFits
<1>3. Structure(d) = Present(n, "down", done) BY DEF Built
<1>4. ASSUME NEW e, Comes(e), Place(e)[1] < n \/ (Place(e)[1] = n /\ Undo[n][Place(e)[2]] = next)
      PROVE  e \in Structure(d)
  <2>1. e \in Brought(n)
    <3>1. Place(e)[1] <= n BY <1>4 DEF Comes
    <3>2. QED BY <1>1, <1>4, <3>1, ComesBrought
  <2>2. Place(e)[1] < n \/ Undo[n][Place(e)[2]] > done BY <1>4
  <2>3. QED BY <1>1, <1>3, <2>1, <2>2, PresentDown
<1>5. ASSUME NEW t \in DOMAIN Born, Born[t][1] < n \/ UndoneAt(Born[t], n, next) PROVE t \in Tables(d)
  <2>1. <<t, "table", t>> \in Structure(d) BY <1>4, <1>5, TablePlace DEF UndoneAt
  <2>2. QED BY <2>1, HasParts
<1>6. CASE s.op = "drop_table"
  <2>1. s.table \in DOMAIN Born /\ UndoneAt(Born[s.table], n, next) BY <1>2, <1>6 DEF DownFits, Drops
  <2>2. ASSUME NEW t \in Tables(d), NEW r \in d[t].refers PROVE r[2] # s.table
    <3>1. PICK e : e = <<t, "reference", r>> OBVIOUS
    <3>2. e \in Present(n, "down", done) BY <1>3, <3>1, HasParts
    <3>3. e \in Brought(n) BY <3>2 DEF Present
    <3>4. PICK m, i : m = Place(e)[1] /\ i = Place(e)[2] OBVIOUS
    <3>5. Comes(e) /\ m \in 1..n /\ Place(e) = <<m, i>> BY <1>1, <3>3, <3>4, BroughtBy DEF Comes
    <3>6. PICK u : u = Upgrade[m][i] OBVIOUS
    <3>7. Fits(m, i, u) /\ e \in Brings(u) /\ u.op \in BringingOps BY <3>5, <3>6, ComesFits
    <3>8. r[2] \in Targets(u) BY <3>1, <3>7, PlaceOf
    <3>9. SUFFICES ASSUME r[2] = s.table PROVE FALSE OBVIOUS
    <3>10. Earlier(Born[s.table], <<m, i>>) BY <3>7, <3>8, <3>9 DEF Fits, TargetsThere
    <3>11. m = n BY <2>1, <3>5, <3>10 DEF Earlier, UndoneAt
    <3>12. Undo[n][i] < Undo[n][Born[s.table][2]]
      BY <2>1, <3>7, <3>8, <3>9, <3>11 DEF Fits, UndoneInTime, UndoneAt
    <3>13. Undo[n][i] < next BY <2>1, <3>12 DEF UndoneAt
    <3>14. Undo[n][i] > done
      <4>1. Place(e)[1] < n \/ Undo[n][Place(e)[2]] > done BY <1>1, <3>2, <3>3, PresentDown
      <4>2. m < n \/ Undo[n][i] > done BY <3>4, <4>1
      <4>3. QED BY <3>11, <4>2
    <3>15. Undo[n][i] \in Int BY <3>5, <3>11, UndoTakes
    <3>16. QED BY <3>13, <3>14, <3>15
  <2>3. s.table \in Tables(d) BY <1>5, <2>1
  <2>4. QED BY <1>6, <2>2, <2>3 DEF Possible
<1>7. CASE s.op = "drop_column"
  <2>1. Came(Added, s.table, s.column) /\ UndoneAt(Added[s.table][s.column], n, next)
    BY <1>2, <1>7 DEF DownFits, Drops
  <2>2. PICK e : e = <<s.table, "column", s.column>> OBVIOUS
  <2>3. Comes(e) /\ Place(e) = Added[s.table][s.column] BY <2>1, <2>2, ColumnHasPlace
  <2>4. e \in Structure(d) BY <1>4, <2>1, <2>3 DEF UndoneAt
  <2>5. s.table \in Tables(d) BY <2>2, <2>4, StructureParts, OwnTable
  <2>6. s.column \in d[s.table].columns BY <2>2, <2>4, <2>5, HasParts
  <2>7. QED BY <1>7, <2>5, <2>6 DEF Possible
<1>8. CASE s.op = "drop_constraint"
  <2>1. PICK e : e = <<s.table, "reference", <<s.column, s.to>>>> OBVIOUS
  <2>2. Comes(e) /\ Place(e)[1] = n /\ Undo[n][Place(e)[2]] = next BY <1>1, <1>8, <2>1, KeyHasPlace
  <2>3. e \in Structure(d) BY <1>4, <2>2
  <2>4. s.table \in Tables(d) BY <2>1, <2>3, StructureParts, OwnTable
  <2>5. <<s.column, s.to>> \in d[s.table].refers BY <2>1, <2>3, <2>4, HasParts
  <2>6. QED BY <1>8, <2>4, <2>5 DEF Possible
<1>9. CASE s.op = "drop_trigger"
  <2>1. s.table \in DOMAIN Guarding /\ Guarding[s.table][1] = n
    BY <1>2, <1>9 DEF DownFits, Drops, UndoneAt
  <2>2. s.table \in Tables(d) BY <1>5, <2>1, GuardPlace
  <2>3. QED BY <1>9, <2>2 DEF Possible
<1>10. CASE s.op = "update" /\ s.table = "evidence_packs" /\ n \in 2..4
  <2>1. "evidence_packs" \in DOMAIN Born /\ Born["evidence_packs"][1] < n BY <1>10, BornIs
  <2>2. s.table \in Tables(d) BY <1>5, <1>10, <2>1
  <2>3. QED BY <1>10, <2>2 DEF Possible
<1>11. QED BY <1>2, <1>6, <1>7, <1>8, <1>9, <1>10 DEF DownFits, Drops

(* Only the tables of Guarding have a trigger, from its revision on. *)
LEMMA GuardedThen ==
    ASSUME NEW n \in 0..LastRevision, NEW d, Structure(d) \subseteq Brought(n),
           NEW t \in Tables(d), d[t].guarded
    PROVE  t \in DOMAIN Guarding /\ Guarding[t][1] <= n
<1>1. PICK e : e = <<t, "trigger", t>> OBVIOUS
<1>2. e \in Brought(n) BY <1>1, HasParts
<1>3. PICK m, i : m = Place(e)[1] /\ i = Place(e)[2] OBVIOUS
<1>4. Comes(e) /\ m \in 1..n /\ Place(e) = <<m, i>> BY <1>2, <1>3, BroughtBy DEF Comes
<1>5. PICK u : u = Upgrade[m][i] OBVIOUS
<1>6. Fits(m, i, u) /\ e \in Brings(u) BY <1>4, <1>5, ComesFits
<1>7. u.op = "create_trigger" /\ u.table = t BY <1>1, <1>6, BringsParts
<1>8. t \in DOMAIN Guarding /\ Guarding[t] = <<m, i>> BY <1>6, <1>7 DEF Fits, InPlace
<1>9. QED BY <1>4, <1>8

(* In the middle of a revision there is nothing of a later one. *)
LEMMA PresentBrought ==
    ASSUME NEW n \in 1..LastRevision, NEW way \in {"up", "down"}, NEW done \in Nat,
           done < Len(Scripts(n, way))
    PROVE  Present(n, way, done) \subseteq Brought(n)
<1>1. CASE way = "up"
  <2>1. n \in 0..LastRevision /\ Len(Upgrade[n]) \in Nat /\ done <= Len(Upgrade[n])
    <3>1. Scripts(n, way) = Upgrade[n] /\ Len(Scripts(n, way)) \in Nat BY <1>1, NoEmptyScript DEF Scripts
    <3>2. QED BY <3>1 DEF LastRevision
  <2>2. ASSUME NEW e \in Present(n, "up", done) PROVE e \in Brought(n)
    <3>1. Comes(e) /\ Place(e)[1] <= n
      <4>1. Comes(e) /\ (Place(e)[1] < n \/ Place(e)[1] = n) BY <2>1, PresentUp
      <4>2. QED BY <4>1 DEF Comes
    <3>2. QED BY <2>1, <3>1, ComesBrought
  <2>3. QED BY <1>1, <2>2
<1>2. CASE way = "down" BY <1>2 DEF Present
<1>3. QED BY <1>1, <1>2

(* The statements of the upgrade of 0006; it is the only one with an update after 0004. *)
LEMMA Filler ==
    ASSUME NEW i \in 1..23, NEW s, s = Up0006[i]
    PROVE  \/ i <= 6 /\ s.op = "create_table"
           \/ i \in 7..9 /\ s.op = "insert" /\ s.table \in DOMAIN Seeds /\ Seeds[s.table] = i /\ s.key = Default
           \/ i \in 10..15 /\ s.op = "add_column" /\ s.table \in LedgerTables /\ s.default = None
           \/ i \in 16..18 /\ s.op = "update" /\ s.what = "tenant" /\ s.table \in LedgerTables
           \/ i \in 19..23 /\ s.op = "create_foreign_key" /\ s.table \in LedgerTables /\ s.to \in DOMAIN Seeds
<1>1. ASSUME i \in {1, 2, 3, 4, 5, 6} PROVE i <= 6 /\ s.op = "create_table"
  BY <1>1 DEF Up0006, CreateTable
<1>2. ASSUME i \in {7, 8, 9}
      PROVE  s.op = "insert" /\ s.table \in DOMAIN Seeds /\ Seeds[s.table] = i /\ s.key = Default
  BY <1>2 DEF Up0006, Insert, Seeds
<1>3. ASSUME i \in {10, 11, 12, 13, 14, 15}
      PROVE  s.op = "add_column" /\ s.table \in LedgerTables /\ s.default = None
  BY <1>3 DEF Up0006, AddColumn, LedgerTables
<1>4. ASSUME i \in {16, 17, 18}
      PROVE  s.op = "update" /\ s.what = "tenant" /\ s.table \in LedgerTables
  BY <1>4 DEF Up0006, Update, LedgerTables
<1>5. ASSUME i \in {19, 20, 21, 22, 23}
      PROVE  s.op = "create_foreign_key" /\ s.table \in LedgerTables /\ s.to \in DOMAIN Seeds
  BY <1>5 DEF Up0006, CreateForeignKey, LedgerTables, Seeds
<1>6. \/ i \in {1, 2, 3, 4, 5, 6} \/ i \in {7, 8, 9} \/ i \in {10, 11, 12, 13, 14, 15}
      \/ i \in {16, 17, 18} \/ i \in {19, 20, 21, 22, 23}
  OBVIOUS
<1>7. (i \in {7, 8, 9} => i \in 7..9) /\ (i \in {10, 11, 12, 13, 14, 15} => i \in 10..15)
      /\ (i \in {16, 17, 18} => i \in 16..18) /\ (i \in {19, 20, 21, 22, 23} => i \in 19..23)
  OBVIOUS
<1>8. QED BY <1>1, <1>2, <1>3, <1>4, <1>5, <1>6, <1>7

LEMMA TenantUpdates ==
    /\ Up0006[16].table = "runs" /\ Up0006[17].table = "evidence_packs"
    /\ Up0006[18] = Update("review_events", "tenant")
BY DEF Up0006, Update

(* Only 0006 inserts rows, and after 0004 no other revision updates any. *)
LEMMA RowOps ==
    ASSUME NEW n \in 1..LastRevision, NEW i \in 1..Len(Upgrade[n])
    PROVE  /\ Upgrade[n][i].op = "insert" => n = 6
           /\ Upgrade[n][i].op = "update" => n \in {2, 3, 4, 6}
           /\ n = 1 => Upgrade[n][i].op = "create_table"
<1>1. CASE n = 1
  <2>1. Upgrade[n] = Up0001 /\ Len(Up0001) = 3 BY <1>1, Lengths, ScriptOf
  <2>2. i \in {1, 2, 3} BY <2>1
  <2>3. QED BY <1>1, <2>1, <2>2 DEF Up0001, CreateTable
<1>2. CASE n = 2
  <2>1. Upgrade[n] = Up0002 /\ Len(Up0002) = 2 BY <1>2, Lengths, ScriptOf
  <2>2. i \in {1, 2} BY <2>1
  <2>3. QED BY <1>2, <2>1, <2>2 DEF Up0002, AddColumn, Update
<1>3. CASE n = 3
  <2>1. Upgrade[n] = Up0003 /\ Len(Up0003) = 4 BY <1>3, Lengths, ScriptOf
  <2>2. i \in {1, 2, 3, 4} BY <2>1
  <2>3. QED BY <1>3, <2>1, <2>2 DEF Up0003, AddColumn, Update
<1>4. CASE n = 4
  <2>1. Upgrade[n] = Up0004 /\ Len(Up0004) = 3 BY <1>4, Lengths, ScriptOf
  <2>2. i \in {1, 2, 3} BY <2>1
  <2>3. QED BY <1>4, <2>1, <2>2 DEF Up0004, CreateTable, Update
<1>5. CASE n = 5
  <2>1. Upgrade[n] = Up0005 /\ Len(Up0005) = 1 BY <1>5, Lengths, ScriptOf
  <2>2. i \in {1} BY <2>1
  <2>3. QED BY <1>5, <2>1, <2>2 DEF Up0005, CreateTrigger
<1>7. CASE n = 7
  <2>1. Upgrade[n] = Up0007 /\ Len(Up0007) = 1 BY <1>7, Lengths, ScriptOf
  <2>2. i \in {1} BY <2>1
  <2>3. QED BY <1>7, <2>1, <2>2 DEF Up0007, CreateTable
<1>8. CASE n = 8
  <2>1. Upgrade[n] = Up0008 /\ Len(Up0008) = 6 BY <1>8, Lengths, ScriptOf
  <2>2. i \in {1, 2, 3, 4, 5, 6} BY <2>1
  <2>3. QED BY <1>8, <2>1, <2>2 DEF Up0008, CreateTable
<1>9. CASE n = 9
  <2>1. Upgrade[n] = Up0009 /\ Len(Up0009) = 2 BY <1>9, Lengths, ScriptOf
  <2>2. i \in {1, 2} BY <2>1
  <2>3. QED BY <1>9, <2>1, <2>2 DEF Up0009, AddColumn
<1>10. CASE n = 10
  <2>1. Upgrade[n] = Up0010 /\ Len(Up0010) = 6 BY <1>10, Lengths, ScriptOf
  <2>2. i \in {1, 2, 3, 4, 5, 6} BY <2>1
  <2>3. QED BY <1>10, <2>1, <2>2 DEF Up0010, AddColumn
<1>11. CASE n = 11
  <2>1. Upgrade[n] = Up0011 /\ Len(Up0011) = 5 BY <1>11, Lengths, ScriptOf
  <2>2. i \in {1, 2, 3, 4, 5} BY <2>1
  <2>3. QED BY <1>11, <2>1, <2>2 DEF Up0011, CreateTable
<1>12. CASE n = 12
  <2>1. Upgrade[n] = Up0012 /\ Len(Up0012) = 1 BY <1>12, Lengths, ScriptOf
  <2>2. i \in {1} BY <2>1
  <2>3. QED BY <1>12, <2>1, <2>2 DEF Up0012, CreateTable
<1>13. CASE n = 13
  <2>1. Upgrade[n] = Up0013 /\ Len(Up0013) = 1 BY <1>13, Lengths, ScriptOf
  <2>2. i \in {1} BY <2>1
  <2>3. QED BY <1>13, <2>1, <2>2 DEF Up0013, CreateTable
<1>14. CASE n = 14
  <2>1. Upgrade[n] = Up0014 /\ Len(Up0014) = 1 BY <1>14, Lengths, ScriptOf
  <2>2. i \in {1} BY <2>1
  <2>3. QED BY <1>14, <2>1, <2>2 DEF Up0014, CreateTrigger
<1>15. n \in {1, 2, 3, 4, 5, 6, 7, 8, 9, 10, 11, 12, 13, 14} BY Revision14
<1>16. CASE n = 6 BY <1>16
<1>17. QED BY <1>1, <1>2, <1>3, <1>4, <1>5, <1>7, <1>8, <1>9, <1>10, <1>11, <1>12, <1>13, <1>14, <1>15,
           <1>16

(* A statement leaves the other tables alone. *)
LEMMA OtherTables ==
    ASSUME NEW d, NEW s, Possible(d, s), NEW u \in Tables(d),
           \/ s.op = "create_table"
           \/ u # s.table /\ s.op \in {"insert", "add_column", "create_foreign_key"}
           \/ u # s.table /\ s.op = "update" /\ s.what = "tenant"
    PROVE  u \in Tables(After(d, s)) /\ After(d, s)[u] = d[u]
<1>1. CASE s.op = "create_table" BY <1>1 DEF After, Effect, Put, Tables, Possible
<1>2. CASE u # s.table /\ s.op = "insert" BY <1>2 DEF After, Effect, Tables
<1>3. CASE u # s.table /\ s.op = "add_column" BY <1>3 DEF After, Effect, Tables
<1>4. CASE u # s.table /\ s.op = "create_foreign_key" BY <1>4 DEF After, Effect, Tables
<1>5. CASE u # s.table /\ s.op = "update" /\ s.what = "tenant"
  <2>1. PICK rows : BackfillTenant(d, s.table) = [d EXCEPT ![s.table].rows = rows] BY DEF BackfillTenant
  <2>2. After(d, s) = [d EXCEPT ![s.table].rows = rows] BY <1>5, <2>1 DEF After, Updated
  <2>3. QED BY <1>5, <2>2 DEF Tables
<1>6. QED BY <1>1, <1>2, <1>3, <1>4, <1>5

(* What 0006 does to the rows of the ledger. *)
Backfilled(d, e, t) ==
    /\ e[t].columns = d[t].columns /\ DOMAIN e[t].rows = DOMAIN d[t].rows
    /\ e[t].rows = [k \in DOMAIN e[t].rows |-> e[t].rows[k]]
    /\ \A k \in DOMAIN d[t].rows : \A c \in DOMAIN d[t].rows[k] :
          c \in DOMAIN e[t].rows[k] /\ e[t].rows[k][c] \in {d[t].rows[k][c], Default}
    /\ DOMAIN d[t].rows = {} /\ d[t].rows = [k \in DOMAIN d[t].rows |-> d[t].rows[k]]
          => e[t].rows = d[t].rows

LEMMA TenantRows ==
    ASSUME NEW d, NEW s, NEW t, t = s.table, t \in Tables(d),
           {"columns", "refers", "guarded", "rows"} \subseteq DOMAIN d[t], s.op = "update", s.what = "tenant",
           NEW e, e = After(d, s)
    PROVE  Backfilled(d, e, t)
<1> DEFINE given == IF t = "runs" THEN {"organization_id", "repository_id", "evidence_source_id"}
                    ELSE {"organization_id"}
           Tenant(row) == IF row.organization_id = None THEN Over([c \in given |-> Default], row) ELSE row
           rows == [k \in DOMAIN d[t].rows |-> Tenant(d[t].rows[k])]
<1>1. e = [d EXCEPT ![t].rows = rows] BY DEF After, Updated, BackfillTenant
<1>2. ASSUME NEW row, NEW c \in DOMAIN row PROVE c \in DOMAIN Tenant(row)
      /\ Tenant(row)[c] \in {row[c], Default}
  BY DEF Over
<1> HIDE DEF given, Tenant
<1>3. /\ DOMAIN rows = DOMAIN d[t].rows
      /\ rows = [k \in DOMAIN rows |-> rows[k]]
      /\ \A k \in DOMAIN rows : rows[k] = Tenant(d[t].rows[k])
      /\ DOMAIN d[t].rows = {} /\ d[t].rows = [k \in DOMAIN d[t].rows |-> d[t].rows[k]] => rows = d[t].rows
  OBVIOUS
<1> HIDE DEF rows
<1>4. e[t].columns = d[t].columns /\ e[t].rows = rows BY <1>1 DEF Tables
<1>5. ASSUME NEW k \in DOMAIN d[t].rows, NEW c \in DOMAIN d[t].rows[k]
      PROVE  c \in DOMAIN e[t].rows[k] /\ e[t].rows[k][c] \in {d[t].rows[k][c], Default}
  <2>1. e[t].rows[k] = Tenant(d[t].rows[k]) BY <1>3, <1>4
  <2>2. QED BY <1>2, <2>1
<1>6. e[t].columns = d[t].columns /\ DOMAIN e[t].rows = DOMAIN d[t].rows
      /\ e[t].rows = [k \in DOMAIN e[t].rows |-> e[t].rows[k]]
  BY <1>3, <1>4
<1>7. QED BY <1>3, <1>4, <1>5, <1>6 DEF Backfilled

(* The columns that become references came with 0006. *)
LEMMA KeyedAdded ==
    ASSUME NEW t, NEW c, Came(Keyed, t, c)
    PROVE  Came(Added, t, c) /\ Added[t][c][1] = 6 /\ Added[t][c][2] \in 10..14 /\ t \in LedgerTables
BY KeyedNames, KeyedIs, AddedIs DEF LedgerTables

LEMMA SeedsAre ==
    /\ DOMAIN Seeds = {"organizations", "repositories", "evidence_sources"}
    /\ Seeds["organizations"] = 7 /\ Seeds["repositories"] = 8 /\ Seeds["evidence_sources"] = 9
BY DEF Seeds

LEMMA Length6 == Upgrade[6] = Up0006 /\ Len(Upgrade[6]) = 23 /\ 6 \in 1..LastRevision
<1>1. Upgrade[6] = Up0006 BY ScriptOf
<1>2. Len(Up0006) = 23 BY Lengths
<1>3. QED BY <1>1, <1>2 DEF LastRevision

(* The tables that are there while 0006 is at work. *)
LEMMA TablesThen ==
    ASSUME NEW done \in 0..22, NEW d, Built(d, Present(6, "up", done))
    PROVE  /\ LedgerTables \subseteq Tables(d)
           /\ done >= 6 => DOMAIN Seeds \subseteq Tables(d)
           /\ \A t \in LedgerTables : \A c : Came(Keyed, t, c) =>
                 (c \in d[t].columns <=> Added[t][c][2] <= done)
<1>1. 6 \in 1..LastRevision /\ done \in Nat /\ done <= Len(Upgrade[6])
  BY Length6
<1>2. ASSUME NEW t \in DOMAIN Born, Born[t][1] < 6 \/ (Born[t][1] = 6 /\ Born[t][2] <= done)
      PROVE  t \in Tables(d)
  <2>1. <<t, "table", t>> \in Present(6, "up", done) BY <1>1, <1>2, TablePlace, PresentUp
  <2>2. QED BY <2>1, HasParts DEF Built
<1>3. LedgerTables \subseteq Tables(d) BY <1>2, BornIs DEF LedgerTables
<1>4. done >= 6 => DOMAIN Seeds \subseteq Tables(d) BY <1>2, BornIs, SeedsAre
<1>5. ASSUME NEW t \in LedgerTables, NEW c, Came(Keyed, t, c)
      PROVE  c \in d[t].columns <=> Added[t][c][2] <= done
  <2>1. Came(Added, t, c) /\ Added[t][c][1] = 6 BY <1>5, KeyedAdded
  <2>2. Comes(<<t, "column", c>>) /\ Place(<<t, "column", c>>) = Added[t][c] BY <2>1, ColumnHasPlace
  <2>3. <<t, "column", c>> \in Present(6, "up", done) <=> Added[t][c][2] <= done
    BY <1>1, <2>1, <2>2, PresentUp
  <2>4. t \in Tables(d) BY <1>3
  <2>5. QED BY <2>3, <2>4, HasParts DEF Built
<1>6. QED BY <1>3, <1>4, <1>5

(* The seeded rows stay. *)
LEMMA SeededStep ==
    ASSUME NEW done \in 0..22, NEW next, next = done + 1, NEW s, s = Up0006[next],
           NEW d, Built(d, Present(6, "up", done)), Possible(d, s), Seeded(d, done)
    PROVE  Seeded(After(d, s), next)
<1> DEFINE e == After(d, s)
<1>1. next \in 1..23 OBVIOUS
<1>2. SUFFICES ASSUME NEW t \in DOMAIN Seeds, next >= Seeds[t] PROVE Default \in DOMAIN e[t].rows
  BY DEF Seeded
<1>3. Seeds[t] \in 7..9 BY SeedsAre
<1>4. t \in Tables(d) /\ t \notin LedgerTables
  <2>1. done >= 6 BY <1>2, <1>3
  <2>2. QED BY <2>1, TablesThen, SeedsAre DEF LedgerTables
<1>5. CASE next = Seeds[t]
  <2>1. s.op = "insert" /\ s.table \in DOMAIN Seeds /\ Seeds[s.table] = next /\ s.key = Default
    BY <1>1, <1>3, <1>5, Filler
  <2>2. s.table = t BY <1>5, <2>1, SeedsAre
  <2>3. e = [d EXCEPT ![t].rows = Put(@, s.key, s.row)] BY <2>1, <2>2 DEF After, Effect
  <2>4. "rows" \in DOMAIN d[t] BY <1>4 DEF Built
  <2>5. e[t].rows = Put(d[t].rows, s.key, s.row) BY <1>4, <2>3, <2>4 DEF Tables
  <2>6. QED BY <2>1, <2>5 DEF Put
<1>6. CASE next # Seeds[t]
  <2>1. done >= Seeds[t] BY <1>2, <1>3, <1>6
  <2>2. Default \in DOMAIN d[t].rows BY <2>1 DEF Seeded
  <2>3. e[t] = d[t]
    <3>1. next > 7 BY <1>2, <1>3, <1>6
    <3>2. CASE next \in 7..9
      <4>1. s.op = "insert" /\ Seeds[s.table] = next BY <1>1, <3>2, Filler
      <4>2. QED BY <1>4, <1>6, <4>1, OtherTables
    <3>3. CASE next \in 10..23
      <4>1. s.table \in LedgerTables BY <1>1, <3>3, Filler
      <4>2. s.op \in {"add_column", "create_foreign_key"} \/ (s.op = "update" /\ s.what = "tenant")
        BY <1>1, <3>3, Filler
      <4>3. t # s.table BY <1>4, <4>1
      <4>4. QED BY <1>4, <4>2, <4>3, OtherTables
    <3>4. QED BY <1>1, <3>1, <3>2, <3>3
  <2>4. QED BY <2>2, <2>3
<1>7. QED BY <1>5, <1>6

(* What a statement of 0006 does to a table of the ledger. *)
LEMMA LedgerStep ==
    ASSUME NEW done \in 0..22, NEW next, next = done + 1, NEW s, s = Up0006[next],
           NEW d, Built(d, Present(6, "up", done)), Possible(d, s), NEW t \in LedgerTables,
           NEW e, e = After(d, s)
    PROVE  /\ t \in Tables(d) /\ {"columns", "refers", "guarded", "rows"} \subseteq DOMAIN d[t]
           /\ \/ e[t].rows = d[t].rows /\ e[t].columns = d[t].columns
              \/ s.table = t /\ s.op = "add_column" /\ Widened(d, e, t, s.column, None)
              \/ s.table = t /\ s.op = "update" /\ s.what = "tenant"
<1>1. next \in 1..23 OBVIOUS
<1>2. t \in Tables(d) /\ {"columns", "refers", "guarded", "rows"} \subseteq DOMAIN d[t]
  BY TablesThen DEF Built
<1>3. CASE s.table # t \/ s.op = "create_table"
  <2>1. \/ s.op = "create_table"
        \/ s.op \in {"insert", "add_column", "create_foreign_key"}
        \/ s.op = "update" /\ s.what = "tenant"
    BY <1>1, Filler
  <2>2. e[t] = d[t] BY <1>2, <1>3, <2>1, OtherTables
  <2>3. QED BY <1>2, <2>2
<1>4. CASE s.table = t /\ s.op # "create_table"
  <2>1. s.op # "insert" BY <1>1, <1>4, Filler, SeedsAre DEF LedgerTables
  <2>2. CASE s.op = "add_column"
    <3>1. s.default = None BY <1>1, <2>2, Filler
    <3>2. Widened(d, After(d, s), s.table, s.column, s.default) BY <1>2, <1>4, <2>2, ColumnAdded
    <3>3. QED BY <1>2, <1>4, <2>2, <3>1, <3>2
  <2>3. CASE s.op = "create_foreign_key"
    <3>1. PICK key : e = [d EXCEPT ![t].refers = @ \union {key}] BY <1>4, <2>3 DEF After, Effect
    <3>2. e[t].rows = d[t].rows /\ e[t].columns = d[t].columns BY <1>2, <3>1 DEF Tables
    <3>3. QED BY <1>2, <3>2
  <2>4. QED BY <1>1, <1>2, <1>4, <2>1, <2>2, <2>3, Filler
<1>5. QED BY <1>3, <1>4

(* A column that becomes a reference holds NULL or the seeded row. *)
LEMMA TenantedStep ==
    ASSUME NEW done \in 0..22, NEW next, next = done + 1, NEW s, s = Up0006[next],
           NEW d, Built(d, Present(6, "up", done)), Possible(d, s), Tenanted(d)
    PROVE  Tenanted(After(d, s))
<1> DEFINE e == After(d, s)
<1>1. SUFFICES ASSUME NEW t \in DOMAIN Keyed, NEW c \in DOMAIN Keyed[t] \intersect e[t].columns,
                      NEW k \in DOMAIN e[t].rows
               PROVE  c \in DOMAIN e[t].rows[k] /\ e[t].rows[k][c] \in {None, Default}
  BY DEF Tenanted
<1>2. Came(Keyed, t, c) BY DEF Came
<1>3. t \in LedgerTables BY <1>2, KeyedAdded
<1>4. /\ t \in Tables(d) /\ {"columns", "refers", "guarded", "rows"} \subseteq DOMAIN d[t]
      /\ \/ e[t].rows = d[t].rows /\ e[t].columns = d[t].columns
         \/ s.table = t /\ s.op = "add_column" /\ Widened(d, e, t, s.column, None)
         \/ s.table = t /\ s.op = "update" /\ s.what = "tenant"
  BY <1>3, LedgerStep
<1>5. ASSUME NEW j \in DOMAIN d[t].rows, c \in d[t].columns
      PROVE  c \in DOMAIN d[t].rows[j] /\ d[t].rows[j][c] \in {None, Default}
  BY <1>5 DEF Tenanted
<1>6. CASE e[t].rows = d[t].rows /\ e[t].columns = d[t].columns BY <1>5, <1>6
<1>7. CASE s.table = t /\ s.op = "add_column" /\ Widened(d, e, t, s.column, None)
  <2> HIDE DEF e
  <2>1. k \in DOMAIN d[t].rows BY <1>7 DEF Widened, Altered
  <2>2. CASE c = s.column BY <1>7, <2>1, <2>2 DEF Widened
  <2>3. CASE c # s.column
    <3>1. c \in d[t].columns BY <1>7, <2>3 DEF Widened
    <3>2. c \in DOMAIN d[t].rows[k] /\ d[t].rows[k][c] \in {None, Default} BY <1>5, <2>1, <3>1
    <3>3. c \in DOMAIN e[t].rows[k] /\ e[t].rows[k][c] = d[t].rows[k][c]
      BY <1>7, <2>1, <2>3, <3>2 DEF Widened
    <3>4. QED BY <3>2, <3>3
  <2>4. QED BY <2>2, <2>3
<1>8. CASE s.table = t /\ s.op = "update" /\ s.what = "tenant"
  <2>1. /\ e[t].columns = d[t].columns /\ DOMAIN e[t].rows = DOMAIN d[t].rows
        /\ \A j \in DOMAIN d[t].rows : \A x \in DOMAIN d[t].rows[j] :
              x \in DOMAIN e[t].rows[j] /\ e[t].rows[j][x] \in {d[t].rows[j][x], Default}
    <3>1. e = After(d, s) OBVIOUS
    <3> HIDE DEF e
    <3>2. t = s.table BY <1>8
    <3>3. {"columns", "refers", "guarded", "rows"} \subseteq DOMAIN d[t] /\ t \in Tables(d) BY <1>4
    <3>4. Backfilled(d, e, t) BY <1>8, <3>1, <3>2, <3>3, TenantRows
    <3>5. QED BY <3>4 DEF Backfilled
  <2> HIDE DEF e
  <2>2. k \in DOMAIN d[t].rows /\ c \in d[t].columns BY <2>1
  <2>3. c \in DOMAIN d[t].rows[k] /\ d[t].rows[k][c] \in {None, Default} BY <1>5, <2>2
  <2>4. QED BY <2>1, <2>2, <2>3
<1>9. QED BY <1>4, <1>6, <1>7, <1>8

(* The rows of review_events are a function once 0006 has rewritten them. *)
LEMMA ListedStep ==
    ASSUME NEW done \in 0..22, NEW next, next = done + 1, NEW s, s = Up0006[next],
           NEW d, Built(d, Present(6, "up", done)), Possible(d, s), Listed(d)
    PROVE  Listed(After(d, s))
<1> DEFINE e == After(d, s)
           t == "review_events"
<1>1. /\ t \in Tables(d) /\ {"columns", "refers", "guarded", "rows"} \subseteq DOMAIN d[t]
      /\ \/ e[t].rows = d[t].rows /\ e[t].columns = d[t].columns
         \/ s.table = t /\ s.op = "add_column" /\ Widened(d, e, t, s.column, None)
         \/ s.table = t /\ s.op = "update" /\ s.what = "tenant"
  <2>1. PICK u, f : u = t /\ f = e OBVIOUS
  <2>2. u \in LedgerTables /\ f = After(d, s) BY <2>1 DEF LedgerTables
  <2>3. /\ u \in Tables(d) /\ {"columns", "refers", "guarded", "rows"} \subseteq DOMAIN d[u]
        /\ \/ f[u].rows = d[u].rows /\ f[u].columns = d[u].columns
           \/ s.table = u /\ s.op = "add_column" /\ Widened(d, f, u, s.column, None)
           \/ s.table = u /\ s.op = "update" /\ s.what = "tenant"
    BY <2>2, LedgerStep
  <2>4. QED BY <2>1, <2>3
<1>2. CASE e[t].rows = d[t].rows /\ e[t].columns = d[t].columns BY <1>2 DEF Listed
<1>3. CASE s.table = t /\ s.op = "add_column"
  <2> DEFINE rows == Filled(d[t].rows, s.column, [k \in DOMAIN d[t].rows |-> s.default])
  <2>1. e = [d EXCEPT ![t].columns = @ \union {s.column}, ![t].rows = rows] BY <1>3 DEF After, Effect
  <2>2. rows = [k \in DOMAIN rows |-> rows[k]] BY DEF Filled
  <2> HIDE DEF e, rows
  <2>3. e[t].rows = rows BY <1>1, <2>1 DEF Tables
  <2>4. Listed(e) BY <2>2, <2>3 DEF Listed
  <2>5. QED BY <2>4 DEF e
<1>4. CASE s.table = t /\ s.op = "update" /\ s.what = "tenant"
  <2>1. e[t].rows = [k \in DOMAIN e[t].rows |-> e[t].rows[k]]
    <3>1. e = After(d, s) OBVIOUS
    <3> HIDE DEF e, t
    <3>2. t = s.table BY <1>4
    <3>3. {"columns", "refers", "guarded", "rows"} \subseteq DOMAIN d[t] /\ t \in Tables(d) BY <1>1
    <3>4. Backfilled(d, e, t) BY <1>4, <3>1, <3>2, <3>3, TenantRows
    <3>5. QED BY <3>4 DEF Backfilled
  <2>2. QED BY <2>1 DEF Listed
<1>5. QED BY <1>1, <1>2, <1>3, <1>4

(* The references that 0006 makes hold, and so do those of the rows it inserts. *)
LEMMA KeysHold ==
    ASSUME NEW done \in 0..22, NEW next, next = done + 1, NEW s, s = Up0006[next],
           NEW d, Built(d, Present(6, "up", done)), Filling(d, done), s.op = "create_foreign_key"
    PROVE  \A k \in DOMAIN d[s.table].rows : Refers(d, d[s.table].rows[k], s.column, s.to)
<1>1. next \in 1..23 OBVIOUS
<1>2. next \in 19..23 /\ s.table \in LedgerTables /\ s.to \in DOMAIN Seeds BY <1>1, Filler
<1>3. Default \in DOMAIN d[s.to].rows
  <2>1. done >= Seeds[s.to] BY <1>2, SeedsAre
  <2>2. QED BY <1>2, <2>1 DEF Filling, Seeded
<1>4. Came(Keyed, s.table, s.column)
  <2>1. next \in 1..Len(Upgrade[6]) /\ Upgrade[6][next] = s /\ 6 \in 1..LastRevision
    BY <1>1, Length6
  <2>2. Fits(6, next, s) BY <2>1, UpgradeFits
  <2>3. QED BY <2>2 DEF Fits, InPlace
<1>5. s.column \in d[s.table].columns
  <2>1. Added[s.table][s.column][2] \in 10..14 BY <1>4, KeyedAdded
  <2>2. Added[s.table][s.column][2] <= done BY <1>2, <2>1
  <2>3. QED BY <1>2, <1>4, <2>2, TablesThen
<1>6. ASSUME NEW k \in DOMAIN d[s.table].rows PROVE d[s.table].rows[k][s.column] \in {None, Default}
  BY <1>4, <1>5 DEF Filling, Tenanted, Came
<1>7. QED BY <1>3, <1>6 DEF Refers

LEMMA SeedsHold ==
    ASSUME NEW done \in 0..22, NEW next, next = done + 1, NEW s, s = Up0006[next],
           NEW d, Built(d, Present(6, "up", done)), Filling(d, done), s.op = "insert"
    PROVE  \A r \in d[s.table].refers : Refers(d, s.row, r[1], r[2])
<1>1. next \in 1..23 OBVIOUS
<1>2. next \in 7..9 /\ s.table \in DOMAIN Seeds /\ Seeds[s.table] = next BY <1>1, Filler
<1>3. 6 \in 1..LastRevision /\ done \in Nat /\ done <= Len(Upgrade[6])
  BY Length6
<1>4. PICK t : t = s.table OBVIOUS
<1>5. t \in Tables(d)
  <2>1. done >= 6 BY <1>2
  <2>2. QED BY <1>2, <1>4, <2>1, TablesThen
<1>6. SUFFICES ASSUME NEW r \in d[t].refers PROVE Refers(d, s.row, r[1], r[2]) BY <1>4
<1>7. PICK e : e = <<t, "reference", r>> OBVIOUS
<1>8. e \in Present(6, "up", done) BY <1>5, <1>7, HasParts DEF Built
<1>9. Comes(e) BY <1>3, <1>8, PresentUp
<1>10. Place(e) = Born[t]
  <2>1. ~Came(Keyed, t, r[1]) BY <1>2, <1>4, KeyedNames, SeedsAre
  <2>2. QED BY <1>7, <2>1 DEF Place, ReferencePlace
<1>11. PICK x : x = Born[t][2] OBVIOUS
<1>12. Born[t] = <<6, x>> /\ (next = 7 => x = 1) /\ (next = 8 => x = 4) /\ (next = 9 => x = 5)
  BY <1>2, <1>4, <1>11, BornIs, SeedsAre
<1>13. e \in Brings(Up0006[x]) BY <1>9, <1>10, <1>12, ScriptOf DEF Comes
<1>14. r \in Up0006[x].refers
  <2>1. Up0006[x].op = "create_table"
    <3>1. x \in 1..23 /\ x <= 6 BY <1>2, <1>12
    <3>2. QED BY <3>1, Filler
  <2>2. QED BY <1>7, <1>13, <2>1, BringsParts
<1>15. \A u \in DOMAIN Seeds : Seeds[u] < next => Default \in DOMAIN d[u].rows
  BY <1>2, SeedsAre DEF Filling, Seeded
<1>16. CASE next = 7
  <2>1. Up0006[1].refers = {} BY DEF Up0006, CreateTable
  <2>2. QED BY <1>12, <1>14, <1>16, <2>1
<1>17. CASE next = 8
  <2>1. Up0006[4].refers = {<<"organization_id", "organizations">>} BY DEF Up0006, CreateTable
  <2>2. r = <<"organization_id", "organizations">> BY <1>12, <1>14, <1>17, <2>1
  <2>3. s.row = [organization_id |-> Default] BY <1>17 DEF Up0006, Insert
  <2>4. Default \in DOMAIN d["organizations"].rows BY <1>15, <1>17, SeedsAre
  <2>5. QED BY <2>2, <2>3, <2>4 DEF Refers
<1>18. CASE next = 9
  <2>1. Up0006[5].refers = {<<"organization_id", "organizations">>, <<"repository_id", "repositories">>}
    BY DEF Up0006, CreateTable
  <2>2. r \in {<<"organization_id", "organizations">>, <<"repository_id", "repositories">>}
    BY <1>12, <1>14, <1>18, <2>1
  <2>3. s.row = [organization_id |-> Default, repository_id |-> Default] BY <1>18 DEF Up0006, Insert
  <2>4. Default \in DOMAIN d["organizations"].rows /\ Default \in DOMAIN d["repositories"].rows
    BY <1>15, <1>18, SeedsAre
  <2>5. QED BY <2>2, <2>3, <2>4 DEF Refers
<1>19. QED BY <1>2, <1>16, <1>17, <1>18

(* So 0006 goes from statement to statement. *)
LEMMA FillingStep ==
    ASSUME NEW done \in 0..22, NEW next, next = done + 1, NEW s, s = Up0006[next],
           NEW d, Built(d, Present(6, "up", done)), Possible(d, s), Filling(d, done)
    PROVE  Filling(After(d, s), next)
BY SeededStep, TenantedStep, ListedStep DEF Filling

LEMMA FillingFirst ==
    ASSUME NEW d, Built(d, Present(6, "up", 0)) PROVE Filling(d, 0)
<1>1. Seeded(d, 0) BY SeedsAre DEF Seeded
<1>2. 0 \in 0..22 OBVIOUS
<1>3. LedgerTables \subseteq Tables(d)
      /\ \A t \in LedgerTables : \A c : Came(Keyed, t, c) => (c \in d[t].columns <=> Added[t][c][2] <= 0)
  BY <1>2, TablesThen
<1>4. \A t, c : Came(Keyed, t, c) => c \notin d[t].columns BY <1>3, KeyedAdded
<1>5. Tenanted(d) BY <1>4 DEF Tenanted, Came
<1>6. Listed(d) BY <1>4, KeyedIs DEF Listed
<1>7. QED BY <1>1, <1>5, <1>6 DEF Filling

-----------------------------------------------------------------------------
(* What a statement does to the facts about a run *)

(* Every table has its parts. *)
Shaped(d) == \A t \in Tables(d) : {"columns", "refers", "guarded", "rows"} \subseteq DOMAIN d[t]

(* The column of runs that a statement adds or fills. *)
Renewed(s) == IF s.op = "add_column" /\ s.table = "runs" THEN {s.column}
              ELSE {c \in {"review_status"} : s.op = "update" /\ s.what = "review_status"}

(* e has the runs of d, with the facts they have in both, but for some columns. *)
Retains(d, e, but) ==
    /\ DOMAIN e["runs"].rows = DOMAIN d["runs"].rows
    /\ \A c \in Facts \ but :
          /\ c \in e["runs"].columns => c \in d["runs"].columns
          /\ \A k \in DOMAIN d["runs"].rows :
                /\ c \in DOMAIN e["runs"].rows[k] => c \in DOMAIN d["runs"].rows[k]
                /\ c \in DOMAIN d["runs"].rows[k] /\ (c \in DOMAIN e["runs"].rows[k] \/ c \in e["runs"].columns)
                       => e["runs"].rows[k][c] = d["runs"].rows[k][c]

LEMMA SameRunsRetained == ASSUME NEW d, NEW e, e["runs"] = d["runs"], NEW but PROVE Retains(d, e, but)
BY DEF Retains

(* The rows of runs were rewritten, with the same keys and facts. *)
LEMMA RowsRetained ==
    ASSUME NEW d, NEW e, NEW rows, NEW but, "runs" \in Tables(d),
           {"columns", "refers", "guarded", "rows"} \subseteq DOMAIN d["runs"],
           e["runs"] = [d["runs"] EXCEPT !.rows = rows],
           DOMAIN rows = DOMAIN d["runs"].rows,
           \A k \in DOMAIN rows : \A c \in Facts \ but :
              /\ c \in DOMAIN rows[k] <=> c \in DOMAIN d["runs"].rows[k]
              /\ c \in DOMAIN rows[k] => rows[k][c] = d["runs"].rows[k][c]
    PROVE  Retains(d, e, but)
<1>1. e["runs"].rows = rows /\ e["runs"].columns = d["runs"].columns OBVIOUS
<1>2. QED BY <1>1 DEF Retains

(* New bodies and digests say nothing else of a run. *)
LEMMA ResealRetains ==
    ASSUME NEW d, NEW f, NEW sealed \in BOOLEAN, NEW but, "runs" \in Tables(d),
           {"columns", "refers", "guarded", "rows"} \subseteq DOMAIN d["runs"]
    PROVE  Retains(d, Reseal(d, f, sealed), but)
<1> DEFINE e == Reseal(d, f, sealed)
           runs == d["runs"].rows
           packs == d["evidence_packs"].rows
           newPacks == [k \in DOMAIN packs |-> [packs[k] EXCEPT !.body = f[k], !.sha256 = f[k]]]
           newRuns == IF sealed
                      THEN [k \in DOMAIN runs |-> [runs[k] EXCEPT !.evidence_sha256 = newPacks[k].body]]
                      ELSE runs
<1>1. e = [d EXCEPT !["evidence_packs"].rows = newPacks, !["runs"].rows = newRuns] BY DEF Reseal
<1>2. DOMAIN newRuns = DOMAIN runs OBVIOUS
<1>3. ASSUME NEW k \in DOMAIN newRuns, NEW c \in Facts
      PROVE  /\ c \in DOMAIN newRuns[k] <=> c \in DOMAIN runs[k]
             /\ c \in DOMAIN newRuns[k] => newRuns[k][c] = runs[k][c]
  <2> HIDE DEF newPacks
  <2>1. CASE sealed
    <3>1. newRuns[k] = [runs[k] EXCEPT !.evidence_sha256 = newPacks[k].body] BY <1>2, <1>3, <2>1
    <3>2. c # "evidence_sha256" BY <1>3 DEF Facts
    <3> HIDE DEF newRuns
    <3>3. QED BY <3>1, <3>2
  <2>2. CASE ~sealed BY <2>2
  <2>3. QED BY <2>1, <2>2
<1> HIDE DEF e, newPacks, newRuns
<1>4. e["runs"] = [d["runs"] EXCEPT !.rows = newRuns] BY <1>1 DEF Tables
<1>5. Retains(d, e, but) BY <1>2, <1>3, <1>4, RowsRetained
<1>6. QED BY <1>5 DEF e

(* 0006 gives a run an organization. *)
LEMMA TenantRetains ==
    ASSUME NEW d, NEW s, s.op = "update", s.what = "tenant", "runs" \in Tables(d), NEW but,
           {"columns", "refers", "guarded", "rows"} \subseteq DOMAIN d["runs"]
    PROVE  Retains(d, After(d, s), but)
<1> DEFINE t == s.table
           e == After(d, s)
           given == IF t = "runs" THEN {"organization_id", "repository_id", "evidence_source_id"}
                    ELSE {"organization_id"}
           Tenant(row) == IF row.organization_id = None THEN Over([c \in given |-> Default], row) ELSE row
           rows == [k \in DOMAIN d[t].rows |-> Tenant(d[t].rows[k])]
<1>1. e = [d EXCEPT ![t].rows = rows] BY DEF After, Updated, BackfillTenant
<1>2. CASE t = "runs"
  <2>1. given \intersect Facts = {} BY DEF Facts
  <2>2. ASSUME NEW row, NEW c \in Facts
        PROVE  /\ c \in DOMAIN Tenant(row) <=> c \in DOMAIN row
               /\ c \in DOMAIN Tenant(row) => Tenant(row)[c] = row[c]
    BY <2>1 DEF Over
  <2> HIDE DEF given, Tenant, e
  <2>3. DOMAIN rows = DOMAIN d["runs"].rows /\ \A k \in DOMAIN rows : rows[k] = Tenant(d["runs"].rows[k])
    BY <1>2
  <2> HIDE DEF rows
  <2>4. e["runs"] = [d["runs"] EXCEPT !.rows = rows] BY <1>1, <1>2 DEF Tables
  <2>5. Retains(d, e, but) BY <2>2, <2>3, <2>4, RowsRetained
  <2>6. QED BY <2>5 DEF e
<1>3. CASE t # "runs"
  <2> HIDE DEF e, rows
  <2>1. e["runs"] = d["runs"] BY <1>1, <1>3 DEF Tables
  <2>2. Retains(d, e, but) BY <2>1, SameRunsRetained
  <2>3. QED BY <2>2 DEF e
<1>4. QED BY <1>2, <1>3

(* No UPDATE of the revisions writes a fact about a run but 0003, which has just added it. *)
LEMMA UpdateRetains ==
    ASSUME NEW d, NEW s, s.op = "update", s.what \in Rewrites, "runs" \in Tables(d),
           {"columns", "refers", "guarded", "rows"} \subseteq DOMAIN d["runs"]
    PROVE  Retains(d, After(d, s), Renewed(s))
<1>1. After(d, s) = Updated(d, s.table, s.what) BY DEF After
<1>2. CASE s.what = "add_policy_version"
  BY <1>1, <1>2, ResealRetains DEF Updated, RewriteEvidenceBodies
<1>3. CASE s.what = "pop_policy_version"
  BY <1>1, <1>3, ResealRetains DEF Updated, RewriteEvidenceBodies
<1>4. CASE s.what = "add_review_fields"
  BY <1>1, <1>4, ResealRetains DEF Updated, RewriteEvidenceReviewFields
<1>5. CASE s.what = "pop_review_fields"
  BY <1>1, <1>5, ResealRetains DEF Updated, RewriteEvidenceReviewFields
<1>6. CASE s.what = "add_review_events"
  BY <1>1, <1>6, ResealRetains DEF Updated, RewriteEvidenceReviewEvents
<1>7. CASE s.what = "pop_review_events"
  BY <1>1, <1>7, ResealRetains DEF Updated, RewriteEvidenceReviewEvents
<1>8. CASE s.what = "backfill"
  <2>1. PICK rows : BackfillReviewEvents(d) = [d EXCEPT !["review_events"].rows = rows]
    BY DEF BackfillReviewEvents
  <2>2. After(d, s) = [d EXCEPT !["review_events"].rows = rows] BY <1>1, <1>8, <2>1 DEF Updated
  <2>3. After(d, s)["runs"] = d["runs"] BY <2>2 DEF Tables
  <2>4. QED BY <2>3, SameRunsRetained
<1>9. CASE s.what = "review_status"
  <2> DEFINE e == After(d, s)
             runs == d["runs"].rows
             Initial == [k \in DOMAIN runs |->
                            IF runs[k].decision = "review" THEN "pending" ELSE "not_required"]
             rows == Filled(runs, "review_status", Initial)
  <2>1. e = [d EXCEPT !["runs"].rows = rows] BY <1>1, <1>9 DEF Updated, UpdateReviewStatus
  <2>2. Renewed(s) = {"review_status"} BY <1>9 DEF Renewed
  <2>3. DOMAIN rows = DOMAIN runs
        /\ \A k \in DOMAIN rows : \A c \in Facts \ {"review_status"} :
              /\ c \in DOMAIN rows[k] <=> c \in DOMAIN runs[k]
              /\ c \in DOMAIN rows[k] => rows[k][c] = runs[k][c]
    BY DEF Filled, Put
  <2> HIDE DEF e, rows
  <2>4. e["runs"] = [d["runs"] EXCEPT !.rows = rows] BY <2>1 DEF Tables
  <2>5. Retains(d, e, Renewed(s)) BY <2>2, <2>3, <2>4, RowsRetained
  <2>6. QED BY <2>5 DEF e
<1>10. CASE s.what = "tenant" BY <1>10, TenantRetains
<1>11. QED BY <1>2, <1>3, <1>4, <1>5, <1>6, <1>7, <1>8, <1>9, <1>10 DEF Rewrites

(* The statements there are. *)
LEMMA StatementForms ==
    ASSUME NEW n \in 1..LastRevision, NEW way \in {"up", "down"}, NEW i \in 1..Len(Scripts(n, way)),
           NEW s, s = Scripts(n, way)[i]
    PROVE  /\ s.op \in TableOps \union ColumnOps \union GuardOps \union {"insert", "update"}
           /\ s.op = "update" => s.what \in Rewrites
           /\ s.op = "insert" => s.table # "runs"
<1>1. CASE way = "up"
  <2>1. i \in 1..Len(Upgrade[n]) /\ s = Upgrade[n][i] BY <1>1 DEF Scripts
  <2>2. Fits(n, i, s) BY <2>1, UpgradeFits
  <2>3. ASSUME s.op = "insert" PROVE s.table # "runs"
    <3>1. n = 6 BY <2>1, <2>3, RowOps
    <3>2. i \in 1..23 /\ s = Up0006[i] BY <2>1, <3>1, Length6
    <3>3. s.table \in DOMAIN Seeds BY <2>3, <3>2, Filler
    <3>4. QED BY <3>3, SeedsAre
  <2>4. QED BY <2>2, <2>3 DEF Fits, InPlace, BringingOps, TableOps, ColumnOps, GuardOps
<1>2. CASE way = "down"
  <2>1. i \in 1..Len(Downgrade[n]) /\ s = Downgrade[n][i] BY <1>2 DEF Scripts
  <2>2. DownFits(n, i, s) BY <2>1, DowngradeFits
  <2>3. QED BY <2>2 DEF DownFits, Drops, TableOps, ColumnOps, GuardOps
<1>3. QED BY <1>1, <1>2

(* Nor does any other statement. *)
LEMMA StatementRetains ==
    ASSUME NEW n \in 1..LastRevision, NEW way \in {"up", "down"}, NEW i \in 1..Len(Scripts(n, way)),
           NEW s, s = Scripts(n, way)[i], NEW d, Possible(d, s), "runs" \in Tables(d),
           Shaped(d), "runs" \in Tables(After(d, s))
    PROVE  Retains(d, After(d, s), Renewed(s))
<1> DEFINE e == After(d, s)
<1>1. /\ s.op \in TableOps \union ColumnOps \union GuardOps \union {"insert", "update"}
      /\ s.op = "update" => s.what \in Rewrites
      /\ s.op = "insert" => s.table # "runs"
  BY StatementForms
<1>2. CASE s.op = "update" BY <1>1, <1>2, UpdateRetains DEF Shaped
<1>3. CASE s.op = "create_table" BY <1>3, OtherTables, SameRunsRetained
<1>4. CASE s.op = "drop_table"
  <2>1. Removed(d, e, s.table) BY <1>4, TableDropped
  <2> HIDE DEF e
  <2>2. e["runs"] = d["runs"] BY <2>1 DEF e, Removed
  <2>3. QED BY <2>2, SameRunsRetained DEF e
<1>5. CASE s.op = "insert" BY <1>1, <1>5, OtherTables, SameRunsRetained
<1>6. s.op # "create_table" => s.table \in Tables(d) BY DEF Possible
<1>7. CASE s.op = "add_column"
  <2>1. Widened(d, e, s.table, s.column, s.default) BY <1>6, <1>7, ColumnAdded DEF Shaped
  <2> HIDE DEF e
  <2>2. CASE s.table = "runs"
    <3>1. Renewed(s) = {s.column} BY <1>7, <2>2 DEF Renewed
    <3>2. Retains(d, e, Renewed(s)) BY <2>1, <2>2, <3>1 DEF Retains, Widened, Altered
    <3>3. QED BY <3>2 DEF e
  <2>3. CASE s.table # "runs"
    <3>1. e["runs"] = d["runs"] BY <2>1, <2>3 DEF Widened, Altered
    <3>2. QED BY <3>1, SameRunsRetained DEF e
  <2>4. QED BY <2>2, <2>3
<1>8. CASE s.op = "drop_column"
  <2>1. Narrowed(d, e, s.table, s.column) BY <1>6, <1>8, ColumnDropped DEF Shaped
  <2> HIDE DEF e
  <2>2. CASE s.table = "runs"
    <3>1. Retains(d, e, Renewed(s)) BY <2>1, <2>2 DEF Retains, Narrowed, Altered
    <3>2. QED BY <3>1 DEF e
  <2>3. CASE s.table # "runs"
    <3>1. e["runs"] = d["runs"] BY <2>1, <2>3 DEF Narrowed, Altered
    <3>2. QED BY <3>1, SameRunsRetained DEF e
  <2>4. QED BY <2>2, <2>3
<1>9. CASE s.op \in GuardOps
  <2>1. e["runs"].rows = d["runs"].rows /\ e["runs"].columns = d["runs"].columns
    <3>1. CASE s.op = "create_foreign_key" BY <3>1 DEF After, Effect, Tables, Shaped
    <3>2. CASE s.op = "drop_constraint" BY <3>2 DEF After, Effect, Tables, Shaped
    <3>3. CASE s.op = "create_trigger" BY <3>3 DEF After, Effect, Tables, Shaped
    <3>4. CASE s.op = "drop_trigger" BY <3>4 DEF After, Effect, Tables, Shaped
    <3>5. QED BY <1>9, <3>1, <3>2, <3>3, <3>4 DEF GuardOps
  <2>2. QED BY <2>1 DEF Retains
<1>10. QED BY <1>1, <1>2, <1>3, <1>4, <1>5, <1>7, <1>8, <1>9 DEF TableOps, ColumnOps

(* What is written anew has just been added, by a revision up to 0003. *)
LEMMA RenewedNow ==
    ASSUME NEW n \in 1..LastRevision, NEW way \in {"up", "down"}, NEW i \in 1..Len(Scripts(n, way)),
           NEW s, s = Scripts(n, way)[i], NEW c \in Renewed(s) \intersect Facts
    PROVE  /\ way = "up" /\ n \in 2..3 /\ (n = 3 <=> c # "policy_version")
           /\ Place(<<"runs", "column", c>>)[1] = n
<1>1. CASE way = "up"
  <2>1. i \in 1..Len(Upgrade[n]) /\ s = Upgrade[n][i] BY <1>1 DEF Scripts
  <2>2. InPlace(n, i, s) BY <2>1, UpgradeFits DEF Fits
  <2>3. PICK e : e = <<"runs", "column", c>> OBVIOUS
  <2>4. ASSUME Came(Added, "runs", c) PROVE Place(e) = Added["runs"][c]
    BY <2>3, <2>4 DEF Place, ColumnPlace
  <2>5. CASE s.op = "add_column" /\ s.table = "runs" /\ c = s.column
    <3>1. Came(Added, "runs", c) /\ Added["runs"][c] = <<n, i>> BY <2>2, <2>5 DEF InPlace
    <3>2. c \in {"policy_version", "review_status", "review_outcome"}
      BY <3>1, AddedNames DEF Facts
    <3>3. CASE c = "policy_version"
      <4>1. <<n, i>> = <<2, 1>> BY <3>1, <3>3, AddedIs
      <4>2. n = 2 BY <4>1
      <4>3. QED BY <1>1, <2>3, <2>4, <3>1, <3>3, <4>2
    <3>4. CASE c # "policy_version"
      <4>1. <<n, i>> = <<3, 1>> \/ <<n, i>> = <<3, 2>> BY <3>1, <3>2, <3>4, AddedIs
      <4>2. n = 3 BY <4>1
      <4>3. QED BY <1>1, <2>3, <2>4, <3>1, <3>4, <4>2
    <3>5. QED BY <3>3, <3>4
  <2>6. CASE s.op = "update" /\ s.what = "review_status" /\ c = "review_status"
    <3>1. n \in {2, 3, 4, 6} BY <2>1, <2>6, RowOps
    <3>2. n # 2
      <4>1. SUFFICES ASSUME n = 2 PROVE FALSE OBVIOUS
      <4>2. Upgrade[n] = Up0002 /\ Len(Up0002) = 2 BY <4>1, Lengths, ScriptOf
      <4>3. s = Up0002[i] /\ i \in {1, 2} BY <2>1, <4>2
      <4>4. QED BY <2>6, <4>3 DEF Up0002, AddColumn, Update
    <3>3. n # 4
      <4>1. SUFFICES ASSUME n = 4 PROVE FALSE OBVIOUS
      <4>2. Upgrade[n] = Up0004 /\ Len(Up0004) = 3 BY <4>1, Lengths, ScriptOf
      <4>3. s = Up0004[i] /\ i \in {1, 2, 3} BY <2>1, <4>2
      <4>4. QED BY <2>6, <4>3 DEF Up0004, CreateTable, Update
    <3>4. n # 6
      <4>1. SUFFICES ASSUME n = 6 PROVE FALSE OBVIOUS
      <4>2. s = Up0006[i] /\ i \in 1..23 BY <2>1, <4>1, Length6
      <4>3. QED BY <2>6, <4>2, Filler
    <3>5. n = 3 BY <3>1, <3>2, <3>3, <3>4
    <3>6. Came(Added, "runs", c) /\ Added["runs"][c] = <<3, 1>> BY <2>6, AddedIs
    <3>7. QED BY <1>1, <2>3, <2>4, <2>6, <3>5, <3>6
  <2>7. QED BY <2>5, <2>6 DEF Renewed
<1>2. CASE way = "down"
  <2>1. i \in 1..Len(Downgrade[n]) /\ s = Downgrade[n][i] BY <1>2 DEF Scripts
  <2>2. DownFits(n, i, s) BY <2>1, DowngradeFits
  <2>3. s.op = "update" /\ s.what = "review_status" /\ n \in 2..4 /\ i = 1
    BY <2>2 DEF DownFits, Drops, Renewed
  <2>4. n # 2
    <3>1. SUFFICES ASSUME n = 2 PROVE FALSE OBVIOUS
    <3>2. s = Down0002[1] BY <2>1, <2>3, <3>1, ScriptOf
    <3>3. QED BY <2>3, <3>2 DEF Down0002, Update
  <2>5. n # 3
    <3>1. SUFFICES ASSUME n = 3 PROVE FALSE OBVIOUS
    <3>2. s = Down0003[1] BY <2>1, <2>3, <3>1, ScriptOf
    <3>3. QED BY <2>3, <3>2 DEF Down0003, Update
  <2>6. n # 4
    <3>1. SUFFICES ASSUME n = 4 PROVE FALSE OBVIOUS
    <3>2. s = Down0004[1] BY <2>1, <2>3, <3>1, ScriptOf
    <3>3. QED BY <2>3, <3>2 DEF Down0004, Update
  <2>7. QED BY <2>3, <2>4, <2>5, <2>6
<1>3. QED BY <1>1, <1>2

(* From 0002 on there is a ledger. *)
LEMMA AnyLedger ==
    ASSUME NEW n \in 2..LastRevision, NEW way, NEW done, NEW d, Before(d, n, way, done)
    PROVE  \E columns, fields : Ledger(d, columns, fields)
<1>1. CASE done = 0
  <2>1. PICK m : m = IF way = "up" THEN n - 1 ELSE n OBVIOUS
  <2>2. Standing(d, m) /\ m # 0 BY <1>1, <2>1 DEF Before
  <2>3. QED BY <2>2 DEF Standing
<1>2. CASE done # 0
  <2>1. Partway(d, n, way, done) BY <1>2 DEF Before
  <2>2. CASE n \in {2, 3, 4} BY <2>1, <2>2 DEF Partway
  <2>3. CASE n >= 5
    <3>1. Standing(d, n) /\ n # 0 BY <2>1, <2>3 DEF Partway
    <3>2. QED BY <3>1 DEF Standing
  <2>4. n \in {2, 3, 4} \/ n >= 5 BY DEF LastRevision
  <2>5. QED BY <2>2, <2>3, <2>4
<1>3. QED BY <1>1, <1>2

(* Only 0001 creates the table of runs. *)
LEMMA RunsBefore ==
    ASSUME NEW n \in 1..LastRevision, NEW way \in {"up", "down"}, NEW i \in 1..Len(Scripts(n, way)),
           NEW s, s = Scripts(n, way)[i], NEW done, NEW d, Before(d, n, way, done),
           "runs" \in Tables(After(d, s)), ~(n = 1 /\ way = "up")
    PROVE  "runs" \in Tables(d)
<1>1. CASE n = 1 /\ way = "down"
  <2>1. i \in 1..Len(Downgrade[n]) /\ s = Downgrade[n][i] BY <1>1 DEF Scripts
  <2>2. Downgrade[n] = Down0001 /\ Len(Down0001) = 3 BY <1>1, Lengths, ScriptOf
  <2>3. s = Down0001[i] /\ i \in {1, 2, 3} BY <2>1, <2>2
  <2>4. s.op = "drop_table" BY <2>3 DEF Down0001, DropTable
  <2>5. QED BY <2>4, TableDropped DEF Removed
<1>2. CASE n # 1
  <2>1. n \in 2..LastRevision BY <1>2 DEF LastRevision
  <2>2. QED BY <2>1, AnyLedger, LedgerShape
<1>3. QED BY <1>1, <1>2

-----------------------------------------------------------------------------
(* No upgrade up to 0006 reviews a run *)

(* No statement up to 0006 writes an outcome. *)
LEMMA ReviewedStep ==
    ASSUME NEW n \in 1..6, NEW done \in Nat, done < Len(Upgrade[n]), NEW next, next = done + 1,
           NEW s, s = Upgrade[n][next], NEW d, Before(d, n, "up", done), Possible(d, s), Shaped(d)
    PROVE  Reviewed(After(d, s)) \subseteq Reviewed(d)
<1> DEFINE e == After(d, s)
<1>1. n \in 1..LastRevision /\ next \in 1..Len(Upgrade[n])
  <2>1. n \in 1..LastRevision BY DEF LastRevision
  <2>2. Len(Upgrade[n]) \in Nat BY <2>1, NoEmptyScript DEF Scripts
  <2>3. QED BY <2>1, <2>2
<1>2. next \in 1..Len(Scripts(n, "up")) /\ s = Scripts(n, "up")[next] BY <1>1 DEF Scripts
<1>3. CASE s.op = "create_table" /\ s.table = "runs"
  <2>1. Created(d, e, "runs", s.columns) BY <1>3, TableCreated
  <2> HIDE DEF e
  <2>2. DOMAIN e["runs"].rows = {} BY <2>1, EmptyIsEmpty DEF Created
  <2>3. Reviewed(e) = {} BY <2>2 DEF Reviewed
  <2>4. QED BY <2>3 DEF e
<1>4. CASE s.op = "create_table" /\ s.table # "runs"
  <2>1. Created(d, e, s.table, s.columns) BY <1>4, TableCreated
  <2> HIDE DEF e
  <2>2. "runs" \in Tables(e) => "runs" \in Tables(d) /\ e["runs"] = d["runs"] BY <1>4, <2>1 DEF Created
  <2>3. Reviewed(e) \subseteq Reviewed(d) BY <2>2 DEF Reviewed
  <2>4. QED BY <2>3 DEF e
<1>5. CASE s.op # "create_table"
  <2>1. n # 1 BY <1>1, <1>5, RowOps
  <2>2. n \in 2..LastRevision BY <1>1, <2>1 DEF LastRevision
  <2>3. PICK columns, fields : Ledger(d, columns, fields) BY <2>2, AnyLedger
  <2>4. WellFormed(d) /\ "runs" \in Tables(d) BY <2>3, LedgerShape
  <2>5. SUFFICES ASSUME "runs" \in Tables(e), "review_outcome" \in e["runs"].columns
                 PROVE  Reviewed(e) \subseteq Reviewed(d)
    BY DEF Reviewed
  <2>6. Retains(d, e, Renewed(s)) BY <1>1, <1>2, <2>4, <2>5, StatementRetains
  <2>7. CASE "review_outcome" \notin Renewed(s)
    <3> HIDE DEF e
    <3>1. "review_outcome" \in Facts \ Renewed(s) BY <2>7 DEF Facts
    <3>2. "review_outcome" \in d["runs"].columns /\ DOMAIN e["runs"].rows = DOMAIN d["runs"].rows
      BY <2>5, <2>6, <3>1 DEF Retains
    <3>3. "runs" \in LedgerTables \intersect Tables(d) /\ "review_outcome" \in Tracked["runs"]
      BY <2>4, TrackedColumns DEF LedgerTables
    <3>4. ASSUME NEW k \in DOMAIN d["runs"].rows
          PROVE  e["runs"].rows[k]["review_outcome"] = d["runs"].rows[k]["review_outcome"]
      <4>1. "review_outcome" \in DOMAIN d["runs"].rows[k] BY <2>4, <3>2, <3>3, RowsHaveColumns
      <4>2. QED BY <2>5, <2>6, <3>1, <4>1 DEF Retains
    <3>5. QED BY <2>4, <2>5, <3>2, <3>4 DEF Reviewed
  <2>8. CASE "review_outcome" \in Renewed(s)
    <3>1. s.op = "add_column" /\ s.table = "runs" /\ s.column = "review_outcome" BY <2>8 DEF Renewed
    <3>2. InPlace(n, next, s) BY <1>1, UpgradeFits DEF Fits
    <3>3. <<n, next>> = <<3, 2>> BY <3>1, <3>2, AddedIs DEF InPlace
    <3>4. s = Up0003[2] BY <3>3, ScriptOf
    <3>5. s.default = None BY <3>4 DEF Up0003, AddColumn
    <3>6. Widened(d, e, "runs", "review_outcome", None) BY <2>4, <3>1, <3>5, ColumnAdded DEF Shaped
    <3> HIDE DEF e
    <3>7. \A k \in DOMAIN e["runs"].rows : e["runs"].rows[k]["review_outcome"] = None
      BY <3>6 DEF Widened, Altered
    <3>8. QED BY <3>7 DEF Reviewed
  <2>9. QED BY <2>7, <2>8
<1>6. QED BY <1>3, <1>4, <1>5

-----------------------------------------------------------------------------
(* What may stop a statement *)

(* What a call of alembic has in hand stands where the statements before it leave it. *)
LEMMA BeforeStatement ==
    ASSUME txn # None, Stands(txn), Executes
    PROVE  Before(txn.db, InHand(txn), Way(txn), txn.done)
<1>1. CASE txn.done = 0
  <2>1. Standing(txn.db, txn.at) BY <1>1 DEF Stands
  <2>2. txn.at = IF Way(txn) = "up" THEN InHand(txn) - 1 ELSE InHand(txn)
    BY DEF Stands, InHand, Way, LastRevision
  <2>3. QED BY <1>1, <2>1, <2>2 DEF Before
<1>2. CASE txn.done # 0
  <2>1. Partway(txn.db, InHand(txn), Way(txn), txn.done) BY <1>2 DEF Stands
  <2>2. QED BY <1>2, <2>1 DEF Before
<1>3. QED BY <1>1, <1>2

(* No order of tables, columns, references and rows stops a statement, in either direction. *)
LEMMA EveryStatementPossible ==
    ASSUME NEW n \in 1..LastRevision, NEW way \in {"up", "down"}, NEW done \in Nat,
           done < Len(Scripts(n, way)), NEW next, next = done + 1, NEW s, s = Scripts(n, way)[next],
           NEW d, Built(d, Present(n, way, done)), way = "up" /\ n = 6 => Filling(d, done)
    PROVE  Possible(d, s)
<1>1. CASE way = "up"
  <2>1. Scripts(n, way) = Upgrade[n] BY <1>1 DEF Scripts
  <2>2. Len(Upgrade[n]) \in Nat BY <1>1, NoEmptyScript DEF Scripts
  <2>3. next \in 1..Len(Upgrade[n]) /\ s = Upgrade[n][next] /\ done < Len(Upgrade[n])
    BY <2>1, <2>2
  <2>4. Built(d, Present(n, "up", done)) BY <1>1
  <2>5. Fits(n, next, s) BY <2>3, UpgradeFits
  <2>6. n = 6 => done \in 0..22 /\ s = Up0006[next] /\ Filling(d, done)
    <3>1. SUFFICES ASSUME n = 6 PROVE done \in 0..22 /\ s = Up0006[next] /\ Filling(d, done) OBVIOUS
    <3>2. Upgrade[n] = Up0006 /\ Len(Upgrade[n]) = 23 BY <3>1, Length6
    <3>3. QED BY <1>1, <2>3, <3>1, <3>2
  <2>7. ASSUME s.op = "create_foreign_key"
        PROVE  \A k \in DOMAIN d[s.table].rows : Refers(d, d[s.table].rows[k], s.column, s.to)
    <3>1. Came(Keyed, s.table, s.column) /\ Keyed[s.table][s.column] = <<n, next>>
      BY <2>5, <2>7 DEF Fits, InPlace
    <3>2. n = 6 BY <3>1, KeyedNames, KeyedIs
    <3>3. Built(d, Present(6, "up", done)) BY <2>4, <3>2
    <3>4. QED BY <2>6, <2>7, <3>2, <3>3, KeysHold
  <2>8. ASSUME s.op = "insert" PROVE \A r \in d[s.table].refers : Refers(d, s.row, r[1], r[2])
    <3>1. n = 6 BY <2>3, <2>8, RowOps
    <3>2. Built(d, Present(6, "up", done)) BY <2>4, <3>1
    <3>3. QED BY <2>6, <2>8, <3>1, <3>2, SeedsHold
  <2>9. QED BY <2>3, <2>4, <2>7, <2>8, UpPossible
<1>2. CASE way = "down"
  <2>1. Scripts(n, way) = Downgrade[n] BY <1>2 DEF Scripts
  <2>2. Built(d, Present(n, "down", done)) BY <1>2
  <2>3. QED BY <2>1, <2>2, DownPossible
<1>3. QED BY <1>1, <1>2

(* The trigger of audit_events comes after the last update, and the only update that meets the
   one of review_events is the last of 0006; it changes a row only when a run was reviewed. *)
LEMMA OnlyHistoryTouched ==
    ASSUME NEW n \in 1..LastRevision, NEW way \in {"up", "down"}, NEW done \in Nat,
           done < Len(Scripts(n, way)), NEW next, next = done + 1, NEW s, s = Scripts(n, way)[next],
           s.op = "update", NEW d, Built(d, Present(n, way, done)), Before(d, n, way, done),
           Possible(d, s), way = "up" /\ n = 6 => Filling(d, done), Touches(d, After(d, s))
    PROVE  way = "up" /\ n = 6 /\ s = Update("review_events", "tenant") /\ Reviewed(d) # {}
<1>1. PICK t \in Tables(d) : d[t].guarded /\ After(d, s)[t].rows # d[t].rows BY DEF Touches
<1>2. t \in DOMAIN Guarding /\ Guarding[t][1] <= n
  <2>1. n \in 0..LastRevision BY DEF LastRevision
  <2>2. Structure(d) \subseteq Brought(n) BY PresentBrought DEF Built
  <2>3. QED BY <1>1, <2>1, <2>2, GuardedThen
<1>3. n >= 5
  <2>1. Guarding[t][1] \in {5, 14} BY <1>2, GuardPlace
  <2>2. QED BY <1>2, <2>1
<1>4. way = "up"
  <2>1. SUFFICES ASSUME way = "down" PROVE FALSE OBVIOUS
  <2>2. Scripts(n, way) = Downgrade[n] /\ Len(Downgrade[n]) \in Nat
    BY <2>1, NoEmptyScript DEF Scripts
  <2>3. next \in 1..Len(Downgrade[n]) /\ s = Downgrade[n][next] BY <2>2
  <2>4. DownFits(n, next, s) BY <2>3, DowngradeFits
  <2>5. QED BY <1>3, <2>4 DEF DownFits, Drops
<1>5. n = 6
  <2>1. Scripts(n, way) = Upgrade[n] /\ Len(Upgrade[n]) \in Nat BY <1>4, NoEmptyScript DEF Scripts
  <2>2. next \in 1..Len(Upgrade[n]) /\ s = Upgrade[n][next] BY <2>1
  <2>3. n \in {2, 3, 4, 6} BY <2>2, RowOps
  <2>4. QED BY <1>3, <2>3
<1>6. done \in 0..22 /\ next \in 1..23 /\ s = Up0006[next]
  <2>1. Scripts(n, way) = Up0006 /\ Len(Scripts(n, way)) = 23 BY <1>4, <1>5, Length6 DEF Scripts
  <2>2. QED BY <2>1
<1>7. next \in 16..18 /\ s.what = "tenant" BY <1>6, Filler
<1>8. t = "review_events"
  <2>1. Guarding[t][1] = 5 BY <1>2, <1>5, GuardPlace
  <2>2. QED BY <1>2, <2>1, GuardPlace
<1>9. s.table = t BY <1>1, <1>7, OtherTables
<1>10. next = 18 /\ done = 17
  <2>1. next \in {16, 17, 18} BY <1>7
  <2>2. QED BY <1>6, <1>8, <1>9, <2>1, TenantUpdates
<1>11. s = Update("review_events", "tenant") BY <1>6, <1>10, TenantUpdates
<1>12. Built(d, Present(6, "up", done)) /\ Filling(d, done) BY <1>4, <1>5
<1>13. DOMAIN d[t].rows # {}
  <2>1. "organization_id" \in d[t].columns
    <3>1. Came(Keyed, t, "organization_id") /\ t \in LedgerTables /\ Added[t]["organization_id"][2] = 14
      BY <1>8, KeyedIs, AddedIs DEF LedgerTables
    <3>2. Added[t]["organization_id"][2] <= done BY <1>10, <3>1
    <3>3. QED BY <1>6, <1>12, <3>1, <3>2, TablesThen
  <2>2. d[t].rows = [k \in DOMAIN d[t].rows |-> d[t].rows[k]] BY <1>8, <1>12, <2>1 DEF Filling, Listed
  <2>3. {"columns", "refers", "guarded", "rows"} \subseteq DOMAIN d[t] BY <1>1 DEF Built
  <2>4. PICK e : e = After(d, s) OBVIOUS
  <2>5. Backfilled(d, e, t) BY <1>1, <1>7, <1>9, <2>3, <2>4, TenantRows
  <2>6. QED BY <1>1, <2>2, <2>4, <2>5 DEF Backfilled
<1>14. Standing(d, 6)
  <2>1. Before(d, 6, "up", 17) BY <1>4, <1>5, <1>10
  <2>2. QED BY <2>1 DEF Before, Partway
<1>15. Ledger(d, Columns(6), Fields(6)) /\ EventsAgree(d) BY <1>14 DEF Standing
<1>16. PICK k : k \in DOMAIN d["review_events"].rows BY <1>8, <1>13
<1>17. k \in DOMAIN d["runs"].rows /\ "review_events" \in Tables(d) BY <1>15, <1>16 DEF EventsAgree
<1>18. History(d, k) # <<>> BY <1>16, <1>17 DEF History
<1>19. d["runs"].rows[k].review_outcome # None BY <1>15, <1>17, <1>18 DEF EventsAgree
<1>20. "runs" \in Tables(d) /\ "review_outcome" \in d["runs"].columns
  <2>1. 6 \in 0..LastRevision BY DEF LastRevision
  <2>2. "review_outcome" \in Columns(6) BY <2>1, ColumnsAndFields
  <2>3. QED BY <1>15, <2>2 DEF Ledger
<1>21. k \in Reviewed(d) BY <1>17, <1>19, <1>20 DEF Reviewed
<1>22. QED BY <1>4, <1>5, <1>11, <1>21

(* The committed database has a reviewed run only from revision 3 on. *)
LEMMA ReviewedSince ==
    ASSUME revision \in 0..LastRevision, Built(db, Brought(revision)), Reviewed(db) # {}
    PROVE  /\ revision >= 3
           /\ \E k \in DOMAIN Rows("runs") : Rows("runs")[k].review_outcome # None
<1>1. "runs" \in Tables(db) /\ "review_outcome" \in db["runs"].columns BY DEF Reviewed
<1>2. PICK k \in DOMAIN db["runs"].rows : db["runs"].rows[k].review_outcome # None BY <1>1 DEF Reviewed
<1>3. Rows("runs") = db["runs"].rows BY <1>1 DEF Rows
<1>4. PICK e : e = <<"runs", "column", "review_outcome">> OBVIOUS
<1>5. e \in Brought(revision) BY <1>1, <1>4, HasParts DEF Built
<1>6. Place(e)[1] \in 1..revision BY <1>5, BroughtBy
<1>7. Place(e) = <<3, 2>>
  <2>1. Came(Added, "runs", "review_outcome") /\ Added["runs"]["review_outcome"] = <<3, 2>> BY AddedIs
  <2>2. QED BY <1>4, <2>1 DEF Place, ColumnPlace
<1>8. revision >= 3 BY <1>6, <1>7
<1>9. QED BY <1>2, <1>3, <1>8

(* What PostgreSQL refuses is the update of a history. *)
LEMMA RefusedHistory ==
    ASSUME revision \in 0..LastRevision, Built(db, Brought(revision)), txn # None, Stands(txn), Executes,
           Built(txn.db, Present(InHand(txn), Way(txn), txn.done)), Underway(txn), ~Allowed(Statement)
    PROVE  /\ Statement = Update("review_events", "tenant")
           /\ revision \in 3..5
           /\ \E k \in DOMAIN Rows("runs") : Rows("runs")[k].review_outcome # None
<1>1. PICK n, way, done, next, s : /\ n = InHand(txn) /\ way = Way(txn) /\ done = txn.done
                                   /\ next = done + 1 /\ s = Statement
  OBVIOUS
<1>2. /\ txn.at \in 0..LastRevision /\ txn.target \in 0..LastRevision /\ done \in Nat
      /\ n \in 1..LastRevision /\ way \in {"up", "down"}
      /\ n = IF way = "up" THEN txn.at + 1 ELSE txn.at
      /\ done < Len(Scripts(n, way))
      /\ s = Scripts(n, way)[next]
      /\ New(s) = After(txn.db, s)
  BY <1>1, StatementInHand
<1>3. Before(txn.db, n, way, done) /\ Built(txn.db, Present(n, way, done))
  BY <1>1, BeforeStatement
<1>4. way = "up" /\ n = 6 => Filling(txn.db, done) BY <1>1 DEF Underway
<1>5. Possible(txn.db, s) BY <1>1, <1>2, <1>3, <1>4, EveryStatementPossible
<1>6. s.op = "update" /\ Touches(txn.db, After(txn.db, s)) BY <1>1, <1>2, <1>5 DEF Allowed
<1>7. way = "up" /\ n = 6 /\ s = Update("review_events", "tenant") /\ Reviewed(txn.db) # {}
  <2>1. PICK d : d = txn.db OBVIOUS
  <2>2. Before(d, n, way, done) /\ Built(d, Present(n, way, done)) /\ Possible(d, s)
        /\ Touches(d, After(d, s)) /\ (way = "up" /\ n = 6 => Filling(d, done))
    BY <1>3, <1>4, <1>5, <1>6, <2>1
  <2>3. way = "up" /\ n = 6 /\ s = Update("review_events", "tenant") /\ Reviewed(d) # {}
    BY <1>1, <1>2, <1>6, <2>2, OnlyHistoryTouched
  <2>4. QED BY <2>1, <2>3
<1>8. Reviewed(db) # {} BY <1>1, <1>7 DEF Underway
<1>9. txn.at = 5 /\ txn.target > txn.at
  <2>1. txn.at = 5 BY <1>2, <1>7
  <2>2. QED BY <1>1, <1>7, <2>1 DEF Way
<1>10. revision <= 5
  <2>1. PICK at, target : at = txn.at /\ target = txn.target OBVIOUS
  <2>2. (revision <= at /\ at <= target) \/ (target <= at /\ at <= revision) BY <2>1 DEF Underway, Between
  <2>3. at = 5 /\ target \in Int /\ target > at BY <1>2, <1>9, <2>1
  <2>4. QED BY <2>2, <2>3
<1>11. revision >= 3 /\ \E k \in DOMAIN Rows("runs") : Rows("runs")[k].review_outcome # None
  BY <1>8, ReviewedSince
<1>12. QED BY <1>1, <1>7, <1>10, <1>11

(* The program takes no outcome back. *)
LEMMA OutcomesStay ==
    ASSUME revision \in 0..LastRevision, Standing(db, revision),
           \/ \E k \in Runs, d \in Decisions : StoreRun(k, d)
           \/ \E k \in Runs, outcome \in Outcomes : ReviewRun(k, outcome),
           NEW j \in DOMAIN Rows("runs"), Rows("runs")[j].review_outcome # None, revision >= 3
    PROVE  j \in DOMAIN Rows("runs")' /\ Rows("runs")'[j].review_outcome # None
<1> DEFINE n == revision
<1>1. "runs" \in Tables(db) /\ j \in DOMAIN db["runs"].rows /\ Rows("runs") = db["runs"].rows
  BY EmptyIsEmpty DEF Rows
<1>2. n \in 1..LastRevision /\ n # 0 BY DEF LastRevision
<1>3. Ledger(db, Columns(n), Fields(n)) BY <1>2 DEF Standing
<1>4. "evidence_sha256" \in Columns(n) /\ "review_outcome" \in Columns(n) /\ "review_status" \in Columns(n)
  BY <1>2, ColumnsAndFields
<1>5. ASSUME NEW e, NEW k, NEW row, NEW body, Tables(e) = Tables(db), Recorded(e, k, row, body),
             j = k => "review_outcome" \in DOMAIN row /\ row.review_outcome # None,
             db'["runs"] = e["runs"], Tables(db') = Tables(e)
      PROVE  j \in DOMAIN Rows("runs")' /\ Rows("runs")'[j].review_outcome # None
  <2>1. Rows("runs")' = e["runs"].rows BY <1>1, <1>5 DEF Rows
  <2>2. j \in DOMAIN e["runs"].rows BY <1>1, <1>5 DEF Recorded
  <2>3. e["runs"].rows[j].review_outcome # None
    <3>1. CASE j = k
      <4>1. "review_outcome" \in DOMAIN row \ {"evidence_sha256"} /\ row["review_outcome"] # None
        BY <1>5, <3>1
      <4>2. e["runs"].rows[k]["review_outcome"] = row["review_outcome"] BY <1>5, <4>1 DEF Recorded
      <4>3. QED BY <3>1, <4>1, <4>2
    <3>2. CASE j # k
      <4>1. e["runs"].rows[j] = db["runs"].rows[j] BY <1>1, <1>5, <3>2 DEF Recorded
      <4>2. QED BY <1>1, <4>1
    <3>3. QED BY <3>1, <3>2
  <2>4. QED BY <2>1, <2>2, <2>3
<1>6. ASSUME NEW k \in Runs, NEW d \in Decisions, StoreRun(k, d)
      PROVE  j \in DOMAIN Rows("runs")' /\ Rows("runs")'[j].review_outcome # None
  <2> DEFINE values == [decision |-> d, policy_version |-> "1.0", schema_version |-> "1.0",
                        review_status |-> IF d = "review" THEN "pending" ELSE "not_required"]
             row == Given(values, db["runs"].columns)
             new == Sealed(k, row, <<>>)
  <2>1. db' = new /\ k \notin DOMAIN Rows("runs") BY <1>6 DEF StoreRun
  <2>2. DOMAIN row = db["runs"].columns BY DEF Given
  <2> HIDE DEF row
  <2>3. "evidence_sha256" \in DOMAIN row BY <1>3, <1>4, <2>2 DEF Ledger
  <2>4. Tables(new) = Tables(db) /\ Recorded(new, k, row, Body(row, <<>>))
    BY <1>2, <2>3, SealedRecords
  <2> HIDE DEF new
  <2>5. QED BY <1>1, <1>5, <2>1, <2>4
<1>7. ASSUME NEW k \in Runs, NEW outcome \in Outcomes, ReviewRun(k, outcome)
      PROVE  j \in DOMAIN Rows("runs")' /\ Rows("runs")'[j].review_outcome # None
  <2> DEFINE old == db["runs"].rows[k]
             row == [old EXCEPT !.review_status = outcome, !.review_outcome = outcome]
             new == Sealed(k, row, <<outcome>>)
             event == Given([action |-> outcome], new["review_events"].columns)
  <2>1. k \in DOMAIN db["runs"].rows BY <1>1, <1>7 DEF ReviewRun
  <2>2. Columns(n) \subseteq DOMAIN old BY <1>3, <2>1, LedgerHasColumns
  <2>3. db' = IF "review_events" \in Tables(db)
              THEN [new EXCEPT !["review_events"].rows = Put(@, k, event)] ELSE new
    BY <1>1, <1>7 DEF ReviewRun
  <2>4. DOMAIN row = DOMAIN old /\ row.review_outcome = outcome
    <3> HIDE DEF old
    <3>1. "review_outcome" \in DOMAIN old BY <1>4, <2>2
    <3>2. QED BY <3>1
  <2>5. outcome # None BY NullIsNoOutcome
  <2> HIDE DEF row, old
  <2>6. "evidence_sha256" \in DOMAIN row /\ "review_outcome" \in DOMAIN row
    BY <1>4, <2>2, <2>4
  <2>7. Tables(new) = Tables(db) /\ Recorded(new, k, row, Body(row, <<outcome>>))
    BY <1>2, <2>6, SealedRecords
  <2> HIDE DEF event, new
  <2>8. db'["runs"] = new["runs"] /\ Tables(db') = Tables(new)
    <3>1. CASE db' = new BY <3>1
    <3>2. CASE db' = [new EXCEPT !["review_events"].rows = Put(@, k, event)] BY <1>1, <2>7, <3>2 DEF Tables
    <3>3. QED BY <2>3, <3>1, <3>2
  <2>9. QED BY <1>5, <2>4, <2>5, <2>6, <2>7, <2>8
<1>8. QED BY <1>6, <1>7

(* The next statement keeps the transaction on its way. *)
LEMMA StepUnderway ==
    ASSUME NEW t, NEW u, NEW s, Steps(t, u, s), t.at # t.target, Possible(t.db, s),
           Before(t.db, InHand(t), Way(t), t.done), Built(t.db, Present(InHand(t), Way(t), t.done)),
           Built(u.db, Present(InHand(u), Way(u), u.done)), revision \in 0..LastRevision, Underway(t)
    PROVE  Underway(u)
<1>1. PICK n, way, done, next, d : /\ n = InHand(t) /\ way = Way(t) /\ done = t.done
                                   /\ next = done + 1 /\ d = t.db
  OBVIOUS
<1>2. /\ t.at \in 0..LastRevision /\ t.target \in 0..LastRevision /\ done \in Nat
      /\ n \in 1..LastRevision /\ way \in {"up", "down"}
      /\ n = IF way = "up" THEN t.at + 1 ELSE t.at
      /\ done < Len(Scripts(n, way)) /\ s = Scripts(n, way)[next]
      /\ u.db = After(d, s) /\ u.target = t.target
  BY <1>1 DEF Steps
<1>3. \/ next < Len(Scripts(n, way)) /\ u.done = next /\ u.at = t.at
      \/ next = Len(Scripts(n, way)) /\ u.done = 0 /\ u.at = IF way = "up" THEN n ELSE n - 1
  BY <1>1 DEF Steps
<1>4. Before(d, n, way, done) /\ Built(d, Present(n, way, done)) /\ Possible(d, s)
  BY <1>1
<1>5. way = "up" <=> t.target > t.at BY <1>1 DEF Way
<1>6. PICK at, then, target : at = t.at /\ then = u.at /\ target = t.target OBVIOUS
<1>7. /\ at \in Int /\ target \in Int /\ n = IF way = "up" THEN at + 1 ELSE at
      /\ then = at \/ (then = IF way = "up" THEN at + 1 ELSE at - 1)
      /\ IF way = "up" THEN target > at ELSE target < at
  <2>1. at \in Int /\ target \in Int /\ n = IF way = "up" THEN at + 1 ELSE at BY <1>2, <1>6
  <2>2. at # target /\ (way = "up" <=> target > at) BY <1>5, <1>6
  <2>3. then = at \/ (then = IF way = "up" THEN n ELSE n - 1) BY <1>3, <1>6
  <2>4. QED BY <1>2, <2>1, <2>2, <2>3
<1>8. Between(u)
  <2>1. (revision <= at /\ at <= target) \/ (target <= at /\ at <= revision)
    BY <1>6 DEF Underway, Between
  <2>2. revision \in Int OBVIOUS
  <2>3. (revision <= then /\ then <= target) \/ (target <= then /\ then <= revision)
    BY <1>2, <1>7, <2>1, <2>2
  <2>4. QED BY <1>2, <1>6, <2>3 DEF Between
<1>9. ASSUME Way(u) = "up" PROVE way = "up" /\ InHand(u) = then + 1
  <2>1. target > then BY <1>2, <1>6, <1>9 DEF Way
  <2>2. way = "up" BY <1>2, <1>7, <2>1
  <2>3. QED BY <1>2, <1>6, <2>1, <2>2 DEF InHand
<1>10. ASSUME Way(u) = "up", InHand(u) = 6 PROVE Filling(u.db, u.done)
  <2>1. way = "up" /\ then + 1 = 6 BY <1>9, <1>10
  <2>2. CASE u.done = next /\ u.at = t.at /\ next < Len(Scripts(n, way))
    <3>1. n = 6 BY <1>6, <1>7, <2>1, <2>2
    <3>2. Scripts(n, way) = Up0006 /\ Len(Scripts(n, way)) = 23 BY <2>1, <3>1, Length6 DEF Scripts
    <3>3. done \in 0..22 /\ s = Up0006[next]
      <4>1. done \in Nat /\ done < 23 BY <1>2, <3>2
      <4>2. QED BY <1>2, <3>2, <4>1
    <3>4. Built(d, Present(6, "up", done)) BY <1>4, <2>1, <3>1
    <3>5. Filling(d, done) BY <1>1, <2>1, <3>1 DEF Underway
    <3>6. Filling(After(d, s), next) BY <1>1, <1>4, <3>3, <3>4, <3>5, FillingStep
    <3>7. QED BY <1>2, <2>2, <3>6
  <2>3. CASE u.done = 0
    <3>1. Built(u.db, Present(6, "up", 0)) BY <1>10, <2>3
    <3>2. QED BY <2>3, <3>1, FillingFirst
  <2>4. QED BY <1>3, <2>2, <2>3
<1>11. ASSUME Way(u) = "up", InHand(u) <= 6 PROVE Reviewed(u.db) \subseteq Reviewed(db)
  <2>1. way = "up" /\ then + 1 <= 6 BY <1>9, <1>11
  <2>2. n \in Int /\ n >= 1 BY <1>2
  <2>3. n \in 1..6 BY <1>7, <2>1, <2>2
  <2>4. Reviewed(d) \subseteq Reviewed(db) BY <1>1, <2>1, <2>3 DEF Underway
  <2>5. done \in Nat /\ done < Len(Upgrade[n]) /\ s = Upgrade[n][next] BY <1>2, <2>1 DEF Scripts
  <2>6. Before(d, n, "up", done) /\ Possible(d, s) /\ Shaped(d) BY <1>4, <2>1 DEF Built, Shaped
  <2>7. Reviewed(After(d, s)) \subseteq Reviewed(d) BY <1>1, <2>3, <2>5, <2>6, ReviewedStep
  <2>8. QED BY <1>2, <2>4, <2>7
<1>12. failed = None BY DEF Underway
<1>13. QED BY <1>8, <1>10, <1>11, <1>12 DEF Underway

(* No call of alembic has failed but at a history that 0006 updates, and the
   open transaction has met nothing else on its way: upgrade() and downgrade() of
   0001 to 0014 create, alter and drop in an order that the tables, the foreign
   keys and the rows always allow. *)
THEOREM CallsAreCalm == Spec => []Calm
<1>1. Init => Calm BY DEF Init, Calm, OnlyHistoryStopsACall
<1>2. Inductive /\ Structured /\ Calm /\ [Next]_vars => Calm'
  <2>1. SUFFICES ASSUME Inductive, Structured, Calm, [Next]_vars PROVE Calm' OBVIOUS
  <2>2. /\ revision \in 0..LastRevision /\ Standing(db, revision) /\ Built(db, Brought(revision))
        /\ txn # None => /\ Stands(txn) /\ Underway(txn)
                         /\ Built(txn.db, Present(InHand(txn), Way(txn), txn.done))
    BY <2>1 DEF Inductive, Structured, Calm
  <2>3. failed # None => /\ failed = Update("review_events", "tenant")
                         /\ revision \in 3..5
                         /\ \E k \in DOMAIN Rows("runs") : Rows("runs")[k].review_outcome # None
    BY <2>1 DEF Calm, OnlyHistoryStopsACall
  <2>4. CASE \/ \E k \in Runs, d \in Decisions : StoreRun(k, d)
             \/ \E k \in Runs, outcome \in Outcomes : ReviewRun(k, outcome)
    <3>1. txn = None /\ UNCHANGED <<revision, txn, failed>> BY <2>4 DEF StoreRun, ReviewRun
    <3>2. OnlyHistoryStopsACall'
      <4>1. SUFFICES ASSUME failed' # None
                     PROVE  /\ failed' = Update("review_events", "tenant")
                            /\ revision' \in 3..5
                            /\ \E k \in DOMAIN Rows("runs")' : Rows("runs")'[k].review_outcome # None
        BY DEF OnlyHistoryStopsACall
      <4>2. failed = Update("review_events", "tenant") /\ revision \in 3..5 BY <2>3, <3>1, <4>1
      <4>3. PICK k \in DOMAIN Rows("runs") : Rows("runs")[k].review_outcome # None BY <2>3, <3>1, <4>1
      <4>4. k \in DOMAIN Rows("runs")' /\ Rows("runs")'[k].review_outcome # None
        BY <2>2, <2>4, <4>2, <4>3, OutcomesStay
      <4>5. QED BY <3>1, <4>2, <4>4
    <3>3. QED BY <3>1, <3>2 DEF Calm
  <2>5. ASSUME NEW target \in 0..LastRevision, Begin(target) PROVE Calm'
    <3>1. txn' = [db |-> db, at |-> revision, done |-> 0, target |-> target]
          /\ failed' = None /\ UNCHANGED <<revision, db>>
      BY <2>5 DEF Begin
    <3>2. txn'.db = db /\ txn'.at = revision /\ txn'.done = 0 /\ txn'.target = target BY <3>1
    <3>3. Between(txn')
      <4>1. revision <= target \/ target <= revision BY <2>2, <2>5 DEF LastRevision
      <4>2. revision <= revision BY <2>2
      <4>3. QED BY <3>2, <4>1, <4>2 DEF Between
    <3>4. ASSUME Way(txn') = "up", InHand(txn') = 6 PROVE Filling(txn'.db, txn'.done)
      <4>1. Built(txn'.db, Present(InHand(txn'), Way(txn'), txn'.done))
        <5>1. Present(InHand(txn'), Way(txn'), txn'.done) = Brought(revision)
          BY <2>2, <3>2, PresentFirst
        <5>2. QED BY <2>2, <3>2, <5>1
      <4>2. QED BY <3>2, <3>4, <4>1, FillingFirst
    <3>5. Reviewed(txn'.db) \subseteq Reviewed(db) BY <3>2
    <3>6. failed' = None /\ revision' = revision /\ db' = db BY <3>1
    <3>7. Underway(txn)' BY <3>3, <3>4, <3>5, <3>6 DEF Underway, Between, Reviewed
    <3>8. QED BY <3>6, <3>7 DEF Calm, OnlyHistoryStopsACall
  <2>6. CASE Execute
    <3>1. txn # None /\ Executes /\ Possible(txn.db, Statement) /\ UNCHANGED <<revision, db, failed>>
      BY <2>6 DEF Execute, Executes, Allowed
    <3>2. Steps(txn, txn', Statement) BY <2>2, <2>6, <3>1, ExecuteSteps
    <3>3. Before(txn.db, InHand(txn), Way(txn), txn.done) BY <2>2, <3>1, BeforeStatement
    <3>4. Built(txn'.db, Present(InHand(txn'), Way(txn'), txn'.done)) BY <2>2, <3>1, <3>2, StepBuilds
    <3>5. txn.at # txn.target BY <3>1 DEF Executes
    <3>6. Underway(txn') BY <2>2, <3>1, <3>2, <3>3, <3>4, <3>5, StepUnderway
    <3>7. QED BY <2>3, <3>1, <3>6 DEF Calm, OnlyHistoryStopsACall, Rows, Underway, Between, Reviewed
  <2>7. CASE Refuse
    <3>1. txn # None /\ Executes /\ ~Allowed(Statement) /\ txn' = None /\ failed' = Statement
          /\ UNCHANGED <<revision, db>>
      BY <2>7 DEF Refuse, Executes
    <3>2. /\ Statement = Update("review_events", "tenant") /\ revision \in 3..5
          /\ \E k \in DOMAIN Rows("runs") : Rows("runs")[k].review_outcome # None
      BY <2>2, <3>1, RefusedHistory
    <3>3. Rows("runs")' = Rows("runs") BY <3>1 DEF Rows
    <3>4. QED BY <3>1, <3>2, <3>3 DEF Calm, OnlyHistoryStopsACall
  <2>8. CASE Commit
    <3>1. txn # None /\ txn' = None /\ UNCHANGED failed BY <2>8 DEF Commit
    <3>2. failed' = None BY <2>2, <3>1 DEF Underway
    <3>3. QED BY <3>1, <3>2 DEF Calm, OnlyHistoryStopsACall
  <2>9. CASE Killed
    <3>1. txn # None /\ txn' = None /\ UNCHANGED failed BY <2>9 DEF Killed
    <3>2. failed' = None BY <2>2, <3>1 DEF Underway
    <3>3. QED BY <3>1, <3>2 DEF Calm, OnlyHistoryStopsACall
  <2>10. CASE UNCHANGED vars
    BY <2>1, <2>10 DEF vars, Calm, OnlyHistoryStopsACall, Rows, Underway, Between, Reviewed
  <2>11. QED BY <2>1, <2>4, <2>5, <2>6, <2>7, <2>8, <2>9, <2>10 DEF Next
<1>3. QED BY <1>1, <1>2, DatabaseStands, SchemaStands, PTL DEF Spec

(* What stops a call of alembic is a review event that 0006 updates and the trigger of 0005
   protects, and nothing else, at any revision and in either direction. *)
THEOREM OnlyHistoryStops == Spec => []OnlyHistoryStopsACall
<1>1. Calm => OnlyHistoryStopsACall BY DEF Calm
<1>2. QED BY <1>1, CallsAreCalm, PTL

-----------------------------------------------------------------------------
(* Nothing of a run is lost *)

(* Who waits for a review has no outcome. *)
PendingIsOpen(d) ==
    "runs" \in Tables(d) =>
        \A k \in DOMAIN d["runs"].rows :
            LET row == d["runs"].rows[k]
            IN  {"review_status", "review_outcome"} \subseteq DOMAIN row /\ row["review_status"] = "pending"
                    => row["review_outcome"] = None

(* The open transaction still has what the committed runs say, as far as it has the columns. *)
Retained ==
    /\ PendingIsOpen(db)
    /\ txn # None => /\ PendingIsOpen(txn.db)
                     /\ "runs" \in Tables(txn.db) => Keeps(Rows("runs"), txn.db["runs"].rows)

LEMMA AfterwardsFormed ==
    ASSUME NEW n \in 1..LastRevision, NEW next \in Nat, next # 0, NEW length, NEW e,
           Afterwards(e, n, "up", next, length)
    PROVE  WellFormed(e)
<1>1. CASE next = length
  <2>1. Standing(e, n) /\ n # 0 BY <1>1 DEF Afterwards
  <2>2. QED BY <2>1 DEF Standing, Ledger
<1>2. CASE next # length
  <2>1. Partway(e, n, "up", next) BY <1>2 DEF Afterwards
  <2>2. CASE n = 1 BY <2>1, <2>2 DEF Partway
  <2>3. CASE n # 1
    <3>1. n \in 2..LastRevision BY <2>3 DEF LastRevision
    <3>2. Before(e, n, "up", next) BY <2>1 DEF Before
    <3>3. QED BY <3>1, <3>2, AnyLedger, LedgerShape
  <2>4. QED BY <2>2, <2>3
<1>3. QED BY <1>1, <1>2

(* 0003 makes runs pending that have no outcome yet; no other statement makes one. *)
LEMMA PendingStep ==
    ASSUME NEW n \in 1..LastRevision, NEW way \in {"up", "down"}, NEW done \in Nat,
           done < Len(Scripts(n, way)), NEW next, next = done + 1, NEW s, s = Scripts(n, way)[next],
           NEW d, Possible(d, s), Before(d, n, way, done), PendingIsOpen(d), Shaped(d),
           way = "up" /\ n <= 3 => Reviewed(d) = {}
    PROVE  PendingIsOpen(After(d, s))
<1> DEFINE e == After(d, s)
<1>1. next \in 1..Len(Scripts(n, way)) /\ Len(Scripts(n, way)) \in Nat /\ next # 0
  <2>1. Len(Scripts(n, way)) \in Nat BY NoEmptyScript
  <2>2. QED BY <2>1
<1>2. SUFFICES ASSUME "runs" \in Tables(e), NEW k \in DOMAIN e["runs"].rows,
                      {"review_status", "review_outcome"} \subseteq DOMAIN e["runs"].rows[k],
                      e["runs"].rows[k]["review_status"] = "pending"
               PROVE  e["runs"].rows[k]["review_outcome"] = None
  BY DEF PendingIsOpen
<1>3. CASE way = "up" /\ n <= 3
  <2>1. Scripts(n, way) = Upgrade[n] /\ n \in 1..6 BY <1>3 DEF Scripts, LastRevision
  <2>2. Before(d, n, "up", done) BY <1>3
  <2>3. Reviewed(e) = {} BY <1>3, <2>1, <2>2, ReviewedStep
  <2>4. PICK length : length = Len(Scripts(n, way)) OBVIOUS
  <2>5. Afterwards(e, n, way, next, length) BY <2>4, StatementStands
  <2> HIDE DEF e
  <2>6. WellFormed(e) BY <1>1, <1>3, <2>5, AfterwardsFormed
  <2>7. "review_outcome" \in e["runs"].columns
    <3>1. "runs" \in LedgerTables \intersect Tables(e) BY <1>2 DEF LedgerTables
    <3>2. "review_outcome" \in Tracked["runs"] BY TrackedColumns
    <3>3. QED BY <1>2, <2>6, <3>1, <3>2 DEF WellFormed
  <2>8. QED BY <1>2, <2>3, <2>7 DEF Reviewed
<1>4. CASE ~(way = "up" /\ n <= 3)
  <2>1. "runs" \in Tables(d)
    <3>1. ~(n = 1 /\ way = "up") BY <1>4
    <3>2. QED BY <1>1, <1>2, <3>1, RunsBefore
  <2>2. Retains(d, e, Renewed(s)) BY <1>1, <1>2, <2>1, StatementRetains
  <2>3. Renewed(s) \intersect Facts = {}
    <3>1. SUFFICES ASSUME NEW c \in Renewed(s) \intersect Facts PROVE FALSE OBVIOUS
    <3>2. way = "up" /\ n \in 2..3 BY <1>1, RenewedNow
    <3>3. QED BY <1>4, <3>2
  <2> HIDE DEF e
  <2>4. {"review_status", "review_outcome"} \subseteq Facts \ Renewed(s) BY <2>3 DEF Facts
  <2>5. /\ k \in DOMAIN d["runs"].rows
        /\ {"review_status", "review_outcome"} \subseteq DOMAIN d["runs"].rows[k]
        /\ e["runs"].rows[k]["review_status"] = d["runs"].rows[k]["review_status"]
        /\ e["runs"].rows[k]["review_outcome"] = d["runs"].rows[k]["review_outcome"]
    BY <1>2, <2>2, <2>4 DEF Retains
  <2>6. QED BY <1>2, <2>1, <2>5 DEF PendingIsOpen
<1>5. QED BY <1>3, <1>4

(* No statement changes what the committed runs say: what it writes anew has no column there. *)
LEMMA KeepsStep ==
    ASSUME NEW n \in 1..LastRevision, NEW way \in {"up", "down"}, NEW done \in Nat,
           done < Len(Scripts(n, way)), NEW next, next = done + 1, NEW s, s = Scripts(n, way)[next],
           NEW d, Possible(d, s), Before(d, n, way, done), Shaped(d),
           revision \in 0..LastRevision, Standing(db, revision), Built(db, Brought(revision)),
           way = "up" => revision < n,
           "runs" \in Tables(d) => Keeps(Rows("runs"), d["runs"].rows), "runs" \in Tables(After(d, s))
    PROVE  Keeps(Rows("runs"), After(d, s)["runs"].rows)
<1> DEFINE e == After(d, s)
<1>1. next \in 1..Len(Scripts(n, way))
  <2>1. Len(Scripts(n, way)) \in Nat BY NoEmptyScript
  <2>2. QED BY <2>1
<1>2. CASE n = 1 /\ way = "up"
  <2>1. revision = 0 BY <1>2
  <2>2. LedgerTables \intersect Tables(db) = {} BY <2>1 DEF Standing
  <2>3. Rows("runs") = Empty BY <2>2 DEF Rows, LedgerTables
  <2>4. QED BY <2>3, EmptyIsEmpty DEF Keeps
<1>3. CASE ~(n = 1 /\ way = "up")
  <2>1. "runs" \in Tables(d) BY <1>1, <1>3, RunsBefore
  <2>2. Retains(d, e, Renewed(s)) BY <1>1, <2>1, StatementRetains
  <2>3. ASSUME NEW k \in DOMAIN Rows("runs"), NEW c \in Facts, c \in DOMAIN Rows("runs")[k]
        PROVE  c \notin Renewed(s)
    <3>1. SUFFICES ASSUME c \in Renewed(s) PROVE FALSE OBVIOUS
    <3>2. way = "up" /\ Place(<<"runs", "column", c>>)[1] = n BY <1>1, <2>3, <3>1, RenewedNow
    <3>3. "runs" \in Tables(db) /\ k \in DOMAIN db["runs"].rows /\ c \in DOMAIN db["runs"].rows[k]
      BY <2>3, EmptyIsEmpty DEF Rows
    <3>4. revision # 0 BY <3>3 DEF Standing, LedgerTables
    <3>5. PICK columns, fields : Ledger(db, columns, fields) BY <3>4 DEF Standing
    <3>6. c \in db["runs"].columns
      <4>1. c \in Tracked["runs"] BY <2>3, TrackedColumns DEF Facts
      <4>2. "runs" \in LedgerTables \intersect Tables(db) BY <3>3 DEF LedgerTables
      <4>3. QED BY <3>3, <3>5, <4>1, <4>2 DEF Ledger, WellFormed
    <3>7. PICK x : x = <<"runs", "column", c>> OBVIOUS
    <3>8. x \in Brought(revision) BY <3>3, <3>6, <3>7, HasParts DEF Built
    <3>9. Place(x)[1] \in 1..revision BY <3>8, BroughtBy
    <3>10. n \in 1..revision BY <3>2, <3>7, <3>9
    <3>11. QED BY <3>2, <3>10
  <2>4. Keeps(Rows("runs"), d["runs"].rows) BY <2>1
  <2> HIDE DEF e
  <2>5. ASSUME NEW k \in DOMAIN Rows("runs"), NEW c \in Facts, c \in DOMAIN Rows("runs")[k],
               c \in DOMAIN e["runs"].rows[k]
        PROVE  Rows("runs")[k][c] \in {None, "pending"} \/ e["runs"].rows[k][c] = Rows("runs")[k][c]
    <3>1. k \in DOMAIN d["runs"].rows BY <2>4 DEF Keeps
    <3>2. c \in Facts \ Renewed(s) BY <2>3, <2>5
    <3>3. c \in DOMAIN d["runs"].rows[k] /\ e["runs"].rows[k][c] = d["runs"].rows[k][c]
      BY <2>2, <2>5, <3>1, <3>2 DEF Retains
    <3>4. Rows("runs")[k][c] \in {None, "pending"} \/ d["runs"].rows[k][c] = Rows("runs")[k][c]
      BY <2>4, <2>5, <3>3 DEF Keeps
    <3>5. QED BY <3>3, <3>4
  <2>6. DOMAIN Rows("runs") \subseteq DOMAIN e["runs"].rows BY <2>2, <2>4 DEF Keeps, Retains
  <2>7. Keeps(Rows("runs"), e["runs"].rows) BY <2>5, <2>6 DEF Keeps
  <2>8. QED BY <2>7 DEF e
<1>4. QED BY <1>2, <1>3

(* A program adds runs and concludes the pending ones. *)
LEMMA ProgramKeeps ==
    ASSUME revision \in 0..LastRevision, Standing(db, revision), PendingIsOpen(db),
           \/ \E k \in Runs, d \in Decisions : StoreRun(k, d)
           \/ \E k \in Runs, outcome \in Outcomes : ReviewRun(k, outcome)
    PROVE  Keeps(Rows("runs"), Rows("runs")') /\ PendingIsOpen(db')
<1> DEFINE n == revision
           old == db["runs"].rows
<1>1. revision # 0
  <2>1. CASE \E k \in Runs, d \in Decisions : StoreRun(k, d) BY <2>1 DEF StoreRun
  <2>2. CASE \E k \in Runs, outcome \in Outcomes : ReviewRun(k, outcome)
    <3>1. "runs" \in Tables(db) BY <2>2, EmptyIsEmpty DEF ReviewRun, Rows
    <3>2. QED BY <3>1 DEF Standing, LedgerTables
  <2>3. QED BY <2>1, <2>2
<1>2. n \in 1..LastRevision /\ n # 0 BY <1>1 DEF LastRevision
<1>3. Ledger(db, Columns(n), Fields(n)) BY <1>2 DEF Standing
<1>4. "runs" \in Tables(db) /\ Rows("runs") = old BY <1>3, LedgerShape DEF Rows
<1>5. "evidence_sha256" \in Columns(n) /\ ("review_status" \in Columns(n) <=> "review_outcome" \in Columns(n))
  BY <1>2, ColumnsAndFields
<1>6. ASSUME NEW e, NEW k, NEW row, NEW body, Tables(e) = Tables(db), Recorded(e, k, row, body),
             k \in DOMAIN old =>
                 \A c \in Facts \intersect DOMAIN row :
                     old[k][c] \in {None, "pending"} \/ row[c] = old[k][c],
             {"review_status", "review_outcome"} \subseteq DOMAIN row /\ row["review_status"] = "pending"
                 => row["review_outcome"] = None,
             db'["runs"] = e["runs"], Tables(db') = Tables(e)
      PROVE  Keeps(Rows("runs"), Rows("runs")') /\ PendingIsOpen(db')
  <2>1. Rows("runs")' = e["runs"].rows /\ "runs" \in Tables(db') BY <1>4, <1>6 DEF Rows
  <2>2. /\ DOMAIN e["runs"].rows = DOMAIN old \union {k}
        /\ \A j \in DOMAIN old \ {k} : e["runs"].rows[j] = old[j]
        /\ DOMAIN e["runs"].rows[k] = DOMAIN row
        /\ \A c \in DOMAIN row \ {"evidence_sha256"} : e["runs"].rows[k][c] = row[c]
    BY <1>6 DEF Recorded
  <2>3. "evidence_sha256" \notin Facts /\ {"review_status", "review_outcome"} \subseteq Facts BY DEF Facts
  <2> HIDE DEF old
  <2>4. ASSUME NEW j \in DOMAIN old, NEW c \in Facts, c \in DOMAIN e["runs"].rows[j]
        PROVE  old[j][c] \in {None, "pending"} \/ e["runs"].rows[j][c] = old[j][c]
    <3>1. CASE j = k
      <4>1. c \in DOMAIN row \ {"evidence_sha256"} BY <2>2, <2>3, <2>4, <3>1
      <4>2. e["runs"].rows[j][c] = row[c] BY <2>2, <3>1, <4>1
      <4>3. QED BY <1>6, <2>4, <3>1, <4>1, <4>2
    <3>2. CASE j # k BY <2>2, <2>4, <3>2
    <3>3. QED BY <3>1, <3>2
  <2>5. Keeps(old, e["runs"].rows) BY <2>2, <2>4 DEF Keeps
  <2>6. ASSUME NEW j \in DOMAIN e["runs"].rows,
               {"review_status", "review_outcome"} \subseteq DOMAIN e["runs"].rows[j],
               e["runs"].rows[j]["review_status"] = "pending"
        PROVE  e["runs"].rows[j]["review_outcome"] = None
    <3>1. CASE j = k
      <4>1. {"review_status", "review_outcome"} \subseteq DOMAIN row \ {"evidence_sha256"}
        BY <2>2, <2>3, <2>6, <3>1
      <4>2. e["runs"].rows[j]["review_status"] = row["review_status"]
            /\ e["runs"].rows[j]["review_outcome"] = row["review_outcome"]
        BY <2>2, <3>1, <4>1
      <4>3. QED BY <1>6, <2>6, <4>1, <4>2
    <3>2. CASE j # k
      <4>1. j \in DOMAIN old /\ e["runs"].rows[j] = old[j] BY <2>2, <2>6, <3>2
      <4>2. QED BY <1>4, <2>6, <4>1 DEF PendingIsOpen, old
    <3>3. QED BY <3>1, <3>2
  <2>7. PendingIsOpen(db') BY <1>6, <2>6 DEF PendingIsOpen
  <2>8. QED BY <1>4, <2>1, <2>5, <2>7
<1>7. ASSUME NEW k \in Runs, NEW d \in Decisions, StoreRun(k, d)
      PROVE  Keeps(Rows("runs"), Rows("runs")') /\ PendingIsOpen(db')
  <2> DEFINE values == [decision |-> d, policy_version |-> "1.0", schema_version |-> "1.0",
                        review_status |-> IF d = "review" THEN "pending" ELSE "not_required"]
             row == Given(values, db["runs"].columns)
             new == Sealed(k, row, <<>>)
  <2>1. db' = new /\ k \notin DOMAIN old BY <1>4, <1>7 DEF StoreRun
  <2>2. DOMAIN row = db["runs"].columns BY DEF Given
  <2>3. "review_outcome" \in DOMAIN row => row["review_outcome"] = None BY DEF Given
  <2> HIDE DEF row
  <2>4. "evidence_sha256" \in DOMAIN row BY <1>3, <1>5, <2>2 DEF Ledger
  <2>5. Tables(new) = Tables(db) /\ Recorded(new, k, row, Body(row, <<>>))
    BY <1>2, <2>4, SealedRecords
  <2> HIDE DEF new, old
  <2>6. QED BY <1>6, <2>1, <2>3, <2>5
<1>8. ASSUME NEW k \in Runs, NEW outcome \in Outcomes, ReviewRun(k, outcome)
      PROVE  Keeps(Rows("runs"), Rows("runs")') /\ PendingIsOpen(db')
  <2> DEFINE row == [old[k] EXCEPT !.review_status = outcome, !.review_outcome = outcome]
             new == Sealed(k, row, <<outcome>>)
             event == Given([action |-> outcome], new["review_events"].columns)
  <2>1. k \in DOMAIN old /\ "review_status" \in db["runs"].columns /\ old[k].review_status = "pending"
    BY <1>4, <1>8 DEF ReviewRun
  <2>2. Columns(n) \subseteq DOMAIN old[k] BY <1>3, <2>1, LedgerHasColumns
  <2>3. {"review_status", "review_outcome"} \subseteq DOMAIN old[k]
    <3>1. "review_status" \in Columns(n) BY <1>3, <2>1, TrackedColumns DEF Ledger
    <3>2. QED BY <1>5, <2>2, <3>1
  <2>4. old[k]["review_outcome"] = None BY <1>4, <2>1, <2>3 DEF PendingIsOpen
  <2>5. db' = IF "review_events" \in Tables(db)
              THEN [new EXCEPT !["review_events"].rows = Put(@, k, event)] ELSE new
    BY <1>4, <1>8 DEF ReviewRun
  <2>6. /\ DOMAIN row = DOMAIN old[k] /\ row["review_status"] = outcome
        /\ \A c \in DOMAIN row \ {"review_status", "review_outcome"} : row[c] = old[k][c]
    <3> HIDE DEF old
    <3>1. QED BY <2>3
  <2>7. outcome # "pending" BY DEF Outcomes
  <2> HIDE DEF row, old
  <2>8. "evidence_sha256" \in DOMAIN row BY <1>5, <2>2, <2>6
  <2>9. \A c \in Facts \intersect DOMAIN row : old[k][c] \in {None, "pending"} \/ row[c] = old[k][c]
    <3>1. TAKE c \in Facts \intersect DOMAIN row
    <3>2. CASE c \in {"review_status", "review_outcome"} BY <2>1, <2>4, <3>2
    <3>3. CASE c \notin {"review_status", "review_outcome"} BY <2>6, <3>3
    <3>4. QED BY <3>2, <3>3
  <2>10. Tables(new) = Tables(db) /\ Recorded(new, k, row, Body(row, <<outcome>>))
    BY <1>2, <2>8, SealedRecords
  <2> HIDE DEF event, new
  <2>11. db'["runs"] = new["runs"] /\ Tables(db') = Tables(new)
    <3>1. CASE db' = new BY <3>1
    <3>2. CASE db' = [new EXCEPT !["review_events"].rows = Put(@, k, event)] BY <1>4, <2>10, <3>2 DEF Tables
    <3>3. QED BY <2>5, <3>1, <3>2
  <2>12. QED BY <1>6, <2>6, <2>7, <2>9, <2>10, <2>11
<1>9. QED BY <1>7, <1>8

LEMMA KeepsSame == ASSUME NEW rows PROVE Keeps(rows, rows)
BY DEF Keeps

(* What the open transaction holds is what the committed runs say. *)
LEMMA ExecuteRetains ==
    ASSUME Inductive, Structured, Calm, Retained, Execute PROVE Retained'
<1>1. /\ revision \in 0..LastRevision /\ Standing(db, revision) /\ Built(db, Brought(revision))
      /\ txn # None /\ Stands(txn) /\ Underway(txn) /\ Executes
      /\ Built(txn.db, Present(InHand(txn), Way(txn), txn.done))
      /\ PendingIsOpen(db) /\ PendingIsOpen(txn.db)
      /\ "runs" \in Tables(txn.db) => Keeps(Rows("runs"), txn.db["runs"].rows)
      /\ Possible(txn.db, Statement) /\ UNCHANGED <<revision, db>>
  BY DEF Inductive, Structured, Calm, Retained, Execute, Executes, Allowed
<1>2. Steps(txn, txn', Statement) BY <1>1, ExecuteSteps
<1>3. Before(txn.db, InHand(txn), Way(txn), txn.done) BY <1>1, BeforeStatement
<1>4. PICK n, way, done, next, d, s : /\ n = InHand(txn) /\ way = Way(txn) /\ done = txn.done
                                      /\ next = done + 1 /\ d = txn.db /\ s = Statement
  OBVIOUS
<1>5. /\ n \in 1..LastRevision /\ way \in {"up", "down"} /\ done \in Nat
      /\ n = IF way = "up" THEN txn.at + 1 ELSE txn.at
      /\ txn.at \in 0..LastRevision /\ txn.target \in 0..LastRevision
      /\ done < Len(Scripts(n, way)) /\ s = Scripts(n, way)[next]
      /\ txn'.db = After(d, s)
  BY <1>2, <1>4 DEF Steps
<1>6. Possible(d, s) /\ Before(d, n, way, done) /\ Shaped(d) BY <1>1, <1>3, <1>4 DEF Built, Shaped
<1>7. way = "up" => revision < n
  <2>1. SUFFICES ASSUME way = "up" PROVE revision < n OBVIOUS
  <2>2. PICK at, target : at = txn.at /\ target = txn.target OBVIOUS
  <2>3. (revision <= at /\ at <= target) \/ (target <= at /\ at <= revision)
    BY <1>1, <2>2 DEF Underway, Between
  <2>4. target > at BY <1>4, <2>1, <2>2 DEF Way
  <2>5. at \in Int /\ target \in Int /\ revision \in Int /\ n = at + 1 BY <1>1, <1>5, <2>1, <2>2
  <2>6. QED BY <2>3, <2>4, <2>5
<1>8. way = "up" /\ n <= 3 => Reviewed(d) = {}
  <2>1. SUFFICES ASSUME way = "up", n <= 3 PROVE Reviewed(d) = {} OBVIOUS
  <2>2. n <= 6 /\ revision < 3 BY <1>1, <1>5, <1>7, <2>1
  <2>3. Reviewed(d) \subseteq Reviewed(db) BY <1>1, <1>4, <2>1, <2>2 DEF Underway
  <2>4. Reviewed(db) = {} BY <1>1, <2>2, ReviewedSince
  <2>5. QED BY <2>3, <2>4
<1>9. PendingIsOpen(After(d, s)) BY <1>1, <1>4, <1>5, <1>6, <1>8, PendingStep
<1>10. "runs" \in Tables(After(d, s)) => Keeps(Rows("runs"), After(d, s)["runs"].rows)
  BY <1>1, <1>4, <1>5, <1>6, <1>7, KeepsStep
<1>11. Rows("runs")' = Rows("runs") BY <1>1 DEF Rows
<1>12. QED BY <1>1, <1>5, <1>9, <1>10, <1>11 DEF Retained

(* At any time an open transaction still has what the committed runs say, in every column
   they share, and nobody who waits for a review has an outcome already. *)
THEOREM CallsRetain == Spec => []Retained
<1>1. Init => Retained
  <2>1. Tables(Empty) = {} BY EmptyIsEmpty DEF Tables
  <2>2. QED BY <2>1 DEF Init, Retained, PendingIsOpen
<1>2. Inductive /\ Structured /\ Calm /\ Retained /\ [Next]_vars => Retained'
  <2>1. SUFFICES ASSUME Inductive, Structured, Calm, Retained, [Next]_vars PROVE Retained' OBVIOUS
  <2>2. CASE \/ \E k \in Runs, d \in Decisions : StoreRun(k, d)
             \/ \E k \in Runs, outcome \in Outcomes : ReviewRun(k, outcome)
    <3>1. PendingIsOpen(db') BY <2>1, <2>2, ProgramKeeps DEF Inductive, Retained
    <3>2. txn' = None BY <2>2 DEF StoreRun, ReviewRun
    <3>3. QED BY <3>1, <3>2 DEF Retained
  <2>3. ASSUME NEW target \in 0..LastRevision, Begin(target) PROVE Retained'
    <3>1. txn' = [db |-> db, at |-> revision, done |-> 0, target |-> target] /\ db' = db
      BY <2>3 DEF Begin
    <3>2. txn'.db = db BY <3>1
    <3>3. "runs" \in Tables(db) => Keeps(Rows("runs")', db["runs"].rows) BY <3>1, KeepsSame DEF Rows
    <3>4. QED BY <2>1, <3>1, <3>2, <3>3 DEF Retained
  <2>4. CASE Execute BY <2>1, <2>4, ExecuteRetains
  <2>5. CASE Refuse \/ Killed
    <3>1. txn' = None /\ db' = db BY <2>5 DEF Refuse, Killed
    <3>2. QED BY <2>1, <3>1 DEF Retained
  <2>6. CASE Commit
    <3>1. txn # None /\ db' = txn.db /\ txn' = None BY <2>6 DEF Commit
    <3>2. QED BY <2>1, <3>1 DEF Retained
  <2>7. CASE UNCHANGED vars
    <3>1. db' = db /\ txn' = txn BY <2>7 DEF vars
    <3>2. Rows("runs")' = Rows("runs") BY <3>1 DEF Rows
    <3>3. QED BY <2>1, <3>1, <3>2 DEF Retained
  <2>8. QED BY <2>1, <2>2, <2>3, <2>4, <2>5, <2>6, <2>7 DEF Next
<1>3. QED BY <1>1, <1>2, DatabaseStands, SchemaStands, CallsAreCalm, PTL DEF Spec

(* No upgrade, no downgrade and no program loses a run, its decision, its policy version or the
   outcome of its review, as long as the database has a table and a column for it. *)
THEOREM RunsKept == Spec => RunsAreKept
<1>1. Inductive /\ Retained /\ [Next]_vars => [revision' # 0 => Keeps(Rows("runs"), Rows("runs")')]_vars
  <2>1. SUFFICES ASSUME Inductive, Retained, [Next]_vars, revision' # 0
                 PROVE  Keeps(Rows("runs"), Rows("runs")')
    OBVIOUS
  <2>2. CASE \/ \E k \in Runs, d \in Decisions : StoreRun(k, d)
             \/ \E k \in Runs, outcome \in Outcomes : ReviewRun(k, outcome)
    BY <2>1, <2>2, ProgramKeeps DEF Inductive, Retained
  <2>3. CASE Commit
    <3>1. txn # None /\ txn.at = txn.target /\ db' = txn.db /\ revision' = txn.target
      BY <2>3 DEF Commit
    <3>2. txn.at # 0 /\ Stands(txn) BY <2>1, <3>1 DEF Inductive
    <3>3. Standing(txn.db, txn.at) BY <3>1, <3>2 DEF Stands
    <3>4. PICK columns, fields : Ledger(txn.db, columns, fields) BY <3>2, <3>3 DEF Standing
    <3>5. "runs" \in Tables(txn.db) BY <3>4, LedgerShape
    <3>6. Rows("runs")' = txn.db["runs"].rows BY <3>1, <3>5 DEF Rows
    <3>7. QED BY <2>1, <3>1, <3>5, <3>6 DEF Retained
  <2>4. CASE UNCHANGED db
    <3>1. Rows("runs")' = Rows("runs") BY <2>4 DEF Rows
    <3>2. QED BY <3>1, KeepsSame
  <2>5. \/ \E k \in Runs, d \in Decisions : StoreRun(k, d)
        \/ \E k \in Runs, outcome \in Outcomes : ReviewRun(k, outcome)
        \/ Commit \/ UNCHANGED db
    BY <2>1 DEF Next, Begin, Execute, Refuse, Killed, vars
  <2>6. QED BY <2>2, <2>3, <2>4, <2>5
<1>2. QED BY <1>1, DatabaseStands, CallsRetain, PTL DEF Spec, RunsAreKept
=============================================================================
