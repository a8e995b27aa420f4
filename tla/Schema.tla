------------------------------- MODULE Schema -------------------------------
(***************************************************************************)
(* A database as the migrations of alembic/versions see it, and what       *)
(* PostgreSQL does with each of their statements.  A database is a         *)
(* function from the names of its tables to records of                     *)
(*    columns  the columns that statements add, drop or fill,              *)
(*    refers   the foreign keys, as pairs of a column and a table,         *)
(*    guarded  whether a trigger refuses UPDATE and DELETE,                *)
(*    rows     the rows by key, each a function of the columns.            *)
(***************************************************************************)
EXTENDS Naturals, Sequences, Functions, TLC

CONSTANT None       \* NULL

Empty == <<>>
Tables(db) == DOMAIN db

(* f with value v at x, and f extended by what g has more. *)
Put(f, x, v) == [y \in DOMAIN f \union {x} |-> IF y = x THEN v ELSE f[y]]
Over(f, g) == [x \in DOMAIN f \union DOMAIN g |-> IF x \in DOMAIN f THEN f[x] ELSE g[x]]

(* Every row k gains column c with value f[k], or loses it. *)
Filled(rows, c, f) == [k \in DOMAIN rows |-> Put(rows[k], c, f[k])]
Dropped(rows, c) == [k \in DOMAIN rows |-> Restrict(rows[k], DOMAIN rows[k] \ {c})]

(***************************************************************************)
(* The statements.                                                         *)
(***************************************************************************)
CreateTable(t, columns, refers) ==
    [op |-> "create_table", table |-> t, columns |-> columns, refers |-> refers]
DropTable(t) == [op |-> "drop_table", table |-> t]
AddColumn(t, c, default) == [op |-> "add_column", table |-> t, column |-> c, default |-> default]
DropColumn(t, c) == [op |-> "drop_column", table |-> t, column |-> c]
CreateForeignKey(t, c, u) == [op |-> "create_foreign_key", table |-> t, column |-> c, to |-> u]
DropConstraint(t, c, u) == [op |-> "drop_constraint", table |-> t, column |-> c, to |-> u]
CreateTrigger(t) == [op |-> "create_trigger", table |-> t]
DropTrigger(t) == [op |-> "drop_trigger", table |-> t]
Insert(t, key, row) == [op |-> "insert", table |-> t, key |-> key, row |-> row]
Update(t, what) == [op |-> "update", table |-> t, what |-> what]

(* The value of a foreign key is NULL or the key of a row. *)
Refers(db, row, c, u) == row[c] \in DOMAIN db[u].rows \union {None}

(* A table goes only when no other one refers to it, a foreign key comes   *)
(* only when every value of its column satisfies it.                       *)
Possible(db, s) ==
    /\ s.op = "create_table" => /\ s.table \notin Tables(db)
                                /\ \A r \in s.refers : r[2] \in Tables(db)
    /\ s.op # "create_table" => s.table \in Tables(db)
    /\ s.op = "drop_table" => \A t \in Tables(db) \ {s.table} : \A r \in db[t].refers : r[2] # s.table
    /\ s.op = "add_column" => s.column \notin db[s.table].columns
    /\ s.op = "drop_column" => s.column \in db[s.table].columns
    /\ s.op = "create_foreign_key" =>
           /\ s.to \in Tables(db)
           /\ \A k \in DOMAIN db[s.table].rows :
                 Refers(db, db[s.table].rows[k], s.column, s.to)
    /\ s.op = "drop_constraint" => <<s.column, s.to>> \in db[s.table].refers
    /\ s.op = "insert" => \A r \in db[s.table].refers : Refers(db, s.row, r[1], r[2])

Effect(db, s) ==
    CASE s.op = "create_table" ->
             Put(db, s.table, [columns |-> s.columns, refers |-> s.refers, guarded |-> FALSE,
                               rows |-> Empty])
      [] s.op = "drop_table" -> Restrict(db, Tables(db) \ {s.table})
      [] s.op = "add_column" ->
             [db EXCEPT ![s.table].columns = @ \union {s.column},
                        ![s.table].rows = Filled(@, s.column, [k \in DOMAIN @ |-> s.default])]
      [] s.op = "drop_column" ->
             [db EXCEPT ![s.table].columns = @ \ {s.column},
                        ![s.table].refers = {r \in @ : r[1] # s.column},
                        ![s.table].rows = Dropped(@, s.column)]
      [] s.op = "create_foreign_key" -> [db EXCEPT ![s.table].refers = @ \union {<<s.column, s.to>>}]
      [] s.op = "drop_constraint" -> [db EXCEPT ![s.table].refers = @ \ {<<s.column, s.to>>}]
      [] s.op = "create_trigger" -> [db EXCEPT ![s.table].guarded = TRUE]
      [] s.op = "drop_trigger" -> [db EXCEPT ![s.table].guarded = FALSE]
      [] s.op = "insert" -> [db EXCEPT ![s.table].rows = Put(@, s.key, s.row)]

(* An UPDATE that turns db into new touches a table under the trigger. *)
Touches(db, new) == \E t \in Tables(db) : db[t].guarded /\ new[t].rows # db[t].rows
=============================================================================
