----------------------------- MODULE CheckRuns -----------------------------
(***************************************************************************)
(* The GitHub App of EvidencePlane (app/services/github.py and the webhook *)
(* and ingest routes): webhooks announce a pull request's commit, receipts *)
(* bring the decision about it, and the commit's check run on GitHub is to *)
(* show that decision.                                                     *)
(*                                                                         *)
(* Both handlers are `async def` and await GitHub's API, so they interleave *)
(* at every await: a step of this module is what happens between two       *)
(* awaits or two commits.  One commit of one pull request is modelled; the *)
(* App is configured.  Nothing here excludes a second process.             *)
(***************************************************************************)
EXTENDS Naturals, Sequences, FiniteSets

CONSTANTS
    Guids,      \* X-GitHub-Delivery
    Hooks,      \* webhook requests, a redelivery being one more
    Runs,       \* runs about the commit
    Receipts,   \* POST /api/v1/runs requests about it, a retry being one more
    MaxFaults,  \* bound on failed API calls and lost requests
    None        \* "no value"

ASSUME NoneIsNoValue == None \notin Guids \cup Hooks \cup Runs \cup Receipts
ASSUME FaultBound == MaxFaults \in Nat

Decisions == {"allow", "review", "block"}
Conclusion == [d \in Decisions |->
                  CASE d = "allow" -> "success" [] d = "review" -> "neutral" [] d = "block" -> "failure"]
Conclusions == {"success", "neutral", "failure"}

VARIABLES
    delivery,    \* delivery[g]: status of its github_webhook_deliveries row
    repoKnown,   \* the github_repositories row exists
    rows,        \* github_check_runs of the commit, in the order of created_at
    decided,     \* decided[k]: the decision stored for run k
    github,      \* GitHub's check runs, by external id
    comments,    \* GitHub's comments on the pull request, by id: the decision shown
    hook, receipt,   \* the handlers
    faults,      \* failed API calls and lost requests so far
    early,       \* history: a receipt found a row whose check run did not exist yet
    alone        \* history: receipts that had their row to themselves and met no failure

vars == <<delivery, repoKnown, rows, decided, github, comments, hook, receipt, faults, early, alone>>
history == <<early, alone>>
remote == <<github, comments>>

Row == [ext : Nat, status : {"queued", "completed"}, conclusion : Conclusions \cup {None},
        comment : Nat, of : Guids]
Check == [status : {"queued", "completed"}, conclusion : Conclusions \cup {None}]
NoRow == [ext |-> 0, status |-> "queued", conclusion |-> None, comment |-> 0, of |-> None]

HookPhases == {"new", "stored", "token", "create", "save", "handled", "done", "skipped", "lost"}
Hook == [phase : HookPhases, guid : Guids \cup {None}, kind : {"installation", "pull_request", None},
         row : Nat, ext : Nat]

(* loaded is the row as the lookup read it; a commit writes the columns that differ.
   met, which is history, is the newest row at the time the receipt was stored. *)
ReceiptPhases == {"new", "decided", "local", "token", "patch", "comment", "save", "done", "lost"}
Receipt == [phase : ReceiptPhases, run : Runs \cup {None}, row : Nat,
            loaded : Row \cup {NoRow}, comment : Nat, met : Nat]

Init ==
    /\ delivery = [g \in Guids |-> "none"]
    /\ repoKnown \in BOOLEAN   \* the App may have been installed before
    /\ rows = << >> /\ github = << >> /\ comments = << >>
    /\ decided = [k \in Runs |-> "none"]
    /\ hook = [h \in Hooks |-> [phase |-> "new", guid |-> None, kind |-> None, row |-> 0, ext |-> 0]]
    /\ receipt = [r \in Receipts |-> [phase |-> "new", run |-> None, row |-> 0, loaded |-> NoRow,
                                      comment |-> 0, met |-> 0]]
    /\ faults = 0
    /\ early = FALSE /\ alone = {}
-----------------------------------------------------------------------------
(* POST /api/v1/github/webhook *)

HookTo(h, phase) == hook' = [hook EXCEPT ![h].phase = phase]

(* store_delivery: the guid is the primary key, so a second insert has no effect either. *)
KnownOnceProcessed(g) == delivery[g] = "processed"
Known(g) == delivery[g] # "none"

HookSkip(h, g) ==
    /\ hook[h].phase = "new"
    /\ Known(g)
    /\ hook' = [hook EXCEPT ![h].phase = "skipped", ![h].guid = g]
    /\ UNCHANGED <<delivery, repoKnown, rows, decided, remote, receipt, faults, history>>

HookStore(h, g, kind) ==
    /\ hook[h].phase = "new"
    /\ ~Known(g)
    /\ delivery' = [delivery EXCEPT ![g] = "received"]
    /\ hook' = [hook EXCEPT ![h].phase = "stored", ![h].guid = g, ![h].kind = kind]
    /\ UNCHANGED <<repoKnown, rows, decided, remote, receipt, faults, history>>

(* handle_installation_event *)
HookInstall(h) ==
    /\ hook[h].phase = "stored" /\ hook[h].kind = "installation"
    /\ repoKnown' = TRUE
    /\ HookTo(h, "handled")
    /\ UNCHANGED <<delivery, rows, decided, remote, receipt, faults, history>>

(* handle_pull_request_event up to its first await: the pull request and the pending
   check run are committed. *)
HookRow(h) ==
    /\ hook[h].phase = "stored" /\ hook[h].kind = "pull_request"
    /\ rows' = Append(rows, [NoRow EXCEPT !.of = hook[h].guid])
    /\ hook' = [hook EXCEPT ![h].phase = "token", ![h].row = Len(rows) + 1]
    /\ UNCHANGED <<delivery, repoKnown, decided, remote, receipt, faults, history>>

(* await get_installation_token *)
HookToken(h) ==
    /\ hook[h].phase = "token"
    /\ HookTo(h, "create")
    /\ UNCHANGED <<delivery, repoKnown, rows, decided, remote, receipt, faults, history>>

(* await create_github_check_run *)
HookCreate(h) ==
    /\ hook[h].phase = "create"
    /\ github' = Append(github, [status |-> "queued", conclusion |-> None])
    /\ hook' = [hook EXCEPT ![h].phase = "save", ![h].ext = Len(github) + 1]
    /\ UNCHANGED <<delivery, repoKnown, rows, decided, comments, receipt, faults, history>>

(* The row was expired by its commit, so its status is written whatever it is by now. *)
HookSave(h) ==
    /\ hook[h].phase = "save"
    /\ rows' = [rows EXCEPT ![hook[h].row].ext = hook[h].ext, ![hook[h].row].status = "queued"]
    /\ HookTo(h, "handled")
    /\ UNCHANGED <<delivery, repoKnown, decided, remote, receipt, faults, history>>

(* mark_delivery_processed *)
HookReply(h) ==
    /\ hook[h].phase = "handled"
    /\ delivery' = [delivery EXCEPT ![hook[h].guid] = "processed"]
    /\ HookTo(h, "done")
    /\ UNCHANGED <<repoKnown, rows, decided, remote, receipt, faults, history>>

Fault == faults < MaxFaults /\ faults' = faults + 1

(* An API call that fails, with or without having had its effect, is swallowed. *)
HookApiFailsUnmarked(h) ==
    /\ Fault
    /\ hook[h].phase \in {"token", "create"}
    /\ \/ UNCHANGED github
       \/ /\ hook[h].phase = "create"
          /\ github' = Append(github, [status |-> "queued", conclusion |-> None])
    /\ HookTo(h, "done")
    /\ UNCHANGED <<delivery, repoKnown, rows, decided, comments, receipt, history>>

HookApiFails(h) ==
    /\ Fault
    /\ hook[h].phase \in {"token", "create"}
    /\ \/ UNCHANGED github
       \/ /\ hook[h].phase = "create"
          /\ github' = Append(github, [status |-> "queued", conclusion |-> None])
    /\ HookTo(h, "handled")
    /\ UNCHANGED <<delivery, repoKnown, rows, decided, comments, receipt, history>>

(* A database error leaves the session unusable, so the delivery stays "received"; any
   other exception marks it "failed"; a crash leaves it as it is. *)
HookLost(h) ==
    /\ Fault
    /\ hook[h].phase \in {"stored", "token", "create", "save", "handled"}
    /\ \/ UNCHANGED delivery
       \/ hook[h].phase = "stored" /\ delivery' = [delivery EXCEPT ![hook[h].guid] = "failed"]
    /\ HookTo(h, "lost")
    /\ UNCHANGED <<repoKnown, rows, decided, remote, receipt, history>>
-----------------------------------------------------------------------------
(* POST /api/v1/runs with the App configured: store_run, then update_check_run_for_run *)

ReceiptTo(r, phase) == receipt' = [receipt EXCEPT ![r].phase = phase]

(* The newest row the App can find whose check run exists by now. *)
Newest == IF repoKnown /\ rows # << >> /\ rows[Len(rows)].ext # 0 THEN Len(rows) ELSE 0

(* store_run decides a new run and replays the decision of a stored one. *)
ReceiptDecide(r, k, d) ==
    /\ receipt[r].phase = "new"
    /\ decided[k] \in {"none", d}
    /\ decided' = [decided EXCEPT ![k] = d]
    /\ receipt' = [receipt EXCEPT ![r].phase = "decided", ![r].run = k, ![r].met = Newest]
    /\ UNCHANGED <<delivery, repoKnown, rows, remote, hook, faults, history>>

Shown(r) == Conclusion[decided[receipt[r].run]]

(* find_check_run_for_commit: the newest. *)
FoundOldest == IF repoKnown /\ rows # << >> THEN 1 ELSE 0
Found == IF repoKnown THEN Len(rows) ELSE 0

ReceiptNoRow(r) ==
    /\ receipt[r].phase = "decided"
    /\ Found = 0
    /\ ReceiptTo(r, "done")
    /\ UNCHANGED <<delivery, repoKnown, rows, decided, remote, hook, faults, history>>

InHand(r) == receipt[r].phase \in {"local", "token", "patch", "comment", "save"}

(* A check run without an external id has only its local row completed. *)
ReceiptLookup(r) ==
    /\ receipt[r].phase = "decided"
    /\ Found # 0
    /\ receipt' = [receipt EXCEPT ![r].phase = IF rows[Found].ext = 0 THEN "local" ELSE "token",
                                 ![r].row = Found, ![r].loaded = rows[Found]]
    /\ early' = (early \/ rows[Found].ext = 0)
    /\ alone' = {q \in alone : receipt[q].row # Found}
                \cup {q \in {r} : rows[Found].ext # 0 /\ \A s \in Receipts : InHand(s) => receipt[s].row # Found}
    /\ UNCHANGED <<delivery, repoKnown, rows, decided, remote, hook, faults>>

ReceiptToken(r) ==
    /\ receipt[r].phase = "token"
    /\ ReceiptTo(r, "patch")
    /\ UNCHANGED <<delivery, repoKnown, rows, decided, remote, hook, faults, history>>

(* What update_github_check_run and upsert_github_pr_comment make GitHub show. *)
Patched(r) ==
    [github EXCEPT ![receipt[r].loaded.ext] = [status |-> "completed", conclusion |-> Shown(r)]]
Commented(r) ==
    IF receipt[r].loaded.comment = 0 THEN Append(comments, Shown(r))
    ELSE [comments EXCEPT ![receipt[r].loaded.comment] = Shown(r)]
CommentId(r) == IF receipt[r].loaded.comment = 0 THEN Len(comments) + 1 ELSE receipt[r].loaded.comment

(* await update_github_check_run *)
ReceiptPatch(r) ==
    /\ receipt[r].phase = "patch"
    /\ github' = Patched(r)
    /\ ReceiptTo(r, "comment")
    /\ UNCHANGED <<delivery, repoKnown, rows, decided, comments, hook, faults, history>>

(* await upsert_github_pr_comment *)
ReceiptComment(r) ==
    /\ receipt[r].phase = "comment"
    /\ comments' = Commented(r)
    /\ receipt' = [receipt EXCEPT ![r].phase = "save", ![r].comment = CommentId(r)]
    /\ UNCHANGED <<delivery, repoKnown, rows, decided, github, hook, faults, history>>

(* The UPDATE names only the columns that differ from those loaded. *)
Written(new, loaded, current) == IF new = loaded THEN current ELSE new

CompletedOnce(r, current) ==
    IF receipt[r].loaded.status = "completed" THEN current
    ELSE [current EXCEPT !.status = "completed", !.conclusion = Shown(r)]
Completed(r, current) ==
    [current EXCEPT !.status = Written("completed", receipt[r].loaded.status, @),
                    !.conclusion = Written(Shown(r), receipt[r].loaded.conclusion, @)]

ReceiptLocal(r) ==
    /\ receipt[r].phase = "local"
    /\ rows' = [rows EXCEPT ![receipt[r].row] = Completed(r, @)]
    /\ ReceiptTo(r, "done")
    /\ UNCHANGED <<delivery, repoKnown, decided, remote, hook, faults, history>>

Commit(r, current) ==
    LET row == Completed(r, current)
    IN  [row EXCEPT !.comment = Written(receipt[r].comment, receipt[r].loaded.comment, @)]

ReceiptSave(r) ==
    /\ receipt[r].phase = "save"
    /\ rows' = [rows EXCEPT ![receipt[r].row] = Commit(r, @)]
    /\ ReceiptTo(r, "done")
    /\ UNCHANGED <<delivery, repoKnown, decided, remote, hook, faults, history>>

ReceiptApiFailsAndSaves(r) ==
    /\ Fault
    /\ receipt[r].phase \in {"token", "patch", "comment"}
    /\ \/ UNCHANGED remote
       \/ receipt[r].phase = "patch" /\ github' = Patched(r) /\ UNCHANGED comments
       \/ receipt[r].phase = "comment" /\ comments' = Commented(r) /\ UNCHANGED github
    /\ receipt' = [receipt EXCEPT ![r].phase = "save"]
    /\ alone' = alone \ {r}
    /\ UNCHANGED <<delivery, repoKnown, rows, decided, hook, early>>

ReceiptApiFails(r) ==
    /\ Fault
    /\ receipt[r].phase \in {"token", "patch", "comment"}
    /\ \/ UNCHANGED remote
       \/ receipt[r].phase = "patch" /\ github' = Patched(r) /\ UNCHANGED comments
       \/ receipt[r].phase = "comment" /\ comments' = Commented(r) /\ UNCHANGED github
    /\ ReceiptTo(r, "done")
    /\ alone' = alone \ {r}
    /\ UNCHANGED <<delivery, repoKnown, rows, decided, hook, early>>

ReceiptLost(r) ==
    /\ Fault
    /\ receipt[r].phase \in {"decided", "local", "token", "patch", "comment", "save"}
    /\ ReceiptTo(r, "lost")
    /\ alone' = alone \ {r}
    /\ UNCHANGED <<delivery, repoKnown, rows, decided, remote, hook, early>>
-----------------------------------------------------------------------------
HookStep(h) ==
    HookInstall(h) \/ HookRow(h) \/ HookToken(h) \/ HookCreate(h) \/ HookSave(h) \/ HookReply(h)
ReceiptStep(r) ==
    \/ ReceiptNoRow(r) \/ ReceiptLocal(r) \/ ReceiptLookup(r) \/ ReceiptToken(r)
    \/ ReceiptPatch(r) \/ ReceiptComment(r) \/ ReceiptSave(r)

Next ==
    \/ \E h \in Hooks :
          \/ \E g \in Guids : HookSkip(h, g)
          \/ \E g \in Guids, kind \in {"installation", "pull_request"} : HookStore(h, g, kind)
          \/ HookStep(h) \/ HookApiFails(h) \/ HookLost(h)
    \/ \E r \in Receipts :
          \/ \E k \in Runs, d \in Decisions : ReceiptDecide(r, k, d)
          \/ ReceiptStep(r) \/ ReceiptApiFails(r) \/ ReceiptLost(r)

(* A handler that has started goes on: the loop is scheduled, and every call to GitHub
   is answered or times out after 10 seconds. *)
Fairness ==
    /\ \A h \in Hooks : WF_vars(HookStep(h))
    /\ \A r \in Receipts : WF_vars(ReceiptStep(r))

Spec == Init /\ [][Next]_vars /\ Fairness
-----------------------------------------------------------------------------
TypeOK ==
    /\ delivery \in [Guids -> {"none", "received", "processed", "failed"}]
    /\ {repoKnown, early} \subseteq BOOLEAN /\ faults \in 0..MaxFaults
    /\ rows \in Seq(Row) /\ github \in Seq(Check) /\ comments \in Seq(Conclusions)
    /\ decided \in [Runs -> Decisions \cup {"none"}]
    /\ hook \in [Hooks -> Hook] /\ receipt \in [Receipts -> Receipt]
    /\ alone \subseteq Receipts

Quiet ==
    /\ \A h \in Hooks : hook[h].phase \in {"new", "done", "skipped", "lost"}
    /\ \A r \in Receipts : receipt[r].phase \in {"new", "done", "lost"}

(* RedeliveryCreatesNothing: GitHub redelivers a webhook it saw no answer to, also while
   the first delivery is still being handled.  However the two meet, one delivery makes
   at most one row and one check run, and a check run belongs to one row. *)
RedeliveryCreatesNothing ==
    /\ \A i, j \in DOMAIN rows : i # j => rows[i].of # rows[j].of
    /\ Len(github) <= Len(rows)
    /\ \A i, j \in DOMAIN rows : i # j /\ rows[i].ext # 0 => rows[i].ext # rows[j].ext

(* RowNeverAheadOfGitHub: GitHub is told first, so whatever calls fail, requests die or
   receipts cross, a row says "completed" only when GitHub's check run is.  It needs
   that no receipt came before the external id: that one completes the row alone. *)
RowNeverAheadOfGitHub ==
    ~early =>
    \A i \in DOMAIN rows :
        rows[i].status = "completed" =>
            rows[i].ext # 0 /\ github[rows[i].ext].status = "completed"

(* LoneReceiptRepairs: whatever disagreement crossing receipts, failed calls, a lost request
   or one that came too early left behind, a receipt that then has the row to itself leaves
   row, check run and comment telling its decision, until another looks the row up. *)
LoneReceiptRepairs ==
    \A r \in alone :
        receipt[r].phase = "done" =>
            LET row == rows[receipt[r].row]
            IN /\ row.status = "completed" /\ row.conclusion = Shown(r)
               /\ github[row.ext] = [status |-> "completed", conclusion |-> Shown(r)]
               /\ comments[row.comment] = Shown(r)

(* EachDeliverySettles: the `finally` marks the delivery on every path a failing call can
   take, so once the handlers are through one is still "received", which no redelivery
   gets past, only if the request that stored it died. *)
EachDeliverySettles ==
    Quiet => \A g \in Guids :
        delivery[g] = "received" => \E h \in Hooks : hook[h].phase = "lost" /\ hook[h].guid = g

(* NewestIsCompleted: a receipt whose commit's newest row had its check run when it came
   completes that check run, unless something fails or a newer row appears meanwhile; a
   reopened pull request does not leave receipts with the row of the closed one. *)
NewestIsCompleted ==
    Quiet /\ faults = 0 =>
    \A r \in Receipts :
        LET i == receipt[r].met
        IN receipt[r].phase = "done" /\ i # 0 /\ i = Len(rows) =>
              github[rows[i].ext].status = "completed"

(* HandlersFinish: with fairness the handlers are through again and again, so what the
   properties above say of quiet states is not put off for ever. *)
HandlersFinish == []<>Quiet

(* MatchingCheckRunIsUpdated (does not hold): "Called after a receipt is stored. Updates
   matching GitHub check run if one exists."  A receipt that overtakes the webhook's own
   call finds the row without an external id and leaves GitHub's check run queued. *)
MatchingCheckRunIsUpdated ==
    Quiet /\ faults = 0 =>
    \A r \in Receipts :
        LET i == receipt[r].row
        IN receipt[r].phase = "done" /\ i # 0 /\ rows[i].ext # 0 =>
              github[rows[i].ext].status = "completed"
=============================================================================
