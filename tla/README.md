# A TLA+ model of EvidencePlane

EvidencePlane decides whether AI-generated engineering work may go ahead. CI posts a
signed *receipt* of a change; a policy answers `allow`, `review` or `block`; a human
concludes a review; every run has a sealed *evidence pack* that can be exported. This
directory models the parts of it that keep state, checks them with TLC on small
instances and proves the central properties with TLAPS.

## The system and how its parts interact

The service is one FastAPI process (`Dockerfile`, `railway.json`: one uvicorn, one
replica, restarted on failure; two processes overlap while a deployment is replaced)
over one PostgreSQL database at READ COMMITTED. An `async def` endpoint does its
(synchronous) database work on the event loop, so between two of its awaits no other
async endpoint of the process runs; a `def` endpoint runs in the thread pool beside
everything else. Handlers share nothing but the tables. `OperationalError` is answered
with 503, any other database error with 500; either way the open transaction is lost.

| Part | State it keeps | Operations | Runs on | Talks to |
| --- | --- | --- | --- | --- |
| Run ingest (`services/runs.py`) | `runs`, `violations`, `evidence_packs` | `store_run` | event loop | policy engine, policy configurations, audit, case rooms, GitHub App |
| Human review (`services/runs.py`) | `review_events`, review columns of `runs` | `review_run` | event loop | evidence sealing, audit |
| Evidence export (`services/runs.py`, `evidence.py`) | `evidence_packs`, `runs.evidence_sha256` | `get_evidence` | thread pool | case rooms (reads) |
| Case rooms (`case_rooms.py`) | `cases`, `case_events`, `case_messages`, `case_external_links` | create, resolve, dismiss, message, link | thread pool (create: ingest) | audit |
| Policy engine (`policy.py`) | none | `evaluate_policy` | caller | |
| Policy configurations (`policy_config.py`) | `policy_configs` | create, deactivate, dry run | event loop, thread pool | policy engine, audit |
| GitHub App (`github.py`, `routes.py`) | `github_*` tables | webhook, check-run update | event loop, with awaits | GitHub's API, ingest |
| Audit (`audit.py`) | `audit_events` | emit, flush to SIEM, bundle | caller, thread pool | SIEM |
| Sessions (`auth.py`, `scim.py`, `oidc.py`) | `users`, `memberships`, `sessions` | issue, resolve, revoke, SCIM, OIDC | both | identity provider |
| Evidence sources (`evidence_sources.py`) | `evidence_sources` | create, disable | thread pool | ingest reads and stamps them |
| Advisor (`advisor.py`) | `advisor_findings` | request a finding | thread pool | language model, case rooms (reads) |
| Database connections (`database.py`) | the pool: 5 + 10 connections per process | check out, return, time out after 30 s | whoever queries | every handler |
| Migrations (`alembic/`) | the schema, `alembic_version`, the rows they backfill | upgrade, downgrade | before the server starts | every table |
| Clients (`connectors/`, `adapters/`, `scripts/`) | the exit code of a CI job | build, sign, post a receipt, judge the answer | CI | ingest |

What makes each part correct:

- ingest: one decision per idempotency key, for ever, told to everyone who posts that
  payload; a case for every review or block run; an audit row for every decision;
- review: a pending run is concluded once; row, event, pack and audit row agree; the
  event chain has no gap and no fork;
- export: a pack never shows what was not committed, its digest is its own, and what an
  export leaves behind is current unless somebody else was at work;
- case rooms: only requests that overlap close a case twice or fork its chain of events;
  the tables say what the events say, column by column;
- policy: a secret always blocks; more findings never soften a decision, unless they bring
  in a rule that is set softer than the later one that decided;
- GitHub App: the check run of a commit ends with the decision of its receipt; one that
  has its row to itself leaves its decision everywhere, whatever went wrong before;
- audit: every event reaches the SIEM at least once; a bundle holds the runs of its days;
- sessions: after deactivation nobody acts in the user's name, but on a session whose issue
  crossed it;
- evidence sources: `last_seen_at` is the newest run's, a disabled source stays disabled;
- connections: every request gives its connection back or is refused one;
- migrations: row, pack, digest and events of a run still agree after any upgrades and
  downgrades, and no upgrade is refused;
- clients: a pipeline ends green only with its own receipt on record and a decision its
  enforcement lets pass, a killed Jenkins connector apart.

What is hard about them: the handlers of one run interleave between SELECT and commit;
ingest has two commits; retries, restarts and two processes during a deployment; awaits
in the GitHub handlers; an event loop that waits for a connection whose holder waits for
the event loop; clients that give up before the server does; migrations over rows that
older programs wrote. `PROJECT.json` lists each hazard at its line.

## Modules

| Module | What it is |
| --- | --- |
| `RunLedger` | ingest, review, export, crashes and database errors over the shared tables |
| `RunRecord` | the promise to clients about one run; `RunLedger` implements it |
| `RunLedgerInv` | the inductive invariant of `RunLedger` |
| `RunLedgerProofs` | the TLAPS proofs |
| `CaseRoom` | resolve, dismiss, message, link and advise requests racing on one case; `CaseRoomProofs` has the TLAPS proofs |
| `Policy` | `evaluate_policy` as operators; `PolicyGrowth` states what it promises of receipts that are a finding apart; `PolicyProofs` proves it |
| `PolicyConfigs` | configurations and evidence sources that change while receipts are ingested (uses `Policy`); its proofs are in `PolicyProofs` too |
| `CheckRuns` | GitHub webhooks and receipts that meet at a commit's check run; `CheckRunsProofs` has the TLAPS proofs |
| `AuditTrail` | audit events, the flush to the SIEM, audit bundles; `AuditTrailProofs` has the TLAPS proofs |
| `Sessions` | users, memberships and session tokens under SCIM, OIDC and the admin; `SessionsProofs` has the TLAPS proofs |
| `Schema`, `Revisions`, `Migrations` | what PostgreSQL does with a statement; the statements of the fourteen revisions; calls of alembic between the programs' writes; `MigrationsProofs` has the TLAPS proofs |
| `Clients` | the CI jobs: receipts, keys, exit codes (uses `Policy`) |
| `ConnPool` | the connections and the event loop of one process |
| `Service` | jobs, connections and the promise of `RunRecord` composed |
| `ServiceProofs` | the TLAPS proofs about `Service` |
| `MC*` | instances for TLC |

An operator that stands just before a mapped one, takes the same parameters and is used
nowhere is a plausible wrong version of it: putting it in the other's place breaks the
property that `PROJECT.json` names beside it, which shows that the property says
something about the code.

### RunLedger

A run is named by its idempotency key `k`; `runs[k]`, `packs[k]`, `events[k]`,
`cases[k]` and `audit[k]` are its rows. A request is a record with a `phase` that says
which database statement comes next; what it has read so far is in its other fields.
`loop[p]` is the async handler that process `p` is running.

| Code | Actions |
| --- | --- |
| `store_run`: look up, replay, conflict | `PostReplay`, `PostConflict`, `PostMiss` |
| first commit; lost to the UNIQUE key | `PostInsert`, `PostDuplicate` |
| `auto_create_case`, second commit; answer | `PostCase`, `PostReply` |
| `review_run`: run, pack, events; refuse | `ReviewRow`, `ReviewPack`, `ReviewEvents`; `ReviewRefused` |
| its commit; failures; answer | `ReviewCommit`, `ReviewFails`, `ReviewReply` |
| `get_evidence`: run, pack, events; 404 | `ExportRow`, `ExportPack`, `ExportEvents`; `ExportNotFound` |
| `_sync_evidence_review_state` and commit | `ExportUnchanged`, `ExportWrite` |
| refresh, second check, answer | `ExportRefresh`, `ExportReply` |
| process restart; `OperationalError` | `Crash`; `PostDbError`, `ReviewDbError`, `ExportDbError` |

Abstractions: the policy's answer is any decision; a payload is its digest; a digest is
its content (SHA-256 taken as injective); each review request has an author of its own,
who also stands for the event's digest, note and time; only the part of an evidence body
that changes after ingest is kept. A request that the framework refuses before the
handler (signature, session, validation) does not appear.

### CaseRoom

One case, its messages and its events; a request reads the row, the messages and the
events by one statement each, then commits. `Close` is `resolve_case` and `dismiss_case`,
`AddMessage` and `AddLink` the other two writers, `Reply` the refresh and the answer,
`Fail` a database error. Events carry the number and the predecessor their request
computed, and the note of a closing's payload; nothing in the schema makes number or
predecessor unique. A commit writes only the columns that differ from those read, and a
note is optional: a request without one leaves the note of whoever closed the case since
it was read (`NoteLeft`), and the row is then neither closing's. So `EventsTellAll`
compares the row with the events column by column: status and author are those of the
last closing, the note is that of the last closing that left one. That they are of one
closing (`RowIsOneClosing`) holds for requests in turn only. `begun` is history: how many
events there were when the request of each event began, so that `SeenIsBehind` can say
what a request that overlaps others still gets right.
`Advise` is the advisor: it reads the case, asks the language model and commits a finding
about what it read, while the case changes; its request is one of the racing ones.

### Policy, PolicyGrowth and PolicyProofs

`Policy` follows `evaluate_policy` at the level of its branches: which branches apply,
which comes first, what it decides under the settings, the override check at the end,
score and violations. A receipt is reduced to what the branches ask of it: its files (a
secret pattern, code or not), the number of changed lines, the outcomes of its tests,
whether a tool used the network, protected branch, override and approver.
`PolicyGrowth` is no part of the code and has no state: it says of settings what they
promise every receipt (`GivesReasons`) and every receipt a finding worse (`Grown`,
`NeverSoftens`). Settings are free, so a finding can soften a decision: it brings in a rule
that comes before the one that decided and is set softer (`Overshadowed`); `NeverSoftens`
says that this is the only case. The properties `AllowedMeansClean` and `NeverSofter` of
`PolicyConfigs` say that the settings in force keep these promises; run `policies` checks
them for the default settings and an alternative whose rules do not get softer along the
chain (it allows code without tests, blocks a network call, reviews failed tests);
`PolicyProofs` proves them for all.

### PolicyConfigs

Rows of `policy_configs` in the order of their commits, each with its `created_at`
(`clock` counts the requests), version and settings. Creating runs on the event loop
(`CreateRead`, `CreateCommit`), deactivating in the thread pool (`DeactivateRead`,
`DeactivateCommit`), ingest looks up the newest active row and decides with it
(`IngestLookup`, `IngestCommit`). In between it looks up the receipt's evidence source
(`IngestSource`), drops one that is unknown or disabled, and stamps it in the commit;
`CreateSource` and `DisableSource` run in the thread pool beside it.
`VersionsNameConfigs`, `NoNewerConfigIgnored` and, for the order of the stamps,
`SourcesTellTheirRuns` hold because one process has one event loop; with two processes
none would.

### CheckRuns

| Code | Actions |
| --- | --- |
| webhook: delivery stored or skipped | `HookStore`, `HookSkip` |
| `handle_installation_event` | `HookInstall` |
| `handle_pull_request_event`: row; token; check run; its id | `HookRow`, `HookToken`, `HookCreate`, `HookSave` |
| `mark_delivery_processed` | `HookReply` |
| receipt stored; row looked up | `ReceiptDecide`, `ReceiptLookup`, `ReceiptNoRow` |
| `update_check_run_for_run`: local only; token; PATCH; comment; commit | `ReceiptLocal`, `ReceiptToken`, `ReceiptPatch`, `ReceiptComment`, `ReceiptSave` |
| a call to GitHub fails, with or without effect | `HookApiFails`, `ReceiptApiFails` |
| the request dies | `HookLost`, `ReceiptLost` |

GitHub's check runs and comments are external state, changed by the calls that reach
it. A row's columns are written by column: `HookSave` writes the status
unconditionally, because its row was expired by the first commit, `ReceiptSave` only what
differs from what it loaded. Steps are as fine as two processes would make them.

A receipt that comes before its row has an external id completes the row alone; receipts
that cross, and calls that fail, leave row, check run and comment in disagreement. Three
history variables say what the code promises all the same: `early` (a receipt found a row
without an external id), `met` (the newest row at the time a receipt was stored) and
`alone` (the receipts that have had their row to themselves since they looked it up and
met no failure). `LoneReceiptRepairs` says that such a receipt leaves its decision in all
three places, whatever it found; with two receipts and a fault the run has the second one
repair what the first left behind, and the theorem has any number of them.

### AuditTrail

`Emit` gives an event its `created_at`, `Commit` makes it visible, in any order. A flush
reads a page of the oldest unmarked events (`IsPage`), posts them one by one, stops at the first
POST that raises and marks what it posted in one commit. `Immutable` says whether the
trigger of migration 0014 is there; with it the commit fails. A bundle runs its three
queries in the order of `Queries`, the first of them over the days it is asked for:
`DayOf` and `InLastSecond` say when a run was stored, since the period ends at
23:59:59.000000 of its last day. `missed` is history: the stored runs the first query
left out.

### Sessions

A request reads, then commits; sessions are named by the request that issues them.
`ReadUnknown`/`Create`/`Conflict` are the three ways to create a user,
`ReadMembership`/`Issue` the two ways to get a further session, `LoadMembership`,
`SelectSessions`, `CommitDeactivation` and `CommitActivation` are SCIM's PATCH and DELETE
(the SELECT flushes the membership's UPDATE, so the request holds its row from then on),
`LoadForRevoke`/`Revoke` the logout, `Resolve`/`Refuse`/`Touch`/`Act` what
`require_reviewer` does in front of a handler. `crossed` is history: the issues that were
under way together with a deactivation of their user. `InactiveIsShutOut` speaks of one
session at a time: a crossed issue excuses the session it issued and no other.

### Schema, Revisions and Migrations

`Schema` gives a database as tables with columns, foreign keys, a trigger flag and rows,
and says which statement PostgreSQL refuses and what the others do. `Revisions` writes the
`upgrade()` and `downgrade()` of each file of `alembic/versions` as a sequence of such
statements; the backfills and the rewriting of sealed packs in 0002, 0003, 0004 and 0006
are functions on the rows. Columns no property looks at and indexes are left out.
`SchemaFollowsRevision` compares all parts of the schema (tables, columns, references,
triggers) with what the upgrades up to the committed revision brought; `RunsAreKept` says
that what is settled about a run outlives every call.

`Migrations` executes a call in one transaction, as `env.py` does (`Begin`, `Execute`,
`Refuse`, `Commit`, `Killed`): revision by revision from where the database is to the
target (`txn.at`, `Upwards`), each statement by statement (`txn.done`). Between calls the
program of the current revision writes and reviews runs (`StoreRun`, `ReviewRun`). Only
the newest program is in the repository: the older ones are assumed to fill the columns
they had in the same way.

### Clients, ConnPool and Service

`Clients` follows one CI job: `Build` makes a receipt of what the checkout holds
(`ConnectorReceipt`, `ActionsReceipt`, `AgentReceipt`), or fails, or is a dry run; `Hear`,
`GiveUp` and `Kill` end it. Facts of the code the model keeps because conclusions depend
on them:

- a connector's key names commit and branch, so a second attempt, whose receipt has
  another timestamp, is a conflict (409) and ends red; the GitHub Actions key names the
  attempt; two starts of the agent wrapper within a second collide;
- the Actions script takes a scanner file it cannot read for a clean one; the agent
  wrapper refuses to go on; connectors look for no secrets;
- the last step of the workflow fails the job for failed tests whatever the decision;
- a client gives up after 10 or 15 seconds, and its post is handled all the same; the
  pool lets a request wait for 30;
- the Jenkinsfile halts on exit code 1 alone, so with a killed connector (137) the pipeline
  goes on and ends green, whether anything was posted or not (`Pipeline`, `Kill`).
  `GreenMeansRecorded` names this as the one exception; without it (`GreenAlwaysRecorded`)
  the claim is false.

`ConnPool` is one process: a `def` endpoint waits for a connection in its thread, an
ingest on the event loop. A commit gives the connection back and the next query asks for
one again (`Commit`), so that a request may wait several times and be refused after it has
committed; one whose last query was a commit is `returned`, the others keep their
connection until the loop has sent the answer. So the loop may wait for a connection whose
holder waits for the loop, until the pool's timeout refuses one (`PoolTimeout`).

`Service` instantiates `ConnPool` and `RunRecord`. `Store` is the first commit of
`store_run` and `RunRecord`'s `Decide`, under any policy of `Offered` (it may change between
two attempts), `OpenCase` the second commit, `Reply` the handler's return and `RunRecord`'s
`Answer`; a timeout between them leaves a job without an answer whose run is stored. That
the real handlers keep that promise is what `RunLedger` shows.

## Runs

Requests, payloads and processes have no order in any module, so the safety runs use
symmetry; `lost_case`, `audit_trigger` and `service` are about liveness and do not.
Deadlock is off in every run: each system may simply have no request left. The runs of
`RunLedger` have one key: two runs share nothing but the event loop, and a second key
would only interleave independent rows.

| Run | Bounds | Shows |
| --- | --- | --- |
| `one_process` | 1 process, 2 posts, 1 payload, 2 reviews, 3 exports, 1 fault | `RunRecord` is implemented; a run is reviewed once; an undisturbed export leaves everything current, also after two others tore the pack; a review or block run has its case unless its ingest is between its commits or was stopped there |
| `two_processes` | 2 processes, 2 posts, 2 payloads, 2 reviews, 1 export, 1 fault | what the UNIQUE constraints alone guarantee: replies, rows, events, cases, packs and audit agree, history only grows |
| `lost_case` | 1 process, 2 posts, 1 review, 1 export, 1 fault, weak fairness | a fault between the two commits leaves a client told review or block without a case for ever (finding) |
| `case_room` | 3 requests of any kind, the advisor's among them | what survives every race on a case; a read shows the event of whatever else it shows; what was committed when a request began is behind what it writes |
| `policies` | 1 process, 2 creates, 2 deactivations, 2 ingests, 1 source, 2 repositories, 2 settings; and for the decisions under these every receipt with 1 or 501 changed lines and any set of the 4 kinds of file | versions name configurations, the snapshot explains the run, the newest active one decides, sources tell their runs; `allow` has no violation, more findings soften only by a rule that is set softer than a later one |
| `check_runs` | 3 webhooks over 2 deliveries, 2 runs, 2 receipts, 1 fault | redelivery creates nothing, the row never claims more than GitHub shows, a receipt that has its row to itself repairs it, deliveries settle, a receipt completes the newest check run |
| `audit` | 2 flushes, pages of 2, 4 events, 1 bundle of one or two days, 1 fault, 1 refusal, no trigger | nothing lost, nothing overtaken; a bundle is causal and holds the runs of its days, those of the last second apart |
| `audit_trigger` | 1 flush repeated, 2 events, the trigger of 0014, weak fairness | no event is ever marked as forwarded (finding) |
| `sessions` | 1 user, 5 requests | sessions carry the membership's role, are revoked for good, and after a deactivation nobody acts but on a session whose own issue crossed it |
| `migrations` | 2 runs, 2 decisions, 3 calls between any two of the 14 revisions, each killed or refused anywhere | packs stay sealed, row, pack and events agree, the schema follows the revision, only a protected review event stops a call |
| `migrations_stopped` | the same, 2 calls | one reviewed run before revision 6 and every upgrade is refused (finding) |
| `service` | 2 attempts, 3 kinds of client, 1 reader that commits once at most, 1 connection, 2 policies, 5 kinds of checkout, both decisions enforced, weak fairness | green means recorded, but for a killed Jenkins connector, known-bad never ends green, every request ends |

`RunLedger` is checked for two things that need opposite settings. One process has the
event loop between its reviews, which `ReviewedOnce` and `RunRecord` need; whether a
payload is the stored one is left to `two_processes` there. Two processes have only the
database between them.

Some properties hold under a condition that a history variable names (`begun`, `early`,
`alone`, `crossed`, `stale`, no refusal). The same promise without the condition is stated
beside it and is false; some configurations outside the list of runs produce the
counterexamples, and three more hold: the trigger alone is what breaks forwarding,
`CheckRuns` comes to rest, and no call of alembic loses what is settled about a run.

| Configuration | Module | Shows |
| --- | --- | --- |
| `CaseRoomClosedTwice.cfg` | `MCCaseRoom` | `OneClosingSucceeds` violated: two requests that read the case as open both close it and both answer 200 (`case_rooms.py:262`) |
| `CaseRoomMixedRow.cfg` | `MCCaseRoom` | `RowIsOneClosing` violated: of two closings that cross, the later one sets status and author and leaves the earlier one's note (`case_rooms.py:268`, `case_rooms.py:306`) |
| `CheckRunsOvertaken.cfg` | `MCCheckRuns` | `MatchingCheckRunIsUpdated` violated: a receipt that overtakes the webhook's call leaves the check run queued (`github.py:488`) |
| `AuditRefused.cfg` | `MCAuditTrail` | `ForwardedWasAccepted` violated: an event refused by the SIEM counts as forwarded (`audit.py:93`) |
| `SessionsCrossed.cfg` | `MCSessions` | `DeactivatedIsRevoked` violated: a session issued across a deactivation outlives it (`scim.py:198`) |
| `RunLedgerTornExport.cfg` | `MCRunLedger` | `ExportShowsOneState` violated: an export answers with a state and events of different moments (`runs.py`, three SELECTs at READ COMMITTED) |
| `ServiceKilled.cfg` | `MCService` | `GreenAlwaysRecorded` violated: a Jenkins pipeline whose connector is killed ends green with nothing on record (`Jenkinsfile:33`) |
| `CheckRunsLive.cfg` | `MCCheckRuns` | `HandlersFinish` holds under weak fairness, with 2 webhooks, 1 receipt and 1 fault |
| `AuditForwarded.cfg` | `MCAuditTrail` | `EveryEventIsForwarded` holds without the trigger, with 4 events and 2 faults |
| `MigrationsKept.cfg` | `MCMigrations` | `RunsAreKept` holds, with the bounds of `migrations`; it is also a theorem |

Why the bounds suffice: every race in the code is between two requests of one run (post
with post, review with review, export with review) or, for a pack left torn, two exports
and a review, with a third export to repair it; one fault at any point covers a crash
between any two statements, and the requests left over act as the retries. Two payloads
distinguish replay from conflict. In the other modules the same holds: two writers and a
reader on a case; two rows, a redelivery and two receipts on a commit; four events in
pages of two, so that a flush ends with events left; a user's creation, issue,
deactivation and use with one request more (a logout, an activation or a second issue);
three calls of alembic are up, down and up again, with runs written in each of the four
phases; a job and its retry; one connection, so that the pool is at its limit at once
(with 15, fourteen readers more would have to be in the same state as the one), and a
reader that commits once (`MaxCommits`) and so waits twice, as an ingest waits up to
three times.

Fairness: a handler that has started goes on (`WF` on each request's next step): the
event loop and the pool's threads are always scheduled and every wait in the handlers is
on the database; a call to GitHub or the SIEM is given up after 10 or 5 seconds, which
is a step too. `Service` assumes the same of the threads, the loop and the pool's timeout
(`PostStep`, `ReaderStep`), and nothing of the jobs. Nothing makes a request arrive or a fault happen, with one exception,
stated in `AuditTrail`: somebody calls the flush endpoint as long as events are pending,
since nothing in the service does.

## Proofs

`RunLedgerProofs` proves, for any finite or infinite sets of processes, keys, payloads
and requests and any bound on faults, the invariants of the runs above. Assumptions: the
names of posts and reviews are disjoint and `None` is none of them and names no export.

An invariant such as `PackShowsCommitted` is not inductive: what a review commits depends
on what it read two steps earlier. `Inductive` (in `RunLedgerInv`) adds what requests in
flight know: `HandlersHoldLoop` (an async request in flight is the one its loop runs, and
names a key), `InserterOwnsCase` (between its two commits a post is the only one that
inserted the run), `ReviewSnapshots` and `ExportSnapshots` (what was read is a prefix of
what is committed). The heart is `CommitSeesAll`: a review whose sequence number is free
has read every event, because the events read are a prefix and the chain is numbered
without gaps. So UNIQUE (run_id, sequence) keeps the chain whole for any number of
processes; that a run is reviewed once (`OneReview`) needs one process, with
`ReviewerAlone` as the strengthening.

| Theorem | Property |
| --- | --- |
| `TypeCorrect` | `TypeOK` |
| `IngestIdempotent` | `RepliesAgree` |
| `RowFollowsHistory` | `RowMatchesHistory` |
| `ChainNeverForks` | `HistoryIsChain` |
| `AuditComplete` | `AuditMatchesLedger` |
| `NoSecondCase` | `AtMostOneCase` |
| `CaseOnlyLostWithIngest` | `CaseUnlessIngestFails` |
| `PackNeverAhead` | `PackShowsCommitted` |
| `AppendOnly` | `HistoryOnlyGrows` |
| `OneReview` (one process) | `ReviewedOnce` |
| `ExportsRepair` | `UndisturbedExportRepairs` |
| `LedgerImplementsRecord` (one process) | `ImplementsRecord`: the refinement of `RunRecord` |

`ExportsRepair` needs `UntouchedIsCurrent`: what an export has read is still the row, the
pack and the events as long as no other request committed, so what it compares and writes
is current at its commit, whatever state it found. `LedgerImplementsRecord` maps each
action to one of `RunRecord`: an insert to `Decide`, a review's commit to `Conclude`, an
answer to `Answer`, everything else to a stutter. That an answer is given once, from the
entry as it is stored, needs `Unanswered` (a request in flight was told nothing yet) and
`ReviewerAlone` again: this is the promise of the ledger that `Service` builds on.

`PolicyProofs` proves, for every receipt, every number of lines and all valid settings,
that a secret blocks (`SecretsBlock`), that exactly the allowed receipts have no violation
and that the risk score orders receipts as their decisions do (`RiskAgreesWithDecision`);
and for settings whose rules get no stricter along the chain, as the default ones
(`DefaultIsDescending`), that a receipt with more findings never gets a milder decision
(`Monotone`). Only valid settings get into a configuration, whichever handlers interleave
(`OfferedOnly`), so what is in force keeps these promises: `ReasonsMatchDecisions`
(property `AllowedMeansClean`) and, for settings in any order, `MoreFindingsNeverSoften`
(property `NeverSofter`): a milder decision needs a rule that comes earlier, is set softer
and is newly met, since the rule that decided before still applies (`FindingsAccumulate`).
About the requests of `PolicyConfigs`, of any number, it proves:

| Theorem | Property |
| --- | --- |
| `RunsStayExplained` | `SnapshotExplainsRun` |
| `VersionsAreNames` (one process) | `VersionsNameConfigs` |
| `SourcesTell` (one process) | `SourcesTellTheirRuns` |
| `NewestConfigDecides` (one process) | `NoNewerConfigIgnored` |

A snapshot explains its run whatever interleaves, because what an ingest looked up is a row
that is still there and still has those settings (`RequestsFit`; a deactivation changes
none of them). The other three rest on `InTurn`, which one process keeps: whoever is on
the loop is there alone, rows and their `created_at` are in one order (`NewestLast`), until
its commit no active row is newer than the one an ingest looked up (`LookupsHold`), and
no run is newer than the ingest that is to stamp the source (`SeenLast`). That an active row has a newest one (`LatestExists`) follows from the
rows being a finite sequence.

`CaseRoomProofs` proves, for any number of racing requests:

| Theorem | Property |
| --- | --- |
| `EventsLeadBack` | `EveryEventLeadsBack` |
| `SeenStaysBehind` | `SeenIsBehind` |
| `SerialIsSafe` | `SerialRequestsAreSafe`, which no run lists: if no two requests overlap, one chain, one closing, a row of one closing |
| `NothingIsTakenAway` | `OnlyGrows` |
| `EventsTell` | `EventsTellAll` |

That numbers fall along the chain needs `NumbersLag` (a sequence number never runs ahead of
its event's position); that what a request read is causal needs `RequestsInOrder` (what it
holds is told by the events that are there or that it read). Part of it is `SeenOpen`: if a
request read the case as open, no event there was when it began is a closing, because a row
that is not closed has no closing event (`OpenUntilClosed`). That gives `SeenIsBehind`, and
with `BegunKept` (each event has its entry in `begun`) and `NotesSigned` (a note is its
author's) serial requests are a special case. That the tables say what the events say
(`TablesTold`) is kept by each commit because it writes both; the closing whose status and
author the row shows is the last of the closing events (`ClosingsIn`), the one whose note it
shows the last of those with a note (`NotedIn`), and an append adds one to each or none
(`AppendedClosings`, `CommitTold`).

`CheckRunsProofs` proves, for any sets of deliveries, webhooks, runs and receipts and any
number of faults (assumed: `None` is none of them):

| Theorem | Property |
| --- | --- |
| `OneRowPerDelivery` | `RedeliveryCreatesNothing` |
| `GitHubFirst` | `RowNeverAheadOfGitHub` |
| `LoneRepairs` | `LoneReceiptRepairs` |
| `DeliveriesSettle` | `EachDeliverySettles` |
| `NewestCompleted` | `NewestIsCompleted` |

A delivery belongs to the webhook that stored it (`DeliveriesOwned`), which alone makes its
row (`RowsDistinct`) and works on it until it has the external id (`HooksAtRows`). That
there are never more check runs than rows, also when a call fails after its effect, is a
count: the webhooks that may still create one and the check runs that exist are together
at most the rows (`ChecksCounted`). A receipt past the PATCH knows its check run to be
completed (`ReceiptsKnow`), and one that is through has completed the row it met
(`ReceiptsComplete`). That a lone receipt repairs its row is a second layer (`Repairing`):
no comment is named by two rows or held by two receipts at different rows
(`CommentsOwned`, `Names`), and a receipt alone holds the row as it is, with nobody else at
work on it, and what it did so far is on GitHub (`HasRowAlone`). What the others do to
other rows touches neither its check run (`RowsDistinct`) nor its comment
(`EffectsApart`), so that nothing has to be assumed of them.

`SessionsProofs` proves, for any sets of users and requests and any roles:

| Theorem | Property |
| --- | --- |
| `RolesAreCarried` | `SessionsCarryTheirRole` |
| `ShutOut` | `InactiveIsShutOut` |
| `NeverRevived` | `RevokedForGood` |

The strengthening says what each kind of request knows while under way (`RequestsFit`: a
deactivation past its SELECT has seen every live session of the user but those whose issue
was under way together with a deactivation), that a request has no session before it is through
(`FreshUntilDone`), and that an issue and a deactivation of one user cannot both be under
way unmarked (`CrossingsMarked`). `ShutOut` therefore says exactly which sessions the code
leaves open.

`MigrationsProofs` proves, for any runs, any policy and any number of calls of alembic,
killed or refused anywhere (assumed: NULL is no outcome of a review):

| Theorem | Property |
| --- | --- |
| `DatabaseStands` | the inductive invariant of the rows |
| `PacksStaySealed` | `PackIsSealed` |
| `RecordsStayTrue` | `RecordsAgree` |
| `SchemaStands` | the inductive invariant of the schema |
| `SchemaFollows` | `SchemaFollowsRevision` |
| `CallsAreCalm` | the strengthening of `OnlyHistoryStopsACall` |
| `OnlyHistoryStops` | `OnlyHistoryStopsACall` |
| `CallsRetain` | the strengthening of `RunsAreKept` |
| `RunsKept` | `RunsAreKept` |

`Standing(d, n)` is what the program of revision `n` and the scripts of its neighbours
rely on in the tables of runs, packs and events; `Partway` what holds between two
statements of a revision, where row and pack may differ for a while (0002 leaves the
digest of the row behind, 0003 makes up for it). The committed database stands at its
revision, the open transaction where its statements leave it (`Stands`), so a kill, which
goes back to the one, and a commit, which takes over the other, are both harmless.
Revisions 1 to 4 have a lemma per direction; the statements of 0005 to 0014 touch nothing
tracked (`Neutral`, `LaterStatements`), and two databases that differ in nothing tracked
stand alike (`UnscathedStands`). The programs' writes keep it too (`StoreRunStands`,
`ReviewRunStands`).

The schema of a revision is not folded over the scripts but written down once: the
statement that brings each table, column, reference and trigger (`Born`, `Added`, `Keyed`,
`Guarding`) and the one that takes it away again (`Undo`). `UpgradeFits` and
`DowngradeFits` check these places against the 14 scripts, statement by statement, so a
column that a `downgrade()` forgot, or dropped one statement too late, would fail them.
That a revision's schema is right is not inductive, since a call passes through schemas
that belong to no revision: `Structured` says that the open transaction has the parts
`Present` between the two statements it is at. With the exact schema in front of every
statement nothing is refused for its tables and columns (`Fits`); what is left are rows.
0006 refers to a seeded tenant and fills columns that become NOT NULL or foreign keys, so
`Calm` carries along that every row it is to refer to is there (`Filling`), and that the
only guarded table it updates is that of the review events, which has rows to update only
if a run was reviewed (`Reviewed`): hence `OnlyHistoryStops`, which leaves exactly the
refusal of the finding.

`RunsAreKept` is about steps: no commit of alembic and no write of a program loses a run,
its decision, its policy version or a review that is concluded, unless the table or the
column goes. Its strengthening `Retained` compares the open transaction with the committed
rows, statement by statement: a statement changes the facts about a run only in a column
it has just added (`StatementRetains`, `RenewedNow`), and because a call goes one way only,
the committed rows have no such column yet (`KeepsStep`). That a review overwrites nothing
needs `PendingIsOpen`: nobody who waits for a review has an outcome, also after a downgrade
has dropped the outcomes and 0003 has made the runs pending again.

`ServiceProofs` proves, for any sets of jobs, CI systems, checkouts, readers and policies
and any number of connections, from the assumptions of `Clients` and `Service`:

| Theorem | Property |
| --- | --- |
| `GreenIsRecorded` | `GreenMeansRecorded` |
| `BadIsStopped` | `KnownBadNeverGreen` |

The argument follows the receipt. Only what a job sent is handled (`OnlySentIsHandled`), a
secret its scanner reported is in what it sent (`ReceiptTells`, which rests on the lemma
`ScannedIsMarked`: a path outside the diff is laid to the first file), what is on record
was decided by a policy in force (`EntryIsDecision`), a job is told a decision only if the
record is its own (`AnswerIsEntry`), and a green job heard one that its exit code lets pass
(`Passed`) or is a Jenkins job whose connector was killed (`KilledUnseen`); together
`GreenIsAnswered`. The proof needs no bound on time or connections: a lost answer, a pool
that refuses a connection before or after the run is stored and a client that gave up all
end red. `KnownBadNeverGreen` needs no exception: a connector knows of no secret, and what
it says of failed tests it says of GitHub Actions.

`AuditTrailProofs` proves, for any sets of runs, flushes and bundles, any page size and any
number of faults and refusals (assumed: `LimitPositive`, `BoundsAreNat`):

| Theorem | Property |
| --- | --- |
| `ForwardedArrived` | `NothingLost` |
| `MarksArePrefix` | `NoneOvertaken` |
| `BundleCausal` | `BundleIsCausal` |
| `BundleDays` | `BundleMeetsItsDays` |

Here the strengthening says that what a flush marked is what it posted of its page
(`MarksPosted`; a page repeats no event because it is sorted by ranks that differ), that
the SIEM has it (`MarkedWasSent`), and that what a bundle read is still committed and its
instants are still the same (`BundleShowsLog`, `BundleAskedDays`).

Only model-checked:

- liveness (`RequestsEnd`, `HandlersFinish`, `EveryEventIsForwarded`, `AnsweredRunHasCase`),
  which TLAPS cannot prove.

## Not modelled

- The HMAC signature (`signature.py`) and request validation: pure functions that refuse a
  request before a handler sees it. What validation admits is written as the sets
  `Receipt` and `Settings` of `Policy`.
- The dashboard, the listings and the dry run: they read and lay out.
- OIDC discovery, the state parameter and token verification: the identity provider's
  business and the libraries'. What the callback does to `users`, `memberships` and
  `sessions` is in `Sessions`.
- Columns of `github_installations` and `github_pull_requests` that no handler reads back;
  display names and e-mail addresses of SCIM users.
- `scripts/smoke_test.py` and `scripts/post_receipt.py`: tools for the developer, on whose
  exit code no pipeline depends.
- Indexes, and columns that no migration but the one that adds them touches.
- Logging, settings, the size limit of a request: no state a property could be about.

## Plan

Done: `RunLedger` with its inductive invariant, its refinement and proofs; `CaseRoom` with
the advisor; `Policy`; `PolicyConfigs` with the evidence sources; `CheckRuns`; `AuditTrail`
with the days of a bundle; `Sessions`; the migrations; and the clients composed with the
connections and the ledger's promise. All have proofs.

Next:

1. Abstract specifications: a check run as a register that shows a decision made about its
   commit (`CheckRuns` implements it for receipts that have their row to themselves), and the SIEM as an
   at-least-once channel (`AuditTrail` implements it without refusals).
2. `LedgerWithCases`: `RunLedger`'s case and audit rows with `CaseRoom`'s requests and the
   case summary an export appends.
