--------------------------- MODULE PolicyConfigs ---------------------------
(***************************************************************************)
(* Policy configurations and evidence sources of EvidencePlane and the     *)
(* ingest that looks both up (app/services/policy_config.py and            *)
(* evidence_sources.py; store_run in app/services/runs.py).                *)
(*                                                                         *)
(* Creating a configuration and ingest are `async def`: the event loop of  *)
(* a process runs one of them at a time.  Deactivating a configuration and *)
(* creating and disabling a source are plain `def`s in the thread pool.    *)
(* A configuration is never edited: each is one row of configs, whose      *)
(* stamp is its created_at.  The audit event of a creation is committed    *)
(* with its row and is not kept apart from it.                             *)
(***************************************************************************)
EXTENDS PolicyGrowth, Sequences, FiniteSetsExt

CONSTANTS
    Processes,   \* uvicorn processes: one, two while a deployment is replaced
    Repos,       \* repositories
    Sources,     \* ids that evidence sources get
    Offered,     \* the settings administrators choose from
    Receipts,    \* the receipts that are posted
    Creates, Deactivates, Ingests,   \* requests
    None         \* "no value"

ASSUME OfferedAreValid == Offered \subseteq Settings
ASSUME ReceiptsAreValid == Receipts \subseteq Receipt
ASSUME NoneIsNoValue == None \notin Repos \cup Sources \cup Processes \cup Creates \cup Ingests \cup Offered

VARIABLES
    configs,   \* policy_configs in the order of their commits
    sources,   \* the evidence_sources row of each id
    disabled,  \* the sources with a source_disabled audit event
    runs,      \* runs[r]: what ingest request r stored
    create, deactivate, ingest,   \* the handlers
    loop,      \* loop[p]: the async handler p's event loop is running, or None
    clock      \* utc_now

vars == <<configs, sources, disabled, runs, create, deactivate, ingest, loop, clock>>

(* repo_name NULL is accepted, and no ingest ever looks for it. *)
Config == [repo : Repos \cup {None}, version : Nat \ {0}, active : BOOLEAN,
           settings : Settings, stamp : Nat]

(* seen is last_seen_at, 0 for null. *)
Source == [status : {"none", "enabled", "disabled"}, seen : Nat]

(* config 0 is the default policy, whose snapshot is null. *)
NoRun == [repo |-> None, config |-> 0, snapshot |-> None, decision |-> "none",
          source |-> None, stamp |-> 0]

Create == [phase : {"new", "read", "done", "error"}, proc : Processes \cup {None},
           repo : Repos \cup {None}, settings : Offered \cup {None}, version : Nat, stamp : Nat]
Deactivate == [phase : {"new", "read", "done", "error"}, config : Nat]
Ingest == [phase : {"new", "configured", "deciding", "done", "error"},
           proc : Processes \cup {None}, repo : Repos \cup {None},
           receipt : Receipts \cup {None}, config : Nat, source : Sources \cup {None}, stamp : Nat]

Init ==
    /\ configs = << >>
    /\ sources = [s \in Sources |-> [status |-> "none", seen |-> 0]]
    /\ disabled = {}
    /\ runs = [r \in Ingests |-> NoRun]
    /\ create = [c \in Creates |-> [phase |-> "new", proc |-> None, repo |-> None,
                                    settings |-> None, version |-> 0, stamp |-> 0]]
    /\ deactivate = [d \in Deactivates |-> [phase |-> "new", config |-> 0]]
    /\ ingest = [r \in Ingests |-> [phase |-> "new", proc |-> None, repo |-> None,
                                    receipt |-> None, config |-> 0, source |-> None, stamp |-> 0]]
    /\ loop = [p \in Processes |-> None]
    /\ clock = 0
-----------------------------------------------------------------------------
(* create_policy_config *)

Rows == 1..Len(configs)
RowsOf(repo) == {i \in Rows : configs[i].repo = repo}

NextVersionOfActive(repo) ==
    1 + Cardinality({i \in RowsOf(repo) : configs[i].active})

(* _next_version: 1 + the highest version of the repository. *)
NextVersion(repo) ==
    LET versions == {configs[i].version : i \in RowsOf(repo)}
    IN IF versions = {} THEN 1 ELSE 1 + CHOOSE v \in versions : \A w \in versions : w <= v

CreateReads(c, p, repo, s) ==
    /\ create[c].phase = "new"
    /\ create' = [create EXCEPT ![c] = [phase |-> "read", proc |-> p, repo |-> repo,
                                        settings |-> s, version |-> NextVersion(repo),
                                        stamp |-> clock]]
    /\ clock' = clock + 1
    /\ UNCHANGED <<configs, sources, disabled, runs, deactivate, ingest>>

CreateReadInPool(c, p, repo, s) ==
    /\ CreateReads(c, p, repo, s)
    /\ UNCHANGED loop

CreateRead(c, p, repo, s) ==
    /\ loop[p] = None
    /\ CreateReads(c, p, repo, s)
    /\ loop' = [loop EXCEPT ![p] = c]

(* The handler h of process p ends; one that was not on the loop leaves it alone. *)
Released(p, h) == IF loop[p] = h THEN [loop EXCEPT ![p] = None] ELSE loop

(* The configuration and its audit event in one commit. *)
CreateCommit(c) ==
    /\ create[c].phase = "read"
    /\ configs' = Append(configs, [repo |-> create[c].repo, version |-> create[c].version,
                                   active |-> TRUE, settings |-> create[c].settings,
                                   stamp |-> create[c].stamp])
    /\ create' = [create EXCEPT ![c].phase = "done"]
    /\ loop' = Released(create[c].proc, c)
    /\ UNCHANGED <<sources, disabled, runs, deactivate, ingest, clock>>
-----------------------------------------------------------------------------
(* deactivate_policy_config *)

DeactivateRead(d, i) ==
    /\ deactivate[d].phase = "new"
    /\ deactivate' = [deactivate EXCEPT ![d] = [phase |-> "read", config |-> i]]
    /\ UNCHANGED <<configs, sources, disabled, runs, create, ingest, loop, clock>>

DeactivateCommit(d) ==
    /\ deactivate[d].phase = "read"
    /\ configs' = [configs EXCEPT ![deactivate[d].config].active = FALSE]
    /\ deactivate' = [deactivate EXCEPT ![d].phase = "done"]
    /\ UNCHANGED <<sources, disabled, runs, create, ingest, loop, clock>>
-----------------------------------------------------------------------------
(* store_run on a new key *)

ActiveOf(repo) == {i \in RowsOf(repo) : configs[i].active}

NewestOfAnyRepo(repo) ==
    LET active == {i \in Rows : configs[i].active}
    IN IF active = {} THEN 0
       ELSE CHOOSE i \in active : \A j \in active : configs[j].stamp <= configs[i].stamp

(* _find_active_policy_config: the newest by created_at. *)
NewestActive(repo) ==
    IF ActiveOf(repo) = {} THEN 0
    ELSE CHOOSE i \in ActiveOf(repo) : \A j \in ActiveOf(repo) : configs[j].stamp <= configs[i].stamp

IngestLooksUp(r, p, repo, x, src) ==
    /\ ingest[r].phase = "new"
    /\ ingest' = [ingest EXCEPT ![r] =
                     [@ EXCEPT !.phase = "configured", !.proc = p, !.repo = repo, !.receipt = x,
                               !.config = NewestActive(repo), !.source = src]]
    /\ UNCHANGED <<configs, sources, disabled, runs, create, deactivate, clock>>

IngestLookupInPool(r, p, repo, x, src) ==
    /\ IngestLooksUp(r, p, repo, x, src)
    /\ UNCHANGED loop

(* src is the receipt's source_id. *)
IngestLookup(r, p, repo, x, src) ==
    /\ loop[p] = None
    /\ IngestLooksUp(r, p, repo, x, src)
    /\ loop' = [loop EXCEPT ![p] = r]

(* An unknown or a disabled source is dropped without an error. *)
IngestSource(r) ==
    LET src == ingest[r].source
    IN /\ ingest[r].phase = "configured"
       /\ ingest' = [ingest EXCEPT ![r].phase = "deciding", ![r].stamp = clock + 1,
                       ![r].source = IF src # None /\ sources[src].status = "enabled" THEN @ ELSE None]
       /\ clock' = clock + 1
       /\ UNCHANGED <<configs, sources, disabled, runs, create, deactivate, loop>>

(* The UPDATE names last_seen_at alone, so it does not undo a disabling since. *)
Stamped(src, stamp) ==
    IF src = None THEN sources ELSE [sources EXCEPT ![src].seen = stamp]

(* The run, its violations and pack, the source's stamp and the audit event. *)
IngestCommit(r) ==
    LET i == ingest[r].config
        s == IF i = 0 THEN DefaultSettings ELSE configs[i].settings
    IN /\ ingest[r].phase = "deciding"
       /\ runs' = [runs EXCEPT ![r] =
                      [repo |-> ingest[r].repo, config |-> i,
                       snapshot |-> IF i = 0 THEN None ELSE s,
                       decision |-> Decide(ingest[r].receipt, s),
                       source |-> ingest[r].source, stamp |-> ingest[r].stamp]]
       /\ sources' = Stamped(ingest[r].source, ingest[r].stamp)
       /\ ingest' = [ingest EXCEPT ![r].phase = "done"]
       /\ loop' = Released(ingest[r].proc, r)
       /\ UNCHANGED <<configs, disabled, create, deactivate, clock>>
-----------------------------------------------------------------------------
(* create_evidence_source and disable_evidence_source, each with its audit event.  What
   disabling reads decides nothing (nothing enables a source again), so read and commit
   are one step. *)

CreateSource(src) ==
    /\ sources[src].status = "none"
    /\ sources' = [sources EXCEPT ![src].status = "enabled"]
    /\ UNCHANGED <<configs, disabled, runs, create, deactivate, ingest, loop, clock>>

DisableSource(src) ==
    /\ sources[src].status # "none"
    /\ sources' = [sources EXCEPT ![src].status = "disabled"]
    /\ disabled' = disabled \cup {src}
    /\ UNCHANGED <<configs, runs, create, deactivate, ingest, loop, clock>>
-----------------------------------------------------------------------------
(* A database error or the end of the process: the transaction is lost. *)
CreateFails(c) ==
    /\ create[c].phase = "read"
    /\ create' = [create EXCEPT ![c].phase = "error"]
    /\ loop' = Released(create[c].proc, c)
    /\ UNCHANGED <<configs, sources, disabled, runs, deactivate, ingest, clock>>

IngestFails(r) ==
    /\ ingest[r].phase \in {"configured", "deciding"}
    /\ ingest' = [ingest EXCEPT ![r].phase = "error"]
    /\ loop' = Released(ingest[r].proc, r)
    /\ UNCHANGED <<configs, sources, disabled, runs, create, deactivate, clock>>

Next ==
    \/ \E c \in Creates :
          \/ \E p \in Processes, repo \in Repos \cup {None}, s \in Offered : CreateRead(c, p, repo, s)
          \/ CreateCommit(c)
          \/ CreateFails(c)
    \/ \E d \in Deactivates : (\E i \in Rows : DeactivateRead(d, i)) \/ DeactivateCommit(d)
    \/ \E r \in Ingests :
          \/ \E p \in Processes, repo \in Repos, x \in Receipts, src \in Sources \cup {None} :
                IngestLookup(r, p, repo, x, src)
          \/ IngestSource(r)
          \/ IngestCommit(r)
          \/ IngestFails(r)
    \/ \E src \in Sources : CreateSource(src) \/ DisableSource(src)

Spec == Init /\ [][Next]_vars
-----------------------------------------------------------------------------
TypeOK ==
    /\ configs \in Seq(Config)
    /\ sources \in [Sources -> Source] /\ disabled \subseteq Sources
    /\ create \in [Creates -> Create]
    /\ deactivate \in [Deactivates -> Deactivate]
    /\ ingest \in [Ingests -> Ingest]
    /\ loop \in [Processes -> Creates \cup Ingests \cup {None}]
    /\ clock \in Nat
    /\ \A r \in Ingests : runs[r].decision \in Decisions \cup {"none"} /\ runs[r].config \in Nat

(* The versions of a repository are 1, 2, 3, ... in the order of creation, whatever was
   deactivated in between: the pair (repo_name, version) names one configuration.
   _next_version reads them without a lock; the event loop keeps two creations apart. *)
VersionsNameConfigs ==
    \A i, j \in Rows :
        configs[i].repo = configs[j].repo =>
            /\ configs[i].version = configs[j].version => i = j
            /\ configs[i].stamp < configs[j].stamp <=> configs[i].version < configs[j].version

(* What a run was decided by stays provable: the snapshot in its evidence pack gives the
   stored decision, and the configuration it names is one of the run's repository and
   still has that content. *)
SnapshotExplainsRun ==
    \A r \in Ingests :
        ingest[r].phase = "done" =>
            IF runs[r].config = 0
            THEN runs[r].decision = Decide(ingest[r].receipt, DefaultSettings)
            ELSE /\ runs[r].decision = Decide(ingest[r].receipt, runs[r].snapshot)
                 /\ configs[runs[r].config].settings = runs[r].snapshot
                 /\ configs[runs[r].config].repo = runs[r].repo

(* When a run is committed no newer configuration of its repository is active: between
   ingest's lookup and its commit one may be deactivated, none may be created. *)
NoNewerConfigIgnored ==
    [][\A r \in Ingests :
          runs'[r] # runs[r] =>
              \A i \in ActiveOf(runs'[r].repo) :
                  runs'[r].config # 0 /\ configs[i].stamp <= configs[runs'[r].config].stamp]_vars

(* last_seen_at is the time of the newest run that names the source, so it never goes
   back: only the event loop keeps an earlier ingest from committing later.  And a source
   the audit log tells to be disabled is disabled, also when an ingest that found it
   enabled stamps it afterwards. *)
SourcesTellTheirRuns ==
    \A src \in Sources :
        /\ sources[src].seen = Max({0} \cup {runs[r].stamp : r \in {q \in Ingests : runs[q].source = src}})
        /\ src \in disabled <=> sources[src].status = "disabled"

(* The settings that an ingest may decide by. *)
InForce == {DefaultSettings} \cup {configs[i].settings : i \in Rows}

(* Two constants, so that TLC goes through the receipts once and not in every state. *)
GivingReasons == {s \in Offered \cup {DefaultSettings} : GivesReasons(s)}
NeverSoftening == {s \in Offered \cup {DefaultSettings} : NeverSoftens(s)}

(* A run is stored without violations exactly if it is allowed, under whatever settings
   are in force: whoever has to review a run or is blocked by it is told why, and
   auto_create_case never falls back on "no violations". *)
AllowedMeansClean == InForce \subseteq GivingReasons

(* Under whatever settings are in force, more findings never soften the decision of
   evaluate_policy, but by a rule that was set softer than a later one (NeverSoftens). *)
NeverSofter == InForce \subseteq NeverSoftening
=============================================================================
