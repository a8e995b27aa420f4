----------------------------- MODULE Revisions -----------------------------
(***************************************************************************)
(* The fourteen revisions of alembic/versions: for each the statements of  *)
(* its upgrade() and its downgrade().  Columns, indexes and constraints    *)
(* that no statement of another revision and no row the properties look at *)
(* depends on are left out.  A digest is the body it was computed from.    *)
(***************************************************************************)
EXTENDS Schema

CONSTANT Default    \* the id of the seeded organization, repository and source

Pop(body, f) == [g \in DOMAIN body \ {f} |-> body[g]]

(* The pack of run k gets body f[k] and its digest; sealed says            *)
(* whether the row of the run is given the digest as well.                 *)
Reseal(db, f, sealed) ==
    LET packs == db["evidence_packs"].rows
        new == [k \in DOMAIN packs |-> [packs[k] EXCEPT !.body = f[k], !.sha256 = f[k]]]
        runs == db["runs"].rows
    IN  [db EXCEPT !["evidence_packs"].rows = new,
                   !["runs"].rows =
                       IF sealed THEN [k \in DOMAIN @ |-> [@[k] EXCEPT !.evidence_sha256 = new[k].body]]
                       ELSE @]

(***************************************************************************)
(* 0001 to 0005: the ledger.                                               *)
(***************************************************************************)
RewriteEvidenceBodies(db, adding) ==
    LET Body(k) == db["evidence_packs"].rows[k].body
    IN  Reseal(db, [k \in DOMAIN db["evidence_packs"].rows |->
                        IF adding THEN Over(Body(k), [policy_version |-> "1.0"])
                        ELSE Pop(Body(k), "policy_version")], FALSE)

UpdateReviewStatus(db) ==
    LET runs == db["runs"].rows
        Initial == [k \in DOMAIN runs |->
                       IF runs[k].decision = "review" THEN "pending" ELSE "not_required"]
    IN  [db EXCEPT !["runs"].rows = Filled(runs, "review_status", Initial)]

RewriteEvidenceReviewFields(db, adding) ==
    LET Body(k) == db["evidence_packs"].rows[k].body
        Row(k) == db["runs"].rows[k]
    IN  Reseal(db, [k \in DOMAIN db["evidence_packs"].rows |->
                        IF adding THEN Over([review_status |-> Row(k).review_status,
                                             review_outcome |-> Row(k).review_outcome], Body(k))
                        ELSE Pop(Pop(Body(k), "review_status"), "review_outcome")], TRUE)

BackfillApprovals(db) ==
    LET runs == db["runs"].rows
    IN  [db EXCEPT !["review_events"].rows =
            [k \in {r \in DOMAIN runs : runs[r].review_outcome = "approved"} |->
                [action |-> runs[k].review_outcome]]]

BackfillReviewEvents(db) ==
    LET runs == db["runs"].rows
    IN  [db EXCEPT !["review_events"].rows =
            [k \in {r \in DOMAIN runs : runs[r].review_outcome # None} |->
                [action |-> runs[k].review_outcome]]]

RewriteUnsealed(db, adding) ==
    LET Body(k) == db["evidence_packs"].rows[k].body
        events == db["review_events"].rows
        EventsOf(k) == IF k \in DOMAIN events THEN <<events[k].action>> ELSE <<>>
    IN  Reseal(db, [k \in DOMAIN db["evidence_packs"].rows |->
                        IF adding THEN Put(Body(k), "review_events", EventsOf(k))
                        ELSE Pop(Body(k), "review_events")], FALSE)

RewriteEvidenceReviewEvents(db, adding) ==
    LET Body(k) == db["evidence_packs"].rows[k].body
        events == db["review_events"].rows
        EventsOf(k) == IF k \in DOMAIN events THEN <<events[k].action>> ELSE <<>>
    IN  Reseal(db, [k \in DOMAIN db["evidence_packs"].rows |->
                        IF adding THEN Put(Body(k), "review_events", EventsOf(k))
                        ELSE Pop(Body(k), "review_events")], TRUE)

(* Only the rows that have no organization; the columns of runs go together. *)
BackfillTenant(db, t) ==
    LET rows == db[t].rows
        given == IF t = "runs" THEN {"organization_id", "repository_id", "evidence_source_id"}
                 ELSE {"organization_id"}
        Tenant(row) == IF row.organization_id = None THEN Over([c \in given |-> Default], row) ELSE row
    IN  [db EXCEPT ![t].rows = [k \in DOMAIN rows |-> Tenant(rows[k])]]

Updated(db, t, what) ==
    CASE what = "add_policy_version" -> RewriteEvidenceBodies(db, TRUE)
      [] what = "pop_policy_version" -> RewriteEvidenceBodies(db, FALSE)
      [] what = "review_status" -> UpdateReviewStatus(db)
      [] what = "add_review_fields" -> RewriteEvidenceReviewFields(db, TRUE)
      [] what = "pop_review_fields" -> RewriteEvidenceReviewFields(db, FALSE)
      [] what = "backfill" -> BackfillReviewEvents(db)
      [] what = "add_review_events" -> RewriteEvidenceReviewEvents(db, TRUE)
      [] what = "pop_review_events" -> RewriteEvidenceReviewEvents(db, FALSE)
      [] what = "tenant" -> BackfillTenant(db, t)

(***************************************************************************)
(* upgrade() and downgrade() of each revision.                             *)
(***************************************************************************)
Up0001 == <<
    CreateTable("runs", {"decision", "evidence_sha256"}, {}),
    CreateTable("violations", {}, {<<"run_id", "runs">>}),
    CreateTable("evidence_packs", {"body", "sha256"}, {<<"run_id", "runs">>})>>
Down0001 == <<DropTable("evidence_packs"), DropTable("violations"), DropTable("runs")>>

Up0002 == <<AddColumn("runs", "policy_version", "1.0"), Update("evidence_packs", "add_policy_version")>>
Down0002 == <<Update("evidence_packs", "pop_policy_version"), DropColumn("runs", "policy_version")>>

Up0003 == <<
    AddColumn("runs", "review_status", None), AddColumn("runs", "review_outcome", None),
    Update("runs", "review_status"), Update("evidence_packs", "add_review_fields")>>
Down0003 == <<
    Update("evidence_packs", "pop_review_fields"),
    DropColumn("runs", "review_outcome"), DropColumn("runs", "review_status")>>

Up0004 == <<
    CreateTable("review_events", {"action"}, {<<"run_id", "runs">>}),
    Update("review_events", "backfill"), Update("evidence_packs", "add_review_events")>>
Down0004 == <<Update("evidence_packs", "pop_review_events"), DropTable("review_events")>>

Up0005 == <<CreateTrigger("review_events")>>
Down0005 == <<DropTrigger("review_events")>>

Up0006 == <<
    CreateTable("organizations", {}, {}),
    CreateTable("users", {}, {<<"organization_id", "organizations">>}),
    CreateTable("memberships", {}, {<<"organization_id", "organizations">>, <<"user_id", "users">>}),
    CreateTable("repositories", {}, {<<"organization_id", "organizations">>}),
    CreateTable("evidence_sources", {},
        {<<"organization_id", "organizations">>, <<"repository_id", "repositories">>}),
    CreateTable("policy_configs", {},
        {<<"organization_id", "organizations">>, <<"repository_id", "repositories">>,
         <<"created_by", "users">>}),
    Insert("organizations", Default, Empty),
    Insert("repositories", Default, [organization_id |-> Default]),
    Insert("evidence_sources", Default,
        [organization_id |-> Default, repository_id |-> Default]),
    AddColumn("runs", "organization_id", None), AddColumn("runs", "repository_id", None),
    AddColumn("runs", "evidence_source_id", None),
    AddColumn("evidence_packs", "organization_id", None),
    AddColumn("review_events", "organization_id", None),
    AddColumn("review_events", "actor_user_id", None),
    Update("runs", "tenant"), Update("evidence_packs", "tenant"), Update("review_events", "tenant"),
    CreateForeignKey("runs", "organization_id", "organizations"),
    CreateForeignKey("runs", "repository_id", "repositories"),
    CreateForeignKey("runs", "evidence_source_id", "evidence_sources"),
    CreateForeignKey("evidence_packs", "organization_id", "organizations"),
    CreateForeignKey("review_events", "organization_id", "organizations")>>
Down0006 == <<
    DropConstraint("review_events", "organization_id", "organizations"),
    DropConstraint("evidence_packs", "organization_id", "organizations"),
    DropConstraint("runs", "evidence_source_id", "evidence_sources"),
    DropConstraint("runs", "repository_id", "repositories"),
    DropConstraint("runs", "organization_id", "organizations"),
    DropColumn("review_events", "actor_user_id"), DropColumn("review_events", "organization_id"),
    DropColumn("evidence_packs", "organization_id"),
    DropColumn("runs", "evidence_source_id"), DropColumn("runs", "repository_id"),
    DropColumn("runs", "organization_id"),
    DropTable("policy_configs"), DropTable("evidence_sources"), DropTable("repositories"),
    DropTable("memberships"), DropTable("users"), DropTable("organizations")>>

Up0007 == <<CreateTable("sessions", {},
    {<<"user_id", "users">>, <<"organization_id", "organizations">>})>>
Down0007 == <<DropTable("sessions")>>

Up0008 == <<
    CreateTable("github_installations", {}, {<<"organization_id", "organizations">>}),
    CreateTable("github_repositories", {}, {<<"linked_repository_id", "repositories">>}),
    CreateTable("github_pull_requests", {}, {}),
    CreateTable("github_check_runs", {}, {<<"run_id", "runs">>}),
    CreateTable("github_webhook_deliveries", {}, {}),
    CreateTable("repo_settings", {},
        {<<"repository_id", "repositories">>, <<"policy_config_id", "policy_configs">>})>>
Down0008 == <<
    DropTable("repo_settings"), DropTable("github_check_runs"),
    DropTable("github_webhook_deliveries"), DropTable("github_pull_requests"),
    DropTable("github_repositories"), DropTable("github_installations")>>

Up0009 == <<AddColumn("policy_configs", "repo_name", None),
            AddColumn("policy_configs", "is_active", "true")>>
Down0009 == <<DropColumn("policy_configs", "is_active"), DropColumn("policy_configs", "repo_name")>>

Up0010 == <<
    AddColumn("evidence_sources", "repo_name", None),
    AddColumn("runs", "schema_version", "1.0"), AddColumn("runs", "source_run_url", None),
    AddColumn("runs", "pull_request_json", None), AddColumn("runs", "scanner_results_json", None),
    AddColumn("runs", "artifact_refs_json", None)>>
Down0010AllButOne == <<
    DropColumn("runs", "artifact_refs_json"), DropColumn("runs", "scanner_results_json"),
    DropColumn("runs", "pull_request_json"), DropColumn("runs", "source_run_url"),
    DropColumn("evidence_sources", "repo_name")>>

Down0010 == <<
    DropColumn("runs", "artifact_refs_json"), DropColumn("runs", "scanner_results_json"),
    DropColumn("runs", "pull_request_json"), DropColumn("runs", "source_run_url"),
    DropColumn("runs", "schema_version"), DropColumn("evidence_sources", "repo_name")>>

Up0011 == <<
    CreateTable("cases", {}, {<<"run_id", "runs">>}),
    CreateTable("case_participants", {}, {<<"case_id", "cases">>}),
    CreateTable("case_messages", {}, {<<"case_id", "cases">>}),
    CreateTable("case_events", {}, {<<"case_id", "cases">>}),
    CreateTable("case_external_links", {}, {<<"case_id", "cases">>})>>
Down0011CasesFirst == <<
    DropTable("cases"), DropTable("case_participants"), DropTable("case_messages"),
    DropTable("case_events"), DropTable("case_external_links")>>

Down0011 == <<
    DropTable("case_external_links"), DropTable("case_events"), DropTable("case_messages"),
    DropTable("case_participants"), DropTable("cases")>>

Up0012 == <<CreateTable("advisor_findings", {}, {<<"case_id", "cases">>})>>
Down0012 == <<DropTable("advisor_findings")>>

Up0013 == <<CreateTable("audit_events", {}, {})>>
Down0013 == <<DropTable("audit_events")>>

Up0014 == <<CreateTrigger("audit_events")>>
Down0014 == <<DropTrigger("audit_events")>>

LastRevision == 14
Upgrade == <<Up0001, Up0002, Up0003, Up0004, Up0005, Up0006, Up0007,
             Up0008, Up0009, Up0010, Up0011, Up0012, Up0013, Up0014>>
Downgrade == <<Down0001, Down0002, Down0003, Down0004, Down0005, Down0006, Down0007,
               Down0008, Down0009, Down0010, Down0011, Down0012, Down0013, Down0014>>
=============================================================================
