------------------------------ MODULE Sessions ------------------------------
(***************************************************************************)
(* Users, memberships and session tokens (app/services/auth.py, scim.py and *)
(* oidc.py) under concurrent requests: the SCIM and OIDC endpoints and the  *)
(* role checks run in the thread pool, the others on the event loop, each   *)
(* with a database session of its own.  A step is what a request reads, or  *)
(* what it commits.  There is one organization; break-glass requests do not *)
(* touch this state.                                                        *)
(***************************************************************************)
EXTENDS Naturals, Sequences, FiniteSets

CONSTANTS
    Users,       \* identified by e-mail, unique in the organization
    Requests,    \* a session is named by the request that issues it
    GivenRoles,  \* roles that provisioning and SCIM give
    None         \* "no value"

ROLES == <<"viewer", "integration_admin", "reviewer", "admin", "owner">>
Roles == {ROLES[i] : i \in DOMAIN ROLES}
ASSUME RolesGiven == GivenRoles \subseteq Roles
ASSUME NoneIsNoValue == None \notin Users \cup Requests \cup Roles

role_meets(role, required) ==
    \E i, j \in DOMAIN ROLES : ROLES[i] = role /\ ROLES[j] = required /\ i >= j

VARIABLES
    status,   \* status[u] of the membership; "none" when the user does not exist
    role,     \* role[u] of the membership
    sess,     \* sess[s]: the session row that request s issued
    locked,   \* locked[u]: the request whose uncommitted UPDATE holds the membership row
    request,
    crossed   \* history: the issues that were under way together with a deactivation of their user

vars == <<status, role, sess, locked, request, crossed>>

NoSession == [user |-> None, role |-> None, revoked |-> FALSE, expired |-> FALSE, used |-> FALSE]
Session == [user : Users \cup {None}, role : Roles \cup {None}, revoked : BOOLEAN,
            expired : BOOLEAN, used : BOOLEAN]

Creating == {"provision_user", "scim_create_user"}
Issuing == {"issue_session", "provision_oidc_user"}
Kinds == Creating \cup Issuing \cup {"deactivate", "activate", "revoke", "use"}

(* loaded is the membership status read, row the session row read, seen the sessions a
   deactivation selected, late whether the user was inactive already at the read. *)
Request == [phase : {"new", "create", "issue", "loaded", "selected", "revoke", "check", "act", "done"},
            kind : Kinds \cup {None}, user : Users \cup {None}, role : Roles \cup {None},
            token : Requests \cup {None}, loaded : {"none", "active", "inactive"},
            row : Session, seen : SUBSET Requests, late : BOOLEAN]
NewRequest == [phase |-> "new", kind |-> None, user |-> None, role |-> None, token |-> None,
               loaded |-> "none", row |-> NoSession, seen |-> {}, late |-> FALSE]

Init ==
    /\ status = [u \in Users |-> "none"]
    /\ role = [u \in Users |-> None]
    /\ sess = [s \in Requests |-> NoSession]
    /\ locked = [u \in Users |-> None]
    /\ request = [r \in Requests |-> NewRequest]
    /\ crossed = {}

Issued(s) == sess[s].user # None
Done(r) == request' = [request EXCEPT ![r].phase = "done"]
DeactivationUnderWay(u) ==
    \E q \in Requests : request[q].kind = "deactivate" /\ request[q].user = u
                        /\ request[q].phase \in {"loaded", "selected"}
IssuesUnderWay(u) == {q \in Requests : request[q].user = u /\ request[q].phase = "issue"}
-----------------------------------------------------------------------------
(* provision_user, scim_create_user; provision_oidc_user for an unknown e-mail. *)

ReadUnknown(r, u, kind, given) ==
    /\ request[r].phase = "new"
    /\ kind \in Creating \cup {"provision_oidc_user"}
    /\ kind = "provision_oidc_user" => given = "viewer"
    /\ status[u] = "none"
    /\ request' = [request EXCEPT ![r] = [NewRequest EXCEPT !.phase = "create", !.kind = kind,
                                                            !.user = u, !.role = given]]
    /\ UNCHANGED <<status, role, sess, locked, crossed>>

(* 409: the user exists; also what the unique constraint makes of a create that lost. *)
Conflict(r) ==
    /\ request[r].phase = "create"
    /\ status[request[r].user] # "none"
    /\ Done(r)
    /\ UNCHANGED <<status, role, sess, locked, crossed>>

NewSession(u, given) == [NoSession EXCEPT !.user = u, !.role = given]

CreateOver(r) ==
    LET u == request[r].user
    IN /\ request[r].phase = "create"
       /\ status' = [status EXCEPT ![u] = "active"]
       /\ role' = [role EXCEPT ![u] = request[r].role]
       /\ sess' = IF request[r].kind = "scim_create_user" THEN sess
                  ELSE [sess EXCEPT ![r] = NewSession(u, request[r].role)]
       /\ Done(r)
       /\ UNCHANGED <<locked, crossed>>

(* User, membership and, but for SCIM, the first session are one transaction. *)
Create(r) ==
    LET u == request[r].user
    IN /\ request[r].phase = "create"
       /\ status[u] = "none"
       /\ status' = [status EXCEPT ![u] = "active"]
       /\ role' = [role EXCEPT ![u] = request[r].role]
       /\ sess' = IF request[r].kind = "scim_create_user" THEN sess
                  ELSE [sess EXCEPT ![r] = NewSession(u, request[r].role)]
       /\ Done(r)
       /\ UNCHANGED <<locked, crossed>>
-----------------------------------------------------------------------------
(* issue_session; provision_oidc_user for a known e-mail.  Both refuse an inactive one. *)

ReadMembership(r, u, kind) ==
    /\ request[r].phase = "new"
    /\ kind \in Issuing
    /\ status[u] = "active"
    /\ request' = [request EXCEPT ![r] = [NewRequest EXCEPT !.phase = "issue", !.kind = kind,
                                                            !.user = u, !.role = role[u]]]
    /\ crossed' = IF DeactivationUnderWay(u) THEN crossed \cup {r} ELSE crossed
    /\ UNCHANGED <<status, role, sess, locked>>

Issue(r) ==
    /\ request[r].phase = "issue"
    /\ sess' = [sess EXCEPT ![r] = NewSession(request[r].user, request[r].role)]
    /\ Done(r)
    /\ UNCHANGED <<status, role, locked, crossed>>
-----------------------------------------------------------------------------
(* scim_patch_user and scim_delete_user *)

LoadMembership(r, u, kind) ==
    /\ request[r].phase = "new"
    /\ kind \in {"deactivate", "activate"}
    /\ status[u] # "none"
    /\ request' = [request EXCEPT ![r] = [NewRequest EXCEPT !.phase = "loaded", !.kind = kind,
                                                            !.user = u, !.loaded = status[u]]]
    /\ crossed' = IF kind = "deactivate" THEN crossed \cup IssuesUnderWay(u) ELSE crossed
    /\ UNCHANGED <<status, role, sess, locked>>

ToRevokeUsed(u) == {s \in Requests : sess[s].user = u /\ ~sess[s].revoked /\ sess[s].used}
ToRevoke(u) == {s \in Requests : sess[s].user = u /\ ~sess[s].revoked}

(* _deactivate_user: the SELECT of the sessions first flushes the membership's UPDATE,
   which waits for the row; there is no UPDATE when the status is inactive already. *)
SelectSessions(r) ==
    LET u == request[r].user
    IN /\ request[r].phase = "loaded" /\ request[r].kind = "deactivate"
       /\ IF request[r].loaded = "active"
          THEN locked[u] = None /\ locked' = [locked EXCEPT ![u] = r]
          ELSE UNCHANGED locked
       /\ request' = [request EXCEPT ![r].phase = "selected", ![r].seen = ToRevoke(u)]
       /\ UNCHANGED <<status, role, sess, crossed>>

CommitDeactivation(r) ==
    LET u == request[r].user
    IN /\ request[r].phase = "selected"
       /\ status' = IF request[r].loaded = "active" THEN [status EXCEPT ![u] = "inactive"] ELSE status
       /\ locked' = [locked EXCEPT ![u] = IF @ = r THEN None ELSE @]
       /\ sess' = [s \in Requests |-> IF s \in request[r].seen THEN [sess[s] EXCEPT !.revoked = TRUE]
                                      ELSE sess[s]]
       /\ Done(r)
       /\ UNCHANGED <<role, crossed>>

CommitActivation(r) ==
    LET u == request[r].user
    IN /\ request[r].phase = "loaded" /\ request[r].kind = "activate"
       /\ IF request[r].loaded = "inactive"
          THEN locked[u] = None /\ status' = [status EXCEPT ![u] = "active"]
          ELSE UNCHANGED status
       /\ Done(r)
       /\ UNCHANGED <<role, sess, locked, crossed>>
-----------------------------------------------------------------------------
(* revoke_session *)

LoadForRevoke(r, s) ==
    /\ request[r].phase = "new"
    /\ Issued(s)
    /\ request' = [request EXCEPT ![r] = [NewRequest EXCEPT !.phase = "revoke", !.kind = "revoke",
                                                            !.token = s]]
    /\ UNCHANGED <<status, role, sess, locked, crossed>>

Revoke(r) ==
    /\ request[r].phase = "revoke"
    /\ sess' = [sess EXCEPT ![request[r].token].revoked = TRUE]
    /\ Done(r)
    /\ UNCHANGED <<status, role, locked, crossed>>
-----------------------------------------------------------------------------
(* resolve_session and check_role, as require_reviewer calls them *)

Resolve(r, s) ==
    /\ request[r].phase = "new"
    /\ Issued(s)
    /\ request' = [request EXCEPT ![r] =
          [NewRequest EXCEPT !.phase = "check", !.kind = "use", !.user = sess[s].user, !.token = s,
                             !.row = sess[s], !.late = (status[sess[s].user] = "inactive")]]
    /\ UNCHANGED <<status, role, sess, locked, crossed>>

Valid(row) == ~row.revoked /\ ~row.expired

Refuse(r) ==
    /\ request[r].phase = "check"
    /\ ~Valid(request[r].row)
    /\ Done(r)
    /\ UNCHANGED <<status, role, sess, locked, crossed>>

(* Only last_used_at is written; the role check follows the commit. *)
TouchedRow(r) == [request[r].row EXCEPT !.used = TRUE]
Touched(r) == [sess[request[r].token] EXCEPT !.used = TRUE]

Touch(r) ==
    /\ request[r].phase = "check"
    /\ Valid(request[r].row)
    /\ sess' = [sess EXCEPT ![request[r].token] = Touched(r)]
    /\ request' = [request EXCEPT ![r].phase =
                      IF role_meets(request[r].row.role, "reviewer") THEN "act" ELSE "done"]
    /\ UNCHANGED <<status, role, locked, crossed>>

Act(r) ==
    /\ request[r].phase = "act"
    /\ Done(r)
    /\ UNCHANGED <<status, role, sess, locked, crossed>>

(* SESSION_TTL_DAYS pass. *)
Expire(s) ==
    /\ Issued(s) /\ ~sess[s].expired
    /\ sess' = [sess EXCEPT ![s].expired = TRUE]
    /\ UNCHANGED <<status, role, locked, request, crossed>>
-----------------------------------------------------------------------------
Next ==
    \/ \E r \in Requests, u \in Users :
          \/ \E kind \in Kinds, given \in GivenRoles : ReadUnknown(r, u, kind, given)
          \/ \E kind \in Kinds : ReadMembership(r, u, kind) \/ LoadMembership(r, u, kind)
    \/ \E r, s \in Requests : LoadForRevoke(r, s) \/ Resolve(r, s)
    \/ \E r \in Requests :
          \/ Conflict(r) \/ Create(r) \/ Issue(r)
          \/ SelectSessions(r) \/ CommitDeactivation(r) \/ CommitActivation(r)
          \/ Revoke(r) \/ Refuse(r) \/ Touch(r) \/ Act(r)
    \/ \E s \in Requests : Expire(s)

Spec == Init /\ [][Next]_vars
-----------------------------------------------------------------------------
(* TypeOK: in particular a user and its membership exist together. *)
TypeOK ==
    /\ status \in [Users -> {"none", "active", "inactive"}]
    /\ role \in [Users -> Roles \cup {None}]
    /\ \A u \in Users : status[u] = "none" <=> role[u] = None
    /\ sess \in [Requests -> Session]
    /\ locked \in [Users -> Requests \cup {None}]
    /\ request \in [Requests -> Request]
    /\ crossed \subseteq Requests

(* SessionsCarryTheirRole: whichever of SCIM, OIDC and the admin creates a user first,
   every session issued for it ever after has the role its membership has. *)
SessionsCarryTheirRole ==
    \A s \in Requests : Issued(s) => /\ status[sess[s].user] # "none"
                                     /\ sess[s].role = role[sess[s].user]

Live(u) == {s \in Requests : sess[s].user = u /\ ~sess[s].revoked}

(* InactiveIsShutOut: an inactive user has no session left but those whose own issue was
   under way together with a deactivation of the user, however often it is deactivated and
   activated in between; and on no other token does a request act that presented it after
   the deactivation, although nothing looks at the membership. *)
InactiveIsShutOut ==
    /\ \A u \in Users : status[u] = "inactive" => Live(u) \subseteq crossed
    /\ \A r \in Requests :
          request[r].phase = "act" /\ request[r].late => request[r].token \in crossed

(* RevokedForGood: a revoked session is never live again; in particular a request that
   loaded the row before the revocation does not write it back. *)
RevokedForGood ==
    [][\A s \in Requests : sess[s].revoked => sess'[s].revoked]_vars

(* DeactivatedIsRevoked (does not hold): "After deactivation, any existing sessions for
   the user should be revoked."  A session issued across the deactivation stays live. *)
DeactivatedIsRevoked == \A u \in Users : status[u] = "inactive" => Live(u) = {}
=============================================================================
