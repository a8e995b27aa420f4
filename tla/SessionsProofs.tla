---------------------------- MODULE SessionsProofs ----------------------------
(***************************************************************************)
(* Proofs about Sessions for every number of users and requests.           *)
(***************************************************************************)
EXTENDS Sessions, TLAPS

UnderWay == {"loaded", "selected"}
Deactivates(q, u) == q.kind = "deactivate" /\ q.user = u /\ q.phase \in UnderWay
Issues(q, u) == q.user = u /\ q.phase = "issue"

(* What a request in flight knows stays true: users, roles and issued tokens are never
   taken away, and what was revoked when it was selected or read stays revoked. *)
Fits(q) ==
    /\ q.phase \in {"create", "issue", "check", "act"} \cup UnderWay => q.user \in Users
    /\ q.phase = "create" => q.role \in Roles
    /\ q.phase \in {"issue"} \cup UnderWay => status[q.user] # "none"
    /\ q.phase = "issue" => q.role = role[q.user]
    /\ q.phase \in {"revoke", "check", "act"} => q.token \in Requests /\ Issued(q.token)
    /\ q.phase = "selected" => q.kind = "deactivate" /\ \A s \in q.seen : Issued(s)
    /\ q.phase = "selected" => Live(q.user) \subseteq q.seen \cup crossed
    /\ q.phase = "act" => Valid(q.row)
    /\ q.phase \in {"check", "act"} /\ q.late => q.row.revoked \/ q.token \in crossed
RequestsFit == \A r \in Requests : Fits(request[r])

(* The session of a request that is not through does not exist yet. *)
FreshUntilDone == \A r \in Requests : request[r].phase # "done" => sess[r] = NoSession

(* An issue meets a deactivation only by crossing it. *)
CrossingsMarked ==
    \A u \in Users :
        DeactivationUnderWay(u) \/ status[u] = "inactive" => IssuesUnderWay(u) \subseteq crossed

Inductive == /\ TypeOK /\ RequestsFit /\ FreshUntilDone /\ CrossingsMarked
             /\ SessionsCarryTheirRole /\ InactiveIsShutOut
-----------------------------------------------------------------------------
LEMMA NewTyped == NoSession \in Session /\ NewRequest \in Request
  BY DEF NoSession, Session, NewRequest, Request

LEMMA NoSessionIssued == NoSession.user = None /\ ~NoSession.revoked
  BY DEF NoSession

LEMMA InitEstablishes == Init => Inductive
<1> SUFFICES ASSUME Init PROVE Inductive OBVIOUS
<1> USE DEF Init
<1>1. \A r \in Requests : request[r].phase = "new" BY DEF NewRequest
<1>2. \A s \in Requests : ~Issued(s) BY DEF Issued, NoSession
<1>3. TypeOK BY NewTyped DEF TypeOK
<1>4. RequestsFit BY <1>1 DEF RequestsFit, Fits, UnderWay
<1>5. FreshUntilDone /\ CrossingsMarked
  BY <1>1 DEF FreshUntilDone, CrossingsMarked, IssuesUnderWay
<1>6. SessionsCarryTheirRole BY <1>2 DEF SessionsCarryTheirRole
<1>7. InactiveIsShutOut BY <1>1 DEF InactiveIsShutOut
<1>8. QED BY <1>3, <1>4, <1>5, <1>6, <1>7 DEF Inductive
-----------------------------------------------------------------------------
(* Steps that issue no session *)

(* Sessions keep their user and role and only end. *)
OnlyEnd ==
    \A s \in Requests : /\ sess'[s].user = sess[s].user /\ sess'[s].role = sess[s].role
                        /\ sess[s].revoked => sess'[s].revoked
                        /\ ~Issued(s) => sess'[s] = sess[s]

(* A request starts or goes on, sessions at most end, and a user that becomes inactive has
   none left but those whose issue crossed it. *)
LEMMA RequestMoves ==
    ASSUME Inductive, NEW r \in Requests, NEW new \in Request,
           request' = [request EXCEPT ![r] = new],
           request[r].phase = "done" => new.phase = "done",
           UNCHANGED role,
           status' \in [Users -> {"none", "active", "inactive"}],
           \A u \in Users : status'[u] = "none" <=> status[u] = "none",
           sess' \in [Requests -> Session], OnlyEnd,
           locked' \in [Users -> Requests \cup {None}],
           crossed' \subseteq Requests, crossed \subseteq crossed',
           Fits(new),
           \A u \in Users : Issues(new, u) =>
              status'[u] # "inactive" /\ (DeactivationUnderWay(u) => r \in crossed'),
           \A u \in Users : Deactivates(new, u) => IssuesUnderWay(u) \subseteq crossed',
           \A u \in Users : status'[u] = "inactive" /\ status[u] # "inactive" =>
              IssuesUnderWay(u) \subseteq crossed /\ Live(u)' \subseteq crossed
    PROVE  Inductive'
<1> USE DEF Inductive
<1>1. request'[r] = new /\ \A q \in Requests : q # r => request'[q] = request[q] BY DEF TypeOK
<1>2. \A s \in Requests : Issued(s)' <=> Issued(s) BY DEF OnlyEnd, Issued
<1>3. \A u : Live(u)' \subseteq Live(u) BY DEF OnlyEnd, Live
<1>4. TypeOK' BY DEF TypeOK
<1>5. ASSUME NEW q \in Requests PROVE Fits(request[q])'
  <2> SUFFICES ASSUME NEW n \in Request, n = request'[q] PROVE Fits(request[q])'
    BY <1>4 DEF TypeOK
  <2>1. Fits(n) BY <1>1 DEF RequestsFit
  <2>2. n.phase = "selected" => Live(n.user)' \subseteq n.seen \cup crossed'
    <3> SUFFICES ASSUME n.phase = "selected" PROVE Live(n.user)' \subseteq n.seen \cup crossed'
      OBVIOUS
    <3>1. Live(n.user) \subseteq n.seen \cup crossed BY <2>1 DEF Fits
    <3>2. Live(n.user)' \subseteq Live(n.user) BY <1>3
    <3>3. QED BY <3>1, <3>2
  <2>3. n.phase = "selected" => \A s \in n.seen : Issued(s)'
    <3>1. n.seen \subseteq Requests BY DEF Request
    <3>2. QED BY <1>2, <2>1, <3>1 DEF Fits
  <2>4. n.phase \in {"check", "act"} /\ n.late => n.row.revoked \/ n.token \in crossed'
    BY <2>1 DEF Fits
  <2>5. n.phase \in {"issue"} \cup UnderWay => status'[n.user] # "none"
    BY <2>1 DEF Fits, UnderWay
  <2>6. n.phase \in {"revoke", "check", "act"} => n.token \in Requests /\ Issued(n.token)'
    BY <1>2, <2>1 DEF Fits
  <2>7. QED BY <2>1, <2>2, <2>3, <2>4, <2>5, <2>6 DEF Fits, Valid, UnderWay
<1>6. RequestsFit' BY <1>5 DEF RequestsFit
<1>7. FreshUntilDone'
  <2> SUFFICES ASSUME NEW q \in Requests, request'[q].phase # "done" PROVE sess'[q] = NoSession
    BY DEF FreshUntilDone
  <2>1. request[q].phase # "done" BY <1>1
  <2>2. sess[q] = NoSession BY <2>1 DEF FreshUntilDone
  <2>3. ~Issued(q) BY <2>2, NoSessionIssued DEF Issued
  <2>4. QED BY <2>2, <2>3 DEF OnlyEnd
<1>8. CrossingsMarked'
  <2> SUFFICES ASSUME NEW u \in Users, NEW q \in Requests, Issues(request'[q], u),
                      DeactivationUnderWay(u)' \/ status'[u] = "inactive"
               PROVE  q \in crossed'
    BY DEF CrossingsMarked, IssuesUnderWay, Issues
  <2>1. CASE q # r
    <3>1. q \in IssuesUnderWay(u) BY <1>1, <2>1 DEF IssuesUnderWay, Issues
    <3>2. CASE DeactivationUnderWay(u) \/ status[u] = "inactive"
      BY <3>1, <3>2 DEF CrossingsMarked
    <3>3. CASE status'[u] = "inactive" /\ status[u] # "inactive" BY <3>1, <3>3
    <3>4. CASE DeactivationUnderWay(u)' /\ ~DeactivationUnderWay(u)
      <4>1. PICK d \in Requests : Deactivates(request'[d], u)
        BY <3>4 DEF DeactivationUnderWay, Deactivates, UnderWay
      <4>2. d = r BY <1>1, <3>4, <4>1 DEF DeactivationUnderWay, Deactivates, UnderWay
      <4>3. QED BY <1>1, <3>1, <4>1, <4>2
    <3>5. QED BY <3>2, <3>3, <3>4
  <2>2. CASE q = r
    <3>1. Issues(new, u) BY <1>1, <2>2
    <3>2. PICK d \in Requests : Deactivates(request'[d], u)
      BY <3>1 DEF DeactivationUnderWay, Deactivates, UnderWay
    <3>3. d # r BY <1>1, <3>1, <3>2 DEF Issues, Deactivates, UnderWay
    <3>4. DeactivationUnderWay(u)
      BY <1>1, <3>2, <3>3 DEF DeactivationUnderWay, Deactivates, UnderWay
    <3>5. QED BY <2>2, <3>1, <3>4
  <2>3. QED BY <2>1, <2>2
<1>9. SessionsCarryTheirRole'
  <2> SUFFICES ASSUME NEW s \in Requests, Issued(s)'
               PROVE  status'[sess'[s].user] # "none" /\ sess'[s].role = role'[sess'[s].user]
    BY DEF SessionsCarryTheirRole, Issued
  <2>1. Issued(s) BY <1>2
  <2>2. sess[s].user \in Users BY <2>1 DEF TypeOK, Session, Issued
  <2>3. QED BY <2>1, <2>2 DEF SessionsCarryTheirRole, OnlyEnd
<1>10. InactiveIsShutOut'
  <2>1. ASSUME NEW u \in Users, status'[u] = "inactive" PROVE Live(u)' \subseteq crossed'
    <3>1. CASE status[u] = "inactive"
      <4>1. Live(u) \subseteq crossed BY <3>1 DEF InactiveIsShutOut
      <4>2. QED BY <1>3, <4>1
    <3>2. CASE status[u] # "inactive" BY <2>1, <3>2
    <3>3. QED BY <3>1, <3>2
  <2>2. \A q \in Requests :
           request'[q].phase = "act" /\ request'[q].late => request'[q].token \in crossed'
    BY <1>6 DEF RequestsFit, Fits, Valid
  <2>3. QED BY <2>1, <2>2 DEF InactiveIsShutOut
<1>11. QED BY <1>4, <1>6, <1>7, <1>8, <1>9, <1>10

(* A request is through; what it did to sessions only ended them. *)
LEMMA RequestEnds ==
    ASSUME Inductive, NEW r \in Requests, Done(r), UNCHANGED <<role, crossed>>,
           status' \in [Users -> {"none", "active", "inactive"}],
           \A u \in Users : status'[u] = "none" <=> status[u] = "none",
           sess' \in [Requests -> Session], OnlyEnd,
           locked' \in [Users -> Requests \cup {None}],
           \A u \in Users : status'[u] = "inactive" /\ status[u] # "inactive" =>
              IssuesUnderWay(u) \subseteq crossed /\ Live(u)' \subseteq crossed
    PROVE  Inductive'
<1>1. request[r] \in Request /\ crossed \subseteq Requests BY DEF Inductive, TypeOK
<1>2. PICK new \in Request : new = [request[r] EXCEPT !.phase = "done"] /\ new.phase = "done"
  <2>1. [request[r] EXCEPT !.phase = "done"] \in Request BY <1>1 DEF Request
  <2>2. QED BY <1>1, <2>1 DEF Request
<1>3. request' = [request EXCEPT ![r] = new] BY <1>2 DEF Done
<1>4. Fits(new) BY <1>2 DEF Fits, UnderWay
<1>5. \A u \in Users : ~Issues(new, u) /\ ~Deactivates(new, u)
  BY <1>2 DEF Issues, Deactivates, UnderWay
<1>6. QED BY <1>1, <1>2, <1>3, <1>4, <1>5, RequestMoves

LEMMA ReadUnknownNext ==
    ASSUME Inductive, NEW r \in Requests, NEW u \in Users, NEW kind \in Kinds,
           NEW given \in GivenRoles, ReadUnknown(r, u, kind, given)
    PROVE  Inductive'
<1>1. PICK new \in Request :
         /\ new = [NewRequest EXCEPT !.phase = "create", !.kind = kind, !.user = u, !.role = given]
         /\ new.phase = "create" /\ new.user = u /\ new.role = given
  <2>1. given \in Roles BY RolesGiven
  <2>2. [NewRequest EXCEPT !.phase = "create", !.kind = kind, !.user = u, !.role = given] \in Request
    BY <2>1, NewTyped DEF Request
  <2>3. QED BY <2>2, NewTyped DEF Request
<1>2. /\ request' = [request EXCEPT ![r] = new] /\ UNCHANGED <<status, role, sess, locked, crossed>>
      /\ request[r].phase = "new"
  BY <1>1 DEF ReadUnknown
<1>3. Fits(new) BY <1>1, RolesGiven DEF Fits, UnderWay
<1>4. \A v \in Users : ~Issues(new, v) /\ ~Deactivates(new, v)
  BY <1>1 DEF Issues, Deactivates, UnderWay
<1>5. QED BY <1>1, <1>2, <1>3, <1>4, RequestMoves DEF OnlyEnd, Inductive, TypeOK

LEMMA ReadMembershipNext ==
    ASSUME Inductive, NEW r \in Requests, NEW u \in Users, NEW kind \in Kinds,
           ReadMembership(r, u, kind)
    PROVE  Inductive'
<1>1. status[u] = "active" /\ role[u] \in Roles
  BY DEF ReadMembership, Inductive, TypeOK
<1>2. PICK new \in Request :
         /\ new = [NewRequest EXCEPT !.phase = "issue", !.kind = kind, !.user = u, !.role = role[u]]
         /\ new.phase = "issue" /\ new.user = u /\ new.role = role[u]
  <2>1. [NewRequest EXCEPT !.phase = "issue", !.kind = kind, !.user = u, !.role = role[u]] \in Request
    BY <1>1, NewTyped DEF Request
  <2>2. QED BY <2>1, NewTyped DEF Request
<1>3. /\ request' = [request EXCEPT ![r] = new] /\ UNCHANGED <<status, role, sess, locked>>
      /\ crossed' = IF DeactivationUnderWay(u) THEN crossed \cup {r} ELSE crossed
      /\ request[r].phase = "new"
  BY <1>2 DEF ReadMembership
<1>4. /\ crossed' \subseteq Requests /\ crossed \subseteq crossed'
      /\ DeactivationUnderWay(u) => r \in crossed'
  BY <1>3 DEF Inductive, TypeOK
<1>5. Fits(new) BY <1>1, <1>2 DEF Fits, UnderWay
<1>6. \A v \in Users : (Issues(new, v) => v = u) /\ ~Deactivates(new, v)
  BY <1>2 DEF Issues, Deactivates, UnderWay
<1>7. \A v \in Users : Issues(new, v) =>
         status[v] # "inactive" /\ (DeactivationUnderWay(v) => r \in crossed')
  BY <1>1, <1>4, <1>6
<1>8. /\ status' \in [Users -> {"none", "active", "inactive"}] /\ sess' \in [Requests -> Session]
      /\ locked' \in [Users -> Requests \cup {None}] /\ OnlyEnd
  BY <1>3 DEF OnlyEnd, Inductive, TypeOK
<1>9. QED BY <1>3, <1>4, <1>5, <1>6, <1>7, <1>8, RequestMoves

LEMMA LoadMembershipNext ==
    ASSUME Inductive, NEW r \in Requests, NEW u \in Users, NEW kind \in Kinds,
           LoadMembership(r, u, kind)
    PROVE  Inductive'
<1>1. status[u] \in {"none", "active", "inactive"} /\ status[u] # "none"
  BY DEF LoadMembership, Inductive, TypeOK
<1>2. PICK new \in Request :
         /\ new = [NewRequest EXCEPT !.phase = "loaded", !.kind = kind, !.user = u, !.loaded = status[u]]
         /\ new.phase = "loaded" /\ new.user = u /\ new.kind = kind
  <2>1. [NewRequest EXCEPT !.phase = "loaded", !.kind = kind, !.user = u, !.loaded = status[u]]
           \in Request
    BY <1>1, NewTyped DEF Request
  <2>2. QED BY <2>1, NewTyped DEF Request
<1>3. /\ request' = [request EXCEPT ![r] = new] /\ UNCHANGED <<status, role, sess, locked>>
      /\ crossed' = IF kind = "deactivate" THEN crossed \cup IssuesUnderWay(u) ELSE crossed
      /\ request[r].phase = "new"
  BY <1>2 DEF LoadMembership
<1>4. /\ crossed' \subseteq Requests /\ crossed \subseteq crossed'
      /\ kind = "deactivate" => IssuesUnderWay(u) \subseteq crossed'
  BY <1>3 DEF Inductive, TypeOK, IssuesUnderWay
<1>5. Fits(new) BY <1>1, <1>2 DEF Fits, UnderWay
<1>6. \A v \in Users : ~Issues(new, v) /\ (Deactivates(new, v) => v = u /\ kind = "deactivate")
  BY <1>2 DEF Issues, Deactivates, UnderWay
<1>7. QED BY <1>1, <1>2, <1>3, <1>4, <1>5, <1>6, RequestMoves DEF OnlyEnd, Inductive, TypeOK

(* The SELECT of a deactivation sees every live session. *)
LEMMA SelectSessionsNext ==
    ASSUME Inductive, NEW r \in Requests, SelectSessions(r)
    PROVE  Inductive'
<1> DEFINE u == request[r].user
<1>1. /\ request[r] \in Request /\ request[r].phase = "loaded" /\ request[r].kind = "deactivate"
      /\ u \in Users /\ status[u] # "none"
  BY DEF SelectSessions, Inductive, TypeOK, RequestsFit, Fits, UnderWay
<1>2. ToRevoke(u) = Live(u) /\ ToRevoke(u) \in SUBSET Requests BY DEF ToRevoke, Live
<1>3. PICK new \in Request :
         /\ new = [request[r] EXCEPT !.phase = "selected", !.seen = ToRevoke(u)]
         /\ new.phase = "selected" /\ new.user = u /\ new.kind = "deactivate"
         /\ new.seen = Live(u)
  <2>1. [request[r] EXCEPT !.phase = "selected", !.seen = ToRevoke(u)] \in Request
    BY <1>1, <1>2 DEF Request
  <2>2. QED BY <1>1, <1>2, <2>1 DEF Request
<1>4. /\ request' = [request EXCEPT ![r] = new] /\ UNCHANGED <<status, role, sess, crossed>>
  BY <1>3 DEF SelectSessions
<1>5. locked' \in [Users -> Requests \cup {None}]
  BY <1>1 DEF SelectSessions, Inductive, TypeOK
<1>6. Fits(new)
  <2>1. \A s \in Live(u) : Issued(s) BY <1>1, NoneIsNoValue DEF Live, Issued
  <2>2. QED BY <1>1, <1>3, <2>1 DEF Fits, UnderWay
<1>7. \A v \in Users : ~Issues(new, v) BY <1>3 DEF Issues
<1>8. \A v \in Users : Deactivates(new, v) => IssuesUnderWay(v) \subseteq crossed
  <2> SUFFICES ASSUME NEW v \in Users, Deactivates(new, v) PROVE IssuesUnderWay(v) \subseteq crossed
    OBVIOUS
  <2>1. v = u BY <1>3 DEF Deactivates
  <2>2. DeactivationUnderWay(v) BY <1>1, <2>1 DEF DeactivationUnderWay
  <2>3. QED BY <2>2 DEF Inductive, CrossingsMarked
<1>9. QED BY <1>1, <1>3, <1>4, <1>5, <1>6, <1>7, <1>8, RequestMoves DEF OnlyEnd, Inductive, TypeOK

(* The user exists in one transaction with its first session. *)
LEMMA CreateNext ==
    ASSUME Inductive, NEW r \in Requests, Create(r)
    PROVE  Inductive'
<1> USE DEF Inductive
<1> SUFFICES ASSUME NEW u \in Users, u = request[r].user PROVE Inductive'
  BY DEF Create, RequestsFit, Fits
<1> DEFINE given == request[r].role
<1>1. request[r].phase = "create" /\ given \in Roles /\ status[u] = "none"
  BY DEF Create, RequestsFit, Fits
<1>2. request[r] \in Request /\ sess[r] = NoSession
  BY <1>1 DEF TypeOK, FreshUntilDone
<1>3. NewSession(u, given) \in Session
  BY <1>1, NewTyped DEF NewSession, Session
<1>4. NewSession(u, given).user = u /\ NewSession(u, given).role = given
  BY NewTyped DEF NewSession, Session
<1>5. /\ status'[u] = "active" /\ role'[u] = given
      /\ \A v \in Users : v # u => status'[v] = status[v] /\ role'[v] = role[v]
      /\ UNCHANGED <<locked, crossed>>
      /\ \A s \in Requests : s # r => sess'[s] = sess[s]
      /\ sess'[r] = sess[r] \/ sess'[r] = NewSession(u, given)
  BY DEF Create, TypeOK
<1>6. /\ request'[r].phase = "done" /\ \A q \in Requests : q # r => request'[q] = request[q]
      /\ request' \in [Requests -> Request]
  <2>1. [request[r] EXCEPT !.phase = "done"] \in Request BY <1>2 DEF Request
  <2>2. request' = [request EXCEPT ![r] = [request[r] EXCEPT !.phase = "done"]]
    BY DEF Create, Done
  <2>3. [request[r] EXCEPT !.phase = "done"].phase = "done" BY <1>2 DEF Request
  <2>4. QED BY <2>1, <2>2, <2>3 DEF TypeOK
<1>7. TypeOK'
  <2>1. status' \in [Users -> {"none", "active", "inactive"}]
    BY DEF Create, TypeOK
  <2>2. role' \in [Users -> Roles \cup {None}] BY <1>1 DEF Create, TypeOK
  <2>3. \A v \in Users : status'[v] = "none" <=> role'[v] = None
    BY <1>1, <1>5, NoneIsNoValue DEF TypeOK
  <2>4. sess' \in [Requests -> Session] BY <1>3 DEF Create, TypeOK
  <2>5. QED BY <1>5, <1>6, <2>1, <2>2, <2>3, <2>4 DEF TypeOK
<1>8. \A s \in Requests : Issued(s) => /\ s # r /\ sess[s].user # u /\ sess'[s] = sess[s]
                                       /\ sess[s].user \in Users
  <2> SUFFICES ASSUME NEW s \in Requests, Issued(s)
               PROVE  /\ s # r /\ sess[s].user # u /\ sess'[s] = sess[s] /\ sess[s].user \in Users
    OBVIOUS
  <2>1. s # r BY <1>2, NoSessionIssued DEF Issued
  <2>2. status[sess[s].user] # "none" BY DEF SessionsCarryTheirRole
  <2>3. sess[s].user \in Users BY DEF TypeOK, Session, Issued
  <2>4. QED BY <1>1, <1>5, <2>1, <2>2, <2>3
<1>9. \A v \in Users : v # u => Live(v)' \subseteq Live(v)
  BY <1>4, <1>5 DEF Live
<1>10. ASSUME NEW q \in Requests PROVE Fits(request[q])'
  <2> SUFFICES ASSUME NEW n \in Request, n = request'[q] PROVE Fits(request[q])'
    BY <1>6
  <2>1. CASE q = r BY <1>6, <2>1 DEF Fits, UnderWay
  <2>2. CASE q # r
    <3>1. Fits(n) BY <1>6, <2>2 DEF RequestsFit
    <3>2. n.phase \in {"issue"} \cup UnderWay =>
             n.user \in Users /\ n.user # u /\ status'[n.user] # "none"
      BY <1>1, <1>5, <3>1 DEF Fits, UnderWay
    <3>3. n.phase = "issue" => n.role = role'[n.user]
      BY <1>5, <3>1, <3>2 DEF Fits
    <3>4. n.phase \in {"revoke", "check", "act"} => n.token \in Requests /\ Issued(n.token)'
      BY <1>8, <3>1 DEF Fits, Issued
    <3>5. n.phase = "selected" => \A s \in n.seen : Issued(s)'
      <4>1. n.seen \subseteq Requests BY DEF Request
      <4>2. QED BY <1>8, <3>1, <4>1 DEF Fits, Issued
    <3>6. n.phase = "selected" => Live(n.user)' \subseteq n.seen \cup crossed'
      <4> SUFFICES ASSUME n.phase = "selected" PROVE Live(n.user)' \subseteq n.seen \cup crossed'
        OBVIOUS
      <4>1. n.user \in Users /\ n.user # u BY <3>2 DEF UnderWay
      <4>2. Live(n.user) \subseteq n.seen \cup crossed' BY <1>5, <3>1 DEF Fits
      <4>3. Live(n.user)' \subseteq Live(n.user) BY <1>9, <4>1
      <4>4. QED BY <4>2, <4>3
    <3>7. n.phase \in {"check", "act"} /\ n.late => n.row.revoked \/ n.token \in crossed'
      BY <1>5, <3>1 DEF Fits
    <3>8. QED
      BY <3>1, <3>2, <3>3, <3>4, <3>5, <3>6, <3>7 DEF Fits, Valid, UnderWay
  <2>3. QED BY <2>1, <2>2
<1>11. RequestsFit' BY <1>10 DEF RequestsFit
<1>12. FreshUntilDone' BY <1>5, <1>6 DEF FreshUntilDone
<1>13. CrossingsMarked'
  <2> SUFFICES ASSUME NEW v \in Users, DeactivationUnderWay(v)' \/ status'[v] = "inactive"
               PROVE  IssuesUnderWay(v)' \subseteq crossed'
    BY DEF CrossingsMarked
  <2>1. IssuesUnderWay(v)' \subseteq IssuesUnderWay(v) BY <1>6 DEF IssuesUnderWay
  <2>2. DeactivationUnderWay(v) \/ status[v] = "inactive"
    BY <1>5, <1>6 DEF DeactivationUnderWay
  <2>3. QED BY <1>5, <2>1, <2>2 DEF CrossingsMarked
<1>14. SessionsCarryTheirRole'
  <2> SUFFICES ASSUME NEW s \in Requests, Issued(s)'
               PROVE  status'[sess'[s].user] # "none" /\ sess'[s].role = role'[sess'[s].user]
    BY DEF SessionsCarryTheirRole, Issued
  <2>1. CASE Issued(s) BY <1>5, <1>8, <2>1 DEF SessionsCarryTheirRole
  <2>2. CASE ~Issued(s)
    <3>1. s = r /\ sess'[s] = NewSession(u, given) BY <1>5, <2>2 DEF Issued
    <3>2. QED BY <1>4, <1>5, <3>1
  <2>3. QED BY <2>1, <2>2
<1>15. InactiveIsShutOut'
  <2>1. ASSUME NEW v \in Users, status'[v] = "inactive" PROVE Live(v)' \subseteq crossed'
    <3>1. v # u /\ status[v] = "inactive" BY <1>5, <2>1
    <3>2. Live(v) \subseteq crossed' BY <1>5, <3>1 DEF InactiveIsShutOut
    <3>3. QED BY <1>9, <3>1, <3>2
  <2>2. \A q \in Requests :
           request'[q].phase = "act" /\ request'[q].late => request'[q].token \in crossed'
    BY <1>11 DEF RequestsFit, Fits, Valid
  <2>3. QED BY <2>1, <2>2 DEF InactiveIsShutOut
<1>16. QED BY <1>7, <1>11, <1>12, <1>13, <1>14, <1>15

(* An issue gives its user one more live session, which a deactivation misses only if the
   issue crossed it. *)
LEMMA IssueNext ==
    ASSUME Inductive, NEW r \in Requests, Issue(r)
    PROVE  Inductive'
<1> USE DEF Inductive
<1> SUFFICES ASSUME NEW u \in Users, u = request[r].user PROVE Inductive'
  BY DEF Issue, RequestsFit, Fits
<1> DEFINE given == request[r].role
<1>1. request[r].phase = "issue" /\ given = role[u] /\ status[u] # "none" /\ given \in Roles
  <2>1. request[r].phase = "issue" BY DEF Issue
  <2>2. given = role[u] /\ status[u] # "none" BY <2>1 DEF RequestsFit, Fits
  <2>3. QED BY <2>1, <2>2 DEF TypeOK
<1>2. request[r] \in Request /\ sess[r] = NoSession
  BY <1>1 DEF TypeOK, FreshUntilDone
<1>3. /\ NewSession(u, given) \in Session /\ NewSession(u, given).user = u
      /\ NewSession(u, given).role = given
  BY <1>1, NewTyped DEF NewSession, Session
<1>4. DeactivationUnderWay(u) \/ status[u] = "inactive" => r \in crossed
  BY <1>1 DEF CrossingsMarked, IssuesUnderWay
<1>5. /\ UNCHANGED <<status, role, locked, crossed>>
      /\ \A s \in Requests : s # r => sess'[s] = sess[s]
      /\ sess'[r] = NewSession(u, given)
  BY DEF Issue, TypeOK
<1>6. /\ request'[r].phase = "done" /\ \A q \in Requests : q # r => request'[q] = request[q]
      /\ request' \in [Requests -> Request]
  <2>1. [request[r] EXCEPT !.phase = "done"] \in Request BY <1>2 DEF Request
  <2>2. request' = [request EXCEPT ![r] = [request[r] EXCEPT !.phase = "done"]]
    BY DEF Issue, Done
  <2>3. [request[r] EXCEPT !.phase = "done"].phase = "done" BY <1>2 DEF Request
  <2>4. QED BY <2>1, <2>2, <2>3 DEF TypeOK
<1>7. TypeOK'
  <2>1. sess' \in [Requests -> Session] BY <1>3 DEF Issue, TypeOK
  <2>2. QED BY <1>5, <1>6, <2>1 DEF TypeOK
<1>8. \A s \in Requests : Issued(s) => s # r /\ sess'[s] = sess[s]
  BY <1>2, <1>5, NoSessionIssued DEF Issued
<1>9. \A v \in Users : Live(v)' \subseteq Live(v) \cup {s \in {r} : v = u}
  BY <1>3, <1>5 DEF Live
<1>10. ASSUME NEW q \in Requests PROVE Fits(request[q])'
  <2> SUFFICES ASSUME NEW n \in Request, n = request'[q] PROVE Fits(request[q])'
    BY <1>6
  <2>1. CASE q = r BY <1>6, <2>1 DEF Fits, UnderWay
  <2>2. CASE q # r
    <3>1. Fits(n) BY <1>6, <2>2 DEF RequestsFit
    <3>2. n.phase \in {"revoke", "check", "act"} => n.token \in Requests /\ Issued(n.token)'
      BY <1>8, <3>1 DEF Fits, Issued
    <3>3. n.phase = "selected" => \A s \in n.seen : Issued(s)'
      <4>1. n.seen \subseteq Requests BY DEF Request
      <4>2. QED BY <1>8, <3>1, <4>1 DEF Fits, Issued
    <3>4. n.phase = "selected" => Live(n.user)' \subseteq n.seen \cup crossed'
      <4> SUFFICES ASSUME n.phase = "selected" PROVE Live(n.user)' \subseteq n.seen \cup crossed'
        OBVIOUS
      <4>1. n.user \in Users /\ n.kind = "deactivate" BY <3>1 DEF Fits, UnderWay
      <4>2. DeactivationUnderWay(n.user) BY <1>6, <2>2, <4>1 DEF DeactivationUnderWay
      <4>3. n.user = u => r \in crossed' BY <1>4, <1>5, <4>2
      <4>4. Live(n.user) \subseteq n.seen \cup crossed' BY <1>5, <3>1 DEF Fits
      <4>5. QED BY <1>9, <4>1, <4>3, <4>4
    <3>5. QED BY <1>5, <3>1, <3>2, <3>3, <3>4 DEF Fits, Valid, UnderWay
  <2>3. QED BY <2>1, <2>2
<1>11. RequestsFit' BY <1>10 DEF RequestsFit
<1>12. FreshUntilDone' BY <1>5, <1>6 DEF FreshUntilDone
<1>13. CrossingsMarked'
  <2> SUFFICES ASSUME NEW v \in Users, DeactivationUnderWay(v)' \/ status'[v] = "inactive"
               PROVE  IssuesUnderWay(v)' \subseteq crossed'
    BY DEF CrossingsMarked
  <2>1. IssuesUnderWay(v)' \subseteq IssuesUnderWay(v) BY <1>6 DEF IssuesUnderWay
  <2>2. DeactivationUnderWay(v) \/ status[v] = "inactive"
    BY <1>5, <1>6 DEF DeactivationUnderWay
  <2>3. QED BY <1>5, <2>1, <2>2 DEF CrossingsMarked
<1>14. SessionsCarryTheirRole'
  <2> SUFFICES ASSUME NEW s \in Requests, Issued(s)'
               PROVE  status'[sess'[s].user] # "none" /\ sess'[s].role = role'[sess'[s].user]
    BY DEF SessionsCarryTheirRole, Issued
  <2>1. CASE s # r BY <1>5, <2>1 DEF SessionsCarryTheirRole, Issued
  <2>2. CASE s = r BY <1>1, <1>3, <1>5, <2>2
  <2>3. QED BY <2>1, <2>2
<1>15. InactiveIsShutOut'
  <2>1. ASSUME NEW v \in Users, status'[v] = "inactive" PROVE Live(v)' \subseteq crossed'
    <3>1. v = u => r \in crossed' BY <1>4, <1>5, <2>1
    <3>2. Live(v) \subseteq crossed' BY <1>5, <2>1 DEF InactiveIsShutOut
    <3>3. QED BY <1>9, <3>1, <3>2
  <2>2. \A q \in Requests :
           request'[q].phase = "act" /\ request'[q].late => request'[q].token \in crossed'
    BY <1>11 DEF RequestsFit, Fits, Valid
  <2>3. QED BY <2>1, <2>2 DEF InactiveIsShutOut
<1>16. QED BY <1>7, <1>11, <1>12, <1>13, <1>14, <1>15
-----------------------------------------------------------------------------
(* A deactivation selected every session there is to revoke but for those that crossed it. *)
LEMMA CommitDeactivationNext ==
    ASSUME Inductive, NEW r \in Requests, CommitDeactivation(r)
    PROVE  Inductive' /\ OnlyEnd
<1> SUFFICES ASSUME NEW u \in Users, u = request[r].user PROVE Inductive' /\ OnlyEnd
  BY DEF CommitDeactivation, Inductive, RequestsFit, Fits, UnderWay
<1>1. /\ request[r].phase = "selected" /\ request[r].kind = "deactivate" /\ status[u] # "none"
      /\ \A s \in request[r].seen : Issued(s)
      /\ Live(u) \subseteq request[r].seen \cup crossed
  BY DEF CommitDeactivation, Inductive, RequestsFit, Fits, UnderWay
<1>2. /\ Done(r) /\ UNCHANGED <<role, crossed>>
      /\ locked' = [locked EXCEPT ![u] = IF locked[u] = r THEN None ELSE locked[u]]
      /\ status' = status \/ status' = [status EXCEPT ![u] = "inactive"]
  BY DEF CommitDeactivation
<1>3. \A s \in Requests :
         /\ sess'[s] \in Session /\ sess'[s].user = sess[s].user /\ sess'[s].role = sess[s].role
         /\ s \in request[r].seen => sess'[s].revoked
         /\ s \notin request[r].seen => sess'[s] = sess[s]
  <2>1. \A s \in Requests : sess'[s] = IF s \in request[r].seen
                                       THEN [sess[s] EXCEPT !.revoked = TRUE] ELSE sess[s]
    BY DEF CommitDeactivation
  <2>2. \A s \in Requests : sess[s] \in Session BY DEF Inductive, TypeOK
  <2>3. \A one \in Session : LET ended == [one EXCEPT !.revoked = TRUE]
                             IN  ended \in Session /\ ended.user = one.user /\ ended.role = one.role
                                 /\ ended.revoked
    BY DEF Session
  <2>4. QED BY <2>1, <2>2, <2>3
<1>4. sess' \in [Requests -> Session]
  <2>1. sess' = [s \in Requests |-> IF s \in request[r].seen
                                    THEN [sess[s] EXCEPT !.revoked = TRUE] ELSE sess[s]]
    BY DEF CommitDeactivation
  <2>2. sess' = [s \in Requests |-> sess'[s]] BY <2>1
  <2>3. QED BY <1>3, <2>2
<1>5. OnlyEnd BY <1>1, <1>3 DEF OnlyEnd
<1>6. /\ status' \in [Users -> {"none", "active", "inactive"}]
      /\ \A v \in Users : status'[v] = "none" <=> status[v] = "none"
  BY <1>1, <1>2 DEF Inductive, TypeOK
<1>7. locked' \in [Users -> Requests \cup {None}] BY <1>2 DEF Inductive, TypeOK
<1>8. ASSUME NEW v \in Users, status'[v] = "inactive", status[v] # "inactive"
      PROVE  IssuesUnderWay(v) \subseteq crossed /\ Live(v)' \subseteq crossed
  <2>1. v = u BY <1>2, <1>8 DEF Inductive, TypeOK
  <2>2. DeactivationUnderWay(v) BY <1>1, <2>1 DEF DeactivationUnderWay
  <2>3. IssuesUnderWay(v) \subseteq crossed BY <2>2 DEF Inductive, CrossingsMarked
  <2>4. ASSUME NEW s \in Live(v)' PROVE s \in crossed
    <3>1. s \in Requests /\ sess'[s].user = v /\ ~sess'[s].revoked BY <2>4 DEF Live
    <3>2. s \in Live(v) BY <1>5, <3>1 DEF Live, OnlyEnd
    <3>3. s \notin request[r].seen BY <1>3, <3>1
    <3>4. QED BY <1>1, <2>1, <3>2, <3>3
  <2>5. QED BY <2>3, <2>4
<1>9. QED BY <1>2, <1>4, <1>5, <1>6, <1>7, <1>8, RequestEnds

LEMMA CommitActivationNext ==
    ASSUME Inductive, NEW r \in Requests, CommitActivation(r)
    PROVE  Inductive' /\ OnlyEnd
<1>1. request[r].user \in Users /\ status[request[r].user] # "none"
  BY DEF CommitActivation, Inductive, RequestsFit, Fits, UnderWay
<1>2. /\ Done(r) /\ UNCHANGED <<role, sess, locked, crossed>>
      /\ status' = status \/ status' = [status EXCEPT ![request[r].user] = "active"]
  BY DEF CommitActivation
<1>3. OnlyEnd BY <1>2 DEF OnlyEnd
<1>4. /\ status' \in [Users -> {"none", "active", "inactive"}]
      /\ \A v \in Users : /\ status'[v] = "none" <=> status[v] = "none"
                          /\ status'[v] = "inactive" => status[v] = "inactive"
  BY <1>1, <1>2 DEF Inductive, TypeOK
<1>5. QED BY <1>2, <1>3, <1>4, RequestEnds DEF Inductive, TypeOK

(* Writing one column of a session that exists ends it at most. *)
LEMMA OneSession ==
    ASSUME Inductive, NEW s \in Requests, Issued(s), NEW row \in Session,
           row.user = sess[s].user, row.role = sess[s].role, sess[s].revoked => row.revoked,
           sess' = [sess EXCEPT ![s] = row]
    PROVE  OnlyEnd /\ sess' \in [Requests -> Session]
  BY DEF OnlyEnd, Inductive, TypeOK

LEMMA RevokeNext ==
    ASSUME Inductive, NEW r \in Requests, Revoke(r)
    PROVE  Inductive' /\ OnlyEnd
<1>1. PICK s \in Requests : s = request[r].token /\ Issued(s)
  BY DEF Revoke, Inductive, RequestsFit, Fits
<1>2. sess[s] \in Session BY DEF Inductive, TypeOK
<1>3. PICK row \in Session : /\ row = [sess[s] EXCEPT !.revoked = TRUE] /\ row.user = sess[s].user
                             /\ row.role = sess[s].role /\ row.revoked
  <2>1. [sess[s] EXCEPT !.revoked = TRUE] \in Session BY <1>2 DEF Session
  <2>2. QED BY <1>2, <2>1 DEF Session
<1>4. sess' = [sess EXCEPT ![s] = row] BY <1>1, <1>3 DEF Revoke
<1>5. OnlyEnd /\ sess' \in [Requests -> Session] BY <1>1, <1>3, <1>4, OneSession
<1>6. Done(r) /\ UNCHANGED <<status, role, locked, crossed>> BY DEF Revoke
<1>7. QED BY <1>5, <1>6, RequestEnds DEF Inductive, TypeOK

(* Only last_used_at is written; a request that read the token of an inactive user read a
   revoked one and is refused. *)
LEMMA TouchNext ==
    ASSUME Inductive, NEW r \in Requests, Touch(r)
    PROVE  Inductive' /\ OnlyEnd
<1>1. PICK s \in Requests : s = request[r].token /\ Issued(s)
  BY DEF Touch, Inductive, RequestsFit, Fits
<1>2. sess[s] \in Session BY DEF Inductive, TypeOK
<1>3. PICK row \in Session : /\ row = [sess[s] EXCEPT !.used = TRUE] /\ row.user = sess[s].user
                             /\ row.role = sess[s].role /\ row.revoked = sess[s].revoked
  <2>1. [sess[s] EXCEPT !.used = TRUE] \in Session BY <1>2 DEF Session
  <2>2. QED BY <1>2, <2>1 DEF Session
<1>4. sess' = [sess EXCEPT ![s] = row] BY <1>1, <1>3 DEF Touch, Touched
<1>5. OnlyEnd /\ sess' \in [Requests -> Session] BY <1>1, <1>3, <1>4, OneSession
<1>6. UNCHANGED <<status, role, locked, crossed>> BY DEF Touch
<1>7. request[r] \in Request /\ request[r].phase = "check" /\ Valid(request[r].row)
  BY DEF Touch, Inductive, TypeOK
<1>8. PICK ph \in {"act", "done"} : request' = [request EXCEPT ![r].phase = ph]
  BY DEF Touch
<1>9. PICK new \in Request :
         /\ new = [request[r] EXCEPT !.phase = ph] /\ new.phase = ph /\ new.user = request[r].user
         /\ new.token = request[r].token /\ new.row = request[r].row /\ new.late = request[r].late
  <2>1. [request[r] EXCEPT !.phase = ph] \in Request BY <1>7 DEF Request
  <2>2. QED BY <1>7, <2>1 DEF Request
<1>10. request' = [request EXCEPT ![r] = new] BY <1>8, <1>9
<1>11. request[r].user \in Users /\ (request[r].late => request[r].token \in crossed)
  <2>1. Fits(request[r]) BY DEF Inductive, RequestsFit
  <2>2. QED BY <1>7, <2>1 DEF Fits, Valid
<1>12. Fits(new) BY <1>1, <1>7, <1>9, <1>11 DEF Fits, UnderWay
<1>13. \A u \in Users : ~Issues(new, u) /\ ~Deactivates(new, u)
  BY <1>9 DEF Issues, Deactivates, UnderWay
<1>14. QED
  BY <1>5, <1>6, <1>7, <1>9, <1>10, <1>11, <1>12, <1>13, RequestMoves DEF Inductive, TypeOK

LEMMA ExpireNext ==
    ASSUME Inductive, NEW s \in Requests, Expire(s)
    PROVE  Inductive' /\ OnlyEnd
<1>1. sess[s] \in Session /\ Issued(s) BY DEF Expire, Inductive, TypeOK
<1>2. PICK row \in Session : /\ row = [sess[s] EXCEPT !.expired = TRUE] /\ row.user = sess[s].user
                             /\ row.role = sess[s].role /\ row.revoked = sess[s].revoked
  <2>1. [sess[s] EXCEPT !.expired = TRUE] \in Session BY <1>1 DEF Session
  <2>2. QED BY <1>1, <2>1 DEF Session
<1>3. sess' = [sess EXCEPT ![s] = row] BY <1>2 DEF Expire
<1>4. OnlyEnd /\ sess' \in [Requests -> Session] BY <1>1, <1>2, <1>3, OneSession
<1>5. PICK new \in Request : new = request[s] BY DEF Inductive, TypeOK
<1>6. request' = [request EXCEPT ![s] = new] BY <1>5 DEF Expire, Inductive, TypeOK
<1>7. new.phase = "done"
  BY <1>1, <1>5, NoSessionIssued DEF Inductive, FreshUntilDone, Issued
<1>8. Fits(new) BY <1>5 DEF Inductive, RequestsFit
<1>9. \A u \in Users : ~Issues(new, u) /\ ~Deactivates(new, u)
  BY <1>7 DEF Issues, Deactivates, UnderWay
<1>10. QED
  BY <1>4, <1>6, <1>7, <1>8, <1>9, RequestMoves DEF Expire, Inductive, TypeOK

LEMMA LoadForRevokeNext ==
    ASSUME Inductive, NEW r \in Requests, NEW s \in Requests, LoadForRevoke(r, s)
    PROVE  Inductive'
<1>1. PICK new \in Request :
         /\ new = [NewRequest EXCEPT !.phase = "revoke", !.kind = "revoke", !.token = s]
         /\ new.phase = "revoke" /\ new.token = s
  <2>1. [NewRequest EXCEPT !.phase = "revoke", !.kind = "revoke", !.token = s] \in Request
    BY NewTyped DEF Request, Kinds
  <2>2. QED BY <2>1, NewTyped DEF Request
<1>2. /\ request' = [request EXCEPT ![r] = new] /\ UNCHANGED <<status, role, sess, locked, crossed>>
      /\ request[r].phase = "new" /\ Issued(s)
  BY <1>1 DEF LoadForRevoke
<1>3. Fits(new) BY <1>1, <1>2 DEF Fits, UnderWay
<1>4. \A v \in Users : ~Issues(new, v) /\ ~Deactivates(new, v)
  BY <1>1 DEF Issues, Deactivates, UnderWay
<1>5. QED BY <1>1, <1>2, <1>3, <1>4, RequestMoves DEF OnlyEnd, Inductive, TypeOK

LEMMA ResolveNext ==
    ASSUME Inductive, NEW r \in Requests, NEW s \in Requests, Resolve(r, s)
    PROVE  Inductive'
<1>1. /\ Issued(s) /\ sess[s] \in Session /\ sess[s].user \in Users /\ request[r].phase = "new"
  BY DEF Resolve, Inductive, TypeOK, Session, Issued
<1>2. PICK u \in Users, late \in BOOLEAN :
         u = sess[s].user /\ late = (status[u] = "inactive")
  BY <1>1
<1>3. PICK new \in Request :
         /\ new = [NewRequest EXCEPT !.phase = "check", !.kind = "use", !.user = u, !.token = s,
                                     !.row = sess[s], !.late = late]
         /\ new.phase = "check" /\ new.user = u /\ new.token = s /\ new.row = sess[s]
         /\ new.late = late
  <2>1. [NewRequest EXCEPT !.phase = "check", !.kind = "use", !.user = u, !.token = s,
                           !.row = sess[s], !.late = late] \in Request
    BY <1>1, NewTyped DEF Request, Kinds
  <2>2. QED BY <2>1, NewTyped DEF Request
<1>4. /\ request' = [request EXCEPT ![r] = new] /\ UNCHANGED <<status, role, sess, locked, crossed>>
  BY <1>2, <1>3 DEF Resolve
<1>5. late => sess[s].revoked \/ s \in crossed
  BY <1>2 DEF Inductive, InactiveIsShutOut, Live
<1>6. Fits(new) BY <1>1, <1>3, <1>5 DEF Fits, UnderWay
<1>7. \A v \in Users : ~Issues(new, v) /\ ~Deactivates(new, v)
  BY <1>3 DEF Issues, Deactivates, UnderWay
<1>8. QED BY <1>1, <1>3, <1>4, <1>6, <1>7, RequestMoves DEF OnlyEnd, Inductive, TypeOK

LEMMA ThroughNext ==
    ASSUME Inductive, NEW r \in Requests, Conflict(r) \/ Refuse(r) \/ Act(r)
    PROVE  Inductive'
<1>1. Done(r) /\ UNCHANGED <<status, role, sess, locked, crossed>> BY DEF Conflict, Refuse, Act
<1>2. QED BY <1>1, RequestEnds DEF OnlyEnd, Inductive, TypeOK

(* No step takes a session's revocation back: revocations are written over the row as it
   is, never over the row as it was read. *)
LEMMA InductiveNext ==
    ASSUME Inductive, [Next]_vars
    PROVE  Inductive' /\ \A s \in Requests : sess[s].revoked => sess'[s].revoked
<1> DEFINE Goal == Inductive' /\ \A s \in Requests : sess[s].revoked => sess'[s].revoked
<1>1. OnlyEnd => \A s \in Requests : sess[s].revoked => sess'[s].revoked BY DEF OnlyEnd
<1>2. CASE UNCHANGED vars
  <2>1. Inductive'
    BY <1>2 DEF vars, Inductive, TypeOK, RequestsFit, Fits, FreshUntilDone, CrossingsMarked,
                SessionsCarryTheirRole, InactiveIsShutOut, Issued, Live, IssuesUnderWay,
                DeactivationUnderWay
  <2>2. QED BY <1>2, <2>1 DEF vars
<1>3. ASSUME NEW r \in Requests, NEW u \in Users, NEW kind \in Kinds, NEW given \in GivenRoles,
             ReadUnknown(r, u, kind, given)
      PROVE  Goal
  BY <1>3, ReadUnknownNext DEF ReadUnknown
<1>4. ASSUME NEW r \in Requests, NEW u \in Users, NEW kind \in Kinds,
             ReadMembership(r, u, kind) \/ LoadMembership(r, u, kind)
      PROVE  Goal
  BY <1>4, ReadMembershipNext, LoadMembershipNext DEF ReadMembership, LoadMembership
<1>5. ASSUME NEW r \in Requests, NEW s \in Requests, LoadForRevoke(r, s) \/ Resolve(r, s)
      PROVE  Goal
  BY <1>5, LoadForRevokeNext, ResolveNext DEF LoadForRevoke, Resolve
<1>6. ASSUME NEW r \in Requests, Conflict(r) \/ Refuse(r) \/ Act(r) PROVE Goal
  BY <1>6, ThroughNext DEF Conflict, Refuse, Act
<1>7. ASSUME NEW r \in Requests, Create(r) \/ Issue(r) PROVE Goal
  <2>1. Inductive' BY <1>7, CreateNext, IssueNext
  <2>2. sess[r] = NoSession BY <1>7 DEF Create, Issue, Inductive, FreshUntilDone
  <2>3. \A s \in Requests : s # r => sess'[s] = sess[s]
    BY <1>7 DEF Create, Issue, Inductive, TypeOK
  <2>4. QED BY <2>1, <2>2, <2>3, NoSessionIssued
<1>8. ASSUME NEW r \in Requests, SelectSessions(r) PROVE Goal
  BY <1>8, SelectSessionsNext DEF SelectSessions
<1>9. ASSUME NEW r \in Requests, CommitDeactivation(r) \/ CommitActivation(r) \/ Revoke(r) \/ Touch(r)
      PROVE  Goal
  BY <1>1, <1>9, CommitDeactivationNext, CommitActivationNext, RevokeNext, TouchNext
<1>10. ASSUME NEW s \in Requests, Expire(s) PROVE Goal BY <1>1, <1>10, ExpireNext
<1>11. QED BY <1>2, <1>3, <1>4, <1>5, <1>6, <1>7, <1>8, <1>9, <1>10 DEF Next

LEMMA InductiveHolds == Spec => []Inductive
<1>1. Inductive /\ [Next]_vars => Inductive' BY InductiveNext
<1>2. QED BY <1>1, InitEstablishes, PTL DEF Spec
-----------------------------------------------------------------------------
(* Whoever creates a user first, provisioning, SCIM or OIDC, the sessions issued for it
   carry the role of its one membership: a create that loses the race ends in 409 and
   issues nothing. *)
THEOREM RolesAreCarried == Spec => []SessionsCarryTheirRole
<1>1. Inductive => SessionsCarryTheirRole BY DEF Inductive
<1>2. QED BY <1>1, InductiveHolds, PTL

(* Deactivation shuts a user out, although no role check looks at the membership, for any
   number of requests, deactivations and activations: the one way round it is a session
   whose own issue crossed a deactivation, and no other session of the same user. *)
THEOREM ShutOut == Spec => []InactiveIsShutOut
<1>1. Inductive => InactiveIsShutOut BY DEF Inductive
<1>2. QED BY <1>1, InductiveHolds, PTL

(* No request brings a revoked session back to life, whatever it loaded before. *)
THEOREM NeverRevived == Spec => RevokedForGood
<1> DEFINE Stays == \A s \in Requests : sess[s].revoked => sess'[s].revoked
<1>1. Inductive /\ [Next]_vars => [Stays]_vars BY InductiveNext
<1>2. QED BY <1>1, InductiveHolds, PTL DEF Spec, RevokedForGood
=============================================================================
