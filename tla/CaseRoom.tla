----------------------------- MODULE CaseRoom -----------------------------
(***************************************************************************)
(* One case room of EvidencePlane (app/services/case_rooms.py).            *)
(*                                                                         *)
(* Every case endpoint is a plain `def`: requests run side by side in the  *)
(* thread pool and share only the tables.  Each loads the case by one      *)
(* SELECT per table (the row, then its messages, then its events; external *)
(* links and participants are read last and decide nothing), works on what *)
(* it read and commits once.  No lock is taken and case_events has no      *)
(* UNIQUE constraint.                                                      *)
(*                                                                         *)
(* A request is its own author; a digest is the event it is of.            *)
(* The advisor (app/services/advisor.py) asks a language model about the   *)
(* case between its read and its commit, and writes neither row nor event. *)
(***************************************************************************)
EXTENDS Naturals, Sequences, SequencesExt

CONSTANTS
    Requests,   \* resolve, dismiss, message, link, advise and read requests
    None        \* "no value"

ASSUME NoneIsNoRequest == None \notin Requests

Closings == {"resolved", "dismissed"}
Statuses == {"none", "open"} \cup Closings

(* What a request asks for; the event_type it writes, if any. *)
Kinds == Closings \cup {"message_added", "link_added", "advise", "read"}
EventTypes == {"created", "message_added", "link_added"} \cup Closings

(* prev is the position of the event whose digest previous_event_sha256 holds, 0 for
   none: digests are those of committed events, which never change.  note is that of a
   closing's payload, named by its author as in the row. *)
Event == [type : EventTypes, actor : Requests \cup {None}, note : Requests \cup {None},
          seq : Nat \ {0}, prev : Nat]

(* The columns resolve and dismiss write. *)
Row == [status : Statuses, resolved_by : Requests \cup {None}, note : Requests \cup {None}]
NoRow == [status |-> "none", resolved_by |-> None, note |-> None]

VARIABLES
    row,        \* the cases row
    messages,   \* authors of its case_messages
    links,      \* authors of its case_external_links
    findings,   \* who asked for its advisor_findings
    events,     \* its case_events in the order of their commits
    audit,      \* types of its audit_events in the order of their commits
    request,    \* the handlers
    begun       \* history: how many events there were when the request of an event began

vars == <<row, messages, links, findings, events, audit, request, begun>>
tables == <<row, messages, links, findings, events, audit, begun>>

(* since is a history variable: how many events there were when the request began. *)
Phases == {"new", "row", "messages", "events", "committed", "done", "not_found", "not_open", "error"}
Request == [phase : Phases, kind : Kinds, noted : BOOLEAN, row : Row,
            messages : SUBSET Requests, read : Nat, since : Nat]

Init ==
    /\ row = NoRow
    /\ messages = {} /\ links = {} /\ findings = {}
    /\ events = << >> /\ audit = << >>
    /\ request \in [Requests -> [phase : {"new"}, kind : Kinds, noted : BOOLEAN, row : {NoRow},
                                 messages : {{}}, read : {0}, since : {0}]]
    /\ \A r \in Requests : request[r].noted => request[r].kind \in Closings
    /\ begun = << >>
-----------------------------------------------------------------------------
(* Events *)

NextSequenceOffByOne(n) == IF n = 0 THEN 1 ELSE n

(* len(case.events) + 1 over the n events that were read. *)
NextSequence(n) == n + 1

FirstOf(n) == {i \in 1..n : \A j \in 1..n : events[j].seq >= events[i].seq}

(* max(case.events, key=sequence) over the n events that were read: any of those with
   the highest number, the order of equal ones being the database's. *)
LastOf(n) == {i \in 1..n : \A j \in 1..n : events[j].seq <= events[i].seq}

PrevChoices(n) == IF n = 0 THEN {0} ELSE LastOf(n)

(* _append_case_event: i is the event taken for the last one. *)
Appended(type, who, note, n, i) ==
    Append(events, [type |-> type, actor |-> who, note |-> note,
                    seq |-> NextSequence(n), prev |-> i])
-----------------------------------------------------------------------------
(* auto_create_case: the row and its first event in one commit. *)
Create ==
    /\ row.status = "none"
    /\ row' = [row EXCEPT !.status = "open"]
    /\ \E i \in PrevChoices(0) : events' = Appended("created", None, None, 0, i)
    /\ begun' = << 0 >>
    /\ UNCHANGED <<messages, links, findings, audit, request>>

NotFound(r) ==
    /\ request[r].phase = "new"
    /\ row.status = "none"
    /\ request' = [request EXCEPT ![r].phase = "not_found"]
    /\ UNCHANGED tables

ReadRow(r) ==
    /\ request[r].phase = "new"
    /\ row.status # "none"
    /\ request' = [request EXCEPT ![r].phase = "row", ![r].row = row,
                                  ![r].since = Len(events)]
    /\ UNCHANGED tables

ReadMessages(r) ==
    /\ request[r].phase = "row"
    /\ request[r].kind # "advise"
    /\ request' = [request EXCEPT ![r].phase = "messages", ![r].messages = messages]
    /\ UNCHANGED tables

(* Events are never removed, so how many there were says which. *)
ReadEvents(r) ==
    /\ request[r].phase = "messages"
    /\ request' = [request EXCEPT ![r].phase = "events", ![r].read = Len(events)]
    /\ UNCHANGED tables

(* 409 case_not_open, by the status read. *)
OpenWhenRead(r) == request[r].row.status = "open"

NotOpen(r) ==
    /\ request[r].phase = "events"
    /\ request[r].kind \in Closings
    /\ ~OpenWhenRead(r)
    /\ request' = [request EXCEPT ![r].phase = "not_open"]
    /\ UNCHANGED tables

Committed(r) == request' = [request EXCEPT ![r].phase = "committed"]

NoteOf(r) == IF request[r].noted THEN r ELSE None

(* One commit writes the event and whatever it reports. *)
CommitEvent(r) ==
    /\ request[r].phase = "events"
    /\ \E i \in PrevChoices(request[r].read) :
          events' = Appended(request[r].kind, r, NoteOf(r), request[r].read, i)
    /\ begun' = Append(begun, request[r].since)
    /\ Committed(r)

(* emit_audit_event, in the same commit. *)
AuditClosing(r) == audit' = Append(audit, request[r].kind)

ClosedStatus(r) == request[r].kind

(* An earlier note is kept. *)
FirstNote(r) == IF row.note # None THEN row.note ELSE NoteOf(r)

(* The UPDATE names only columns whose value differs from the one read, so a request
   without a note leaves the note of whoever closed the case in between. *)
NoteLeft(r) == IF request[r].noted THEN r ELSE row.note

Close(r) ==
    /\ request[r].kind \in Closings
    /\ OpenWhenRead(r)
    /\ row' = [status |-> ClosedStatus(r), resolved_by |-> r, note |-> NoteLeft(r)]
    /\ AuditClosing(r)
    /\ CommitEvent(r)
    /\ UNCHANGED <<messages, links, findings>>

(* The whole row written back, as a merge of the object read would. *)
AddMessageRestoringRow(r) ==
    /\ request[r].kind = "message_added"
    /\ messages' = messages \cup {r}
    /\ CommitEvent(r)
    /\ row' = request[r].row
    /\ UNCHANGED <<links, findings, audit>>

AddMessage(r) ==
    /\ request[r].kind = "message_added"
    /\ messages' = messages \cup {r}
    /\ CommitEvent(r)
    /\ UNCHANGED <<row, links, findings, audit>>

AddLink(r) ==
    /\ request[r].kind = "link_added"
    /\ links' = links \cup {r}
    /\ CommitEvent(r)
    /\ UNCHANGED <<row, messages, findings, audit>>

(* The model has answered; a case closed meanwhile still gets the finding. *)
Advise(r) ==
    /\ request[r].kind = "advise"
    /\ request[r].phase = "row"
    /\ findings' = findings \cup {r}
    /\ Committed(r)
    /\ UNCHANGED <<row, messages, links, events, audit, begun>>

(* session.refresh and the answer. *)
Reply(r) ==
    /\ request[r].phase = IF request[r].kind = "read" THEN "events" ELSE "committed"
    /\ request' = [request EXCEPT ![r].phase = "done"]
    /\ UNCHANGED tables

(* The process dies, the database or the language model fails: an open transaction is lost. *)
Fail(r) ==
    /\ request[r].phase \in {"row", "messages", "events", "committed"}
    /\ request' = [request EXCEPT ![r].phase = "error"]
    /\ UNCHANGED tables

Step(r) ==
    \/ NotFound(r) \/ ReadRow(r) \/ ReadMessages(r) \/ ReadEvents(r) \/ NotOpen(r)
    \/ Close(r) \/ AddMessage(r) \/ AddLink(r) \/ Advise(r) \/ Reply(r)

Next == Create \/ \E r \in Requests : Step(r) \/ Fail(r)

Spec == Init /\ [][Next]_vars
-----------------------------------------------------------------------------
TypeOK ==
    /\ row \in Row
    /\ messages \subseteq Requests /\ links \subseteq Requests /\ findings \subseteq Requests
    /\ events \in Seq(Event) /\ audit \in Seq(Closings)
    /\ request \in [Requests -> Request]
    /\ begun \in Seq(Nat)

(* However requests interleave, previous_event_sha256 leads from every event, by falling
   sequence numbers, back to the "created" event: forks and gaps are possible, loops,
   digests of nothing and second roots are not. *)
EveryEventLeadsBack ==
    \A i \in 1..Len(events) :
        IF i = 1 THEN events[i].type = "created" /\ events[i].seq = 1 /\ events[i].prev = 0
        ELSE /\ events[i].type # "created"
             /\ events[i].prev \in 1..(i - 1)
             /\ events[events[i].prev].seq < events[i].seq

(* The positions of the closings among the first n events, and of those with a note. *)
ClosingsIn(n) == {i \in 1..n : events[i].type \in Closings}
NotedIn(n) == {i \in ClosingsIn(n) : events[i].note # None}

Actors(type) == {events[i].actor : i \in {j \in 1..Len(events) : events[j].type = type}}

(* The tables: status and author of the row are those of the last committed closing,
   although resolve and dismiss write what they decided on earlier, and its note is that
   of the last closing that left one, which may be another; the audit log tells every
   closing, in the order of the events; a message or a link is there exactly if its event
   is. *)
TablesTold ==
    LET all == ClosingsIn(Len(events))
        noted == NotedIn(Len(events))
    IN /\ IF all = {} THEN row.status \in {"none", "open"} /\ row.resolved_by = None
          ELSE \E i \in all : /\ \A j \in all : j <= i
                              /\ row.status = events[i].type /\ row.resolved_by = events[i].actor
       /\ IF noted = {} THEN row.note = None
          ELSE \E i \in noted : /\ \A j \in noted : j <= i
                                /\ row.note = events[i].note
       /\ Len(audit) = Cardinality(all)
       /\ \A i \in all : audit[Cardinality(ClosingsIn(i))] = events[i].type
       /\ messages = Actors("message_added") /\ links = Actors("link_added")

(* The order of the SELECTs makes what a request read causal: the events it read tell who
   closed the case it saw, who left the note and who wrote the messages it saw. *)
ReadsTold ==
    \A r \in Requests :
        request[r].phase = "events" =>
            LET seen == {events[i] : i \in 1..request[r].read}
            IN /\ request[r].row.status \in Closings =>
                     \E e \in seen : /\ e.type = request[r].row.status
                                     /\ e.actor = request[r].row.resolved_by
               /\ request[r].row.note # None =>
                     \E e \in seen : e.type \in Closings /\ e.note = request[r].row.note
               /\ \A q \in request[r].messages :
                     \E e \in seen : e.type = "message_added" /\ e.actor = q

(* The events tell the whole truth, of the tables and in what a request reads side by
   side with others' commits (get_case, and the case in an evidence export). *)
EventsTellAll == TablesTold /\ ReadsTold

(* What was committed when a request began is behind the event it writes: the event has a
   higher number than there were events, follows none of a lower number than theirs, and
   closes no case that one of them closed.  So two events share a number, fork the chain
   or both close the case only if their requests overlapped. *)
SeenIsBehind ==
    \A j \in 1..Len(events) :
        /\ events[j].seq \in (begun[j] + 1)..j
        /\ \A i \in 1..begun[j] :
              /\ events[i].seq <= events[events[j].prev].seq
              /\ ~(events[i].type \in Closings /\ events[j].type \in Closings)

ClosedOnce ==
    \A i, j \in 1..Len(events) :
        events[i].type \in Closings /\ events[j].type \in Closings => i = j

(* The chain as test_resolve_case_appends_event expects it. *)
UnforkedChain ==
    \A i \in 1..Len(events) : events[i].seq = i /\ events[i].prev = i - 1

(* Status, author and note of the row are those of one closing. *)
RowIsOneClosing == row.note \in {None, row.resolved_by}

(* As long as no two requests overlap on the case, the events are one chain, the case is
   closed once and the row is of one closing. *)
Serial == \A j \in 1..Len(events) : begun[j] = j - 1
SerialRequestsAreSafe == Serial => UnforkedChain /\ ClosedOnce /\ RowIsOneClosing

(* A closed case stays closed and no event, message, link or finding is ever lost. *)
OnlyGrows ==
    [][ /\ row.status \in Closings => row'.status \in Closings
        /\ row.note # None => row'.note # None
        /\ IsPrefix(events, events')
        /\ messages \subseteq messages' /\ links \subseteq links' /\ findings \subseteq findings' ]_vars

(* test_resolve_already_resolved_case_returns_409: of two requests that close a case only
   one is answered 200. *)
OneClosingSucceeds ==
    \A r, q \in Requests :
        /\ request[r].phase = "done" /\ request[r].kind \in Closings
        /\ request[q].phase = "done" /\ request[q].kind \in Closings
        => r = q
=============================================================================
