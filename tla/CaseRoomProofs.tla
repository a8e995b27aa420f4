--------------------------- MODULE CaseRoomProofs ---------------------------
(* Proofs about CaseRoom for every number of requests. *)
EXTENDS CaseRoom, FiniteSetTheorems, TLAPS

(* One of the first n events is of this type and actor. *)
Tells(n, type, actor) == \E i \in 1..n : events[i].type = type /\ events[i].actor = actor

(* One of the first n events is a closing that left this note. *)
Leaves(n, note) == \E i \in 1..n : events[i].type \in Closings /\ events[i].note = note

(* The case exists once it has an event; sequence numbers never run ahead of positions. *)
CaseBegun == row.status = "none" <=> events = << >>
NumbersLag == \A i \in 1..Len(events) : events[i].seq <= i
NotesSigned == \A i \in 1..Len(events) : events[i].note \in {None, events[i].actor}
BegunKept == Len(begun) = Len(events)

(* The tables are told by the events, and a case not closed has no closing event. *)
RowTold == /\ row.status \in Closings => Tells(Len(events), row.status, row.resolved_by)
           /\ row.note # None => Leaves(Len(events), row.note)
MessagesTold == \A q \in messages : Tells(Len(events), "message_added", q)
OpenUntilClosed ==
    row.status \notin Closings =>
        row.note = None /\ \A i \in 1..Len(events) : events[i].type \notin Closings

(* What a request holds is told by the events that are there, or that it read; if it read
   the case as open, none of those that were there when it began is a closing. *)
Reading == {"row", "messages", "events"}
SeenOpen(q) ==
    q.row.status \notin Closings => \A i \in 1..q.since : events[i].type \notin Closings
InOrder(q) ==
    /\ q.phase \in Reading => q.since \in 1..Len(events) /\ SeenOpen(q)
    /\ q.phase \in {"row", "messages"} =>
          /\ q.row.status \in Closings => Tells(Len(events), q.row.status, q.row.resolved_by)
          /\ q.row.note # None => Leaves(Len(events), q.row.note)
    /\ q.phase = "messages" => \A p \in q.messages : Tells(Len(events), "message_added", p)
    /\ q.phase = "events" =>
          /\ q.read \in q.since..Len(events)
          /\ q.row.status \in Closings => Tells(q.read, q.row.status, q.row.resolved_by)
          /\ q.row.note # None => Leaves(q.read, q.row.note)
          /\ \A p \in q.messages : Tells(q.read, "message_added", p)
RequestsInOrder == \A r \in Requests : InOrder(request[r])

Inductive == /\ TypeOK /\ CaseBegun /\ NumbersLag /\ NotesSigned /\ BegunKept /\ EveryEventLeadsBack
             /\ RowTold /\ MessagesTold /\ OpenUntilClosed /\ RequestsInOrder
             /\ SeenIsBehind
-----------------------------------------------------------------------------
LEMMA InitEstablishes == Init => Inductive
<1> SUFFICES ASSUME Init PROVE Inductive OBVIOUS
<1>1. /\ events = << >> /\ Len(events) = 0 /\ begun = << >> /\ Len(begun) = 0
      /\ row = NoRow /\ messages = {}
  BY DEF Init
<1>2. request \in [Requests -> Request]
  <2>1. NoRow \in Row BY DEF NoRow, Row, Statuses
  <2>2. QED BY <2>1 DEF Init, Request, Phases
<1>3. TypeOK
  <2>1. row \in Row BY <1>1 DEF NoRow, Row, Statuses
  <2>2. events \in Seq(Event) /\ audit \in Seq(Closings) /\ begun \in Seq(Nat) BY DEF Init
  <2>3. QED BY <1>2, <2>1, <2>2 DEF Init, TypeOK
<1>4. CaseBegun BY <1>1 DEF CaseBegun, NoRow
<1>5. NumbersLag /\ NotesSigned /\ BegunKept /\ EveryEventLeadsBack
  BY <1>1 DEF NumbersLag, NotesSigned, BegunKept, EveryEventLeadsBack
<1>6. RowTold /\ MessagesTold /\ OpenUntilClosed
  BY <1>1 DEF RowTold, MessagesTold, OpenUntilClosed, NoRow, Closings
<1>7. RequestsInOrder
  <2>1. \A r \in Requests : request[r].phase = "new" BY DEF Init
  <2>2. QED BY <2>1 DEF RequestsInOrder, InOrder, Reading
<1>8. SeenIsBehind BY <1>1 DEF SeenIsBehind
<1>9. QED BY <1>3, <1>4, <1>5, <1>6, <1>7, <1>8 DEF Inductive
-----------------------------------------------------------------------------
(* Steps that write no event *)

LEMMA RequestKeeps ==
    ASSUME Inductive, NEW r \in Requests, NEW new \in Request,
           request' = [request EXCEPT ![r] = new], InOrder(new),
           UNCHANGED <<row, messages, links, events, audit, begun>>, findings' \subseteq Requests
    PROVE  Inductive'
<1>1. request'[r] = new /\ \A q \in Requests : q # r => request'[q] = request[q]
  BY DEF Inductive, TypeOK
<1>2. TypeOK' BY DEF Inductive, TypeOK
<1>3. \A q \in Requests : InOrder(request'[q]) BY <1>1 DEF Inductive, RequestsInOrder
<1>4. RequestsInOrder' BY <1>3 DEF RequestsInOrder, InOrder, SeenOpen, Tells, Leaves
<1>5. CaseBegun' /\ NumbersLag' /\ NotesSigned' /\ BegunKept' /\ EveryEventLeadsBack'
  BY DEF Inductive, CaseBegun, NumbersLag, NotesSigned, BegunKept, EveryEventLeadsBack
<1>6. RowTold' /\ MessagesTold' /\ OpenUntilClosed'
  BY DEF Inductive, RowTold, MessagesTold, OpenUntilClosed, Tells, Leaves
<1>7. SeenIsBehind' BY DEF Inductive, SeenIsBehind
<1>8. QED BY <1>2, <1>4, <1>5, <1>6, <1>7 DEF Inductive

(* A request that has ended, or has committed, holds nothing any more. *)
LEMMA PhaseKeeps ==
    ASSUME Inductive, NEW r \in Requests, NEW p \in Phases \ Reading,
           request' = [request EXCEPT ![r].phase = p],
           UNCHANGED <<row, messages, links, events, audit, begun>>, findings' \subseteq Requests
    PROVE  Inductive'
<1> DEFINE new == [request[r] EXCEPT !.phase = p]
<1>1. request[r] \in Request BY DEF Inductive, TypeOK
<1>2. new \in Request /\ new.phase = p BY <1>1 DEF Request
<1>3. request' = [request EXCEPT ![r] = new] BY DEF Inductive, TypeOK
<1> HIDE DEF new
<1>4. InOrder(new) BY <1>2 DEF InOrder, Reading
<1>5. QED BY <1>2, <1>3, <1>4, RequestKeeps

LEMMA ReadRowKeeps ==
    ASSUME Inductive, NEW r \in Requests, ReadRow(r)
    PROVE  Inductive'
<1> DEFINE n == Len(events)
           new == [request[r] EXCEPT !.phase = "row", !.row = row, !.since = n]
<1>1. request[r] \in Request /\ row \in Row /\ events \in Seq(Event) BY DEF Inductive, TypeOK
<1>2. n \in Nat /\ n # 0 BY <1>1 DEF ReadRow, Inductive, CaseBegun
<1>3. new \in Request BY <1>1, <1>2 DEF Request, Phases
<1>4. new.phase = "row" /\ new.row = row /\ new.since = n BY <1>1 DEF Request
<1>5. request' = [request EXCEPT ![r] = new] BY DEF ReadRow, Inductive, TypeOK
<1> HIDE DEF new
<1>6. InOrder(new)
  BY <1>2, <1>4 DEF InOrder, SeenOpen, Reading, Inductive, RowTold, OpenUntilClosed
<1>7. QED BY <1>3, <1>5, <1>6, RequestKeeps DEF ReadRow, tables, Inductive, TypeOK

LEMMA ReadMessagesKeeps ==
    ASSUME Inductive, NEW r \in Requests, ReadMessages(r)
    PROVE  Inductive'
<1> DEFINE new == [request[r] EXCEPT !.phase = "messages", !.messages = messages]
<1>1. request[r] \in Request /\ messages \in SUBSET Requests BY DEF Inductive, TypeOK
<1>2. new \in Request BY <1>1 DEF Request, Phases
<1>3. /\ new.phase = "messages" /\ new.messages = messages
      /\ new.row = request[r].row /\ new.since = request[r].since
  BY <1>1 DEF Request
<1>4. request' = [request EXCEPT ![r] = new] BY DEF ReadMessages, Inductive, TypeOK
<1> HIDE DEF new
<1>5. InOrder(request[r]) /\ request[r].phase = "row"
  BY DEF Inductive, RequestsInOrder, ReadMessages
<1>6. InOrder(new) BY <1>3, <1>5 DEF InOrder, SeenOpen, Reading, Inductive, MessagesTold
<1>7. QED BY <1>2, <1>4, <1>6, RequestKeeps DEF ReadMessages, tables, Inductive, TypeOK

LEMMA ReadEventsKeeps ==
    ASSUME Inductive, NEW r \in Requests, ReadEvents(r)
    PROVE  Inductive'
<1> DEFINE n == Len(events)
           new == [request[r] EXCEPT !.phase = "events", !.read = n]
<1>1. request[r] \in Request /\ n \in Nat BY DEF Inductive, TypeOK
<1>2. new \in Request BY <1>1 DEF Request, Phases
<1>3. /\ new.phase = "events" /\ new.read = n /\ new.messages = request[r].messages
      /\ new.row = request[r].row /\ new.since = request[r].since
  BY <1>1 DEF Request
<1>4. request' = [request EXCEPT ![r] = new] BY DEF ReadEvents, Inductive, TypeOK
<1> HIDE DEF new
<1>5. InOrder(request[r]) /\ request[r].phase = "messages"
  BY DEF Inductive, RequestsInOrder, ReadEvents
<1>6. InOrder(new) BY <1>1, <1>3, <1>5 DEF InOrder, SeenOpen, Reading
<1>7. QED BY <1>2, <1>4, <1>6, RequestKeeps DEF ReadEvents, tables, Inductive, TypeOK
-----------------------------------------------------------------------------
(* Steps that write an event *)

LEMMA PhaseTyped ==
    ASSUME NEW q \in Request, NEW p \in Phases PROVE [q EXCEPT !.phase = p] \in Request
BY DEF Request

LEMMA AppendTells ==
    ASSUME Inductive, NEW e \in Event, events' = Append(events, e)
    PROVE  /\ events' \in Seq(Event) /\ Len(events') = Len(events) + 1
           /\ \A i \in 1..Len(events) : events'[i] = events[i]
           /\ events'[Len(events) + 1] = e
           /\ \A n \in 0..Len(events) : \A t, a : Tells(n, t, a) => Tells(n, t, a)'
           /\ \A t, a : Tells(Len(events), t, a) => Tells(Len(events), t, a)'
           /\ Tells(Len(events), e.type, e.actor)'
           /\ \A n \in 0..Len(events) : \A a : Leaves(n, a) => Leaves(n, a)'
           /\ \A a : Leaves(Len(events), a) => Leaves(Len(events), a)'
<1>1. events \in Seq(Event) BY DEF Inductive, TypeOK
<1>2. /\ events' \in Seq(Event) /\ Len(events') = Len(events) + 1
      /\ \A i \in 1..Len(events) : events'[i] = events[i]
      /\ events'[Len(events) + 1] = e
  BY <1>1
<1>3. Len(events) \in Nat BY <1>1
<1>4. QED BY <1>2, <1>3 DEF Tells, Leaves

(* The other requests hold what they held. *)
LEMMA OthersInOrder ==
    ASSUME Inductive, NEW e \in Event, events' = Append(events, e),
           NEW q \in Request, InOrder(q)
    PROVE  InOrder(q)'
<1>1. Len(events) \in Nat /\ Len(events') = Len(events) + 1
  BY AppendTells DEF Inductive, TypeOK
<1>2. q.since \in Nat /\ q.read \in Nat BY DEF Request
<1>3. q.phase \in Reading =>
          q.since \in 1..Len(events') /\ SeenOpen(q)'
  BY <1>1, <1>2, AppendTells DEF InOrder, SeenOpen
<1>4. q.phase \in {"row", "messages"} =>
          /\ q.row.status \in Closings => Tells(Len(events), q.row.status, q.row.resolved_by)'
          /\ q.row.note # None => Leaves(Len(events), q.row.note)'
  BY <1>1, AppendTells DEF InOrder
<1>5. q.phase = "messages" => \A p \in q.messages : Tells(Len(events), "message_added", p)'
  BY <1>1, AppendTells DEF InOrder
<1>6. q.phase = "events" =>
          /\ q.read \in q.since..Len(events')
          /\ q.row.status \in Closings => Tells(q.read, q.row.status, q.row.resolved_by)'
          /\ q.row.note # None => Leaves(q.read, q.row.note)'
          /\ \A p \in q.messages : Tells(q.read, "message_added", p)'
  <2> SUFFICES ASSUME q.phase = "events"
               PROVE  /\ q.read \in q.since..Len(events')
                      /\ q.row.status \in Closings => Tells(q.read, q.row.status, q.row.resolved_by)'
                      /\ q.row.note # None => Leaves(q.read, q.row.note)'
                      /\ \A p \in q.messages : Tells(q.read, "message_added", p)'
    OBVIOUS
  <2>1. q.read \in q.since..Len(events) /\ q.read \in 0..Len(events)
    BY <1>1, <1>2 DEF InOrder
  <2>2. QED BY <1>1, <1>2, <2>1, AppendTells DEF InOrder
<1>7. QED BY <1>3, <1>4, <1>5, <1>6 DEF InOrder

LEMMA CreateKeeps == Inductive /\ Create => Inductive'
<1> SUFFICES ASSUME Inductive, Create PROVE Inductive' OBVIOUS
<1> DEFINE e == [type |-> "created", actor |-> None, note |-> None, seq |-> 1, prev |-> 0]
<1>1. events = << >> /\ Len(events) = 0 BY DEF Create, Inductive, CaseBegun
<1>2. e \in Event /\ e.type = "created" /\ e.seq = 1 /\ e.prev = 0 /\ e.note = None
  BY DEF Event, EventTypes
<1>3. events' = Append(events, e) BY DEF Create, PrevChoices, Appended, NextSequence
<1> HIDE DEF e
<1>4. Len(events') = 1 /\ events'[1] = e /\ events' \in Seq(Event)
  BY <1>1, <1>2, <1>3, AppendTells
<1>5. /\ row' = [row EXCEPT !.status = "open"] /\ row \in Row /\ row.status = "none"
      /\ begun' = << 0 >> /\ UNCHANGED <<messages, links, findings, audit, request>>
  BY DEF Create, Inductive, TypeOK
<1>6. row' \in Row /\ row'.status = "open" /\ row'.note = row.note /\ row'.resolved_by = row.resolved_by
  BY <1>5 DEF Row, Statuses
<1>7. TypeOK' BY <1>4, <1>5, <1>6 DEF Inductive, TypeOK
<1>8. CaseBegun'
  <2>1. events' # << >> BY <1>4
  <2>2. QED BY <1>6, <2>1 DEF CaseBegun
<1>9. NumbersLag' /\ NotesSigned' /\ BegunKept' /\ EveryEventLeadsBack'
  BY <1>2, <1>4, <1>5 DEF NumbersLag, NotesSigned, BegunKept, EveryEventLeadsBack
<1>10. row.note = None BY <1>5 DEF Inductive, OpenUntilClosed, Closings
<1>11. RowTold' /\ OpenUntilClosed'
  BY <1>2, <1>4, <1>6, <1>10 DEF RowTold, OpenUntilClosed, Closings
<1>12. MessagesTold'
  BY <1>1, <1>5 DEF Inductive, MessagesTold, Tells
<1>13. RequestsInOrder'
  <2>1. \A q \in Requests : request[q] \in Request /\ InOrder(request[q])
    BY DEF Inductive, TypeOK, RequestsInOrder
  <2>2. SUFFICES ASSUME NEW q \in Requests PROVE InOrder(request[q])'
    BY DEF RequestsInOrder
  <2>3. PICK x \in Request : x = request[q] /\ x = request'[q] /\ InOrder(x)
    BY <1>5, <2>1
  <2>4. InOrder(x)' BY <1>2, <1>3, <2>3, OthersInOrder
  <2>5. QED BY <2>3, <2>4 DEF InOrder, SeenOpen, Tells, Leaves
<1>14. SeenIsBehind' BY <1>2, <1>4, <1>5 DEF SeenIsBehind
<1>15. QED
  BY <1>7, <1>8, <1>9, <1>11, <1>12, <1>13, <1>14 DEF Inductive

(* What a commit appends: a number and a predecessor from what the request read. *)
LEMMA Committing ==
    ASSUME Inductive, NEW r \in Requests, request[r].kind \in EventTypes \ {"created"}, CommitEvent(r)
    PROVE  \E e \in Event :
              /\ events' = Append(events, e)
              /\ e.type = request[r].kind /\ e.actor = r /\ e.note = NoteOf(r)
              /\ e.seq \in 2..(Len(events) + 1) /\ e.seq > request[r].since
              /\ e.prev \in 1..Len(events) /\ events[e.prev].seq < e.seq
              /\ \A j \in 1..request[r].since : events[j].seq <= events[e.prev].seq
<1> DEFINE n == request[r].read
<1>1. InOrder(request[r]) /\ request[r] \in Request /\ events \in Seq(Event)
  BY DEF Inductive, RequestsInOrder, TypeOK
<1>2. request[r].phase = "events" BY DEF CommitEvent
<1>3. /\ request[r].since \in 1..Len(events) /\ n \in request[r].since..Len(events)
      /\ Len(events) \in Nat
  BY <1>1, <1>2 DEF InOrder, Reading
<1>4. n \in Nat /\ n # 0 /\ n <= Len(events) BY <1>3
<1>5. PICK i \in LastOf(n) : events' = Appended(request[r].kind, r, NoteOf(r), n, i)
  BY <1>4 DEF CommitEvent, PrevChoices
<1>6. i \in 1..n /\ \A j \in 1..n : events[j].seq <= events[i].seq BY <1>5 DEF LastOf
<1> DEFINE e == [type |-> request[r].kind, actor |-> r, note |-> NoteOf(r), seq |-> n + 1, prev |-> i]
<1>7. e \in Event
  <2>1. n + 1 \in Nat \ {0} /\ i \in Nat BY <1>4, <1>6
  <2>2. NoteOf(r) \in Requests \cup {None} BY DEF NoteOf
  <2> HIDE DEF n
  <2>3. QED BY <2>1, <2>2 DEF Event
<1>8. /\ events' = Append(events, e) /\ e.type = request[r].kind /\ e.actor = r
      /\ e.note = NoteOf(r) /\ e.seq = n + 1 /\ e.prev = i
  BY <1>5 DEF Appended, NextSequence
<1> HIDE DEF e, n
<1>9. /\ e.seq \in 2..(Len(events) + 1) /\ e.seq > request[r].since
      /\ e.prev \in 1..Len(events)
  BY <1>3, <1>4, <1>6, <1>8
<1>10. \A j \in 1..Len(events) : events[j].seq \in Nat
  <2>1. \A j \in 1..Len(events) : events[j] \in Event BY <1>1
  <2>2. QED BY <2>1 DEF Event
<1>11. events[i].seq < n + 1
  <2>1. events[i].seq <= i BY <1>4, <1>6, <1>3 DEF Inductive, NumbersLag
  <2>2. QED BY <1>3, <1>4, <1>6, <1>10, <2>1
<1>12. \A j \in 1..request[r].since : j \in 1..n BY <1>3, <1>4
<1>13. QED BY <1>6, <1>7, <1>8, <1>9, <1>11, <1>12

(* The part of a commit that all three writers share. *)
LEMMA CommitKeeps ==
    ASSUME Inductive, NEW r \in Requests, request[r].kind \in EventTypes \ {"created"},
           request[r].kind \in Closings => OpenWhenRead(r),
           CommitEvent(r), TypeOK', row'.status # "none",
           RowTold', MessagesTold', OpenUntilClosed'
    PROVE  Inductive'
<1>1. PICK e \in Event :
              /\ events' = Append(events, e)
              /\ e.type = request[r].kind /\ e.actor = r /\ e.note = NoteOf(r)
              /\ e.seq \in 2..(Len(events) + 1) /\ e.seq > request[r].since
              /\ e.prev \in 1..Len(events) /\ events[e.prev].seq < e.seq
              /\ \A j \in 1..request[r].since : events[j].seq <= events[e.prev].seq
  BY Committing
<1>2. /\ events' \in Seq(Event) /\ Len(events') = Len(events) + 1 /\ Len(events) \in Nat
      /\ \A i \in 1..Len(events) : events'[i] = events[i]
      /\ events'[Len(events) + 1] = e
  BY <1>1, AppendTells DEF Inductive, TypeOK
<1>3. CaseBegun' BY <1>2 DEF CaseBegun
<1>4. \A i \in 1..Len(events') : i \in 1..Len(events) \/ i = Len(events) + 1 BY <1>2
<1>5. NumbersLag' /\ NotesSigned'
  <2>1. e.note \in {None, e.actor} BY <1>1 DEF NoteOf
  <2>2. QED BY <1>1, <1>2, <1>4, <2>1 DEF Inductive, NumbersLag, NotesSigned
<1>6. /\ request[r].since \in Nat /\ begun \in Seq(Nat) /\ Len(begun) = Len(events)
      /\ begun' = Append(begun, request[r].since)
  BY DEF Inductive, TypeOK, BegunKept, Request, CommitEvent
<1>7. /\ Len(begun') = Len(begun) + 1 /\ begun'[Len(events) + 1] = request[r].since
      /\ \A i \in 1..Len(events) : begun'[i] = begun[i] /\ begun[i] \in Nat
  BY <1>6
<1>8. BegunKept' BY <1>2, <1>6, <1>7 DEF BegunKept
<1>9. EveryEventLeadsBack'
  <2>1. SUFFICES ASSUME NEW i \in 1..Len(events')
                 PROVE  IF i = 1
                        THEN events'[i].type = "created" /\ events'[i].seq = 1 /\ events'[i].prev = 0
                        ELSE /\ events'[i].type # "created"
                             /\ events'[i].prev \in 1..(i - 1)
                             /\ events'[events'[i].prev].seq < events'[i].seq
    BY DEF EveryEventLeadsBack
  <2>2. CASE i \in 1..Len(events)
    <3>1. IF i = 1
          THEN events[i].type = "created" /\ events[i].seq = 1 /\ events[i].prev = 0
          ELSE /\ events[i].type # "created"
               /\ events[i].prev \in 1..(i - 1)
               /\ events[events[i].prev].seq < events[i].seq
      BY <2>2 DEF Inductive, EveryEventLeadsBack
    <3>2. i # 1 => events[i].prev \in 1..Len(events) BY <1>2, <2>2, <3>1
    <3>3. QED BY <1>2, <2>2, <3>1, <3>2
  <2>3. CASE i = Len(events) + 1
    <3>1. i # 1 /\ e.prev \in 1..(i - 1) BY <1>1, <1>2, <2>3
    <3>2. QED BY <1>1, <1>2, <2>3, <3>1
  <2>4. QED BY <1>4, <2>2, <2>3
<1>10. RequestsInOrder'
  <2>1. request' = [request EXCEPT ![r].phase = "committed"] BY DEF CommitEvent, Committed
  <2>2. \A q \in Requests : request[q] \in Request /\ InOrder(request[q])
    BY DEF Inductive, TypeOK, RequestsInOrder
  <2>3. request'[r].phase = "committed" /\ \A q \in Requests : q # r => request'[q] = request[q]
    BY <2>1 DEF Inductive, TypeOK
  <2>4. SUFFICES ASSUME NEW q \in Requests PROVE InOrder(request[q])'
    BY DEF RequestsInOrder
  <2>5. CASE q = r BY <2>3, <2>5 DEF InOrder, Reading
  <2>6. CASE q # r
    <3>1. PICK x \in Request : x = request[q] /\ x = request'[q] /\ InOrder(x)
      BY <2>2, <2>3, <2>6
    <3>2. InOrder(x)' BY <1>1, <3>1, OthersInOrder
    <3>3. QED BY <3>1, <3>2 DEF InOrder, SeenOpen, Tells, Leaves
  <2>7. QED BY <2>5, <2>6
<1>11. SeenIsBehind'
  <2>1. SUFFICES ASSUME NEW j \in 1..Len(events')
                 PROVE  /\ events'[j].seq \in (begun'[j] + 1)..j
                        /\ \A i \in 1..begun'[j] :
                              /\ events'[i].seq <= events'[events'[j].prev].seq
                              /\ ~(events'[i].type \in Closings /\ events'[j].type \in Closings)
    BY DEF SeenIsBehind
  <2>2. CASE j \in 1..Len(events)
    <3>1. /\ events[j].seq \in (begun[j] + 1)..j
          /\ \A i \in 1..begun[j] :
                /\ events[i].seq <= events[events[j].prev].seq
                /\ ~(events[i].type \in Closings /\ events[j].type \in Closings)
      BY <2>2 DEF Inductive, SeenIsBehind
    <3>2. begun[j] < j /\ \A i \in 1..begun[j] : j # 1 /\ i \in 1..Len(events)
      BY <1>2, <1>7, <2>2, <3>1
    <3>3. j # 1 => events[j].prev \in 1..Len(events)
      BY <1>2, <2>2 DEF Inductive, EveryEventLeadsBack
    <3>4. QED BY <1>2, <1>7, <2>2, <3>1, <3>2, <3>3
  <2>3. CASE j = Len(events) + 1
    <3>1. /\ InOrder(request[r]) /\ request[r].phase = "events"
          /\ request[r].since \in 1..Len(events)
      BY DEF CommitEvent, Inductive, RequestsInOrder, InOrder, Reading
    <3>2. e.seq \in (request[r].since + 1)..j BY <1>1, <1>2, <2>3, <3>1
    <3>3. request[r].kind \in Closings =>
              \A i \in 1..request[r].since : events[i].type \notin Closings
      BY <3>1 DEF OpenWhenRead, InOrder, SeenOpen, Reading, Closings
    <3>4. \A i \in 1..request[r].since : i \in 1..Len(events) BY <1>2, <3>1
    <3>5. QED BY <1>1, <1>2, <1>7, <2>3, <3>2, <3>3, <3>4
  <2>4. QED BY <1>4, <2>2, <2>3
<1>12. QED BY <1>3, <1>5, <1>8, <1>9, <1>10, <1>11 DEF Inductive

LEMMA AddMessageKeeps ==
    ASSUME Inductive, NEW r \in Requests, AddMessage(r) \/ AddLink(r)
    PROVE  Inductive'
<1>1. /\ request[r].kind \in {"message_added", "link_added"} /\ CommitEvent(r)
      /\ UNCHANGED <<row, findings, audit>>
  BY DEF AddMessage, AddLink
<1>2. request[r].kind \in EventTypes \ {"created"} /\ request[r].kind \notin Closings
  BY <1>1 DEF EventTypes, Closings
<1>3. PICK e \in Event :
          events' = Append(events, e) /\ e.type = request[r].kind /\ e.actor = r
  BY <1>1, <1>2, Committing
<1>4. /\ events' \in Seq(Event) /\ Len(events') = Len(events) + 1 /\ Len(events) \in Nat
      /\ \A i \in 1..Len(events) : events'[i] = events[i]
      /\ events'[Len(events) + 1] = e
  BY <1>3, AppendTells DEF Inductive, TypeOK
<1>5. \A i \in 1..Len(events') : i \in 1..Len(events) \/ i = Len(events) + 1 BY <1>4
<1>6. TypeOK'
  <2>1. request' \in [Requests -> Request]
    <3>1. "committed" \in Phases BY DEF Phases
    <3>2. [request[r] EXCEPT !.phase = "committed"] \in Request
      BY <3>1, PhaseTyped DEF Inductive, TypeOK
    <3>3. QED BY <1>1, <3>2 DEF CommitEvent, Committed, Inductive, TypeOK
  <2>2. begun' \in Seq(Nat) BY <1>1 DEF CommitEvent, Inductive, TypeOK, Request
  <2>3. messages' \subseteq Requests /\ links' \subseteq Requests
    BY DEF AddMessage, AddLink, Inductive, TypeOK
  <2>4. QED BY <1>1, <1>4, <2>1, <2>2, <2>3 DEF Inductive, TypeOK
<1>7. row'.status # "none"
  <2>1. events # << >>
    <3>1. request[r].phase = "events" BY <1>1 DEF CommitEvent
    <3>2. 1..Len(events) # {} BY <3>1 DEF Inductive, RequestsInOrder, InOrder, Reading
    <3>3. QED BY <3>2
  <2>2. QED BY <1>1, <2>1 DEF Inductive, CaseBegun
<1>8. RowTold'
  <2>1. /\ row.status \in Closings => Tells(Len(events), row.status, row.resolved_by)
        /\ row.note # None => Leaves(Len(events), row.note)
    BY DEF Inductive, RowTold
  <2>2. QED BY <1>1, <1>3, <2>1, AppendTells DEF RowTold
<1>9. MessagesTold'
  <2>1. SUFFICES ASSUME NEW q \in messages'
                 PROVE  \E i \in 1..Len(events') :
                            events'[i].type = "message_added" /\ events'[i].actor = q
    BY DEF MessagesTold, Tells
  <2>2. CASE q \in messages BY <1>4, <2>2 DEF Inductive, MessagesTold, Tells
  <2>3. CASE q \notin messages
    <3>1. request[r].kind = "message_added" /\ q = r BY <2>1, <2>3 DEF AddMessage, AddLink
    <3>2. QED BY <1>3, <1>4, <3>1
  <2>4. QED BY <2>2, <2>3
<1>10. OpenUntilClosed'
  BY <1>1, <1>2, <1>3, <1>4, <1>5 DEF Inductive, OpenUntilClosed
<1>11. QED BY <1>1, <1>2, <1>6, <1>7, <1>8, <1>9, <1>10, CommitKeeps

LEMMA CloseKeeps ==
    ASSUME Inductive, NEW r \in Requests, Close(r)
    PROVE  Inductive'
<1>1. /\ request[r].kind \in Closings /\ CommitEvent(r) /\ OpenWhenRead(r)
      /\ row' = [status |-> request[r].kind, resolved_by |-> r, note |-> NoteLeft(r)]
      /\ audit' = Append(audit, request[r].kind)
      /\ UNCHANGED <<messages, links, findings>>
  BY DEF Close, ClosedStatus, AuditClosing
<1>2. request[r].kind \in EventTypes \ {"created"} BY <1>1 DEF EventTypes, Closings
<1>3. PICK e \in Event :
          /\ events' = Append(events, e) /\ e.type = request[r].kind /\ e.actor = r
          /\ e.note = NoteOf(r)
  BY <1>1, <1>2, Committing
<1>4. /\ events' \in Seq(Event) /\ Len(events') = Len(events) + 1 /\ Len(events) \in Nat
      /\ \A i \in 1..Len(events) : events'[i] = events[i]
      /\ events'[Len(events) + 1] = e
  BY <1>3, AppendTells DEF Inductive, TypeOK
<1>5. \A i \in 1..Len(events') : i \in 1..Len(events) \/ i = Len(events) + 1 BY <1>4
<1>6. row'.status = request[r].kind /\ row'.resolved_by = r
      /\ row'.note = NoteLeft(r)
  BY <1>1
<1>7. TypeOK'
  <2>1. request' \in [Requests -> Request]
    <3>1. "committed" \in Phases BY DEF Phases
    <3>2. [request[r] EXCEPT !.phase = "committed"] \in Request
      BY <3>1, PhaseTyped DEF Inductive, TypeOK
    <3>3. QED BY <1>1, <3>2 DEF CommitEvent, Committed, Inductive, TypeOK
  <2>2. begun' \in Seq(Nat) BY <1>1 DEF CommitEvent, Inductive, TypeOK, Request
  <2>3. row' \in Row
    <3>1. NoteLeft(r) \in Requests \cup {None} BY DEF NoteLeft, Inductive, TypeOK, Row
    <3>2. QED BY <1>1, <3>1 DEF Row, Statuses
  <2>4. audit' \in Seq(Closings) BY <1>1 DEF Inductive, TypeOK
  <2>5. QED BY <1>1, <1>4, <2>1, <2>2, <2>3, <2>4 DEF Inductive, TypeOK
<1>8. row'.status \in Closings /\ row'.status # "none" BY <1>1, <1>6 DEF Closings
<1>9. RowTold'
  <2>1. \E i \in 1..Len(events') : events'[i].type = request[r].kind /\ events'[i].actor = r
    BY <1>3, <1>4
  <2>2. row'.note # None =>
            \E i \in 1..Len(events') : events'[i].type \in Closings /\ events'[i].note = row'.note
    <3>1. CASE request[r].noted BY <1>1, <1>3, <1>4, <1>6, <3>1 DEF NoteOf, NoteLeft
    <3>2. CASE ~request[r].noted
      <4>1. row'.note = row.note BY <1>6, <3>2 DEF NoteLeft
      <4>2. row.note # None =>
                \E i \in 1..Len(events) : events[i].type \in Closings /\ events[i].note = row.note
        BY DEF Inductive, RowTold, Leaves
      <4>3. QED BY <1>4, <4>1, <4>2
    <3>3. QED BY <3>1, <3>2
  <2>3. QED BY <1>6, <2>1, <2>2 DEF RowTold, Tells, Leaves
<1>10. MessagesTold' BY <1>1, <1>4 DEF Inductive, MessagesTold, Tells
<1>11. OpenUntilClosed' BY <1>8 DEF OpenUntilClosed
<1>12. QED BY <1>1, <1>2, <1>7, <1>8, <1>9, <1>10, <1>11, CommitKeeps
-----------------------------------------------------------------------------
LEMMA NextKeeps == Inductive /\ [Next]_vars => Inductive'
<1> SUFFICES ASSUME Inductive, [Next]_vars PROVE Inductive' OBVIOUS
<1>1. findings \subseteq Requests BY DEF Inductive, TypeOK
<1>2. ASSUME NEW r \in Requests, NotFound(r) \/ NotOpen(r) \/ Reply(r) \/ Fail(r)
      PROVE  Inductive'
  <2>1. PICK p \in {"not_found", "not_open", "done", "error"} :
            request' = [request EXCEPT ![r].phase = p]
    BY <1>2 DEF NotFound, NotOpen, Reply, Fail
  <2>2. UNCHANGED tables BY <1>2 DEF NotFound, NotOpen, Reply, Fail
  <2>3. p \in Phases \ Reading BY DEF Phases, Reading
  <2>4. QED BY <1>1, <2>1, <2>2, <2>3, PhaseKeeps DEF tables
<1>3. ASSUME NEW r \in Requests, Advise(r) PROVE Inductive'
  <2>1. /\ request' = [request EXCEPT ![r].phase = "committed"]
        /\ UNCHANGED <<row, messages, links, events, audit, begun>>
        /\ findings' \subseteq Requests
    BY <1>1, <1>3 DEF Advise, Committed
  <2>2. "committed" \in Phases \ Reading BY DEF Phases, Reading
  <2>3. QED BY <2>1, <2>2, PhaseKeeps
<1>4. ASSUME NEW r \in Requests, ReadRow(r) \/ ReadMessages(r) \/ ReadEvents(r)
      PROVE  Inductive'
  BY <1>4, ReadRowKeeps, ReadMessagesKeeps, ReadEventsKeeps
<1>5. ASSUME NEW r \in Requests, Close(r) \/ AddMessage(r) \/ AddLink(r) PROVE Inductive'
  BY <1>5, CloseKeeps, AddMessageKeeps
<1>6. CASE UNCHANGED vars
  <2>1. TypeOK' /\ CaseBegun' /\ NumbersLag' /\ NotesSigned' /\ BegunKept'
    BY <1>6 DEF vars, Inductive, TypeOK, CaseBegun, NumbersLag, NotesSigned, BegunKept
  <2>2. EveryEventLeadsBack' /\ SeenIsBehind'
    BY <1>6 DEF vars, Inductive, EveryEventLeadsBack, SeenIsBehind
  <2>3. RowTold' /\ MessagesTold' /\ OpenUntilClosed'
    BY <1>6 DEF vars, Inductive, RowTold, MessagesTold, OpenUntilClosed, Tells, Leaves
  <2>4. RequestsInOrder'
    BY <1>6 DEF vars, Inductive, RequestsInOrder, InOrder, SeenOpen, Tells, Leaves
  <2>5. QED BY <2>1, <2>2, <2>3, <2>4 DEF Inductive
<1>7. QED BY <1>2, <1>3, <1>4, <1>5, <1>6, CreateKeeps DEF Next, Step

LEMMA InductiveHolds == Spec => []Inductive
<1>1. QED BY InitEstablishes, NextKeeps, PTL DEF Spec
-----------------------------------------------------------------------------
(* What the tables tell of the events *)

LEMMA ClosingsCount ==
    ASSUME Inductive, NEW n \in 0..Len(events)
    PROVE  /\ IsFiniteSet(ClosingsIn(n)) /\ Cardinality(ClosingsIn(n)) \in Nat
           /\ Cardinality(ClosingsIn(n)) <= Cardinality(ClosingsIn(Len(events)))
           /\ n \in ClosingsIn(n) => Cardinality(ClosingsIn(n)) # 0
<1>1. Len(events) \in Nat BY DEF Inductive, TypeOK
<1>2. ClosingsIn(n) \in SUBSET ClosingsIn(Len(events)) BY <1>1 DEF ClosingsIn
<1>3. ClosingsIn(Len(events)) \in SUBSET (1..Len(events)) BY DEF ClosingsIn
<1>4. IsFiniteSet(1..Len(events)) BY <1>1, FS_Interval
<1>5. IsFiniteSet(ClosingsIn(Len(events))) BY <1>3, <1>4, FS_Subset
<1>6. IsFiniteSet(ClosingsIn(n)) BY <1>2, <1>5, FS_Subset
<1>7. QED BY <1>2, <1>5, <1>6, FS_Subset, FS_CardinalityType, FS_EmptySet

LEMMA AppendedClosings ==
    ASSUME Inductive, NEW e \in Event, events' = Append(events, e)
    PROVE  /\ \A n \in 0..Len(events) : ClosingsIn(n)' = ClosingsIn(n)
           /\ ClosingsIn(Len(events))' = IF e.type \in Closings
                                         THEN ClosingsIn(Len(events)) \cup {Len(events) + 1}
                                         ELSE ClosingsIn(Len(events))
           /\ NotedIn(Len(events))' = IF e.type \in Closings /\ e.note # None
                                      THEN NotedIn(Len(events)) \cup {Len(events) + 1}
                                      ELSE NotedIn(Len(events))
           /\ \A t : Actors(t)' = IF e.type = t THEN Actors(t) \cup {e.actor} ELSE Actors(t)
<1> DEFINE m == Len(events)
<1>1. /\ m \in Nat /\ Len(events') = m + 1
      /\ \A i \in 1..m : events'[i] = events[i]
      /\ events'[m + 1] = e
  BY AppendTells DEF Inductive, TypeOK
<1> HIDE DEF m
<1>2. \A n \in 0..m : 1..n \subseteq 1..m BY <1>1
<1>3. \A n \in 0..m : ClosingsIn(n)' = ClosingsIn(n)
  <2> SUFFICES ASSUME NEW n \in 0..m
               PROVE  {i \in 1..n : events'[i].type \in Closings} = {i \in 1..n : events[i].type \in Closings}
    BY DEF ClosingsIn
  <2>1. \A i \in 1..n : events'[i] = events[i] BY <1>1, <1>2
  <2>2. QED BY <2>1
<1>4. \A i : i \in 1..Len(events') <=> (i \in 1..m \/ i = m + 1) BY <1>1
<1>5. m + 1 \notin 1..m BY <1>1
<1>6. \A i : i \in ClosingsIn(Len(events))' <=>
                (i \in ClosingsIn(m) \/ (i = m + 1 /\ e.type \in Closings))
  <2>1. \A i : i \in ClosingsIn(Len(events))' <=> i \in 1..Len(events') /\ events'[i].type \in Closings
    BY DEF ClosingsIn
  <2>2. \A i : i \in ClosingsIn(m) <=> i \in 1..m /\ events[i].type \in Closings BY DEF ClosingsIn
  <2>3. QED BY <1>1, <1>4, <1>5, <2>1, <2>2
<1>7. \A i : i \in NotedIn(Len(events))' <=>
                (i \in NotedIn(m) \/ (i = m + 1 /\ e.type \in Closings /\ e.note # None))
  <2>1. \A i : i \in NotedIn(Len(events))' <=>
                  i \in ClosingsIn(Len(events))' /\ events'[i].note # None
    BY DEF NotedIn
  <2>2. \A i : i \in NotedIn(m) <=> i \in ClosingsIn(m) /\ events[i].note # None BY DEF NotedIn
  <2>3. \A i \in ClosingsIn(m) : i \in 1..m BY DEF ClosingsIn
  <2>4. QED BY <1>1, <1>5, <1>6, <2>1, <2>2, <2>3
<1>8. ASSUME NEW t
      PROVE  Actors(t)' = IF e.type = t THEN Actors(t) \cup {e.actor} ELSE Actors(t)
  <2>1. \A a : a \in Actors(t)' <=>
                  \E i \in 1..Len(events') : events'[i].type = t /\ events'[i].actor = a
    BY DEF Actors
  <2>2. \A a : a \in Actors(t) <=> \E i \in 1..m : events[i].type = t /\ events[i].actor = a
    BY DEF Actors, m
  <2>3. \A a : a \in Actors(t)' <=> (a \in Actors(t) \/ (e.type = t /\ e.actor = a))
    BY <1>1, <1>4, <2>1, <2>2
  <2>4. QED BY <2>3
<1>9. QED BY <1>3, <1>6, <1>8, <1>7 DEF m

(* A commit writes an event and what the tables say of it. *)
LEMMA CommitTold ==
    ASSUME Inductive, TablesTold, NEW e \in Event, events' = Append(events, e),
           e.type \in Closings => /\ row'.status = e.type /\ row'.resolved_by = e.actor
                                  /\ row'.note = IF e.note # None THEN e.note ELSE row.note
                                  /\ audit' = Append(audit, e.type),
           e.type \notin Closings =>
               /\ audit' = audit /\ row'.resolved_by = row.resolved_by /\ row'.note = row.note
               /\ row'.status = row.status
                     \/ (ClosingsIn(Len(events)) = {} /\ row'.status \in {"none", "open"}),
           messages' = IF e.type = "message_added" THEN messages \cup {e.actor} ELSE messages,
           links' = IF e.type = "link_added" THEN links \cup {e.actor} ELSE links
    PROVE  TablesTold'
<1> DEFINE m == Len(events)
           all == ClosingsIn(m)
           noted == NotedIn(m)
           count == Cardinality(all)
<1>1. /\ m \in Nat /\ Len(events') = m + 1
      /\ \A i \in 1..m : events'[i] = events[i]
      /\ events'[m + 1] = e
  BY AppendTells DEF Inductive, TypeOK
<1>2. /\ IF all = {} THEN row.status \in {"none", "open"} /\ row.resolved_by = None
         ELSE \E i \in all : /\ \A j \in all : j <= i
                             /\ row.status = events[i].type /\ row.resolved_by = events[i].actor
      /\ IF noted = {} THEN row.note = None
         ELSE \E i \in noted : (\A j \in noted : j <= i) /\ row.note = events[i].note
      /\ Len(audit) = count
      /\ \A i \in all : audit[Cardinality(ClosingsIn(i))] = events[i].type
      /\ messages = Actors("message_added") /\ links = Actors("link_added")
  BY DEF TablesTold
<1>3. audit \in Seq(Closings) BY DEF Inductive, TypeOK
<1>4. all \subseteq 1..m /\ noted \subseteq 1..m BY DEF ClosingsIn, NotedIn
<1>5. IsFiniteSet(all) /\ count \in Nat BY <1>1, ClosingsCount
<1>6. \A i \in 1..m : /\ ClosingsIn(i)' = ClosingsIn(i)
                      /\ Cardinality(ClosingsIn(i)) \in Nat /\ Cardinality(ClosingsIn(i)) <= count
                      /\ i \in all => Cardinality(ClosingsIn(i)) \in 1..count
  <2> SUFFICES ASSUME NEW i \in 1..m
               PROVE  /\ ClosingsIn(i)' = ClosingsIn(i)
                      /\ Cardinality(ClosingsIn(i)) \in Nat /\ Cardinality(ClosingsIn(i)) <= count
                      /\ i \in all => Cardinality(ClosingsIn(i)) \in 1..count
    OBVIOUS
  <2>1. i \in 0..m BY <1>1
  <2>2. i \in all => i \in ClosingsIn(i) BY <1>1 DEF ClosingsIn
  <2>3. ClosingsIn(i)' = ClosingsIn(i) BY <2>1, AppendedClosings
  <2> HIDE DEF all
  <2>4. QED BY <1>5, <2>1, <2>2, <2>3, ClosingsCount DEF all
<1>7. messages' = Actors("message_added")' /\ links' = Actors("link_added")'
  BY <1>2, AppendedClosings
<1>8. LET now == NotedIn(Len(events))'
       IN  IF now = {} THEN row'.note = None
           ELSE \E i \in now : (\A j \in now : j <= i) /\ row'.note = events'[i].note
  <2>1. CASE e.type \in Closings /\ e.note # None
    <3>1. NotedIn(Len(events))' = noted \cup {m + 1} BY <2>1, AppendedClosings
    <3>2. \A j \in noted \cup {m + 1} : j <= m + 1 BY <1>1, <1>4
    <3>3. row'.note = events'[m + 1].note BY <1>1, <2>1
    <3> HIDE DEF noted
    <3>4. QED BY <3>1, <3>2, <3>3
  <2>2. CASE ~(e.type \in Closings /\ e.note # None)
    <3>1. NotedIn(Len(events))' = noted BY <2>2, AppendedClosings
    <3>2. row'.note = row.note BY <2>2
    <3>3. \A i \in noted : events'[i] = events[i] BY <1>1, <1>4
    <3> HIDE DEF noted
    <3>4. QED BY <1>2, <3>1, <3>2, <3>3
  <2>3. QED BY <2>1, <2>2
<1>9. CASE e.type \notin Closings
  <2>1. ClosingsIn(Len(events))' = all BY <1>9, AppendedClosings
  <2>2. audit' = audit /\ row'.resolved_by = row.resolved_by BY <1>9
  <2>3. IF all = {} THEN row'.status \in {"none", "open"} /\ row'.resolved_by = None
        ELSE \E i \in all : /\ \A j \in all : j <= i
                            /\ row'.status = events'[i].type /\ row'.resolved_by = events'[i].actor
    BY <1>1, <1>2, <1>4, <1>9
  <2>4. \A i \in all : audit'[Cardinality(ClosingsIn(i))'] = events'[i].type
    BY <1>1, <1>2, <1>4, <1>6, <2>2
  <2>5. Len(audit') = Cardinality(all) BY <1>2, <2>2
  <2> HIDE DEF all, noted
  <2>6. QED BY <1>7, <1>8, <2>1, <2>3, <2>4, <2>5 DEF TablesTold
<1>10. CASE e.type \in Closings
  <2> DEFINE grown == all \cup {m + 1}
  <2>1. ClosingsIn(Len(events))' = grown BY <1>10, AppendedClosings
  <2>2. m + 1 \notin all BY <1>1, <1>4
  <2>3. Cardinality(grown) = count + 1 BY <1>5, <2>2, FS_AddElement
  <2>4. /\ Len(audit') = count + 1 /\ audit'[count + 1] = e.type
        /\ \A i \in 1..count : audit'[i] = audit[i]
    <3>1. audit' = Append(audit, e.type) /\ Len(audit) = count BY <1>2, <1>10
    <3>2. QED BY <1>3, <1>10, <3>1
  <2>5. \E i \in grown : /\ \A j \in grown : j <= i
                         /\ row'.status = events'[i].type /\ row'.resolved_by = events'[i].actor
    <3>1. \A j \in grown : j <= m + 1 BY <1>1, <1>4
    <3>2. row'.status = events'[m + 1].type /\ row'.resolved_by = events'[m + 1].actor BY <1>1, <1>10
    <3>3. QED BY <3>1, <3>2
  <2>6. ASSUME NEW i \in grown PROVE audit'[Cardinality(ClosingsIn(i)')] = events'[i].type
    <3>1. CASE i \in all BY <1>1, <1>2, <1>4, <1>6, <2>4, <3>1
    <3>2. CASE i = m + 1
      <4>1. ClosingsIn(i)' = grown BY <1>1, <2>1, <3>2 DEF ClosingsIn
      <4>2. QED BY <1>1, <2>3, <2>4, <3>2, <4>1
    <3>3. QED BY <3>1, <3>2
  <2>7. grown # {} BY <2>5
  <2> HIDE DEF grown, all, noted
  <2>8. QED BY <1>7, <1>8, <2>1, <2>3, <2>4, <2>5, <2>6, <2>7 DEF TablesTold
<1>11. QED BY <1>9, <1>10

LEMMA TablesToldKeeps == Inductive /\ TablesTold /\ [Next]_vars => TablesTold'
<1> SUFFICES ASSUME Inductive, TablesTold, [Next]_vars PROVE TablesTold' OBVIOUS
<1>1. CASE UNCHANGED <<row, messages, links, events, audit>>
  BY <1>1 DEF TablesTold, ClosingsIn, NotedIn, Actors
<1>2. CASE Create
  <2> DEFINE e == [type |-> "created", actor |-> None, note |-> None, seq |-> 1, prev |-> 0]
  <2>1. e \in Event /\ e.type = "created" BY DEF Event, EventTypes
  <2>2. events' = Append(events, e) BY <1>2 DEF Create, PrevChoices, Appended, NextSequence
  <2> HIDE DEF e
  <2>3. /\ row' = [row EXCEPT !.status = "open"] /\ row \in Row
        /\ events = << >> /\ UNCHANGED <<messages, links, audit>>
    BY <1>2 DEF Create, Inductive, TypeOK, CaseBegun
  <2>4. row'.status = "open" /\ row'.resolved_by = row.resolved_by /\ row'.note = row.note
    BY <2>3 DEF Row
  <2>5. ClosingsIn(Len(events)) = {} BY <2>3 DEF ClosingsIn
  <2>6. UNCHANGED <<messages, links, audit>> BY <2>3
  <2>7. QED BY <2>1, <2>2, <2>4, <2>5, <2>6, CommitTold DEF Closings
<1>3. ASSUME NEW r \in Requests, Close(r) \/ AddMessage(r) \/ AddLink(r) PROVE TablesTold'
  <2>1. CommitEvent(r) /\ request[r].kind \in EventTypes \ {"created"}
    BY <1>3 DEF Close, AddMessage, AddLink, EventTypes, Closings
  <2>2. PICK e \in Event : /\ events' = Append(events, e)
                           /\ e.type = request[r].kind /\ e.actor = r /\ e.note = NoteOf(r)
    BY <2>1, Committing
  <2>3. CASE Close(r)
    <3>1. /\ e.type \in Closings /\ row'.status = e.type /\ row'.resolved_by = e.actor
          /\ audit' = Append(audit, e.type) /\ UNCHANGED <<messages, links>>
          /\ row'.note = NoteLeft(r)
      BY <2>2, <2>3 DEF Close, ClosedStatus, AuditClosing
    <3>2. row'.note = IF e.note # None THEN e.note ELSE row.note
      BY <2>2, <3>1, NoneIsNoRequest DEF NoteLeft, NoteOf
    <3>3. QED BY <2>2, <3>1, <3>2, CommitTold DEF Closings
  <2>4. CASE AddMessage(r)
    <3>1. e.type = "message_added" /\ messages' = messages \cup {e.actor}
          /\ UNCHANGED <<row, links, audit>>
      BY <2>2, <2>4 DEF AddMessage
    <3>2. QED BY <2>2, <3>1, CommitTold DEF Closings
  <2>5. CASE AddLink(r)
    <3>1. e.type = "link_added" /\ links' = links \cup {e.actor}
          /\ UNCHANGED <<row, messages, audit>>
      BY <2>2, <2>5 DEF AddLink
    <3>2. QED BY <2>2, <3>1, CommitTold DEF Closings
  <2>6. QED BY <1>3, <2>3, <2>4, <2>5
<1>4. CASE UNCHANGED tables \/ UNCHANGED vars BY <1>1, <1>4 DEF tables, vars
<1>5. ASSUME NEW r \in Requests, Advise(r) PROVE TablesTold' BY <1>1, <1>5 DEF Advise
<1>6. QED
  BY <1>2, <1>3, <1>4, <1>5
  DEF Next, Step, NotFound, ReadRow, ReadMessages, ReadEvents, NotOpen, Reply, Fail

LEMMA TablesToldHolds == Spec => []TablesTold
<1>1. Init => TablesTold
  <2> SUFFICES ASSUME Init PROVE TablesTold OBVIOUS
  <2>1. ClosingsIn(Len(events)) = {} /\ \A t : Actors(t) = {} BY DEF Init, ClosingsIn, Actors
  <2>2. NotedIn(Len(events)) = {} BY <2>1 DEF NotedIn
  <2>3. row.status = "none" /\ row.resolved_by = None /\ row.note = None BY DEF Init, NoRow
  <2>4. QED BY <2>1, <2>2, <2>3, FS_EmptySet DEF Init, TablesTold
<1>2. QED BY <1>1, InductiveHolds, TablesToldKeeps, PTL DEF Spec
-----------------------------------------------------------------------------
(* However many requests race, every event is linked by falling numbers to "created"
   (_append_case_event). *)
THEOREM EventsLeadBack == Spec => []EveryEventLeadsBack
<1>1. QED BY InductiveHolds, PTL DEF Inductive

(* Whatever was committed before a request began is behind what it writes, so only requests
   that overlap can share a number, fork the chain or close a case twice
   (_append_case_event, resolve_case, dismiss_case). *)
THEOREM SeenStaysBehind == Spec => []SeenIsBehind
<1>1. QED BY InductiveHolds, PTL DEF Inductive

(* Requests that follow one another make one chain, close the case once and leave a row
   that is of that closing: what a test that calls the endpoints in turn can see. *)
THEOREM SerialIsSafe == Spec => []SerialRequestsAreSafe
<1>1. ASSUME Inductive, TablesTold PROVE SerialRequestsAreSafe
  <2>1. SUFFICES ASSUME Serial PROVE UnforkedChain /\ ClosedOnce /\ RowIsOneClosing
    BY DEF SerialRequestsAreSafe
  <2>2. Len(events) \in Nat /\ \A j \in 1..Len(events) : events[j] \in Event
    BY <1>1 DEF Inductive, TypeOK
  <2>3. \A j \in 1..Len(events) : events[j].seq \in Nat BY <2>2 DEF Event
  <2>4. ASSUME NEW j \in 1..Len(events)
        PROVE  /\ events[j].seq = j
               /\ \A i \in 1..(j - 1) :
                     /\ events[i].seq <= events[events[j].prev].seq
                     /\ ~(events[i].type \in Closings /\ events[j].type \in Closings)
    <3>1. begun[j] = j - 1 BY <2>1 DEF Serial
    <3>2. QED BY <1>1, <2>2, <2>3, <3>1 DEF Inductive, SeenIsBehind
  <2>5. ASSUME NEW j \in 1..Len(events) PROVE events[j].prev = j - 1
    <3>1. CASE j = 1 BY <1>1, <3>1 DEF Inductive, EveryEventLeadsBack
    <3>2. CASE j # 1
      <4>1. events[j].prev \in 1..(j - 1) BY <1>1, <3>2 DEF Inductive, EveryEventLeadsBack
      <4>2. j - 1 \in 1..(j - 1) /\ j - 1 \in 1..Len(events) BY <2>2, <3>2
      <4>3. events[j].prev \in 1..Len(events) BY <2>2, <4>1
      <4>4. events[j - 1].seq = j - 1 /\ events[events[j].prev].seq = events[j].prev
        BY <2>4, <4>2, <4>3
      <4>5. events[j - 1].seq <= events[events[j].prev].seq BY <2>4, <4>2
      <4>6. QED BY <2>2, <4>1, <4>4, <4>5
    <3>3. QED BY <3>1, <3>2
  <2>6. ClosedOnce
    <3>1. SUFFICES ASSUME NEW i \in 1..Len(events), NEW j \in 1..Len(events),
                          events[i].type \in Closings, events[j].type \in Closings
                   PROVE  i = j
      BY DEF ClosedOnce
    <3>2. ~(i < j) BY <2>2, <2>4, <3>1
    <3>3. ~(j < i) BY <2>2, <2>4, <3>1
    <3>4. QED BY <2>2, <3>2, <3>3
  <2>7. RowIsOneClosing
    <3>1. CASE NotedIn(Len(events)) = {} BY <1>1, <3>1 DEF TablesTold, RowIsOneClosing
    <3>2. CASE NotedIn(Len(events)) # {}
      <4>1. PICK i \in NotedIn(Len(events)) : row.note = events[i].note
        BY <1>1, <3>2 DEF TablesTold
      <4>2. i \in ClosingsIn(Len(events)) BY <4>1 DEF NotedIn
      <4>3. PICK k \in ClosingsIn(Len(events)) : row.resolved_by = events[k].actor
        BY <1>1, <4>2 DEF TablesTold
      <4>4. i = k BY <2>6, <4>2, <4>3 DEF ClosedOnce, ClosingsIn
      <4>5. events[i].note \in {None, events[i].actor}
        BY <1>1, <4>2 DEF Inductive, NotesSigned, ClosingsIn
      <4>6. QED BY <4>1, <4>3, <4>4, <4>5 DEF RowIsOneClosing
    <3>3. QED BY <3>1, <3>2
  <2>8. QED BY <2>4, <2>5, <2>6, <2>7 DEF UnforkedChain
<1>2. QED BY <1>1, InductiveHolds, TablesToldHolds, PTL

(* The tables never say anything but what the events say: the row has the status and the
   author of the last committed closing and the note of the last one that left a note,
   although resolve and dismiss write by column what they decided on earlier; and what a
   request read is causal: its events tell who closed the case it saw, who left the note
   and who wrote the messages it saw. *)
THEOREM EventsTell == Spec => []EventsTellAll
<1>1. ASSUME Inductive PROVE ReadsTold
  <2>1. SUFFICES ASSUME NEW r \in Requests, request[r].phase = "events"
                 PROVE  /\ request[r].row.status \in Closings =>
                              Tells(request[r].read, request[r].row.status, request[r].row.resolved_by)
                        /\ request[r].row.note # None =>
                              Leaves(request[r].read, request[r].row.note)
                        /\ \A q \in request[r].messages :
                              Tells(request[r].read, "message_added", q)
    BY DEF ReadsTold, Tells, Leaves
  <2>2. QED BY <1>1, <2>1 DEF Inductive, RequestsInOrder, InOrder
<1>2. QED BY <1>1, InductiveHolds, TablesToldHolds, PTL DEF EventsTellAll

(* No step reopens the case or takes anything away. *)
THEOREM NothingIsTakenAway == Spec => OnlyGrows
<1>1. ASSUME Inductive, [Next]_vars
      PROVE  /\ row.status \in Closings => row'.status \in Closings
             /\ row.note # None => row'.note # None
             /\ IsPrefix(events, events')
             /\ messages \subseteq messages' /\ links \subseteq links' /\ findings \subseteq findings'
  <2>1. events \in Seq(Event) BY <1>1 DEF Inductive, TypeOK
  <2>2. IsPrefix(events, events) BY <2>1 DEF IsPrefix
  <2>3. \A e \in Event : IsPrefix(events, Append(events, e)) BY <2>1 DEF IsPrefix
  <2>4. CASE Create
    <3>1. row.status = "none" /\ row' = [row EXCEPT !.status = "open"] /\ row \in Row
          /\ UNCHANGED <<messages, links, findings>>
      BY <1>1, <2>4 DEF Create, Inductive, TypeOK
    <3>2. row.note = None BY <1>1, <3>1 DEF Inductive, OpenUntilClosed, Closings
    <3>3. [type |-> "created", actor |-> None, note |-> None, seq |-> 1, prev |-> 0] \in Event
      BY DEF Event, EventTypes
    <3>4. IsPrefix(events, events')
      BY <2>3, <2>4, <3>3 DEF Create, PrevChoices, Appended, NextSequence
    <3>5. QED BY <3>1, <3>2, <3>4 DEF Closings
  <2>5. ASSUME NEW r \in Requests, Close(r) \/ AddMessage(r) \/ AddLink(r)
        PROVE  /\ row.status \in Closings => row'.status \in Closings
               /\ row.note # None => row'.note # None
               /\ IsPrefix(events, events')
               /\ messages \subseteq messages' /\ links \subseteq links' /\ findings \subseteq findings'
    <3>1. CommitEvent(r) /\ request[r].kind \in EventTypes \ {"created"}
      BY <2>5 DEF Close, AddMessage, AddLink, EventTypes, Closings
    <3>2. IsPrefix(events, events') BY <1>1, <2>3, <3>1, Committing
    <3>3. /\ messages \subseteq messages' /\ links \subseteq links' /\ UNCHANGED findings
          /\ \/ UNCHANGED row
             \/ /\ row'.status \in Closings
                /\ row'.note \in {r, row.note}
      BY <2>5 DEF Close, ClosedStatus, NoteLeft, AddMessage, AddLink
    <3>4. r # None BY NoneIsNoRequest
    <3>5. QED BY <3>2, <3>3, <3>4
  <2>6. CASE \E r \in Requests : \/ NotFound(r) \/ ReadRow(r) \/ ReadMessages(r) \/ ReadEvents(r)
                                 \/ NotOpen(r) \/ Reply(r) \/ Fail(r)
    <3>1. UNCHANGED tables
      BY <2>6 DEF NotFound, ReadRow, ReadMessages, ReadEvents, NotOpen, Reply, Fail
    <3>2. QED BY <2>2, <3>1 DEF tables
  <2>7. CASE \E r \in Requests : Advise(r)
    <3>1. UNCHANGED <<row, messages, links, events>> /\ findings \subseteq findings'
      BY <2>7 DEF Advise
    <3>2. QED BY <2>2, <3>1
  <2>8. CASE UNCHANGED vars BY <2>2, <2>8 DEF vars
  <2>9. QED BY <1>1, <2>4, <2>5, <2>6, <2>7, <2>8 DEF Next, Step
<1>2. QED BY <1>1, InductiveHolds, PTL DEF Spec, OnlyGrows, vars
=============================================================================
