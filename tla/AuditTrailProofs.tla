-------------------------- MODULE AuditTrailProofs --------------------------
(***************************************************************************)
(* Proofs about AuditTrail for every number of runs, flushes and bundles,  *)
(* every page size and any number of faults and refusals.                  *)
(***************************************************************************)
EXTENDS AuditTrail, FiniteSetTheorems, SequenceTheorems, TLAPS

(* Types as far as the proofs need them.  Finitely many events were emitted at any time. *)
Emitted == {e \in Events : at[e] # 0}
TrailTyped == /\ at \in [Events -> Nat] /\ IsFiniteSet(Emitted)
              /\ log \subseteq Emitted
              /\ refusals \in Nat
FlushTyped == flush \in [Flushes -> Flush]
BundleTyped == bundle \in [Bundles -> Bundle]

(* What a flush marked is what it posted so far, in the order of its page. *)
MarksPosted ==
    \A f \in Flushes :
        /\ flush[f].sent <= Len(flush[f].page)
        /\ IsInjective(flush[f].page)
        /\ flush[f].marked = {flush[f].page[i] : i \in 1..flush[f].sent}

(* Marked or forwarded, the SIEM has it unless it refused something. *)
MarkedWasSent ==
    refusals = 0 => /\ forwarded \subseteq siem
                    /\ \A f \in Flushes : flush[f].marked \subseteq siem

(* What a bundle read is committed, packs and events are those of its runs. *)
BundleShowsLog ==
    \A b \in Bundles :
        /\ \A k \in bundle[b].runs : Decided(k) \in log
        /\ \A k \in bundle[b].packs : k \in bundle[b].runs /\ Reviewed(k) \in log
        /\ bundle[b].read = 0 => bundle[b].packs = {}
        /\ bundle[b].read = 3 =>
              /\ \A k \in bundle[b].runs : Decided(k) \in bundle[b].events
              /\ \A k \in bundle[b].packs : Reviewed(k) \in bundle[b].events

(* The first query divides the stored runs by their instants, which never change. *)
BundleAskedDays ==
    \A b \in Bundles :
        /\ \A k \in bundle[b].runs : InPeriod(k, bundle[b].from, bundle[b].to)
        /\ \A k \in bundle[b].missed :
              Decided(k) \in log /\ ~InPeriod(k, bundle[b].from, bundle[b].to)

Inductive == /\ TrailTyped /\ FlushTyped /\ BundleTyped
             /\ MarksPosted /\ MarkedWasSent /\ BundleShowsLog /\ BundleAskedDays
-----------------------------------------------------------------------------
(* Records of a flush and of a bundle whose fields change together. *)
LEMMA FlushRecords ==
    ASSUME NEW r \in Flush
    PROVE  /\ \A p \in {"idle", "posting", "ending"}, s \in Seq(Events) :
                 [r EXCEPT !.phase = p, !.page = s] \in Flush
           /\ \A n \in Nat, M \in SUBSET Events : [r EXCEPT !.sent = n, !.marked = M] \in Flush
BY DEF Flush

LEMMA BundleRecords ==
    ASSUME NEW r \in Bundle
    PROVE  /\ \A from, to \in Days, n \in 0..3, S, T \in SUBSET Runs :
                 [r EXCEPT !.from = from, !.to = to, !.read = n, !.runs = S, !.missed = T] \in Bundle
           /\ \A n \in 0..3, S \in SUBSET Runs, E \in SUBSET Events :
                 [r EXCEPT !.read = n, !.packs = S, !.events = E] \in Bundle
BY DEF Bundle

(* A page is a sequence of pending events without repetition. *)
LEMMA PageIsSequence ==
    ASSUME TrailTyped, NEW page \in SeqOf(Pending, Limit), IsPage(page)
    PROVE  page \in Seq(Events) /\ IsInjective(page)
<1>1. PICK m \in 0..Limit : page \in [1..m -> Pending] BY DEF SeqOf
<1>2. Pending \subseteq Events BY DEF Pending, TrailTyped, Emitted
<1>3. m \in Nat BY LimitPositive
<1>4. page \in Seq(Events) BY <1>1, <1>2, <1>3
<1>5. \A i, j \in DOMAIN page : i < j => page[i] # page[j]
  <2>1. SUFFICES ASSUME NEW i \in DOMAIN page, NEW j \in DOMAIN page, i < j, page[i] = page[j]
                 PROVE FALSE
    OBVIOUS
  <2>2. at[page[i]] < at[page[j]] BY <2>1 DEF IsPage
  <2>3. at[page[i]] \in Nat BY <1>1, <1>2, <2>1 DEF TrailTyped
  <2>4. QED BY <2>1, <2>2, <2>3
<1>6. DOMAIN page \subseteq Int BY <1>1, <1>3
<1>7. QED BY <1>4, <1>5, <1>6 DEF IsInjective

LEMMA InitEstablishes == Init => Inductive
<1> SUFFICES ASSUME Init PROVE Inductive OBVIOUS
<1> USE DEF Init
<1>1. TrailTyped
  <2>1. Emitted = {} BY DEF Emitted
  <2>2. QED BY <2>1, FS_EmptySet DEF TrailTyped
<1>2. Idle \in Flush BY DEF Idle, Flush
<1>3. FlushTyped BY <1>2 DEF FlushTyped
<1>4. BundleTyped BY DEF BundleTyped, Bundle, Days
<1>5. MarksPosted BY DEF MarksPosted, Idle, IsInjective
<1>6. MarkedWasSent BY DEF MarkedWasSent, Idle
<1>7. BundleShowsLog BY DEF BundleShowsLog
<1>8. BundleAskedDays BY DEF BundleAskedDays
<1>9. QED BY <1>1, <1>3, <1>4, <1>5, <1>6, <1>7, <1>8 DEF Inductive
-----------------------------------------------------------------------------
(* Writers *)

(* Instants are given once, so neither bundle property can be disturbed. *)
LEMMA EmitKeeps ==
    ASSUME Inductive, NEW e \in Events, Emit(e)
    PROVE  Inductive'
<1> DEFINE n == Cardinality(Emitted)
<1>1. at' = [at EXCEPT ![e] = n + 1] /\ at[e] = 0 BY DEF Emit, Emitted
<1>2. UNCHANGED <<log, forwarded, siem, flush, bundle, refusals>> BY DEF Emit
<1>3. n \in Nat BY FS_CardinalityType DEF Inductive, TrailTyped
<1> HIDE DEF n
<1>4. TrailTyped'
  <2>1. at' \in [Events -> Nat] BY <1>1, <1>3 DEF Inductive, TrailTyped
  <2>2. Emitted' = Emitted \cup {e} BY <1>1, <1>3 DEF Inductive, TrailTyped, Emitted
  <2>3. IsFiniteSet(Emitted') BY <2>2, FS_AddElement DEF Inductive, TrailTyped
  <2>4. QED BY <1>2, <2>1, <2>2, <2>3 DEF Inductive, TrailTyped
<1>5. \A k \in Runs : Decided(k) \in log => Instant(k)' = Instant(k)
  BY <1>1 DEF Inductive, TrailTyped, Emitted, Instant, Decided, Events
<1>6. FlushTyped' /\ BundleTyped' /\ MarksPosted' /\ MarkedWasSent' /\ BundleShowsLog'
  BY <1>2 DEF Inductive, FlushTyped, BundleTyped, MarksPosted, MarkedWasSent, BundleShowsLog, Decided, Reviewed
<1>7. BundleAskedDays'
  <2>1. \A b \in Bundles : bundle[b].runs \subseteq Runs /\ bundle[b].missed \subseteq Runs
    BY DEF Inductive, BundleTyped, Bundle
  <2>2. \A k \in Runs : \A from, to :
            Decided(k) \in log => InPeriod(k, from, to)' = InPeriod(k, from, to)
    BY <1>5 DEF InPeriod
  <2>3. \A b \in Bundles :
            /\ \A k \in bundle[b].runs : Decided(k) \in log /\ InPeriod(k, bundle[b].from, bundle[b].to)
            /\ \A k \in bundle[b].missed :
                  Decided(k) \in log /\ ~InPeriod(k, bundle[b].from, bundle[b].to)
    BY DEF Inductive, BundleAskedDays, BundleShowsLog
  <2>4. \A b \in Bundles :
            /\ \A k \in bundle[b].runs : InPeriod(k, bundle[b].from, bundle[b].to)'
            /\ \A k \in bundle[b].missed :
                  Decided(k) \in log /\ ~InPeriod(k, bundle[b].from, bundle[b].to)'
    BY <1>2, <2>1, <2>2, <2>3 DEF InPeriod
  <2>5. QED BY <1>2, <2>4 DEF BundleAskedDays, Decided
<1>8. QED BY <1>4, <1>6, <1>7 DEF Inductive

LEMMA CommitKeeps ==
    ASSUME Inductive, NEW e \in Events, Commit(e)
    PROVE  Inductive'
<1>1. e \in Emitted /\ log' = log \cup {e} BY DEF Commit, Emitted
<1>2. UNCHANGED <<at, forwarded, siem, flush, bundle, refusals>> BY DEF Commit
<1>3. TrailTyped' BY <1>1, <1>2 DEF Inductive, TrailTyped, Emitted
<1>4. FlushTyped' /\ BundleTyped' /\ MarksPosted' /\ MarkedWasSent'
  BY <1>2 DEF Inductive, FlushTyped, BundleTyped, MarksPosted, MarkedWasSent
<1>5. BundleShowsLog' BY <1>1, <1>2 DEF Inductive, BundleShowsLog, Decided, Reviewed
<1>6. BundleAskedDays'
  BY <1>1, <1>2 DEF Inductive, BundleAskedDays, InPeriod, Instant, Decided
<1>7. QED BY <1>3, <1>4, <1>5, <1>6 DEF Inductive
-----------------------------------------------------------------------------
(* Flushes *)

(* What is left of a step of flush f once its row of flush is known to be in order. *)
LEMMA FlushKeeps ==
    ASSUME Inductive, NEW f \in Flushes, NEW new \in Flush,
           flush' = [flush EXCEPT ![f] = new], UNCHANGED <<trail, bundle>>,
           new.sent <= Len(new.page), IsInjective(new.page),
           new.marked = {new.page[i] : i \in 1..new.sent},
           refusals' \in Nat, MarkedWasSent'
    PROVE  Inductive'
<1>1. FlushTyped' BY DEF Inductive, FlushTyped
<1>2. flush'[f] = new /\ \A g \in Flushes : g # f => flush'[g] = flush[g]
  BY DEF Inductive, FlushTyped
<1>3. MarksPosted' BY <1>2 DEF Inductive, MarksPosted
<1>4. TrailTyped' /\ BundleTyped' /\ BundleShowsLog' /\ BundleAskedDays'
  BY DEF Inductive, trail, TrailTyped, Emitted, BundleTyped, BundleShowsLog, BundleAskedDays,
         InPeriod, Instant, Decided, Reviewed
<1>5. QED BY <1>1, <1>3, <1>4 DEF Inductive

LEMMA IdleIsInOrder ==
    /\ Idle \in Flush /\ Idle.sent <= Len(Idle.page) /\ IsInjective(Idle.page)
    /\ Idle.marked = {Idle.page[i] : i \in 1..Idle.sent} /\ Idle.marked = {}
BY DEF Idle, Flush, IsInjective

LEMMA FlushReadKeeps ==
    ASSUME Inductive, NEW f \in Flushes, FlushRead(f)
    PROVE  Inductive'
<1>1. PICK page \in SeqOf(Pending, Limit) :
          /\ IsPage(page)
          /\ flush' = [flush EXCEPT ![f] = [Idle EXCEPT !.phase = "posting", !.page = page]]
  BY DEF FlushRead
<1>2. page \in Seq(Events) /\ IsInjective(page) BY <1>1, PageIsSequence DEF Inductive
<1> DEFINE new == [Idle EXCEPT !.phase = "posting", !.page = page]
<1>3. flush' = [flush EXCEPT ![f] = new] BY <1>1
<1>4. new \in Flush /\ new.page = page /\ new.sent = 0 /\ new.marked = {}
  <2>1. new \in Flush BY <1>2, IdleIsInOrder, FlushRecords
  <2>2. QED BY <2>1 DEF Idle
<1> HIDE DEF new
<1>5. new.sent <= Len(new.page) /\ new.marked = {new.page[i] : i \in 1..new.sent}
  BY <1>2, <1>4, LenProperties
<1>6. UNCHANGED <<trail, forwarded, siem, bundle, refusals>> BY DEF FlushRead
<1>7. MarkedWasSent'
  <2>1. flush'[f] = new /\ \A g \in Flushes : g # f => flush'[g] = flush[g]
    BY <1>3 DEF Inductive, FlushTyped
  <2>2. QED BY <1>4, <1>6, <2>1 DEF Inductive, MarkedWasSent
<1>8. refusals' \in Nat BY <1>6 DEF Inductive, TrailTyped
<1>9. QED BY <1>2, <1>3, <1>4, <1>5, <1>6, <1>7, <1>8, FlushKeeps

(* Marking the event just posted keeps the marks in the order of the page. *)
LEMMA MarkIsInOrder ==
    ASSUME Inductive, NEW f \in Flushes, Posting(f), flush' = Mark(f)
    PROVE  \E new \in Flush :
              /\ flush' = [flush EXCEPT ![f] = new]
              /\ new.sent <= Len(new.page) /\ IsInjective(new.page)
              /\ new.marked = {new.page[i] : i \in 1..new.sent}
              /\ new.marked = flush[f].marked \cup {Posted(f)}
<1> DEFINE new == [flush[f] EXCEPT !.sent = @ + 1, !.marked = @ \cup {Posted(f)}]
           n == flush[f].sent
           page == flush[f].page
<1>1. flush[f] \in Flush BY DEF Inductive, FlushTyped
<1>2. page \in Seq(Events) /\ n \in Nat /\ n < Len(page)
  BY <1>1 DEF Flush, Posting
<1>3. n + 1 \in 1..Len(page) BY <1>2, LenProperties
<1>4. Posted(f) \in Events BY <1>2, <1>3, ElementOfSeq DEF Posted
<1>5. flush[f].marked \cup {Posted(f)} \in SUBSET Events BY <1>1, <1>4 DEF Flush
<1>6. /\ new \in Flush /\ new.page = page /\ new.sent = n + 1
      /\ new.marked = flush[f].marked \cup {Posted(f)}
  <2>1. n + 1 \in Nat BY <1>2
  <2>2. new \in Flush BY <1>1, <1>5, <2>1, FlushRecords
  <2>3. QED BY <1>1, <2>2 DEF Flush
<1>7. new.marked = {page[i] : i \in 1..(n + 1)}
  <2>1. flush[f].marked = {page[i] : i \in 1..n} BY DEF Inductive, MarksPosted
  <2>2. 1..(n + 1) = (1..n) \cup {n + 1} BY <1>2
  <2>3. QED BY <1>6, <2>1, <2>2 DEF Posted
<1>8. IsInjective(page) BY DEF Inductive, MarksPosted
<1>9. flush' = [flush EXCEPT ![f] = new] BY DEF Mark, Inductive, FlushTyped
<1>10. /\ new.sent <= Len(new.page) /\ IsInjective(new.page)
       /\ new.marked = {new.page[i] : i \in 1..new.sent}
  <2> HIDE DEF new, page, n
  <2>1. QED BY <1>3, <1>6, <1>7, <1>8
<1> HIDE DEF new
<1>11. QED BY <1>6, <1>9, <1>10

LEMMA FlushPostKeeps ==
    ASSUME Inductive, NEW f \in Flushes, FlushPost(f)
    PROVE  Inductive'
<1>1. PICK new \in Flush :
          /\ flush' = [flush EXCEPT ![f] = new]
          /\ new.sent <= Len(new.page) /\ IsInjective(new.page)
          /\ new.marked = {new.page[i] : i \in 1..new.sent}
          /\ new.marked = flush[f].marked \cup {Posted(f)}
  BY MarkIsInOrder DEF FlushPost
<1>2. UNCHANGED <<trail, forwarded, bundle, refusals>> /\ siem' = siem \cup {Posted(f)}
  BY DEF FlushPost, Accepted
<1>3. flush'[f] = new /\ \A g \in Flushes : g # f => flush'[g] = flush[g]
  BY <1>1 DEF Inductive, FlushTyped
<1>4. MarkedWasSent' BY <1>1, <1>2, <1>3 DEF Inductive, MarkedWasSent
<1>5. refusals' \in Nat BY <1>2 DEF Inductive, TrailTyped
<1>6. QED BY <1>1, <1>2, <1>4, <1>5, FlushKeeps

LEMMA FlushRefusedKeeps ==
    ASSUME Inductive, NEW f \in Flushes, FlushRefused(f)
    PROVE  Inductive'
<1>1. PICK new \in Flush :
          /\ flush' = [flush EXCEPT ![f] = new]
          /\ new.sent <= Len(new.page) /\ IsInjective(new.page)
          /\ new.marked = {new.page[i] : i \in 1..new.sent}
  BY MarkIsInOrder DEF FlushRefused
<1>2. UNCHANGED <<trail, bundle>> /\ refusals' = refusals + 1 BY DEF FlushRefused
<1>3. refusals' \in Nat /\ refusals' # 0 BY <1>2 DEF Inductive, TrailTyped
<1>4. MarkedWasSent' BY <1>3 DEF MarkedWasSent
<1>5. QED BY <1>1, <1>2, <1>3, <1>4, FlushKeeps

LEMMA FlushUnansweredKeeps ==
    ASSUME Inductive, NEW f \in Flushes, FlushUnanswered(f)
    PROVE  Inductive'
<1> DEFINE new == [flush[f] EXCEPT !.phase = "ending"]
<1>1. flush[f] \in Flush BY DEF Inductive, FlushTyped
<1>2. /\ new \in Flush /\ new.sent = flush[f].sent /\ new.page = flush[f].page
      /\ new.marked = flush[f].marked
  BY <1>1 DEF Flush
<1>3. flush' = [flush EXCEPT ![f] = new] BY DEF FlushUnanswered, Inductive, FlushTyped
<1>4. UNCHANGED <<trail, forwarded, bundle, refusals>> /\ siem \subseteq siem'
  BY DEF FlushUnanswered, Accepted
<1> HIDE DEF new
<1>5. flush'[f] = new /\ \A g \in Flushes : g # f => flush'[g] = flush[g]
  BY <1>3 DEF Inductive, FlushTyped
<1>6. MarkedWasSent' BY <1>2, <1>4, <1>5 DEF Inductive, MarkedWasSent
<1>7. refusals' \in Nat BY <1>4 DEF Inductive, TrailTyped
<1>8. new.sent <= Len(new.page) /\ IsInjective(new.page)
      /\ new.marked = {new.page[i] : i \in 1..new.sent}
  BY <1>2 DEF Inductive, MarksPosted
<1>9. QED BY <1>2, <1>3, <1>4, <1>6, <1>7, <1>8, FlushKeeps

LEMMA FlushEndKeeps ==
    ASSUME Inductive, NEW f \in Flushes, FlushEnd(f) \/ FlushDies(f)
    PROVE  Inductive'
<1>1. flush' = [flush EXCEPT ![f] = Idle] BY DEF FlushEnd, FlushDies
<1>2. UNCHANGED <<trail, siem, bundle, refusals>> BY DEF FlushEnd, FlushDies
<1>3. forwarded' \subseteq forwarded \cup flush[f].marked BY DEF FlushEnd, FlushDies, Stored
<1>4. flush'[f] = Idle /\ \A g \in Flushes : g # f => flush'[g] = flush[g]
  BY <1>1 DEF Inductive, FlushTyped
<1>5. MarkedWasSent'
  BY <1>2, <1>3, <1>4, IdleIsInOrder DEF Inductive, MarkedWasSent
<1>6. refusals' \in Nat BY <1>2 DEF Inductive, TrailTyped
<1>7. QED BY <1>1, <1>2, <1>5, <1>6, IdleIsInOrder, FlushKeeps
-----------------------------------------------------------------------------
(* Bundles *)

(* What is left of a query of bundle b once its row is known to be in order. *)
LEMMA BundleKeeps ==
    ASSUME Inductive, NEW b \in Bundles, NEW new \in Bundle,
           bundle' = [bundle EXCEPT ![b] = new],
           UNCHANGED <<trail, forwarded, siem, flush, refusals>>,
           \A k \in new.runs : Decided(k) \in log,
           \A k \in new.packs : k \in new.runs /\ Reviewed(k) \in log,
           new.read # 0,
           new.read = 3 => /\ \A k \in new.runs : Decided(k) \in new.events
                           /\ \A k \in new.packs : Reviewed(k) \in new.events,
           \A k \in new.runs : InPeriod(k, new.from, new.to),
           \A k \in new.missed : Decided(k) \in log /\ ~InPeriod(k, new.from, new.to)
    PROVE  Inductive'
<1>1. BundleTyped' BY DEF Inductive, BundleTyped
<1>2. bundle'[b] = new /\ \A c \in Bundles : c # b => bundle'[c] = bundle[c]
  BY DEF Inductive, BundleTyped
<1>3. log' = log /\ at' = at BY DEF trail
<1>4. \A k, from, to : InPeriod(k, from, to)' <=> InPeriod(k, from, to)
  BY <1>3 DEF InPeriod, Instant
<1>5. BundleShowsLog' BY <1>2, <1>3 DEF Inductive, BundleShowsLog, Decided, Reviewed
<1>6. BundleAskedDays'
  BY <1>2, <1>3 DEF Inductive, BundleAskedDays, InPeriod, Instant, Decided
<1>7. TrailTyped' /\ FlushTyped' /\ MarksPosted' /\ MarkedWasSent'
  BY <1>3 DEF Inductive, TrailTyped, Emitted, FlushTyped, MarksPosted, MarkedWasSent
<1>8. QED BY <1>1, <1>5, <1>6, <1>7 DEF Inductive

LEMMA BundleRunsKeeps ==
    ASSUME Inductive, NEW b \in Bundles, BundleRuns(b)
    PROVE  Inductive'
<1>1. PICK from \in Days, to \in Days :
          LET asked == {k \in StoredRuns : InPeriod(k, from, to)}
          IN bundle' = [bundle EXCEPT
                   ![b] = [@ EXCEPT !.from = from, !.to = to, !.read = 1,
                                    !.runs = asked, !.missed = StoredRuns \ asked]]
  BY DEF BundleRuns
<1> DEFINE asked == {k \in StoredRuns : InPeriod(k, from, to)}
           new == [bundle[b] EXCEPT !.from = from, !.to = to, !.read = 1,
                                    !.runs = asked, !.missed = StoredRuns \ asked]
<1>2. bundle' = [bundle EXCEPT ![b] = new] BY <1>1 DEF Inductive, BundleTyped
<1>3. bundle[b] \in Bundle BY DEF Inductive, BundleTyped
<1>4. asked \subseteq Runs /\ StoredRuns \subseteq Runs BY DEF StoredRuns
<1>5. bundle[b].packs = {}
  BY DEF BundleRuns, Inductive, BundleShowsLog
<1>6. /\ new \in Bundle /\ new.from = from /\ new.to = to /\ new.read = 1
      /\ new.runs = asked /\ new.missed = StoredRuns \ asked /\ new.packs = {}
  <2>1. asked \in SUBSET Runs /\ StoredRuns \ asked \in SUBSET Runs BY <1>4
  <2>2. 1 \in 0..3 OBVIOUS
  <2> HIDE DEF asked
  <2>3. new \in Bundle BY <1>3, <2>1, <2>2, BundleRecords
  <2>4. QED BY <1>3, <1>5, <2>3 DEF Bundle
<1>7. UNCHANGED <<trail, forwarded, siem, flush, refusals>> BY DEF BundleRuns
<1>8. \A k \in new.runs : Decided(k) \in log /\ InPeriod(k, new.from, new.to)
  BY <1>6 DEF StoredRuns
<1>9. \A k \in new.missed : Decided(k) \in log /\ ~InPeriod(k, new.from, new.to)
  BY <1>6 DEF StoredRuns
<1>10. /\ \A k \in new.packs : k \in new.runs /\ Reviewed(k) \in log
       /\ new.read # 0 /\ new.read # 3
  <2> HIDE DEF new, asked
  <2>1. QED BY <1>6
<1> HIDE DEF new, asked
<1>11. QED BY <1>2, <1>6, <1>7, <1>8, <1>9, <1>10, BundleKeeps

LEMMA BundleRestKeeps ==
    ASSUME Inductive, NEW b \in Bundles, BundleRest(b)
    PROVE  Inductive'
<1> DEFINE query == Queries[bundle[b].read]
           mine == bundle[b].runs
           packs == IF query = "packs" THEN {k \in mine : Reviewed(k) \in log}
                    ELSE bundle[b].packs
           events == IF query = "events" THEN {e \in log : e[1] \in mine}
                     ELSE bundle[b].events
           new == [bundle[b] EXCEPT !.read = @ + 1, !.packs = packs, !.events = events]
<1>1. bundle[b] \in Bundle /\ bundle[b].read \in 1..2
  BY DEF BundleRest, Inductive, BundleTyped
<1>2. bundle' = [bundle EXCEPT ![b] = new]
  BY DEF BundleRest, Inductive, BundleTyped
<1>3. mine \subseteq Runs /\ log \subseteq Events
  BY <1>1 DEF Bundle, Inductive, TrailTyped, Emitted
<1>4. packs \subseteq Runs /\ events \subseteq Events BY <1>1, <1>3 DEF Bundle
<1>5. /\ new \in Bundle /\ new.from = bundle[b].from /\ new.to = bundle[b].to
      /\ new.read = bundle[b].read + 1 /\ new.runs = mine /\ new.missed = bundle[b].missed
      /\ new.packs = packs /\ new.events = events
  <2>1. bundle[b].read + 1 \in 0..3 /\ packs \in SUBSET Runs /\ events \in SUBSET Events
    BY <1>1, <1>4
  <2> HIDE DEF packs, events
  <2>2. new \in Bundle BY <1>1, <2>1, BundleRecords
  <2>3. QED BY <1>1, <2>2 DEF Bundle
<1>6. UNCHANGED <<trail, forwarded, siem, flush, refusals>> BY DEF BundleRest
<1>7. \A k \in new.runs : Decided(k) \in log /\ InPeriod(k, new.from, new.to)
  BY <1>5 DEF Inductive, BundleShowsLog, BundleAskedDays
<1>8. \A k \in new.missed : Decided(k) \in log /\ ~InPeriod(k, new.from, new.to)
  BY <1>5 DEF Inductive, BundleAskedDays
<1>9. \A k \in new.packs : k \in new.runs /\ Reviewed(k) \in log
  BY <1>5 DEF Inductive, BundleShowsLog
<1>10. new.read # 0 BY <1>1, <1>5
<1>11. ASSUME new.read = 3
       PROVE  /\ \A k \in new.runs : Decided(k) \in new.events
              /\ \A k \in new.packs : Reviewed(k) \in new.events
  <2>1. query = "events" BY <1>1, <1>5, <1>11 DEF Queries
  <2>2. new.events = {e \in log : e[1] \in mine} BY <1>5, <2>1
  <2>3. \A k : Decided(k)[1] = k /\ Reviewed(k)[1] = k BY DEF Decided, Reviewed
  <2> HIDE DEF new, mine
  <2>4. QED BY <1>5, <1>7, <1>9, <2>2, <2>3
<1> HIDE DEF new, packs, events, mine
<1>12. QED BY <1>2, <1>5, <1>6, <1>7, <1>8, <1>9, <1>10, <1>11, BundleKeeps
-----------------------------------------------------------------------------
LEMMA NextKeeps == Inductive /\ [Next]_vars => Inductive'
<1> SUFFICES ASSUME Inductive, [Next]_vars PROVE Inductive' OBVIOUS
<1>1. ASSUME NEW e \in Events, Emit(e) \/ Commit(e) PROVE Inductive'
  BY <1>1, EmitKeeps, CommitKeeps
<1>2. ASSUME NEW f \in Flushes, FlushRead(f) PROVE Inductive' BY <1>2, FlushReadKeeps
<1>3. ASSUME NEW f \in Flushes, FlushStep(f) PROVE Inductive'
  BY <1>3, FlushPostKeeps, FlushEndKeeps DEF FlushStep
<1>4. ASSUME NEW f \in Flushes, FlushRefused(f) \/ FlushUnanswered(f) \/ FlushDies(f)
      PROVE  Inductive'
  BY <1>4, FlushRefusedKeeps, FlushUnansweredKeeps, FlushEndKeeps
<1>5. ASSUME NEW b \in Bundles, BundleRuns(b) \/ BundleRest(b) PROVE Inductive'
  BY <1>5, BundleRunsKeeps, BundleRestKeeps
<1>6. CASE UNCHANGED vars
  BY <1>6 DEF vars, trail, Inductive, TrailTyped, Emitted, FlushTyped, BundleTyped, MarksPosted,
     MarkedWasSent, BundleShowsLog, BundleAskedDays, InPeriod, Instant, Decided, Reviewed
<1>7. QED BY <1>1, <1>2, <1>3, <1>4, <1>5, <1>6 DEF Next

LEMMA InductiveHolds == Spec => []Inductive
<1>1. QED BY InitEstablishes, NextKeeps, PTL DEF Spec

(* Unless the SIEM refuses an event, none is marked as forwarded that it does not have,
   whatever crosses, times out or dies (flush_pending_to_siem). *)
THEOREM ForwardedArrived == Spec => []NothingLost
<1>1. Inductive => NothingLost BY DEF Inductive, MarkedWasSent, NothingLost
<1>2. QED BY <1>1, InductiveHolds, PTL

(* A flush marks a prefix of the page it read, so no event overtakes an earlier one. *)
THEOREM MarksArePrefix == Spec => []NoneOvertaken
<1>1. ASSUME Inductive PROVE NoneOvertaken
  <2>1. SUFFICES ASSUME NEW f \in Flushes,
                        NEW i \in DOMAIN flush[f].page, NEW j \in DOMAIN flush[f].page,
                        i < j, flush[f].page[j] \in flush[f].marked
                 PROVE  flush[f].page[i] \in flush[f].marked
    BY DEF NoneOvertaken
  <2>2. flush[f].page \in Seq(Events) /\ flush[f].sent \in Nat
    BY <1>1 DEF Inductive, FlushTyped, Flush
  <2>3. DOMAIN flush[f].page = 1..Len(flush[f].page) /\ Len(flush[f].page) \in Nat
    BY <2>2, LenProperties
  <2>4. PICK n \in 1..flush[f].sent : flush[f].page[j] = flush[f].page[n]
    BY <1>1, <2>1 DEF Inductive, MarksPosted
  <2>5. n \in DOMAIN flush[f].page BY <1>1, <2>2, <2>3 DEF Inductive, MarksPosted
  <2>6. j = n BY <1>1, <2>4, <2>5 DEF Inductive, MarksPosted, IsInjective
  <2>7. i \in 1..flush[f].sent BY <2>1, <2>2, <2>3, <2>6
  <2>8. QED BY <1>1, <2>7 DEF Inductive, MarksPosted
<1>2. QED BY <1>1, InductiveHolds, PTL

(* The three queries of a bundle see what is committed by then, the events last, so the
   bundle holds the event of whatever else it shows (build_audit_bundle). *)
THEOREM BundleCausal == Spec => []BundleIsCausal
<1>1. Inductive => BundleIsCausal BY DEF Inductive, BundleShowsLog, BundleIsCausal
<1>2. QED BY <1>1, InductiveHolds, PTL

(* A bundle of some days holds no run of another day, and misses of its own only those of
   the last second (23:59:59.000000). *)
THEOREM BundleDays == Spec => []BundleMeetsItsDays
<1>1. ASSUME Inductive PROVE BundleMeetsItsDays
  <2>1. SUFFICES ASSUME NEW b \in Bundles
                 PROVE  /\ \A k \in bundle[b].runs : DayOf(k) \in bundle[b].from..bundle[b].to
                        /\ \A k \in bundle[b].missed :
                              DayOf(k) \in bundle[b].from..bundle[b].to =>
                                  InLastSecond(k) /\ DayOf(k) = bundle[b].to
    BY DEF BundleMeetsItsDays
  <2>2. /\ bundle[b].from \in Nat /\ bundle[b].to \in Nat
        /\ bundle[b].runs \subseteq Runs /\ bundle[b].missed \subseteq Runs
    BY <1>1 DEF Inductive, BundleTyped, Bundle, Days
  <2>3. \A k \in Runs : Instant(k) \in Nat
    BY <1>1 DEF Inductive, TrailTyped, Instant, Decided, Events
  <2>4. \A t, from, to \in Nat : t \in (3 * from)..(3 * to + 1) => t \div 3 \in from..to
    OBVIOUS
  <2>5. \A t, from, to \in Nat :
            t \notin (3 * from)..(3 * to + 1) /\ t \div 3 \in from..to =>
                t % 3 = 2 /\ t \div 3 = to
    OBVIOUS
  <2>6. \A k \in bundle[b].runs : Instant(k) \in (3 * bundle[b].from)..(3 * bundle[b].to + 1)
    BY <1>1 DEF Inductive, BundleAskedDays, InPeriod
  <2>7. \A k \in bundle[b].missed :
            Instant(k) \notin (3 * bundle[b].from)..(3 * bundle[b].to + 1)
    BY <1>1 DEF Inductive, BundleAskedDays, InPeriod
  <2>8. \A k \in bundle[b].runs : DayOf(k) \in bundle[b].from..bundle[b].to
    BY <2>2, <2>3, <2>4, <2>6 DEF DayOf
  <2>9. \A k \in bundle[b].missed :
            DayOf(k) \in bundle[b].from..bundle[b].to => InLastSecond(k) /\ DayOf(k) = bundle[b].to
    <3>1. SUFFICES ASSUME NEW k \in bundle[b].missed, DayOf(k) \in bundle[b].from..bundle[b].to
                   PROVE  InLastSecond(k) /\ DayOf(k) = bundle[b].to
      OBVIOUS
    <3>2. Instant(k) \in Nat /\ Instant(k) \div 3 \in bundle[b].from..bundle[b].to
      BY <2>2, <2>3, <3>1 DEF DayOf
    <3>3. QED BY <2>2, <2>5, <2>7, <3>2 DEF DayOf, InLastSecond
  <2>10. QED BY <2>8, <2>9
<1>2. QED BY <1>1, InductiveHolds, PTL
=============================================================================
