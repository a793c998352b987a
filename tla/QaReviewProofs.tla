----------------------------- MODULE QaReviewProofs -----------------------------
(***************************************************************************)
(* Proofs about QaReview, for every set of tickets, files and requests:    *)
(* the types, and the four promises of its tables.                         *)
(*                                                                         *)
(* They have one argument.  A request that is about something has read     *)
(* what the table said of it, and unless another request about the same    *)
(* thing was in flight at some time, which raced records (Exclusive), the  *)
(* table says so still when the request writes.  Each promise has its own  *)
(* invariant, of what a request has read (ProposalsOK, VerdictsOK,         *)
(* RepliesOK, TicketsOK).                                                  *)
(***************************************************************************)
EXTENDS QaReview, FiniteSetTheorems, SequenceTheorems, TLAPS

-----------------------------------------------------------------------------
(* What every request is about, and where it may be.                       *)

Receives(q) == q.op \in {"upload", "sync"}

ShapeOK(q) ==
  /\ q.op = "none" => q = Idle
  /\ Receives(q) =>
       /\ q.at \in {"readTapped", "fill"}
       /\ q.topic \subseteq {Ticket(t) : t \in Tickets}
       /\ IsFiniteSet(q.todo)
       /\ \A t \in q.todo : Ticket(t) \in q.topic
  /\ q.op = "tap" =>
       /\ q.at \in {"create", "remove"}
       /\ q.ticket \in Tickets
       /\ q.topic = {Ticket(q.ticket)}
       /\ q.id # None => q.id \in DOMAIN pending /\ pending[q.id].ticket = q.ticket
  /\ q.op = "history" =>
       /\ q.at \in {"find", "put", "clean"}
       /\ q.topic \subseteq {Ticket(t) : t \in Tickets}
       /\ \A t \in q.todo : Ticket(t) \in q.topic
       /\ q.at # "find" => q.ticket \in Tickets /\ Ticket(q.ticket) \in q.topic
       /\ q.at = "put" => q.id \in (DOMAIN tapping) \union {None}
  /\ q.op = "propose" =>
       /\ q.at \in {"check", "write"}
       /\ q.id \in DOMAIN tapping
       /\ q.topic = {Proposal(q.id)}
  /\ q.op \in {"approve", "reject"} =>
       /\ q.at \in {"score", "verdict"}
       /\ q.at = "score" => q.op = "approve"
       /\ q.op = "approve" => q.id \in judged
       /\ q.id \in DOMAIN rekon
       /\ q.topic = {Verdict(q.id)}
  /\ q.op = "reply" =>
       /\ q.at = "write"
       /\ q.id \in DOMAIN rekon
       /\ q.topic = {Talk(q.id)}
ShapesOK == \A r \in Requests : ShapeOK(req[r])

\* Every overlap is recorded.
Exclusive ==
  \A r, s \in Requests : r # s => req[r].topic \intersect req[s].topic \subseteq raced

Base == TypeOK /\ ShapesOK /\ Exclusive

-----------------------------------------------------------------------------
(* OnePendingRekon: who is about to write a proposal has seen none.        *)

ProposalsOK ==
  \A f \in DOMAIN tapping :
    Proposal(f) \notin raced =>
      /\ \A j, k \in PendingRekons(f) : j = k
      /\ \A r \in Requests :
           req[r].op = "propose" /\ req[r].id = f /\ req[r].at = "write" => PendingRekons(f) = {}

\* ScoresFollowVerdict: scores that were proposed are in the tapping they were proposed
\* for, and were to be approved.
Has(k) == tapping[rekon[k].tapping].scores = k
ScoresOK ==
  \A f \in DOMAIN tapping :
    LET k == tapping[f].scores IN k # None => k \in judged /\ rekon[k].tapping = f

\* Who is about to give a verdict is the only one.
VerdictOK(k) ==
  /\ rekon[k].status = "APPROVED" => Has(k) \/ k \in replaced
  /\ Has(k) /\ rekon[k].live =>
       \/ rekon[k].status = "APPROVED"
       \/ \E r \in Requests : req[r].op = "approve" /\ req[r].at = "verdict" /\ req[r].id = k
  /\ \A r \in Requests :
       req[r].id = k =>
         /\ req[r].op = "reject" => k \notin judged
         /\ req[r].op = "approve" /\ req[r].at = "verdict" => Has(k) \/ k \in replaced
VerdictsOK == \A k \in DOMAIN rekon : Verdict(k) \notin raced => VerdictOK(k)

\* RepliesKept: who is about to write a discussion has read what it says.
SaidOf(k) == {x \in said : x[1] = k}
RepliesOK ==
  \A k \in DOMAIN rekon :
    Talk(k) \notin raced =>
      /\ SaidOf(k) = {k} \X rekon[k].talk
      /\ \A r \in Requests :
           req[r].op = "reply" /\ req[r].id = k => rekon[k].talk \subseteq req[r].talk

-----------------------------------------------------------------------------
(* PendingOrTapped: a ticket is settled, or the one request about it is    *)
(* between tapping it and removing its row.                                *)

Waits(t) == \A p, q \in RowsOf(t) : p = q
Settled(t) == Waits(t) /\ (RowsOf(t) # {} /\ t \in Tapped => t \in left)

Midway(q, t) ==
  \/ q.op = "tap" /\ q.at = "remove" /\ q.ticket = t
  \/ q.op = "history" /\ q.at = "clean" /\ q.ticket = t

\* What the one request about t has read of it.
HasRead(q, t) ==
  /\ Receives(q) /\ t \in q.todo => RowsOf(t) = {} /\ (q.at = "fill" => t \notin Tapped)
  /\ q.op = "tap" /\ q.at = "remove" /\ q.ticket = t => RowsOf(t) \subseteq {q.id} \/ t \in left

TicketOK(t) ==
  /\ Waits(t)
  /\ \A r \in Requests : Ticket(t) \in req[r].topic => HasRead(req[r], t)
  /\ Settled(t) \/ \E r \in Requests : Ticket(t) \in req[r].topic /\ Midway(req[r], t)

TicketsOK == \A t \in Tickets : Ticket(t) \notin raced => TicketOK(t)

-----------------------------------------------------------------------------
(* Sets and tables.                                                        *)

LEMMA AtMostOne ==
  ASSUME NEW S, \A x, y \in S : x = y
  PROVE  Cardinality(S) <= 1
<1>1. CASE S = {}
  BY <1>1, FS_EmptySet
<1>2. CASE S # {}
  <2>1. PICK x : S = {x}
    BY <1>2
  <2>2. QED
    BY <2>1, FS_Singleton
<1>3. QED
  BY <1>1, <1>2

PendingRow == [ticket : Tickets, timed : BOOLEAN, live : BOOLEAN]
TappingRow == [ticket : Tickets, scores : (DOMAIN rekon) \union {None}, live : BOOLEAN]
RekonRow == [tapping : DOMAIN tapping, status : {"PENDING", "APPROVED", "REJECTED"},
             talk : SUBSET Nat, live : BOOLEAN]

\* A row that is deleted stays where it is.
LEMMA DeleteFacts ==
  ASSUME NEW Rows, NEW table \in Seq(Rows), NEW S,
         \A row \in Rows : [row EXCEPT !.live = FALSE] \in Rows
  PROVE  /\ Delete(table, S) \in Seq(Rows)
         /\ DOMAIN Delete(table, S) = DOMAIN table
         /\ \A n \in DOMAIN table :
              Delete(table, S)[n] = IF n \in S THEN [table[n] EXCEPT !.live = FALSE] ELSE table[n]
<1>1. /\ DOMAIN table = 1..Len(table) /\ Len(table) \in Nat
      /\ \A n \in DOMAIN table : table[n] \in Rows
  OBVIOUS
<1>2. Delete(table, S) \in [1..Len(table) -> Rows]
  BY <1>1 DEF Delete
<1>3. Delete(table, S) \in Seq(Rows)
  BY <1>1, <1>2
<1>4. QED
  BY <1>3 DEF Delete

LEMMA AppendFacts ==
  ASSUME NEW Rows, NEW table \in Seq(Rows), NEW row \in Rows
  PROVE  /\ Append(table, row) \in Seq(Rows)
         /\ Len(table) + 1 \notin DOMAIN table
         /\ DOMAIN Append(table, row) = (DOMAIN table) \union {Len(table) + 1}
         /\ Append(table, row)[Len(table) + 1] = row
         /\ \A n \in DOMAIN table : Append(table, row)[n] = table[n]
OBVIOUS

LEMMA ExceptFacts ==
  ASSUME NEW Rows, NEW table \in Seq(Rows), NEW n \in DOMAIN table, NEW row \in Rows
  PROVE  /\ [table EXCEPT ![n] = row] \in Seq(Rows)
         /\ DOMAIN [table EXCEPT ![n] = row] = DOMAIN table
         /\ [table EXCEPT ![n] = row][n] = row
         /\ \A m \in DOMAIN table : m # n => [table EXCEPT ![n] = row][m] = table[m]
OBVIOUS

\* createMany of a batch: a new row for each of its tickets, and for no other.
LEMMA InsertFacts ==
  ASSUME NEW Rows, NEW table \in Seq(Rows), NEW B, IsFiniteSet(B), NEW s \in Listings(B),
         NEW new \in [DOMAIN s -> Rows]
  PROVE  /\ table \o new \in Seq(Rows)
         /\ DOMAIN table \subseteq DOMAIN (table \o new)
         /\ \A n \in DOMAIN table : (table \o new)[n] = table[n]
         /\ \A n \in DOMAIN (table \o new) :
              n \notin DOMAIN table =>
                n - Len(table) \in DOMAIN s /\ (table \o new)[n] = new[n - Len(table)]
<1>1. Cardinality(B) \in Nat
  BY FS_CardinalityType
<1>2. s \in [1..Cardinality(B) -> B]
  BY DEF Listings
<1>3. new \in Seq(Rows)
  BY <1>1, <1>2
<1>4. Len(new) = Cardinality(B) /\ DOMAIN s = 1..Len(new)
  BY <1>1, <1>2, <1>3
<1>5. QED
  BY <1>3, <1>4

-----------------------------------------------------------------------------
(* Topics.                                                                 *)

LEMMA TopicFacts ==
  /\ \A t \in Tickets : Ticket(t) \in Topics
  /\ \A n \in Nat \ {0} : Proposal(n) \in Topics /\ Talk(n) \in Topics /\ Verdict(n) \in Topics
BY DEF Ticket, Proposal, Talk, Verdict, Topics

LEMMA TopicsApart ==
  /\ \A x, y : Ticket(x) # Proposal(y) /\ Ticket(x) # Talk(y) /\ Ticket(x) # Verdict(y)
  /\ \A x, y : Proposal(x) # Talk(y) /\ Proposal(x) # Verdict(y) /\ Talk(x) # Verdict(y)
  /\ \A x, y : Ticket(x) = Ticket(y) => x = y
  /\ \A x, y : Proposal(x) = Proposal(y) => x = y
  /\ \A x, y : Talk(x) = Talk(y) => x = y
  /\ \A x, y : Verdict(x) = Verdict(y) => x = y
<1>1. \A x, y : Ticket(x)[1] = "ticket" /\ Proposal(x)[1] = "proposal" /\ Talk(x)[1] = "talk"
                /\ Verdict(x)[1] = "verdict"
  BY DEF Ticket, Proposal, Talk, Verdict
<1>2. \A x : Ticket(x)[2] = x /\ Proposal(x)[2] = x /\ Talk(x)[2] = x /\ Verdict(x)[2] = x
  BY DEF Ticket, Proposal, Talk, Verdict
<1>3. \A x, y : Ticket(x) # Proposal(y) /\ Ticket(x) # Talk(y) /\ Ticket(x) # Verdict(y)
  BY <1>1
<1>4. \A x, y : Proposal(x) # Talk(y) /\ Proposal(x) # Verdict(y) /\ Talk(x) # Verdict(y)
  BY <1>1
<1>5. QED
  BY <1>2, <1>3, <1>4

LEMMA RacesRecorded ==
  ASSUME NEW topic, NEW s \in Requests
  PROVE  topic \intersect req[s].topic \subseteq Races(topic)
BY DEF Races

-----------------------------------------------------------------------------
(* What every step does: the tables grow and requests move one at a time.  *)

TablesOK == pending \in Seq(PendingRow) /\ tapping \in Seq(TappingRow) /\ rekon \in Seq(RekonRow)

RestOK ==
  /\ TablesOK
  /\ started \in 0..MaxRequests
  /\ replaced \subseteq DOMAIN rekon
  /\ said \subseteq (DOMAIN rekon) \X Nat
  /\ raced \subseteq Topics
  /\ left \subseteq Tickets
  /\ judged \subseteq DOMAIN rekon

Grows ==
  /\ DOMAIN pending \subseteq DOMAIN pending'
  /\ \A p \in DOMAIN pending : pending'[p].ticket = pending[p].ticket
  /\ DOMAIN tapping \subseteq DOMAIN tapping'
  /\ DOMAIN rekon \subseteq DOMAIN rekon'
  /\ judged \subseteq judged'
  /\ raced \subseteq raced'

LEMMA TypeParts ==
  TypeOK <=> RestOK /\ req \in [Requests -> Request]
BY DEF TypeOK, RestOK, TablesOK, PendingRow, TappingRow, RekonRow

LEMMA Indices ==
  ASSUME TablesOK
  PROVE  /\ DOMAIN pending \subseteq Nat \ {0}
         /\ DOMAIN tapping \subseteq Nat \ {0}
         /\ DOMAIN rekon \subseteq Nat \ {0}
         /\ \A p \in DOMAIN pending : pending[p] \in PendingRow
         /\ \A f \in DOMAIN tapping : tapping[f] \in TappingRow
         /\ \A k \in DOMAIN rekon : rekon[k] \in RekonRow
<1>1. DOMAIN pending = 1..Len(pending) /\ DOMAIN tapping = 1..Len(tapping) /\ DOMAIN rekon = 1..Len(rekon)
  BY DEF TablesOK
<1>2. QED
  BY <1>1 DEF TablesOK

\* A request that does not move keeps its shape.
LEMMA ShapeKept ==
  ASSUME Grows, NEW s \in Requests, req'[s] = req[s], ShapeOK(req[s])
  PROVE  ShapeOK(req[s])'
<1>1. CASE req[s].op = "none"
  BY <1>1 DEF ShapeOK, Receives, Idle
<1>2. CASE req[s].op \in {"upload", "sync", "tap", "history"}
  BY <1>2 DEF ShapeOK, Receives, Grows, Idle, Ticket
<1>3. CASE req[s].op \in {"propose", "approve", "reject", "reply"}
  BY <1>3 DEF ShapeOK, Receives, Grows, Idle, Proposal, Verdict, Talk
<1>4. CASE req[s].op \notin {"none", "upload", "sync", "tap", "history", "propose", "approve",
                             "reject", "reply"}
  BY <1>4 DEF ShapeOK, Receives
<1>5. QED
  BY <1>1, <1>2, <1>3, <1>4

LEMMA RequestGrows ==
  ASSUME Grows
  PROVE  Request \subseteq Request'
BY DEF Grows, Request, Topics

LEMMA BaseMoves ==
  ASSUME Base, Grows, RestOK', NEW r \in Requests, NEW q, req' = [req EXCEPT ![r] = q],
         q \in Request', ShapeOK(req[r])',
         \A s \in Requests \ {r} : q.topic \intersect req[s].topic \subseteq raced'
  PROVE  Base'
<1>1. req \in [Requests -> Request] /\ Request \subseteq Request'
  BY TypeParts, RequestGrows DEF Base
<1>2. req'[r] = q /\ \A s \in Requests \ {r} : req'[s] = req[s]
  BY <1>1
<1>3. req' \in [Requests -> Request']
  BY <1>1
<1>4. TypeOK'
  BY <1>3, TypeParts DEF TypeOK, RestOK, TablesOK, PendingRow, TappingRow, RekonRow
<1>5. ShapesOK'
  <2>1. ASSUME NEW s \in Requests \ {r} PROVE ShapeOK(req[s])'
    BY <1>2, ShapeKept DEF Base, ShapesOK
  <2>2. QED
    BY <2>1 DEF ShapesOK
<1>6. Exclusive'
  <2>1. SUFFICES ASSUME NEW s \in Requests, NEW u \in Requests, s # u
                 PROVE  req'[s].topic \intersect req'[u].topic \subseteq raced'
    BY DEF Exclusive
  <2>2. CASE s # r /\ u # r
    BY <1>2, <2>1, <2>2 DEF Base, Exclusive, Grows
  <2>3. CASE s = r \/ u = r
    BY <1>2, <2>1, <2>3
  <2>4. QED
    BY <2>2, <2>3
<1>7. QED
  BY <1>4, <1>5, <1>6 DEF Base

LEMMA BaseStays ==
  ASSUME Base, Grows, RestOK', UNCHANGED req
  PROVE  Base'
<1>1. req \in [Requests -> Request] /\ Request \subseteq Request'
  BY TypeParts, RequestGrows DEF Base
<1>2. TypeOK'
  BY <1>1, TypeParts DEF TypeOK, RestOK, TablesOK, PendingRow, TappingRow, RekonRow
<1>3. ShapesOK'
  <2>1. ASSUME NEW s \in Requests PROVE ShapeOK(req[s])'
    BY ShapeKept DEF Base, ShapesOK
  <2>2. QED
    BY <2>1 DEF ShapesOK
<1>4. Exclusive'
  BY DEF Base, Exclusive, Grows
<1>5. QED
  BY <1>2, <1>3, <1>4 DEF Base

\* A request that ends.
LEMMA BaseLeaves ==
  ASSUME Base, Grows, RestOK', NEW r \in Requests, Leave(r)
  PROVE  Base'
<1>1. req' = [req EXCEPT ![r] = Idle]
  BY DEF Leave
<1>2. Idle \in Request'
  BY DEF Idle, Request
<1>3. req'[r] = Idle
  BY <1>1, TypeParts DEF Base
<1>4. ShapeOK(req[r])'
  BY <1>3 DEF ShapeOK, Idle, Receives
<1>5. Idle.topic = {}
  BY DEF Idle
<1>6. QED
  BY <1>1, <1>2, <1>4, <1>5, BaseMoves

\* A request that goes on about the same.
LEMMA BaseGoesOn ==
  ASSUME Base, Grows, RestOK', NEW r \in Requests, NEW q, Goto(r, q),
         q \in Request', ShapeOK(req[r])', q.topic = req[r].topic
  PROVE  Base'
<1>1. req' = [req EXCEPT ![r] = q]
  BY DEF Goto
<1>2. \A s \in Requests \ {r} : q.topic \intersect req[s].topic \subseteq raced'
  BY DEF Base, Exclusive, Grows
<1>3. QED
  BY <1>1, <1>2, BaseMoves

LEMMA BaseStarts ==
  ASSUME Base, NEW r \in Requests, NEW q, Start(r, q), q \in Request, ShapeOK(req[r])',
         raced \subseteq raced', raced' \subseteq Topics, left' = left,
         judged \subseteq judged', judged' \subseteq DOMAIN rekon,
         \A s \in Requests \ {r} : q.topic \intersect req[s].topic \subseteq raced'
  PROVE  Base'
<1>1. /\ req' = [req EXCEPT ![r] = q] /\ started < MaxRequests /\ started' = started + 1
      /\ UNCHANGED <<pending, tapping, rekon, replaced, said>>
  BY DEF Start, Count, tables
<1>2. Grows
  BY <1>1 DEF Grows
<1>3. RestOK'
  <2>1. RestOK
    BY TypeParts DEF Base
  <2>2. started' \in 0..MaxRequests
    BY <1>1, <2>1, QaReviewAssumption DEF RestOK, QaReviewAssumption
  <2>3. TablesOK'
    BY <1>1, <2>1 DEF RestOK, TablesOK, PendingRow, TappingRow, RekonRow
  <2>4. QED
    BY <1>1, <2>1, <2>2, <2>3 DEF RestOK, Topics
<1>4. q \in Request'
  BY <1>2, RequestGrows
<1>5. QED
  BY <1>1, <1>2, <1>3, <1>4, BaseMoves

\* The request is in place, as it was started.
LEMMA Started ==
  ASSUME Base, NEW r \in Requests, NEW q, Start(r, q)
  PROVE  /\ req'[r] = q /\ \A s \in Requests \ {r} : req'[s] = req[s]
         /\ req[r] = Idle
         /\ UNCHANGED <<pending, tapping, rekon, replaced, said>>
BY TypeParts DEF Start, Count, tables, Base

LEMMA RacesInTopics ==
  ASSUME Base, NEW topic, topic \subseteq Topics
  PROVE  Races(topic) \subseteq Topics /\ raced \subseteq Topics /\ judged \subseteq DOMAIN rekon
BY TypeParts DEF Base, RestOK, Races

-----------------------------------------------------------------------------
(* The steps, and what each keeps of the base.                             *)

LEMMA ReceiveBase ==
  ASSUME Base, NEW r \in Requests, NEW op \in {"upload", "sync"}, NEW S \in Files,
         NEW timed \in SUBSET Tickets, Receive(r, op, S, timed)
  PROVE  Base'
<1> DEFINE rows == UNION {RowsOf(t) : t \in S}
           topic == {Ticket(t) : t \in S}
           todo == {t \in S : RowsOf(t) = {}}
           fill == {p \in First(rows) : ~pending[p].timed /\ pending[p].ticket \in timed}
           q == [Idle EXCEPT !.op = op, !.at = "readTapped", !.topic = topic, !.todo = todo,
                             !.fill = fill, !.timed = timed]
<1>1. Start(r, q) /\ raced' = raced \union Races(topic) /\ judged' = judged /\ left' = left
  BY DEF Receive
<1>2. S \subseteq Tickets /\ IsFiniteSet(S) /\ IsFiniteSet(todo)
  BY QaReviewAssumption, FS_Subset DEF QaReviewAssumption
<1>3. topic \subseteq Topics /\ topic \subseteq {Ticket(t) : t \in Tickets}
  BY <1>2, TopicFacts
<1>4. fill \subseteq DOMAIN pending
  BY DEF First, RowsOf, Live
<1>5. todo \subseteq S /\ \A t \in todo : Ticket(t) \in topic
  OBVIOUS
<1> HIDE DEF topic, todo, fill, rows
<1>6. /\ q.op = op /\ q.at = "readTapped" /\ q.topic = topic /\ q.todo = todo
      /\ q.id = None /\ q.ticket = None /\ q.timed = timed /\ q.fill = fill /\ q.talk = {}
      /\ DOMAIN q = DOMAIN Idle
  BY DEF Idle
<1>7. q \in Request
  BY <1>2, <1>3, <1>4, <1>5 DEF Request, Idle
<1> HIDE DEF q
<1>8. req'[r] = q
  BY <1>1, Started
<1>9. ShapeOK(req[r])'
  BY <1>2, <1>3, <1>5, <1>6, <1>8 DEF ShapeOK, Receives, Idle
<1>10. raced' \subseteq Topics /\ judged \subseteq DOMAIN rekon
  BY <1>1, <1>3, RacesInTopics
<1>11. \A s \in Requests \ {r} : q.topic \intersect req[s].topic \subseteq raced'
  BY <1>1, <1>6, RacesRecorded
<1>12. QED
  BY <1>1, <1>7, <1>9, <1>10, <1>11, BaseStarts

LEMMA HistoryBase ==
  ASSUME Base, NEW r \in Requests, NEW S \in Files, UploadHistoryTapping(r, S)
  PROVE  Base'
<1> DEFINE topic == {Ticket(t) : t \in S}
           q == [Idle EXCEPT !.op = "history", !.at = "find", !.topic = topic, !.todo = S]
<1>1. Start(r, q) /\ raced' = raced \union Races(topic) /\ judged' = judged /\ left' = left
  BY DEF UploadHistoryTapping
<1>2. S \subseteq Tickets
  BY QaReviewAssumption DEF QaReviewAssumption
<1>3. topic \subseteq Topics /\ topic \subseteq {Ticket(t) : t \in Tickets}
  BY <1>2, TopicFacts
<1>4. \A t \in S : Ticket(t) \in topic
  OBVIOUS
<1> HIDE DEF topic
<1>5. /\ q.op = "history" /\ q.at = "find" /\ q.topic = topic /\ q.todo = S
      /\ q.id = None /\ q.ticket = None /\ q.timed = {} /\ q.fill = {} /\ q.talk = {}
      /\ DOMAIN q = DOMAIN Idle
  BY DEF Idle
<1>6. q \in Request
  BY <1>2, <1>3 DEF Request, Idle
<1> HIDE DEF q
<1>7. req'[r] = q
  BY <1>1, Started
<1>8. ShapeOK(req[r])'
  BY <1>2, <1>3, <1>4, <1>5, <1>7 DEF ShapeOK, Receives, Idle
<1>9. raced' \subseteq Topics /\ judged \subseteq DOMAIN rekon
  BY <1>1, <1>3, RacesInTopics
<1>10. \A s \in Requests \ {r} : q.topic \intersect req[s].topic \subseteq raced'
  BY <1>1, <1>5, RacesRecorded
<1>11. QED
  BY <1>1, <1>6, <1>8, <1>9, <1>10, BaseStarts

LEMMA CreateFormTappingBase ==
  ASSUME Base, NEW r \in Requests, NEW t \in Tickets,
         NEW p \in {n \in DOMAIN pending : pending[n].ticket = t} \union {None},
         CreateFormTapping(r, t, p)
  PROVE  Base'
<1> DEFINE topic == {Ticket(t)}
           q == [Idle EXCEPT !.op = "tap", !.at = "create", !.topic = topic, !.ticket = t, !.id = p]
<1>1. Start(r, q) /\ raced' = raced \union Races(topic) /\ judged' = judged /\ left' = left
  BY DEF CreateFormTapping
<1>2. topic \subseteq Topics
  BY TopicFacts
<1>3. p \in Nat \union {None}
  BY Indices, TypeParts DEF Base, RestOK
<1>4. /\ q.op = "tap" /\ q.at = "create" /\ q.topic = topic /\ q.todo = {}
      /\ q.id = p /\ q.ticket = t /\ q.timed = {} /\ q.fill = {} /\ q.talk = {}
      /\ DOMAIN q = DOMAIN Idle
  BY DEF Idle
<1>5. q \in Request
  BY <1>2, <1>3 DEF Request, Idle
<1> HIDE DEF q
<1>6. req'[r] = q /\ pending' = pending
  BY <1>1, Started
<1>7. ShapeOK(req[r])'
  BY <1>4, <1>6 DEF ShapeOK, Receives, Idle
<1>8. raced' \subseteq Topics /\ judged \subseteq DOMAIN rekon
  BY <1>1, <1>2, RacesInTopics
<1>9. \A s \in Requests \ {r} : q.topic \intersect req[s].topic \subseteq raced'
  BY <1>1, <1>4, RacesRecorded
<1>10. QED
  BY <1>1, <1>5, <1>7, <1>8, <1>9, BaseStarts

LEMMA ProposeBase ==
  ASSUME Base, NEW r \in Requests, NEW f \in DOMAIN tapping, Propose(r, f)
  PROVE  Base'
<1> DEFINE topic == {Proposal(f)}
           q == [Idle EXCEPT !.op = "propose", !.at = "check", !.topic = topic, !.id = f]
<1>1. Start(r, q) /\ raced' = raced \union Races(topic) /\ judged' = judged /\ left' = left
  BY DEF Propose
<1>2. f \in Nat \ {0}
  BY Indices, TypeParts DEF Base, RestOK
<1>3. topic \subseteq Topics
  BY <1>2, TopicFacts
<1>4. /\ q.op = "propose" /\ q.at = "check" /\ q.topic = topic /\ q.todo = {}
      /\ q.id = f /\ q.ticket = None /\ q.timed = {} /\ q.fill = {} /\ q.talk = {}
      /\ DOMAIN q = DOMAIN Idle
  BY DEF Idle
<1>5. q \in Request
  BY <1>2, <1>3 DEF Request, Idle
<1> HIDE DEF q
<1>6. req'[r] = q /\ tapping' = tapping
  BY <1>1, Started
<1>7. ShapeOK(req[r])'
  BY <1>4, <1>6 DEF ShapeOK, Receives, Idle
<1>8. raced' \subseteq Topics /\ judged \subseteq DOMAIN rekon
  BY <1>1, <1>3, RacesInTopics
<1>9. \A s \in Requests \ {r} : q.topic \intersect req[s].topic \subseteq raced'
  BY <1>1, <1>4, RacesRecorded
<1>10. QED
  BY <1>1, <1>5, <1>7, <1>8, <1>9, BaseStarts

LEMMA ReplyBase ==
  ASSUME Base, NEW r \in Requests, NEW k \in DOMAIN rekon, Reply(r, k)
  PROVE  Base'
<1> DEFINE topic == {Talk(k)}
           talk == rekon[k].talk \union {started + 1}
           q == [Idle EXCEPT !.op = "reply", !.at = "write", !.topic = topic, !.id = k, !.talk = talk]
<1>1. Start(r, q) /\ raced' = raced \union Races(topic) /\ judged' = judged /\ left' = left
  BY DEF Reply
<1>2. k \in Nat \ {0} /\ talk \subseteq Nat
  BY Indices, TypeParts DEF Base, RestOK, RekonRow
<1>3. topic \subseteq Topics
  BY <1>2, TopicFacts
<1> HIDE DEF talk
<1>4. /\ q.op = "reply" /\ q.at = "write" /\ q.topic = topic /\ q.todo = {}
      /\ q.id = k /\ q.ticket = None /\ q.timed = {} /\ q.fill = {} /\ q.talk = talk
      /\ DOMAIN q = DOMAIN Idle
  BY DEF Idle
<1>5. q \in Request
  BY <1>2, <1>3 DEF Request, Idle
<1> HIDE DEF q
<1>6. req'[r] = q /\ rekon' = rekon
  BY <1>1, Started
<1>7. ShapeOK(req[r])'
  BY <1>4, <1>6 DEF ShapeOK, Receives, Idle
<1>8. raced' \subseteq Topics /\ judged \subseteq DOMAIN rekon
  BY <1>1, <1>3, RacesInTopics
<1>9. \A s \in Requests \ {r} : q.topic \intersect req[s].topic \subseteq raced'
  BY <1>1, <1>4, RacesRecorded
<1>10. QED
  BY <1>1, <1>5, <1>7, <1>8, <1>9, BaseStarts

\* A verdict that is asked for while another is in flight is recorded.
LEMMA JudgeStarts ==
  ASSUME Base, NEW r \in Requests, NEW k \in DOMAIN rekon, Approve(r, k) \/ Reject(r, k)
  PROVE  \E q \in Request :
           /\ Start(r, q) /\ left' = left
           /\ q.op \in {"approve", "reject"} /\ q.at = IF q.op = "approve" THEN "score" ELSE "verdict"
           /\ q.id = k /\ q.topic = {Verdict(k)}
           /\ judged' = IF q.op = "approve" THEN judged \union {k} ELSE judged
           /\ raced \union Races({Verdict(k)}) \subseteq raced'
           /\ raced' \subseteq raced \union {Verdict(k)}
           /\ q.op = "reject" /\ k \in judged => Verdict(k) \in raced'
<1>1. PICK op \in {"approve", "reject"}, at \in {"score", "verdict"} :
        /\ Judge(r, op, k, at) /\ at = IF op = "approve" THEN "score" ELSE "verdict"
        /\ judged' = IF op = "approve" THEN judged \union {k} ELSE judged
        /\ \/ raced' = raced \union Races({Verdict(k)}) /\ (op = "reject" => k \notin judged)
           \/ raced' = raced \union {Verdict(k)}
  <2>1. CASE Approve(r, k)
    BY <2>1 DEF Approve
  <2>2. CASE Reject(r, k)
    BY <2>2 DEF Reject
  <2>3. QED
    BY <2>1, <2>2
<1> DEFINE topic == {Verdict(k)}
           talk == rekon[k].talk
           q == [Idle EXCEPT !.op = op, !.at = at, !.topic = topic, !.id = k, !.talk = talk]
<1>2. Start(r, q) /\ left' = left
  BY <1>1 DEF Judge
<1>3. k \in Nat \ {0} /\ talk \subseteq Nat
  BY Indices, TypeParts DEF Base, RestOK, RekonRow
<1>4. topic \subseteq Topics /\ Races(topic) \subseteq {Verdict(k)}
  BY <1>3, TopicFacts DEF Races
<1> HIDE DEF talk
<1>5. /\ q.op = op /\ q.at = at /\ q.topic = topic /\ q.todo = {}
      /\ q.id = k /\ q.ticket = None /\ q.timed = {} /\ q.fill = {} /\ q.talk = talk
      /\ DOMAIN q = DOMAIN Idle
  BY DEF Idle
<1>6. q \in Request
  BY <1>3, <1>4 DEF Request, Idle
<1> HIDE DEF q
<1>7. QED
  BY <1>1, <1>2, <1>4, <1>5, <1>6

LEMMA JudgeBase ==
  ASSUME Base, NEW r \in Requests, NEW k \in DOMAIN rekon, Approve(r, k) \/ Reject(r, k)
  PROVE  Base'
<1>1. PICK q \in Request :
        /\ Start(r, q) /\ left' = left
        /\ q.op \in {"approve", "reject"} /\ q.at = IF q.op = "approve" THEN "score" ELSE "verdict"
        /\ q.id = k /\ q.topic = {Verdict(k)}
        /\ judged' = IF q.op = "approve" THEN judged \union {k} ELSE judged
        /\ raced \union Races({Verdict(k)}) \subseteq raced'
        /\ raced' \subseteq raced \union {Verdict(k)}
  BY JudgeStarts
<1>2. Verdict(k) \in Topics /\ raced \subseteq Topics /\ judged \subseteq DOMAIN rekon
  BY Indices, TopicFacts, TypeParts DEF Base, RestOK
<1>3. req'[r] = q /\ rekon' = rekon
  BY <1>1, Started
<1>4. ShapeOK(req[r])'
  BY <1>1, <1>3 DEF ShapeOK, Receives, Idle
<1>5. raced' \subseteq Topics /\ judged' \subseteq DOMAIN rekon
  BY <1>1, <1>2
<1>6. \A s \in Requests \ {r} : q.topic \intersect req[s].topic \subseteq raced'
  BY <1>1, RacesRecorded
<1>7. QED
  BY <1>1, <1>4, <1>5, <1>6, BaseStarts

LEMMA Mine ==
  ASSUME Base, NEW r \in Requests
  PROVE  req[r] \in Request /\ ShapeOK(req[r])
BY TypeParts DEF Base, ShapesOK

LEMMA WentOn ==
  ASSUME Base, NEW r \in Requests, NEW q, Goto(r, q)
  PROVE  req'[r] = q /\ \A s \in Requests \ {r} : req'[s] = req[s]
BY TypeParts DEF Base, Goto

LEMMA HasLeft ==
  ASSUME Base, NEW r \in Requests, Leave(r)
  PROVE  req'[r] = Idle /\ \A s \in Requests \ {r} : req'[s] = req[s]
BY TypeParts DEF Base, Leave

\* The tables, when at most one of them changes.
Counts == UNCHANGED started \/ Count

LEMMA QuietTables ==
  ASSUME Base, UNCHANGED <<pending, tapping, rekon, started, said, replaced, judged>>,
         raced \subseteq raced', raced' \subseteq Topics, left' \subseteq Tickets
  PROVE  Grows /\ RestOK'
<1>1. RestOK
  BY TypeParts DEF Base
<1>2. QED
  BY <1>1 DEF Grows, RestOK, TablesOK, RekonRow, PendingRow, TappingRow, Topics

LEMMA Counted ==
  ASSUME Base, Counts
  PROVE  started' \in 0..MaxRequests
BY TypeParts, QaReviewAssumption DEF Base, RestOK, Counts, Count, QaReviewAssumption

LEMMA PendingTables ==
  ASSUME Base, pending' \in Seq(PendingRow), DOMAIN pending \subseteq DOMAIN pending',
         \A p \in DOMAIN pending : pending'[p].ticket = pending[p].ticket,
         UNCHANGED <<tapping, rekon, replaced, said, judged>>, Counts,
         raced \subseteq raced', raced' \subseteq Topics, left' \subseteq Tickets
  PROVE  Grows /\ RestOK'
<1>1. RestOK
  BY TypeParts DEF Base
<1>2. QED
  BY <1>1, Counted DEF Grows, RestOK, TablesOK, RekonRow, PendingRow, TappingRow, Topics

LEMMA TappingTables ==
  ASSUME Base, tapping' \in Seq(TappingRow), DOMAIN tapping \subseteq DOMAIN tapping',
         UNCHANGED <<pending, rekon, said, judged, raced>>, Counts,
         replaced' \subseteq DOMAIN rekon, left' \subseteq Tickets
  PROVE  Grows /\ RestOK'
<1>1. RestOK
  BY TypeParts DEF Base
<1>2. RekonRow \subseteq RekonRow'
  BY DEF RekonRow
<1>3. rekon' \in Seq(RekonRow')
  BY <1>1, <1>2, SeqMonotonic DEF RestOK, TablesOK
<1>4. TablesOK'
  BY <1>1, <1>3 DEF RestOK, TablesOK, PendingRow, TappingRow, RekonRow
<1>5. QED
  BY <1>1, <1>4, Counted DEF Grows, RestOK, Topics

LEMMA RekonTables ==
  ASSUME Base, rekon' \in Seq(RekonRow), DOMAIN rekon \subseteq DOMAIN rekon',
         UNCHANGED <<pending, tapping, replaced, left, judged, raced>>, Counts,
         said' \subseteq (DOMAIN rekon) \X Nat
  PROVE  Grows /\ RestOK'
<1>1. RestOK
  BY TypeParts DEF Base
<1>2. TappingRow \subseteq TappingRow'
  BY DEF TappingRow
<1>3. tapping' \in Seq(TappingRow')
  BY <1>1, <1>2, SeqMonotonic DEF RestOK, TablesOK
<1>4. TablesOK'
  BY <1>1, <1>3 DEF RestOK, TablesOK, PendingRow, TappingRow, RekonRow
<1>5. said' \subseteq (DOMAIN rekon') \X Nat
  OBVIOUS
<1>6. QED
  BY <1>1, <1>4, <1>5, Counted DEF Grows, RestOK, Topics

\* What is known of the tickets left waiting.
LEMMA LeavesFacts ==
  ASSUME Base, NEW S, S \subseteq Tickets, Leaves(S)
  PROVE  left' \subseteq Tickets /\ \A t \in left \union S : RowsOf(t)' # {} => t \in left'
BY TypeParts DEF Base, RestOK, Leaves

LEMMA PendingDeleted ==
  ASSUME Base, NEW S, pending' = Delete(pending, S)
  PROVE  /\ pending' \in Seq(PendingRow)
         /\ DOMAIN pending' = DOMAIN pending
         /\ \A p \in DOMAIN pending :
              /\ pending'[p].ticket = pending[p].ticket
              /\ pending'[p].live = (pending[p].live /\ p \notin S)
<1>1. TablesOK
  BY TypeParts DEF Base, RestOK
<1>2. pending \in Seq(PendingRow) /\ \A row \in PendingRow : [row EXCEPT !.live = FALSE] \in PendingRow
  BY <1>1 DEF TablesOK, PendingRow
<1>3. /\ pending' \in Seq(PendingRow)
      /\ DOMAIN pending' = DOMAIN pending
      /\ \A n \in DOMAIN pending :
           pending'[n] = IF n \in S THEN [pending[n] EXCEPT !.live = FALSE] ELSE pending[n]
  BY <1>2, DeleteFacts
<1>4. ASSUME NEW p \in DOMAIN pending
      PROVE  /\ pending'[p].ticket = pending[p].ticket
             /\ pending'[p].live = (pending[p].live /\ p \notin S)
  <2>1. pending[p] \in PendingRow
    BY <1>1, Indices
  <2>2. CASE p \in S
    BY <1>3, <2>1, <2>2 DEF PendingRow
  <2>3. CASE p \notin S
    BY <1>3, <2>1, <2>3 DEF PendingRow
  <2>4. QED
    BY <2>2, <2>3
<1>5. QED
  BY <1>3, <1>4

LEMMA TappingDeleted ==
  ASSUME Base, NEW S, tapping' = Delete(tapping, S)
  PROVE  /\ tapping' \in Seq(TappingRow)
         /\ DOMAIN tapping' = DOMAIN tapping
         /\ \A f \in DOMAIN tapping :
              /\ tapping'[f].ticket = tapping[f].ticket
              /\ tapping'[f].scores = tapping[f].scores
              /\ tapping'[f].live => tapping[f].live
<1>1. TablesOK
  BY TypeParts DEF Base, RestOK
<1>2. PICK Rows : Rows = TappingRow
  OBVIOUS
<1>3. tapping \in Seq(Rows) /\ \A row \in Rows : [row EXCEPT !.live = FALSE] \in Rows
  BY <1>1, <1>2 DEF TablesOK, TappingRow
<1>4. /\ tapping' \in Seq(TappingRow)
      /\ DOMAIN tapping' = DOMAIN tapping
      /\ \A n \in DOMAIN tapping :
           tapping'[n] = IF n \in S THEN [tapping[n] EXCEPT !.live = FALSE] ELSE tapping[n]
  BY <1>2, <1>3, DeleteFacts
<1>5. ASSUME NEW f \in DOMAIN tapping
      PROVE  /\ tapping'[f].ticket = tapping[f].ticket
             /\ tapping'[f].scores = tapping[f].scores
             /\ tapping'[f].live => tapping[f].live
  <2>1. tapping[f] \in TappingRow
    BY <1>1, Indices
  <2>2. QED
    BY <1>4, <2>1 DEF TappingRow
<1>6. QED
  BY <1>4, <1>5

\* Scores that are written replace those that were there.
LEMMA RescoreEffect ==
  ASSUME Base, NEW f \in DOMAIN tapping, NEW k \in (DOMAIN rekon) \union {None}, Rescore(f, k)
  PROVE  /\ tapping' \in Seq(TappingRow)
         /\ DOMAIN tapping' = DOMAIN tapping
         /\ \A g \in DOMAIN tapping :
              /\ tapping'[g].ticket = tapping[g].ticket
              /\ tapping'[g].live = tapping[g].live
              /\ tapping'[g].scores = IF g = f THEN k ELSE tapping[g].scores
         /\ replaced' = (replaced \union {tapping[f].scores}) \ {k, None}
         /\ replaced' \subseteq DOMAIN rekon
<1> DEFINE row == [tapping[f] EXCEPT !.scores = k]
<1>1. RestOK /\ tapping \in Seq(TappingRow) /\ \A g \in DOMAIN tapping : tapping[g] \in TappingRow
  BY TypeParts, Indices DEF Base, RestOK, TablesOK
<1>2. /\ row \in TappingRow /\ row.ticket = tapping[f].ticket /\ row.live = tapping[f].live
      /\ row.scores = k
  BY <1>1 DEF TappingRow
<1>3. tapping' = [tapping EXCEPT ![f] = row]
  BY DEF Rescore
<1> HIDE DEF row
<1>4. /\ tapping' \in Seq(TappingRow) /\ DOMAIN tapping' = DOMAIN tapping /\ tapping'[f] = row
      /\ \A g \in DOMAIN tapping : g # f => tapping'[g] = tapping[g]
  BY <1>1, <1>2, <1>3, ExceptFacts
<1>5. tapping[f].scores \in (DOMAIN rekon) \union {None} /\ replaced \subseteq DOMAIN rekon
  BY <1>1 DEF TappingRow, RestOK
<1>6. replaced' = (replaced \union {tapping[f].scores}) \ {k, None}
  BY DEF Rescore
<1>7. QED
  BY <1>2, <1>4, <1>5, <1>6

LEMMA RekonDeleted ==
  ASSUME Base, NEW S, rekon' = Delete(rekon, S)
  PROVE  /\ rekon' \in Seq(RekonRow)
         /\ DOMAIN rekon' = DOMAIN rekon
         /\ \A k \in DOMAIN rekon :
              /\ rekon'[k].tapping = rekon[k].tapping
              /\ rekon'[k].status = rekon[k].status
              /\ rekon'[k].talk = rekon[k].talk
              /\ rekon'[k].live => rekon[k].live
<1>1. TablesOK
  BY TypeParts DEF Base, RestOK
<1>2. PICK Rows : Rows = RekonRow
  OBVIOUS
<1>3. rekon \in Seq(Rows) /\ \A row \in Rows : [row EXCEPT !.live = FALSE] \in Rows
  BY <1>1, <1>2 DEF TablesOK, RekonRow
<1>4. /\ rekon' \in Seq(RekonRow)
      /\ DOMAIN rekon' = DOMAIN rekon
      /\ \A n \in DOMAIN rekon :
           rekon'[n] = IF n \in S THEN [rekon[n] EXCEPT !.live = FALSE] ELSE rekon[n]
  BY <1>2, <1>3, DeleteFacts
<1>5. ASSUME NEW k \in DOMAIN rekon
      PROVE  /\ rekon'[k].tapping = rekon[k].tapping
             /\ rekon'[k].status = rekon[k].status
             /\ rekon'[k].talk = rekon[k].talk
             /\ rekon'[k].live => rekon[k].live
  <2>1. rekon[k] \in RekonRow
    BY <1>1, Indices
  <2>2. QED
    BY <1>4, <2>1 DEF RekonRow
<1>6. QED
  BY <1>4, <1>5

-----------------------------------------------------------------------------
(* The later steps of the requests.                                        *)

LEMMA ReadTappedBase ==
  ASSUME Base, NEW r \in Requests, ReadTapped(r)
  PROVE  Base'
<1> DEFINE todo == req[r].todo \ Tapped
           fill == {p \in req[r].fill : pending[p].ticket \notin Tapped}
           q == [req[r] EXCEPT !.at = "fill", !.todo = todo, !.fill = fill]
<1>1. /\ req[r].op \in {"upload", "sync"}
      /\ Goto(r, q) /\ UNCHANGED <<pending, tapping, rekon, started, replaced, said, raced, left, judged>>
  BY DEF ReadTapped, Is, tables
<1>2. req[r] \in Request /\ ShapeOK(req[r]) /\ Base
  BY Mine
<1>3. Grows /\ RestOK'
  BY <1>1, TypeParts, QuietTables DEF Base, RestOK
<1>4. todo \subseteq req[r].todo /\ fill \subseteq req[r].fill
  OBVIOUS
<1>5. IsFiniteSet(todo)
  BY <1>1, <1>2, <1>4, FS_Subset DEF ShapeOK, Receives
<1> HIDE DEF todo, fill
<1>6. /\ q.op = req[r].op /\ q.at = "fill" /\ q.topic = req[r].topic /\ q.todo = todo
      /\ q \in Request
  BY <1>2, <1>4 DEF Request
<1> HIDE DEF q
<1>7. req'[r] = q /\ q \in Request'
  BY <1>1, <1>3, <1>6, WentOn, RequestGrows
<1>8. ShapeOK(req[r])'
  BY <1>1, <1>2, <1>4, <1>5, <1>6, <1>7 DEF ShapeOK, Receives, Ticket
<1>9. QED
  BY <1>1, <1>3, <1>6, <1>7, <1>8, BaseGoesOn

\* A row that is given its time is otherwise as it was.
LEMMA FillEffect ==
  ASSUME Base, NEW r \in Requests, Fill(r)
  PROVE  /\ pending' \in Seq(PendingRow)
         /\ DOMAIN pending' = DOMAIN pending
         /\ \A p \in DOMAIN pending : /\ pending'[p].ticket = pending[p].ticket
                                      /\ pending'[p].live = pending[p].live
         /\ UNCHANGED <<tapping, rekon, started, replaced, said, raced, left, judged>>
         /\ \/ Leave(r)
            \/ \E p \in req[r].fill : Goto(r, [req[r] EXCEPT !.fill = req[r].fill \ {p}])
<1>1. PICK p \in req[r].fill :
        IF pending[p].live
        THEN /\ pending' = [pending EXCEPT ![p].timed = TRUE]
             /\ Goto(r, [req[r] EXCEPT !.fill = req[r].fill \ {p}])
        ELSE Leave(r) /\ UNCHANGED pending
  BY DEF Fill
<1>2. UNCHANGED <<tapping, rekon, started, replaced, said, raced, left, judged>>
  BY DEF Fill
<1>3. p \in DOMAIN pending /\ TablesOK
  BY Mine, TypeParts DEF Base, RestOK, Request
<1>4. pending[p] \in PendingRow
  BY <1>3, Indices
<1> DEFINE row == [pending[p] EXCEPT !.timed = TRUE]
<1>5. row \in PendingRow /\ row.ticket = pending[p].ticket /\ row.live = pending[p].live
  BY <1>4 DEF PendingRow
<1> HIDE DEF row
<1>6. CASE pending[p].live
  <2>1. pending' = [pending EXCEPT ![p] = row]
    BY <1>1, <1>6 DEF row
  <2>2. /\ pending' \in Seq(PendingRow) /\ DOMAIN pending' = DOMAIN pending /\ pending'[p] = row
        /\ \A m \in DOMAIN pending : m # p => pending'[m] = pending[m]
    BY <1>3, <1>5, <2>1, ExceptFacts DEF TablesOK
  <2>3. QED
    BY <1>1, <1>2, <1>5, <1>6, <2>2
<1>7. CASE ~pending[p].live
  BY <1>1, <1>2, <1>3, <1>7 DEF TablesOK
<1>8. QED
  BY <1>6, <1>7

LEMMA FillBase ==
  ASSUME Base, NEW r \in Requests, Fill(r)
  PROVE  Base'
<1>1. raced \subseteq Topics /\ left \subseteq Tickets
  BY TypeParts DEF Base, RestOK
<1>2. Grows /\ RestOK'
  BY <1>1, FillEffect, PendingTables DEF Counts
<1>3. CASE Leave(r)
  BY <1>2, <1>3, BaseLeaves
<1>4. ASSUME NEW p \in req[r].fill, Goto(r, [req[r] EXCEPT !.fill = req[r].fill \ {p}])
      PROVE  Base'
  <2> DEFINE fill == req[r].fill \ {p}
             q == [req[r] EXCEPT !.fill = fill]
  <2>1. req[r] \in Request /\ ShapeOK(req[r]) /\ req[r].op \in {"upload", "sync"}
    BY Mine DEF Fill, Is
  <2>2. fill \subseteq req[r].fill /\ Goto(r, q)
    BY <1>4
  <2> HIDE DEF fill
  <2>3. /\ q.op = req[r].op /\ q.at = req[r].at /\ q.topic = req[r].topic /\ q.todo = req[r].todo
        /\ q \in Request
    BY <2>1, <2>2 DEF Request
  <2> HIDE DEF q
  <2>4. req'[r] = q /\ q \in Request'
    BY <1>2, <2>2, <2>3, WentOn, RequestGrows
  <2>5. ShapeOK(req[r])'
    BY <2>1, <2>3, <2>4 DEF ShapeOK, Receives, Ticket
  <2>6. QED
    BY <1>2, <2>2, <2>3, <2>4, <2>5, BaseGoesOn
<1>5. QED
  BY <1>3, <1>4, FillEffect

\* A row more for every ticket of the batch, or nothing more to do.
Inserted(r, B) ==
  /\ pending' \in Seq(PendingRow)
  /\ DOMAIN pending \subseteq DOMAIN pending'
  /\ \A p \in DOMAIN pending : pending'[p] = pending[p]
  /\ \A p \in (DOMAIN pending') \ DOMAIN pending : pending'[p].ticket \in B
  /\ \A p, q \in (DOMAIN pending') \ DOMAIN pending : pending'[p].ticket = pending'[q].ticket => p = q
  /\ Goto(r, [req[r] EXCEPT !.todo = req[r].todo \ B])

LEMMA InsertEffect ==
  ASSUME Base, NEW r \in Requests, Insert(r)
  PROVE  /\ UNCHANGED <<tapping, rekon, started, replaced, said, raced, left, judged>>
         /\ \/ Leave(r) /\ UNCHANGED pending
            \/ \E B \in SUBSET req[r].todo : Inserted(r, B)
<1>1. UNCHANGED <<tapping, rekon, started, replaced, said, raced, left, judged>>
  BY DEF Insert
<1>2. /\ req[r] \in Request /\ ShapeOK(req[r]) /\ req[r].op \in {"upload", "sync"}
      /\ pending \in Seq(PendingRow)
  BY Mine, TypeParts DEF Base, RestOK, TablesOK, Insert, Is
<1>3. IsFiniteSet(req[r].todo) /\ req[r].todo \subseteq Tickets /\ req[r].timed \subseteq Tickets
  BY <1>2 DEF ShapeOK, Receives, Request
<1>4. CASE req[r].todo = {}
  BY <1>1, <1>4 DEF Insert
<1>5. CASE req[r].todo # {}
  <2>1. PICK B \in Batches(req[r].todo) :
          /\ \E s \in Listings(B) :
               pending' = pending \o
                 [n \in DOMAIN s |-> [ticket |-> s[n], timed |-> s[n] \in req[r].timed,
                                      live |-> TRUE]]
          /\ Goto(r, [req[r] EXCEPT !.todo = req[r].todo \ B])
    BY <1>5 DEF Insert
  <2>2. B \in SUBSET req[r].todo /\ IsFiniteSet(B) /\ B \subseteq Tickets
    BY <1>3, FS_Subset DEF Batches
  <2>3. PICK s \in Listings(B) :
          pending' = pending \o
            [n \in DOMAIN s |-> [ticket |-> s[n], timed |-> s[n] \in req[r].timed, live |-> TRUE]]
    BY <2>1
  <2> DEFINE new == [n \in DOMAIN s |-> [ticket |-> s[n], timed |-> s[n] \in req[r].timed,
                                         live |-> TRUE]]
  <2>4. /\ s \in [1..Cardinality(B) -> B]
        /\ \A m, n \in 1..Cardinality(B) : s[m] = s[n] => m = n
    BY DEF Listings
  <2>5. new \in [DOMAIN s -> PendingRow] /\ \A n \in DOMAIN s : new[n].ticket = s[n]
    BY <2>2, <2>4 DEF PendingRow
  <2>6. pending' = pending \o new
    BY <2>3
  <2> HIDE DEF new
  <2>7. /\ pending' \in Seq(PendingRow)
        /\ DOMAIN pending \subseteq DOMAIN pending'
        /\ \A p \in DOMAIN pending : pending'[p] = pending[p]
        /\ \A p \in DOMAIN pending' :
             p \notin DOMAIN pending =>
               p - Len(pending) \in DOMAIN s /\ pending'[p] = new[p - Len(pending)]
    BY <1>2, <2>2, <2>5, <2>6, InsertFacts
  <2>8. \A p \in (DOMAIN pending') \ DOMAIN pending : pending'[p].ticket \in B
    BY <2>4, <2>5, <2>7
  <2>9. ASSUME NEW p \in (DOMAIN pending') \ DOMAIN pending,
               NEW q \in (DOMAIN pending') \ DOMAIN pending,
               pending'[p].ticket = pending'[q].ticket
        PROVE  p = q
    <3>1. s[p - Len(pending)] = s[q - Len(pending)]
      BY <2>5, <2>7, <2>9
    <3>2. p - Len(pending) = q - Len(pending)
      BY <2>4, <2>7, <3>1
    <3>3. p \in Nat /\ q \in Nat /\ Len(pending) \in Nat
      BY <1>2, <2>7
    <3>4. QED
      BY <3>2, <3>3
  <2>10. Inserted(r, B)
    BY <2>1, <2>7, <2>8, <2>9 DEF Inserted
  <2>11. QED
    BY <1>1, <2>2, <2>10
<1>6. QED
  BY <1>4, <1>5

LEMMA InsertBase ==
  ASSUME Base, NEW r \in Requests, Insert(r)
  PROVE  Base'
<1>1. UNCHANGED <<tapping, rekon, started, replaced, said, raced, left, judged>>
  BY InsertEffect
<1>2. raced \subseteq Topics /\ left \subseteq Tickets /\ TablesOK
  BY TypeParts DEF Base, RestOK
<1>3. CASE Leave(r) /\ UNCHANGED pending
  BY <1>1, <1>2, <1>3, PendingTables, BaseLeaves DEF TablesOK, Counts
<1>4. ASSUME NEW B \in SUBSET req[r].todo, Inserted(r, B)
      PROVE  Base'
  <2> DEFINE todo == req[r].todo \ B
             q == [req[r] EXCEPT !.todo = todo]
  <2>1. req[r] \in Request /\ ShapeOK(req[r]) /\ req[r].op \in {"upload", "sync"}
    BY Mine DEF Insert, Is
  <2>2. Grows /\ RestOK'
    BY <1>1, <1>2, <1>4, PendingTables DEF Inserted, Counts
  <2>3. todo \subseteq req[r].todo /\ Goto(r, q)
    BY <1>4 DEF Inserted
  <2>4. IsFiniteSet(todo)
    BY <2>1, <2>3, FS_Subset DEF ShapeOK, Receives
  <2> HIDE DEF todo
  <2>5. /\ q.op = req[r].op /\ q.at = req[r].at /\ q.topic = req[r].topic /\ q.todo = todo
        /\ q \in Request
    BY <2>1, <2>3 DEF Request
  <2> HIDE DEF q
  <2>6. req'[r] = q /\ q \in Request'
    BY <2>2, <2>3, <2>5, WentOn, RequestGrows
  <2>7. ShapeOK(req[r])'
    BY <2>1, <2>3, <2>4, <2>5, <2>6 DEF ShapeOK, Receives, Ticket
  <2>8. QED
    BY <2>2, <2>3, <2>5, <2>6, <2>7, BaseGoesOn
<1>5. QED
  BY <1>3, <1>4, InsertEffect

LEMMA TappingAdded ==
  ASSUME Base, NEW t \in Tickets, tapping' = NewTapping(t)
  PROVE  /\ tapping' \in Seq(TappingRow)
         /\ DOMAIN tapping \subseteq DOMAIN tapping'
         /\ \A f \in DOMAIN tapping : tapping'[f] = tapping[f]
         /\ \A f \in (DOMAIN tapping') \ DOMAIN tapping :
              tapping'[f].ticket = t /\ tapping'[f].scores = None
<1> DEFINE row == [ticket |-> t, scores |-> None, live |-> TRUE]
<1>1. row \in TappingRow /\ row.ticket = t /\ row.scores = None /\ tapping \in Seq(TappingRow)
  BY TypeParts DEF TappingRow, Base, RestOK, TablesOK
<1>2. tapping' = Append(tapping, row)
  BY DEF NewTapping
<1> HIDE DEF row
<1>3. QED
  BY <1>1, <1>2, AppendFacts

LEMMA CreateBase ==
  ASSUME Base, NEW r \in Requests, Create(r)
  PROVE  Base'
<1>1. /\ req[r] \in Request /\ ShapeOK(req[r]) /\ req[r].op = "tap"
      /\ tapping' = NewTapping(req[r].ticket)
      /\ UNCHANGED <<pending, rekon, started, replaced, said, raced, judged>>
      /\ Leaves({}) \/ Leaves({req[r].ticket})
  BY Mine DEF Create, Is
<1>2. req[r].ticket \in Tickets
  BY <1>1 DEF ShapeOK
<1>3. /\ tapping' \in Seq(TappingRow) /\ DOMAIN tapping \subseteq DOMAIN tapping'
      /\ left' \subseteq Tickets /\ replaced \subseteq DOMAIN rekon
  BY <1>1, <1>2, TappingAdded, LeavesFacts, TypeParts DEF Base, RestOK
<1>4. Grows /\ RestOK'
  BY <1>1, <1>3, TappingTables DEF Counts
<1>5. CASE req[r].id = None
  BY <1>4, <1>5, BaseLeaves DEF Create
<1>6. CASE req[r].id # None
  <2> DEFINE q == [req[r] EXCEPT !.at = "remove"]
  <2>1. Goto(r, q)
    BY <1>6 DEF Create
  <2>2. /\ q.op = req[r].op /\ q.at = "remove" /\ q.topic = req[r].topic
        /\ q.id = req[r].id /\ q.ticket = req[r].ticket
        /\ q \in Request
    BY <1>1 DEF Request
  <2> HIDE DEF q
  <2>3. req'[r] = q /\ q \in Request'
    BY <1>4, <2>1, <2>2, WentOn, RequestGrows
  <2>4. ShapeOK(req[r])'
    BY <1>1, <2>2, <2>3 DEF ShapeOK, Receives, Ticket
  <2>5. QED
    BY <1>4, <2>1, <2>2, <2>3, <2>4, BaseGoesOn
<1>7. QED
  BY <1>5, <1>6

LEMMA RemoveBase ==
  ASSUME Base, NEW r \in Requests, Remove(r)
  PROVE  Base'
<1>1. /\ req[r] \in Request /\ ShapeOK(req[r]) /\ req[r].op = "tap" /\ Leave(r)
      /\ UNCHANGED <<tapping, rekon, started, replaced, said, raced, judged>>
      /\ \/ pending' = Delete(pending, {req[r].id}) /\ Leaves({})
         \/ UNCHANGED pending /\ Leaves({req[r].ticket})
  BY Mine DEF Remove, Is
<1>2. raced \subseteq Topics /\ req[r].ticket \in Tickets /\ pending \in Seq(PendingRow)
  BY <1>1, TypeParts DEF Base, RestOK, TablesOK, ShapeOK
<1>3. left' \subseteq Tickets
  BY <1>1, <1>2, LeavesFacts
<1> DEFINE S == {req[r].id}
<1> HIDE DEF S
<1>4. CASE pending' = Delete(pending, S)
  <2>1. Grows /\ RestOK'
    BY <1>1, <1>2, <1>3, <1>4, PendingDeleted, PendingTables DEF Counts
  <2>2. QED
    BY <1>1, <2>1, BaseLeaves
<1>5. CASE UNCHANGED pending
  <2>1. Grows /\ RestOK'
    BY <1>1, <1>2, <1>3, <1>5, PendingTables DEF Counts
  <2>2. QED
    BY <1>1, <2>1, BaseLeaves
<1>6. QED
  BY <1>1, <1>4, <1>5 DEF S

LEMMA FindBase ==
  ASSUME Base, NEW r \in Requests, Find(r)
  PROVE  Base'
<1>1. /\ req[r] \in Request /\ ShapeOK(req[r]) /\ req[r].op = "history"
      /\ UNCHANGED <<pending, tapping, rekon, started, replaced, said, raced, left, judged>>
  BY Mine DEF Find, Is, tables
<1>2. Grows /\ RestOK'
  BY <1>1, TypeParts, QuietTables DEF Base, RestOK
<1>3. PICK t \in req[r].todo, f \in (DOMAIN tapping) \union {None} :
        Goto(r, [req[r] EXCEPT !.at = "put", !.ticket = t, !.id = f, !.todo = req[r].todo \ {t}])
  BY DEF Find, Live
<1> DEFINE todo == req[r].todo \ {t}
           q == [req[r] EXCEPT !.at = "put", !.ticket = t, !.id = f, !.todo = todo]
<1>4. Goto(r, q) /\ todo \subseteq req[r].todo
  BY <1>3
<1>5. f \in Nat \union {None} /\ t \in Tickets /\ Ticket(t) \in req[r].topic
  BY <1>1, Indices, TypeParts DEF Base, RestOK, Request, ShapeOK
<1> HIDE DEF todo
<1>6. /\ q.op = req[r].op /\ q.at = "put" /\ q.topic = req[r].topic /\ q.todo = todo
      /\ q.id = f /\ q.ticket = t
      /\ q \in Request
  BY <1>1, <1>4, <1>5 DEF Request
<1> HIDE DEF q
<1>7. req'[r] = q /\ q \in Request'
  BY <1>2, <1>4, <1>6, WentOn, RequestGrows
<1>8. ShapeOK(req[r])'
  BY <1>1, <1>4, <1>5, <1>6, <1>7 DEF ShapeOK, Receives
<1>9. QED
  BY <1>2, <1>4, <1>6, <1>7, <1>8, BaseGoesOn

\* A tapping more for the ticket at hand, or other scores in one of it.
LEMMA PutEffect ==
  ASSUME Base, NEW r \in Requests, Put(r)
  PROVE  /\ tapping' \in Seq(TappingRow)
         /\ DOMAIN tapping \subseteq DOMAIN tapping'
         /\ \A f \in DOMAIN tapping : /\ tapping'[f].ticket = tapping[f].ticket
                                      /\ tapping'[f].live = tapping[f].live
         /\ \A f \in (DOMAIN tapping') \ DOMAIN tapping :
              tapping'[f].ticket = req[r].ticket /\ tapping'[f].scores = None
         /\ replaced' \subseteq DOMAIN rekon
         /\ UNCHANGED <<pending, rekon, started, said, raced, left, judged>>
         /\ \/ Leave(r) /\ UNCHANGED tapping
            \/ Goto(r, [req[r] EXCEPT !.at = "clean"])
         /\ \/ /\ \A f \in DOMAIN tapping : tapping'[f] = tapping[f]
               /\ replaced' = replaced
            \/ /\ DOMAIN tapping' = DOMAIN tapping
               /\ req[r].id \in DOMAIN tapping
               /\ Rescore(req[r].id, None)
<1>1. /\ req[r].ticket \in Tickets /\ tapping \in Seq(TappingRow) /\ replaced \subseteq DOMAIN rekon
      /\ UNCHANGED <<pending, rekon, started, said, raced, left, judged>>
  BY Mine, TypeParts DEF Base, RestOK, TablesOK, ShapeOK, Put, Is
<1>2. CASE Leave(r) /\ UNCHANGED <<tapping, replaced>>
  BY <1>1, <1>2
<1>3. CASE /\ tapping' = NewTapping(req[r].ticket) /\ UNCHANGED replaced
           /\ Goto(r, [req[r] EXCEPT !.at = "clean"])
  BY <1>1, <1>3, TappingAdded
<1>4. CASE /\ req[r].id \in Live(tapping) /\ Rescore(req[r].id, None)
           /\ Goto(r, [req[r] EXCEPT !.at = "clean"])
  <2>1. req[r].id \in DOMAIN tapping /\ None \in (DOMAIN rekon) \union {None}
    BY <1>4 DEF Live
  <2>2. QED
    BY <1>1, <1>4, <2>1, RescoreEffect
<1>5. QED
  BY <1>2, <1>3, <1>4 DEF Put

LEMMA PutBase ==
  ASSUME Base, NEW r \in Requests, Put(r)
  PROVE  Base'
<1>0. left \subseteq Tickets
  BY TypeParts DEF Base, RestOK
<1>1. Grows /\ RestOK'
  BY <1>0, PutEffect, TappingTables DEF Counts
<1>2. CASE Leave(r)
  BY <1>1, <1>2, BaseLeaves
<1>3. CASE Goto(r, [req[r] EXCEPT !.at = "clean"])
  <2> DEFINE q == [req[r] EXCEPT !.at = "clean"]
  <2>1. req[r] \in Request /\ ShapeOK(req[r]) /\ req[r].op = "history" /\ req[r].at = "put"
    BY Mine DEF Put, Is
  <2>2. /\ q.op = req[r].op /\ q.at = "clean" /\ q.topic = req[r].topic /\ q.todo = req[r].todo
        /\ q.ticket = req[r].ticket
        /\ q \in Request
    BY <2>1 DEF Request
  <2>3. Goto(r, q)
    BY <1>3
  <2> HIDE DEF q
  <2>4. req'[r] = q /\ q \in Request'
    BY <1>1, <2>2, <2>3, WentOn, RequestGrows
  <2>5. ShapeOK(req[r])'
    BY <2>1, <2>2, <2>4 DEF ShapeOK, Receives, Ticket
  <2>6. QED
    BY <1>1, <2>2, <2>3, <2>4, <2>5, BaseGoesOn
<1>4. QED
  BY <1>2, <1>3, PutEffect

LEMMA CleanBase ==
  ASSUME Base, NEW r \in Requests, Clean(r)
  PROVE  Base'
<1> DEFINE S == RowsOf(req[r].ticket)
<1>1. /\ req[r] \in Request /\ ShapeOK(req[r]) /\ req[r].op = "history" /\ req[r].at = "clean"
      /\ pending' = Delete(pending, S) /\ Leaves({})
      /\ UNCHANGED <<tapping, rekon, started, replaced, said, raced, judged>>
  BY Mine DEF Clean, Is
<1>2. raced \subseteq Topics /\ left' \subseteq Tickets
  BY <1>1, LeavesFacts, TypeParts DEF Base, RestOK
<1> HIDE DEF S
<1>3. Grows /\ RestOK'
  BY <1>1, <1>2, PendingDeleted, PendingTables DEF Counts
<1>4. CASE req[r].todo = {}
  BY <1>3, <1>4, BaseLeaves DEF Clean
<1>5. CASE req[r].todo # {}
  <2> DEFINE q == [req[r] EXCEPT !.at = "find"]
  <2>1. Goto(r, q)
    BY <1>5 DEF Clean
  <2>2. /\ q.op = req[r].op /\ q.at = "find" /\ q.topic = req[r].topic /\ q.todo = req[r].todo
        /\ q \in Request
    BY <1>1 DEF Request
  <2> HIDE DEF q
  <2>3. req'[r] = q /\ q \in Request'
    BY <1>3, <2>1, <2>2, WentOn, RequestGrows
  <2>4. ShapeOK(req[r])'
    BY <1>1, <2>2, <2>3 DEF ShapeOK, Receives, Ticket
  <2>5. QED
    BY <1>3, <2>1, <2>2, <2>3, <2>4, BaseGoesOn
<1>6. QED
  BY <1>4, <1>5

LEMMA CheckBase ==
  ASSUME Base, NEW r \in Requests, Check(r)
  PROVE  Base'
<1>1. /\ req[r] \in Request /\ ShapeOK(req[r]) /\ req[r].op = "propose"
      /\ UNCHANGED <<pending, tapping, rekon, started, replaced, said, raced, left, judged>>
  BY Mine DEF Check, Is, tables
<1>2. Grows /\ RestOK'
  BY <1>1, TypeParts, QuietTables DEF Base, RestOK
<1>3. CASE Leave(r)
  BY <1>2, <1>3, BaseLeaves
<1>4. CASE Goto(r, [req[r] EXCEPT !.at = "write"])
  <2> DEFINE q == [req[r] EXCEPT !.at = "write"]
  <2>1. Goto(r, q)
    BY <1>4
  <2>2. /\ q.op = req[r].op /\ q.at = "write" /\ q.topic = req[r].topic /\ q.id = req[r].id
        /\ q \in Request
    BY <1>1 DEF Request
  <2> HIDE DEF q
  <2>3. req'[r] = q /\ q \in Request'
    BY <1>2, <2>1, <2>2, WentOn, RequestGrows
  <2>4. ShapeOK(req[r])'
    BY <1>1, <2>2, <2>3 DEF ShapeOK, Receives, Proposal
  <2>5. QED
    BY <1>2, <2>1, <2>2, <2>3, <2>4, BaseGoesOn
<1>5. QED
  BY <1>3, <1>4 DEF Check

\* The proposed scores are written, or the tapping is gone.
LEMMA ScoreEffect ==
  ASSUME Base, NEW r \in Requests, Score(r)
  PROVE  /\ req[r] \in Request /\ ShapeOK(req[r]) /\ req[r].op = "approve" /\ req[r].at = "score"
         /\ req[r].id \in DOMAIN rekon /\ rekon[req[r].id].tapping \in DOMAIN tapping
         /\ UNCHANGED <<pending, rekon, started, said, raced, left, judged>>
         /\ \/ Leave(r) /\ UNCHANGED <<tapping, replaced>>
            \/ /\ Rescore(rekon[req[r].id].tapping, req[r].id)
               /\ Goto(r, [req[r] EXCEPT !.at = "verdict"])
<1>1. /\ req[r] \in Request /\ ShapeOK(req[r]) /\ req[r].op = "approve" /\ req[r].at = "score"
      /\ UNCHANGED <<pending, rekon, started, said, raced, left, judged>>
      /\ \/ Leave(r) /\ UNCHANGED <<tapping, replaced>>
         \/ /\ Rescore(rekon[req[r].id].tapping, req[r].id)
            /\ Goto(r, [req[r] EXCEPT !.at = "verdict"])
  BY Mine DEF Score, Is
<1>2. req[r].id \in DOMAIN rekon
  BY <1>1 DEF ShapeOK
<1>3. rekon[req[r].id].tapping \in DOMAIN tapping
  BY <1>2, Indices, TypeParts DEF Base, RestOK, RekonRow
<1>4. QED
  BY <1>1, <1>2, <1>3

LEMMA ScoreBase ==
  ASSUME Base, NEW r \in Requests, Score(r)
  PROVE  Base'
<1>1. /\ req[r] \in Request /\ ShapeOK(req[r]) /\ req[r].op = "approve"
      /\ req[r].id \in DOMAIN rekon /\ rekon[req[r].id].tapping \in DOMAIN tapping
      /\ UNCHANGED <<pending, rekon, started, said, raced, left, judged>>
      /\ \/ Leave(r) /\ UNCHANGED <<tapping, replaced>>
         \/ /\ Rescore(rekon[req[r].id].tapping, req[r].id)
            /\ Goto(r, [req[r] EXCEPT !.at = "verdict"])
  BY ScoreEffect
<1>2. RestOK
  BY TypeParts DEF Base
<1>3. CASE Leave(r) /\ UNCHANGED <<tapping, replaced>>
  <2>1. Grows /\ RestOK'
    BY <1>1, <1>2, <1>3, QuietTables DEF RestOK
  <2>2. QED
    BY <1>3, <2>1, BaseLeaves
<1>4. CASE /\ Rescore(rekon[req[r].id].tapping, req[r].id)
           /\ Goto(r, [req[r] EXCEPT !.at = "verdict"])
  <2> DEFINE q == [req[r] EXCEPT !.at = "verdict"]
  <2>1. Goto(r, q)
    BY <1>4
  <2>2. /\ q.op = req[r].op /\ q.at = "verdict" /\ q.topic = req[r].topic /\ q.id = req[r].id
        /\ q \in Request
    BY <1>1 DEF Request
  <2> HIDE DEF q
  <2>3. /\ tapping' \in Seq(TappingRow) /\ DOMAIN tapping' = DOMAIN tapping
        /\ replaced' \subseteq DOMAIN rekon
    BY <1>1, <1>4, RescoreEffect
  <2>4. Grows /\ RestOK'
    BY <1>1, <1>2, <2>3, TappingTables DEF RestOK, Counts
  <2>5. req'[r] = q /\ q \in Request'
    BY <2>1, <2>2, <2>4, WentOn, RequestGrows
  <2>6. ShapeOK(req[r])'
    BY <1>1, <2>2, <2>5 DEF ShapeOK, Receives, Verdict
  <2>7. QED
    BY <2>1, <2>2, <2>4, <2>5, <2>6, BaseGoesOn
<1>5. QED
  BY <1>1, <1>3, <1>4

\* One open row more, of the tapping that was proposed.
LEMMA WriteProposalEffect ==
  ASSUME Base, NEW r \in Requests, WriteProposal(r)
  PROVE  /\ rekon' \in Seq(RekonRow)
         /\ DOMAIN rekon \subseteq DOMAIN rekon'
         /\ \A k \in DOMAIN rekon : rekon'[k] = rekon[k]
         /\ \A k \in (DOMAIN rekon') \ DOMAIN rekon :
              rekon'[k].tapping = req[r].id /\ rekon'[k].status = "PENDING" /\ rekon'[k].talk = {}
         /\ \A j, k \in (DOMAIN rekon') \ DOMAIN rekon : j = k
         /\ Leave(r) /\ req[r].op = "propose" /\ req[r].at = "write"
         /\ UNCHANGED <<pending, tapping, started, replaced, said, raced, left, judged>>
<1> DEFINE row == [tapping |-> req[r].id, status |-> "PENDING", talk |-> {}, live |-> TRUE]
<1>1. /\ ShapeOK(req[r]) /\ req[r].op = "propose" /\ req[r].at = "write" /\ rekon \in Seq(RekonRow)
      /\ Leave(r) /\ UNCHANGED <<pending, tapping, started, replaced, said, raced, left, judged>>
      /\ rekon' = Append(rekon, row)
  BY Mine, TypeParts DEF Base, RestOK, TablesOK, WriteProposal, Is
<1>2. /\ row \in RekonRow /\ row.tapping = req[r].id /\ row.status = "PENDING" /\ row.talk = {}
  BY <1>1 DEF RekonRow, ShapeOK
<1> HIDE DEF row
<1>3. QED
  BY <1>1, <1>2, AppendFacts

LEMMA WriteProposalBase ==
  ASSUME Base, NEW r \in Requests, WriteProposal(r)
  PROVE  Base'
<1>1. said \subseteq (DOMAIN rekon) \X Nat
  BY TypeParts DEF Base, RestOK
<1>2. Grows /\ RestOK'
  BY <1>1, WriteProposalEffect, RekonTables DEF Counts
<1>3. QED
  BY <1>2, WriteProposalEffect, BaseLeaves

\* A verdict changes the status of its row and nothing else.
LEMMA WriteVerdictEffect ==
  ASSUME Base, NEW r \in Requests, WriteVerdict(r)
  PROVE  /\ rekon' \in Seq(RekonRow)
         /\ DOMAIN rekon' = DOMAIN rekon
         /\ \A k \in DOMAIN rekon :
              /\ rekon'[k].tapping = rekon[k].tapping
              /\ rekon'[k].talk = rekon[k].talk
              /\ rekon'[k].live = rekon[k].live
              /\ \/ rekon'[k].status = rekon[k].status
                 \/ k = req[r].id /\ rekon'[k].status = StatusOf(req[r].op)
         /\ Leave(r) /\ req[r].op \in {"approve", "reject"} /\ req[r].at = "verdict"
         /\ UNCHANGED <<pending, tapping, started, replaced, said, raced, left, judged>>
<1> DEFINE k == req[r].id
           row == [rekon[k] EXCEPT !.status = StatusOf(req[r].op)]
<1>1. /\ ShapeOK(req[r]) /\ req[r].op \in {"approve", "reject"} /\ req[r].at = "verdict"
      /\ rekon \in Seq(RekonRow) /\ TablesOK
      /\ Leave(r) /\ UNCHANGED <<pending, tapping, started, replaced, said, raced, left, judged>>
      /\ rekon' = rekon \/ rekon' = [rekon EXCEPT ![k] = row]
  BY Mine, TypeParts DEF Base, RestOK, TablesOK, WriteVerdict, Is
<1>2. k \in DOMAIN rekon
  BY <1>1 DEF ShapeOK
<1>3. rekon[k] \in RekonRow
  BY <1>1, <1>2, Indices
<1>4. /\ row \in RekonRow /\ row.tapping = rekon[k].tapping /\ row.talk = rekon[k].talk
      /\ row.live = rekon[k].live /\ row.status = StatusOf(req[r].op)
  BY <1>1, <1>3 DEF RekonRow, StatusOf
<1> HIDE DEF row, k
<1>5. CASE rekon' = rekon
  BY <1>1, <1>5
<1>6. CASE rekon' = [rekon EXCEPT ![k] = row]
  <2>1. /\ rekon' \in Seq(RekonRow) /\ DOMAIN rekon' = DOMAIN rekon /\ rekon'[k] = row
        /\ \A j \in DOMAIN rekon : j # k => rekon'[j] = rekon[j]
    BY <1>1, <1>2, <1>4, <1>6, ExceptFacts
  <2>2. QED
    BY <1>1, <1>4, <2>1 DEF k
<1>7. QED
  BY <1>1, <1>5, <1>6

LEMMA WriteVerdictBase ==
  ASSUME Base, NEW r \in Requests, WriteVerdict(r)
  PROVE  Base'
<1>1. said \subseteq (DOMAIN rekon) \X Nat
  BY TypeParts DEF Base, RestOK
<1>2. Grows /\ RestOK'
  BY <1>1, WriteVerdictEffect, RekonTables DEF Counts
<1>3. QED
  BY <1>2, WriteVerdictEffect, BaseLeaves

\* A reply changes the discussion of its row and nothing else.
LEMMA WriteReplyEffect ==
  ASSUME Base, NEW r \in Requests, WriteReply(r)
  PROVE  /\ rekon' \in Seq(RekonRow)
         /\ DOMAIN rekon' = DOMAIN rekon
         /\ \A k \in DOMAIN rekon :
              /\ rekon'[k].tapping = rekon[k].tapping
              /\ rekon'[k].status = rekon[k].status
              /\ rekon'[k].live = rekon[k].live
              /\ k # req[r].id => rekon'[k].talk = rekon[k].talk
         /\ \/ rekon'[req[r].id].talk = rekon[req[r].id].talk /\ said' = said
            \/ /\ rekon'[req[r].id].talk = req[r].talk
               /\ said' = said \union ({req[r].id} \X req[r].talk)
         /\ req[r].id \in DOMAIN rekon /\ req[r].talk \subseteq Nat
         /\ Leave(r) /\ req[r].op = "reply" /\ req[r].at = "write"
         /\ UNCHANGED <<pending, tapping, started, replaced, raced, left, judged>>
<1> DEFINE k == req[r].id
           talk == req[r].talk
           row == [rekon[k] EXCEPT !.talk = talk]
<1>1. /\ ShapeOK(req[r]) /\ req[r].op = "reply" /\ req[r].at = "write" /\ req[r] \in Request
      /\ rekon \in Seq(RekonRow) /\ TablesOK
      /\ Leave(r) /\ UNCHANGED <<pending, tapping, started, replaced, raced, left, judged>>
      /\ \/ rekon' = rekon /\ said' = said
         \/ rekon' = [rekon EXCEPT ![k] = row] /\ said' = said \union ({k} \X talk)
  BY Mine, TypeParts DEF Base, RestOK, TablesOK, WriteReply, Is
<1>2. k \in DOMAIN rekon /\ talk \subseteq Nat
  BY <1>1 DEF ShapeOK, Request
<1>3. rekon[k] \in RekonRow
  BY <1>1, <1>2, Indices
<1> HIDE DEF talk
<1>4. /\ row \in RekonRow /\ row.tapping = rekon[k].tapping /\ row.status = rekon[k].status
      /\ row.live = rekon[k].live /\ row.talk = talk
  BY <1>2, <1>3 DEF RekonRow
<1> HIDE DEF row, k
<1>5. CASE rekon' = rekon /\ said' = said
  BY <1>1, <1>2, <1>5 DEF k, talk
<1>6. CASE rekon' = [rekon EXCEPT ![k] = row] /\ said' = said \union ({k} \X talk)
  <2>1. /\ rekon' \in Seq(RekonRow) /\ DOMAIN rekon' = DOMAIN rekon /\ rekon'[k] = row
        /\ \A j \in DOMAIN rekon : j # k => rekon'[j] = rekon[j]
    BY <1>1, <1>2, <1>4, <1>6, ExceptFacts
  <2>2. \A j \in DOMAIN rekon : /\ rekon'[j].tapping = rekon[j].tapping
                                /\ rekon'[j].status = rekon[j].status
                                /\ rekon'[j].live = rekon[j].live
                                /\ j # k => rekon'[j].talk = rekon[j].talk
    BY <1>4, <2>1
  <2>3. rekon'[k].talk = talk
    BY <1>4, <2>1
  <2>4. QED
    BY <1>1, <1>2, <1>6, <2>1, <2>2, <2>3 DEF k, talk
<1>7. QED
  BY <1>1, <1>5, <1>6

LEMMA WriteReplyBase ==
  ASSUME Base, NEW r \in Requests, WriteReply(r)
  PROVE  Base'
<1>1. said \subseteq (DOMAIN rekon) \X Nat
  BY TypeParts DEF Base, RestOK
<1>2. said' \subseteq (DOMAIN rekon) \X Nat
  BY <1>1, WriteReplyEffect
<1>3. Grows /\ RestOK'
  BY <1>2, WriteReplyEffect, RekonTables DEF Counts
<1>4. QED
  BY <1>3, WriteReplyEffect, BaseLeaves

LEMMA DeletionsBase ==
  ASSUME Base, Deletions
  PROVE  Base'
<1>1. RestOK
  BY TypeParts DEF Base
<1>2. ASSUME NEW p \in DOMAIN pending, DeletePendingTicket(p)
      PROVE  Base'
  <2> DEFINE S == {p}
  <2>1. /\ pending' = Delete(pending, S) /\ Counts /\ Leaves({})
        /\ UNCHANGED <<tapping, rekon, req, replaced, said, raced, judged>>
    BY <1>2 DEF DeletePendingTicket, Counts
  <2> HIDE DEF S
  <2>2. Grows /\ RestOK'
    BY <1>1, <2>1, PendingDeleted, PendingTables, LeavesFacts DEF RestOK
  <2>3. QED
    BY <2>1, <2>2, BaseStays
<1>3. ASSUME NEW f \in DOMAIN tapping, DeleteFormTapping(f)
      PROVE  Base'
  <2> DEFINE S == {f}
  <2>1. /\ tapping' = Delete(tapping, S) /\ Counts
        /\ UNCHANGED <<pending, rekon, req, replaced, said, raced, left, judged>>
    BY <1>3 DEF DeleteFormTapping, Counts
  <2> HIDE DEF S
  <2>2. Grows /\ RestOK'
    BY <1>1, <2>1, TappingDeleted, TappingTables DEF RestOK
  <2>3. QED
    BY <2>1, <2>2, BaseStays
<1>4. ASSUME NEW f \in DOMAIN tapping, UpdateFormTapping(f)
      PROVE  Base'
  <2>1. /\ Rescore(f, None) /\ Counts /\ None \in (DOMAIN rekon) \union {None}
        /\ UNCHANGED <<pending, rekon, req, said, raced, left, judged>>
    BY <1>4 DEF UpdateFormTapping, Counts
  <2>2. Grows /\ RestOK'
    BY <1>1, <2>1, RescoreEffect, TappingTables DEF RestOK
  <2>3. QED
    BY <2>1, <2>2, BaseStays
<1>5. ASSUME NEW k \in DOMAIN rekon, RemoveRekon(k)
      PROVE  Base'
  <2> DEFINE S == {k}
  <2>1. /\ rekon' = Delete(rekon, S) /\ Counts
        /\ UNCHANGED <<pending, tapping, req, replaced, said, raced, left, judged>>
    BY <1>5 DEF RemoveRekon, Counts
  <2> HIDE DEF S
  <2>2. Grows /\ RestOK'
    BY <1>1, <2>1, RekonDeleted, RekonTables DEF RestOK
  <2>3. QED
    BY <2>1, <2>2, BaseStays
<1>6. QED
  BY <1>2, <1>3, <1>4, <1>5 DEF Deletions

LEMMA FailBase ==
  ASSUME Base, NEW r \in Requests, Fail(r)
  PROVE  Base'
<1>1. /\ Leave(r) /\ UNCHANGED <<pending, tapping, rekon, started, replaced, said, judged>>
      /\ raced \subseteq raced' /\ raced' \subseteq raced \union req[r].topic
      /\ Leaves(IF req[r].at \in {"remove", "clean"} THEN {req[r].ticket} ELSE {})
  BY DEF Fail, tables
<1>2. RestOK /\ req[r].topic \subseteq Topics /\ req[r] \in Request /\ ShapeOK(req[r])
  BY Mine, TypeParts DEF Base, Request
<1>3. req[r].at \in {"remove", "clean"} => req[r].ticket \in Tickets
  BY <1>2 DEF ShapeOK, Request, Receives, Idle
<1>4. left' \subseteq Tickets
  BY <1>1, <1>3, LeavesFacts
<1>5. Grows /\ RestOK'
  BY <1>1, <1>2, <1>4, QuietTables DEF RestOK
<1>6. QED
  BY <1>1, <1>5, BaseLeaves

LEMMA UnchangedBase ==
  ASSUME Base, UNCHANGED vars
  PROVE  Base'
<1>1. RestOK
  BY TypeParts DEF Base
<1>2. UNCHANGED <<pending, tapping, rekon, req, started, replaced, said, raced, left, judged>>
  BY DEF vars, tables
<1>3. Grows /\ RestOK'
  BY <1>1, <1>2, QuietTables DEF RestOK
<1>4. QED
  BY <1>2, <1>3, BaseStays

LEMMA BaseAtFirst ==
  ASSUME Init
  PROVE  Base
<1>1. \A r \in Requests : req[r] = Idle
  BY DEF Init
<1>2. Idle \in Request
  BY DEF Idle, Request
<1>3. TypeOK
  BY <1>1, <1>2, TypeParts, QaReviewAssumption DEF Init, RestOK, TablesOK, QaReviewAssumption
<1>4. ShapesOK
  BY <1>1 DEF ShapesOK, ShapeOK, Receives, Idle
<1>5. Exclusive
  BY <1>1 DEF Exclusive, Idle
<1>6. QED
  BY <1>3, <1>4, <1>5 DEF Base

LEMMA TicketStepsBase ==
  ASSUME Base, NEW r \in Requests, TicketSteps(r)
  PROVE  Base'
<1>1. ASSUME NEW S \in Files, UploadTickets(r, S) \/ SyncTicketsFromOca(r, S)
      PROVE  Base'
  <2>1. {} \in SUBSET Tickets /\ Timed \in SUBSET Tickets
    BY QaReviewAssumption DEF QaReviewAssumption
  <2>2. QED
    BY <1>1, <2>1, ReceiveBase DEF UploadTickets, SyncTicketsFromOca
<1>2. QED
  BY <1>1, HistoryBase, CreateFormTappingBase, ReadTappedBase, FillBase, InsertBase, CreateBase,
     RemoveBase, FindBase, PutBase, CleanBase DEF TicketSteps

LEMMA RekonStepsBase ==
  ASSUME Base, NEW r \in Requests, RekonSteps(r)
  PROVE  Base'
BY ProposeBase, JudgeBase, ReplyBase, CheckBase, WriteProposalBase, ScoreBase, WriteVerdictBase,
   WriteReplyBase DEF RekonSteps

LEMMA BaseHolds == Spec => []Base
<1>1. Base /\ [Next]_vars => Base'
  BY TicketStepsBase, RekonStepsBase, FailBase, DeletionsBase, UnchangedBase DEF Next
<1>2. QED
  BY <1>1, BaseAtFirst, PTL DEF Spec

\* Whatever uploads, tappings, reconciliations, deletions and failures interleave, every
\* table keeps its type, and a request points only at rows that were created.
THEOREM TypeCorrect == Spec => []TypeOK
<1>1. Base => TypeOK
  BY DEF Base
<1>2. QED
  BY <1>1, BaseHolds, PTL

-----------------------------------------------------------------------------
(* The promises of the reconciliations.                                    *)

RekonInv == ProposalsOK /\ RepliesOK

\* A step of r that leaves the reconciliations alone, and r with something else.
RekonApart(r) ==
  /\ UNCHANGED <<rekon, said, judged>>
  /\ raced \subseteq raced'
  /\ \A s \in Requests \ {r} : req'[s] = req[s]
  /\ req'[r].op \notin {"propose", "approve", "reject", "reply"}

\* The conditions under which each promise is kept by who does not make it.
LEMMA ProposalsKept ==
  ASSUME Base, ProposalsOK, raced \subseteq raced',
         \A k \in DOMAIN rekon' :
           /\ k \in DOMAIN rekon /\ rekon'[k].tapping = rekon[k].tapping
           /\ rekon'[k].live /\ rekon'[k].status = "PENDING" =>
                rekon[k].live /\ rekon[k].status = "PENDING",
         \A s \in Requests :
           req'[s].op = "propose" /\ req'[s].at = "write" =>
             req[s].op = "propose" /\ req[s].at = "write" /\ req'[s].id = req[s].id
  PROVE  ProposalsOK'
<1>1. SUFFICES ASSUME NEW f \in DOMAIN tapping', Proposal(f) \notin raced'
               PROVE  /\ \A j, k \in PendingRekons(f)' : j = k
                      /\ \A s \in Requests :
                           req'[s].op = "propose" /\ req'[s].id = f /\ req'[s].at = "write" =>
                             PendingRekons(f)' = {}
  BY DEF ProposalsOK, Proposal
<1>2. PendingRekons(f)' \subseteq PendingRekons(f)
  BY DEF PendingRekons, Live
<1>3. CASE f \in DOMAIN tapping
  BY <1>1, <1>2, <1>3 DEF ProposalsOK
<1>4. CASE f \notin DOMAIN tapping
  <2>1. \A k \in DOMAIN rekon : rekon[k].tapping \in DOMAIN tapping
    BY Indices, TypeParts DEF Base, RestOK, RekonRow
  <2>2. PendingRekons(f) = {}
    BY <1>4, <2>1 DEF PendingRekons, Live
  <2>3. QED
    BY <1>2, <2>2
<1>5. QED
  BY <1>3, <1>4

LEMMA DiscussionsKept ==
  ASSUME RepliesOK, raced \subseteq raced', UNCHANGED said,
         \A k \in DOMAIN rekon' : k \in DOMAIN rekon /\ rekon'[k].talk = rekon[k].talk,
         \A s \in Requests :
           req'[s].op = "reply" =>
             req[s].op = "reply" /\ req'[s].id = req[s].id /\ req'[s].talk = req[s].talk
  PROVE  RepliesOK'
BY DEF RepliesOK, SaidOf, Talk

LEMMA ApartKeeps ==
  ASSUME Base, RekonInv, NEW r \in Requests, RekonApart(r)
  PROVE  RekonInv'
<1>1. \A s \in Requests : req'[s].op \in {"propose", "approve", "reject", "reply"} => req'[s] = req[s]
  BY DEF RekonApart
<1>2. ProposalsOK'
  BY <1>1, ProposalsKept DEF RekonInv, RekonApart
<1>3. RepliesOK'
  BY <1>1, DiscussionsKept DEF RekonInv, RekonApart
<1>4. QED
  BY <1>2, <1>3 DEF RekonInv

LEMMA LeavesApart ==
  ASSUME Base, NEW r \in Requests, Leave(r), UNCHANGED <<rekon, said, judged>>,
         raced \subseteq raced'
  PROVE  RekonApart(r)
BY HasLeft DEF RekonApart, Idle

LEMMA GoesOnApart ==
  ASSUME Base, NEW r \in Requests, NEW q, Goto(r, q), UNCHANGED <<rekon, said, judged>>,
         raced \subseteq raced', q.op = req[r].op,
         req[r].op \in {"upload", "sync", "tap", "history"}
  PROVE  RekonApart(r)
BY WentOn DEF RekonApart

LEMMA StartsApart ==
  ASSUME Base, NEW r \in Requests, NEW q, Start(r, q), UNCHANGED judged,
         raced \subseteq raced', q.op \in {"upload", "sync", "tap", "history"}
  PROVE  RekonApart(r)
BY Started DEF RekonApart

LEMMA TicketStepsApart ==
  ASSUME Base, NEW r \in Requests, TicketSteps(r)
  PROVE  RekonApart(r)
<1>0. req[r] \in Request
  BY Mine
<1>1. ASSUME NEW S \in Files, UploadTickets(r, S) \/ SyncTicketsFromOca(r, S)
      PROVE  RekonApart(r)
  <2>1. PICK op \in {"upload", "sync"}, timed \in {{}, Timed} : Receive(r, op, S, timed)
    BY <1>1 DEF UploadTickets, SyncTicketsFromOca
  <2> DEFINE q == [Idle EXCEPT !.op = op, !.at = "readTapped",
                               !.topic = {Ticket(t) : t \in S},
                               !.todo = {t \in S : RowsOf(t) = {}},
                               !.fill = {p \in First(UNION {RowsOf(t) : t \in S}) :
                                           ~pending[p].timed /\ pending[p].ticket \in timed},
                               !.timed = timed]
  <2>2. Start(r, q) /\ UNCHANGED judged /\ raced \subseteq raced'
    BY <2>1 DEF Receive
  <2>3. q.op = op
    BY DEF Idle
  <2> HIDE DEF q
  <2>4. QED
    BY <2>2, <2>3, StartsApart
<1>2. ASSUME NEW S \in Files, UploadHistoryTapping(r, S)
      PROVE  RekonApart(r)
  <2> DEFINE q == [Idle EXCEPT !.op = "history", !.at = "find", !.topic = {Ticket(t) : t \in S},
                               !.todo = S]
  <2>1. Start(r, q) /\ UNCHANGED judged /\ raced \subseteq raced'
    BY <1>2 DEF UploadHistoryTapping
  <2>2. q.op = "history"
    BY DEF Idle
  <2> HIDE DEF q
  <2>3. QED
    BY <2>1, <2>2, StartsApart
<1>3. ASSUME NEW t \in Tickets, NEW p, CreateFormTapping(r, t, p)
      PROVE  RekonApart(r)
  <2> DEFINE q == [Idle EXCEPT !.op = "tap", !.at = "create", !.topic = {Ticket(t)},
                               !.ticket = t, !.id = p]
  <2>1. Start(r, q) /\ UNCHANGED judged /\ raced \subseteq raced'
    BY <1>3 DEF CreateFormTapping
  <2>2. q.op = "tap"
    BY DEF Idle
  <2> HIDE DEF q
  <2>3. QED
    BY <2>1, <2>2, StartsApart
<1>4. CASE ReadTapped(r)
  <2> DEFINE q == [req[r] EXCEPT !.at = "fill", !.todo = req[r].todo \ Tapped,
                                 !.fill = {p \in req[r].fill : pending[p].ticket \notin Tapped}]
  <2>1. /\ Goto(r, q) /\ UNCHANGED <<rekon, said, judged, raced>>
        /\ req[r].op \in {"upload", "sync"}
    BY <1>4 DEF ReadTapped, Is, tables
  <2>2. q.op = req[r].op
    BY <1>0 DEF Request
  <2> HIDE DEF q
  <2>3. QED
    BY <2>1, <2>2, GoesOnApart
<1>5. CASE Fill(r)
  <2>1. req[r].op \in {"upload", "sync"}
    BY <1>5 DEF Fill, Is
  <2>2. ASSUME NEW p \in req[r].fill, Goto(r, [req[r] EXCEPT !.fill = req[r].fill \ {p}])
        PROVE  RekonApart(r)
    <3> DEFINE q == [req[r] EXCEPT !.fill = req[r].fill \ {p}]
    <3>1. Goto(r, q) /\ q.op = req[r].op
      BY <1>0, <2>2 DEF Request
    <3> HIDE DEF q
    <3>2. QED
      BY <1>5, <2>1, <3>1, FillEffect, GoesOnApart
  <2>3. QED
    BY <1>5, <2>2, FillEffect, LeavesApart
<1>6. CASE Insert(r)
  <2>1. req[r].op \in {"upload", "sync"}
    BY <1>6 DEF Insert, Is
  <2>2. ASSUME NEW B, Goto(r, [req[r] EXCEPT !.todo = req[r].todo \ B])
        PROVE  RekonApart(r)
    <3> DEFINE q == [req[r] EXCEPT !.todo = req[r].todo \ B]
    <3>1. Goto(r, q) /\ q.op = req[r].op
      BY <1>0, <2>2 DEF Request
    <3> HIDE DEF q
    <3>2. QED
      BY <1>6, <2>1, <3>1, InsertEffect, GoesOnApart
  <2>3. QED
    BY <1>6, <2>2, InsertEffect, LeavesApart DEF Inserted
<1>7. CASE Create(r) \/ Put(r) \/ Clean(r)
  <2>1. req[r].op \in {"tap", "history"} /\ UNCHANGED <<rekon, said, judged, raced>>
    BY <1>7 DEF Create, Put, Clean, Is
  <2>2. ASSUME NEW at, Goto(r, [req[r] EXCEPT !.at = at])
        PROVE  RekonApart(r)
    <3> DEFINE q == [req[r] EXCEPT !.at = at]
    <3>1. Goto(r, q) /\ q.op = req[r].op
      BY <1>0, <2>2 DEF Request
    <3> HIDE DEF q
    <3>2. QED
      BY <2>1, <3>1, GoesOnApart
  <2>3. QED
    BY <1>7, <2>1, <2>2, LeavesApart DEF Create, Put, Clean
<1>8. CASE Remove(r)
  BY <1>8, LeavesApart DEF Remove
<1>9. CASE Find(r)
  <2>1. req[r].op = "history" /\ UNCHANGED <<rekon, said, judged, raced>>
    BY <1>9 DEF Find, Is, tables
  <2>2. PICK t, f : Goto(r, [req[r] EXCEPT !.at = "put", !.ticket = t, !.id = f,
                                           !.todo = req[r].todo \ {t}])
    BY <1>9 DEF Find
  <2> DEFINE q == [req[r] EXCEPT !.at = "put", !.ticket = t, !.id = f, !.todo = req[r].todo \ {t}]
  <2>3. Goto(r, q) /\ q.op = req[r].op
    BY <1>0, <2>2 DEF Request
  <2> HIDE DEF q
  <2>4. QED
    BY <2>1, <2>3, GoesOnApart
<1>10. QED
  BY <1>1, <1>2, <1>3, <1>4, <1>5, <1>6, <1>7, <1>8, <1>9 DEF TicketSteps

\* A request that begins or that ends, and the others as they were.
LEMMA ProposeKeeps ==
  ASSUME Base, RekonInv, NEW r \in Requests, NEW f \in DOMAIN tapping, Propose(r, f)
  PROVE  RekonInv'
<1> DEFINE q == [Idle EXCEPT !.op = "propose", !.at = "check", !.topic = {Proposal(f)}, !.id = f]
<1>1. Start(r, q) /\ raced \subseteq raced' /\ judged' = judged
  BY DEF Propose
<1>2. q.op = "propose" /\ q.at = "check"
  BY DEF Idle
<1> HIDE DEF q
<1>3. /\ req'[r] = q /\ \A s \in Requests \ {r} : req'[s] = req[s]
      /\ UNCHANGED <<pending, tapping, rekon, replaced, said>>
  BY <1>1, Started
<1>4. ProposalsOK'
  BY <1>1, <1>2, <1>3, ProposalsKept DEF RekonInv
<1>5. RepliesOK'
  BY <1>1, <1>2, <1>3, DiscussionsKept DEF RekonInv
<1>6. QED
  BY <1>4, <1>5 DEF RekonInv

\* What it reads is what the discussion says, with its own message.
LEMMA ReplyKeeps ==
  ASSUME Base, RekonInv, NEW r \in Requests, NEW k \in DOMAIN rekon, Reply(r, k)
  PROVE  RekonInv'
<1> DEFINE talk == rekon[k].talk \union {started + 1}
           q == [Idle EXCEPT !.op = "reply", !.at = "write", !.topic = {Talk(k)}, !.id = k,
                             !.talk = talk]
<1>1. Start(r, q) /\ raced \subseteq raced' /\ judged' = judged
  BY DEF Reply
<1>2. rekon[k].talk \subseteq talk
  OBVIOUS
<1> HIDE DEF talk
<1>3. q.op = "reply" /\ q.id = k /\ q.talk = talk
  BY DEF Idle
<1> HIDE DEF q
<1>4. /\ req'[r] = q /\ \A s \in Requests \ {r} : req'[s] = req[s]
      /\ UNCHANGED <<pending, tapping, rekon, replaced, said>>
  BY <1>1, Started
<1>5. ProposalsOK'
  BY <1>1, <1>3, <1>4, ProposalsKept DEF RekonInv
<1>6. RepliesOK'
  <2>1. SUFFICES ASSUME NEW j \in DOMAIN rekon, Talk(j) \notin raced
                 PROVE  /\ SaidOf(j) = {j} \X rekon[j].talk
                        /\ \A s \in Requests :
                             req'[s].op = "reply" /\ req'[s].id = j =>
                               rekon[j].talk \subseteq req'[s].talk
    BY <1>1, <1>4 DEF RepliesOK, SaidOf, Talk
  <2>2. /\ SaidOf(j) = {j} \X rekon[j].talk
        /\ \A s \in Requests :
             req[s].op = "reply" /\ req[s].id = j => rekon[j].talk \subseteq req[s].talk
    BY <2>1 DEF RekonInv, RepliesOK
  <2>3. QED
    BY <1>2, <1>3, <1>4, <2>2
<1>7. QED
  BY <1>5, <1>6 DEF RekonInv

LEMMA JudgeKeeps ==
  ASSUME Base, RekonInv, NEW r \in Requests, NEW k \in DOMAIN rekon, Approve(r, k) \/ Reject(r, k)
  PROVE  RekonInv'
<1>1. PICK q \in Request :
        Start(r, q) /\ q.op \in {"approve", "reject"} /\ raced \union Races({Verdict(k)}) \subseteq raced'
  BY JudgeStarts
<1>2. /\ req'[r] = q /\ \A s \in Requests \ {r} : req'[s] = req[s]
      /\ UNCHANGED <<pending, tapping, rekon, replaced, said>>
  BY <1>1, Started
<1>3. ProposalsOK'
  BY <1>1, <1>2, ProposalsKept DEF RekonInv
<1>4. RepliesOK'
  BY <1>1, <1>2, DiscussionsKept DEF RekonInv
<1>5. QED
  BY <1>3, <1>4 DEF RekonInv

\* Who goes on to write has seen no open reconciliation.
LEMMA CheckKeeps ==
  ASSUME Base, RekonInv, NEW r \in Requests, Check(r)
  PROVE  RekonInv'
<1>1. /\ req[r] \in Request /\ req[r].op = "propose"
      /\ UNCHANGED <<pending, tapping, rekon, started, replaced, said, raced, left, judged>>
  BY Mine DEF Check, Is, tables
<1>2. CASE PendingRekons(req[r].id) # {}
  <2>1. Leave(r)
    BY <1>2 DEF Check
  <2>2. QED
    BY <1>1, <2>1, LeavesApart, ApartKeeps
<1>3. CASE PendingRekons(req[r].id) = {}
  <2> DEFINE q == [req[r] EXCEPT !.at = "write"]
  <2>1. Goto(r, q)
    BY <1>3 DEF Check
  <2>2. q.op = "propose" /\ q.id = req[r].id
    BY <1>1 DEF Request
  <2> HIDE DEF q
  <2>3. req'[r] = q /\ \A s \in Requests \ {r} : req'[s] = req[s]
    BY <2>1, WentOn
  <2>4. RepliesOK'
    BY <1>1, <2>2, <2>3, DiscussionsKept DEF RekonInv
  <2>5. ProposalsOK'
    <3>1. \A f : PendingRekons(f)' = PendingRekons(f)
      BY <1>1 DEF PendingRekons, Live
    <3>2. QED
      BY <1>1, <1>3, <2>2, <2>3, <3>1 DEF RekonInv, ProposalsOK, Proposal
  <2>6. QED
    BY <2>4, <2>5 DEF RekonInv
<1>4. QED
  BY <1>2, <1>3

\* What is written is the only open row still, and nobody else is about to write one.
LEMMA WriteProposalKeeps ==
  ASSUME Base, RekonInv, NEW r \in Requests, WriteProposal(r)
  PROVE  RekonInv'
<1>1. /\ DOMAIN rekon \subseteq DOMAIN rekon'
      /\ \A k \in DOMAIN rekon : rekon'[k] = rekon[k]
      /\ \A k \in (DOMAIN rekon') \ DOMAIN rekon :
           rekon'[k].tapping = req[r].id /\ rekon'[k].status = "PENDING" /\ rekon'[k].talk = {}
      /\ \A j, k \in (DOMAIN rekon') \ DOMAIN rekon : j = k
      /\ Leave(r) /\ req[r].op = "propose" /\ req[r].at = "write"
      /\ UNCHANGED <<pending, tapping, started, replaced, said, raced, left, judged>>
  BY WriteProposalEffect
<1>2. /\ req'[r] = Idle /\ \A s \in Requests \ {r} : req'[s] = req[s]
      /\ Idle.op = "none"
  BY <1>1, HasLeft DEF Idle
<1>3. ProposalsOK'
  <2>1. SUFFICES ASSUME NEW f \in DOMAIN tapping, Proposal(f) \notin raced
                 PROVE  /\ \A j, k \in PendingRekons(f)' : j = k
                        /\ \A s \in Requests :
                             req'[s].op = "propose" /\ req'[s].id = f /\ req'[s].at = "write" =>
                               PendingRekons(f)' = {}
    BY <1>1 DEF ProposalsOK, Proposal
  <2>2. /\ \A j, k \in PendingRekons(f) : j = k
        /\ \A s \in Requests :
             req[s].op = "propose" /\ req[s].id = f /\ req[s].at = "write" => PendingRekons(f) = {}
    BY <2>1 DEF RekonInv, ProposalsOK
  <2>3. CASE f # req[r].id
    <3>1. PendingRekons(f)' \subseteq PendingRekons(f)
      BY <1>1, <2>3 DEF PendingRekons, Live
    <3>2. QED
      BY <1>2, <2>2, <3>1
  <2>4. CASE f = req[r].id
    <3>1. PendingRekons(f) = {}
      BY <1>1, <2>2, <2>4
    <3>2. PendingRekons(f)' \subseteq (DOMAIN rekon') \ DOMAIN rekon
      BY <1>1, <3>1 DEF PendingRekons, Live
    <3>3. ASSUME NEW s \in Requests, req'[s].op = "propose", req'[s].id = f
          PROVE  FALSE
      <4>1. s # r /\ req[s].op = "propose" /\ req[s].id = f
        BY <1>2, <3>3
      <4>2. Proposal(f) \in req[s].topic /\ Proposal(f) \in req[r].topic
        BY <1>1, <2>4, <4>1, Mine DEF ShapeOK
      <4>3. QED
        BY <2>1, <4>1, <4>2 DEF Base, Exclusive
    <3>4. QED
      BY <1>1, <3>2, <3>3
  <2>5. QED
    BY <2>3, <2>4
<1>4. RestOK
  BY TypeParts DEF Base
<1>5. RepliesOK'
  <2>1. SUFFICES ASSUME NEW k \in DOMAIN rekon', Talk(k) \notin raced
                 PROVE  /\ SaidOf(k) = {k} \X rekon'[k].talk
                        /\ \A s \in Requests :
                             req'[s].op = "reply" /\ req'[s].id = k =>
                               rekon'[k].talk \subseteq req'[s].talk
    BY <1>1 DEF RepliesOK, SaidOf, Talk
  <2>2. CASE k \in DOMAIN rekon
    BY <1>1, <1>2, <2>1, <2>2 DEF RekonInv, RepliesOK
  <2>3. CASE k \notin DOMAIN rekon
    <3>1. SaidOf(k) = {}
      BY <1>4, <2>3 DEF RestOK, SaidOf
    <3>2. QED
      BY <1>1, <2>1, <2>3, <3>1
  <2>4. QED
    BY <2>2, <2>3
<1>6. QED
  BY <1>3, <1>5 DEF RekonInv

\* Nobody else is about to do the same, unless that was recorded.
LEMMA Alone ==
  ASSUME Base, NEW r \in Requests, NEW s \in Requests, r # s,
         NEW x, x \in req[r].topic, x \in req[s].topic
  PROVE  x \in raced
BY DEF Base, Exclusive

LEMMA ScoreKeeps ==
  ASSUME Base, RekonInv, NEW r \in Requests, Score(r)
  PROVE  RekonInv'
<1>1. /\ req[r] \in Request /\ req[r].op = "approve"
      /\ UNCHANGED <<rekon, said, raced, judged>> /\ DOMAIN tapping' = DOMAIN tapping
      /\ Leave(r) \/ Goto(r, [req[r] EXCEPT !.at = "verdict"])
  <2>1. None \in (DOMAIN rekon) \union {None} /\ DOMAIN rekon \subseteq (DOMAIN rekon) \union {None}
    OBVIOUS
  <2>2. QED
    BY <2>1, ScoreEffect, RescoreEffect
<1>2. CASE Leave(r)
  BY <1>1, <1>2, LeavesApart, ApartKeeps
<1>3. CASE Goto(r, [req[r] EXCEPT !.at = "verdict"])
  <2> DEFINE q == [req[r] EXCEPT !.at = "verdict"]
  <2>1. Goto(r, q) /\ q.op = "approve"
    BY <1>1, <1>3 DEF Request
  <2> HIDE DEF q
  <2>2. req'[r] = q /\ \A s \in Requests \ {r} : req'[s] = req[s]
    BY <2>1, WentOn
  <2>3. ProposalsOK'
    BY <1>1, <2>1, <2>2, ProposalsKept DEF RekonInv
  <2>4. RepliesOK'
    BY <1>1, <2>1, <2>2, DiscussionsKept DEF RekonInv
  <2>5. QED
    BY <2>3, <2>4 DEF RekonInv
<1>4. QED
  BY <1>1, <1>2, <1>3

LEMMA WriteVerdictKeeps ==
  ASSUME Base, RekonInv, NEW r \in Requests, WriteVerdict(r)
  PROVE  RekonInv'
<1>1. /\ DOMAIN rekon' = DOMAIN rekon
      /\ \A j \in DOMAIN rekon :
           /\ rekon'[j].tapping = rekon[j].tapping
           /\ rekon'[j].talk = rekon[j].talk
           /\ rekon'[j].live = rekon[j].live
           /\ \/ rekon'[j].status = rekon[j].status
              \/ rekon'[j].status = StatusOf(req[r].op)
      /\ Leave(r) /\ req[r].op \in {"approve", "reject"} /\ req[r].at = "verdict"
      /\ UNCHANGED <<pending, tapping, started, replaced, said, raced, left, judged>>
  BY WriteVerdictEffect
<1>2. /\ req'[r] = Idle /\ \A s \in Requests \ {r} : req'[s] = req[s]
      /\ Idle.op = "none"
  BY <1>1, HasLeft DEF Idle
<1>3. StatusOf(req[r].op) # "PENDING"
  BY DEF StatusOf
<1>4. ProposalsOK'
  BY <1>1, <1>2, <1>3, ProposalsKept DEF RekonInv
<1>5. RepliesOK'
  BY <1>1, <1>2, DiscussionsKept DEF RekonInv
<1>6. QED
  BY <1>4, <1>5 DEF RekonInv

\* The discussion written holds all that it held, and the reply.
LEMMA WriteReplyKeeps ==
  ASSUME Base, RekonInv, NEW r \in Requests, WriteReply(r)
  PROVE  RekonInv'
<1> DEFINE k == req[r].id
           talk == req[r].talk
<1>1. /\ DOMAIN rekon' = DOMAIN rekon
      /\ \A j \in DOMAIN rekon :
           /\ rekon'[j].tapping = rekon[j].tapping
           /\ rekon'[j].status = rekon[j].status
           /\ rekon'[j].live = rekon[j].live
           /\ j # k => rekon'[j].talk = rekon[j].talk
      /\ \/ rekon'[k].talk = rekon[k].talk /\ said' = said
         \/ rekon'[k].talk = talk /\ said' = said \union ({k} \X talk)
      /\ k \in DOMAIN rekon
      /\ Leave(r) /\ req[r].op = "reply"
      /\ UNCHANGED <<pending, tapping, started, replaced, raced, left, judged>>
  BY WriteReplyEffect
<1>2. /\ req'[r] = Idle /\ \A s \in Requests \ {r} : req'[s] = req[s]
      /\ Idle.op = "none"
  BY <1>1, HasLeft DEF Idle
<1>3. ProposalsOK'
  BY <1>1, <1>2, ProposalsKept DEF RekonInv
<1>4. RepliesOK'
  <2>1. SUFFICES ASSUME NEW j \in DOMAIN rekon, Talk(j) \notin raced
                 PROVE  /\ SaidOf(j)' = {j} \X rekon'[j].talk
                        /\ \A s \in Requests :
                             req'[s].op = "reply" /\ req'[s].id = j =>
                               rekon'[j].talk \subseteq req'[s].talk
    BY <1>1 DEF RepliesOK, SaidOf, Talk
  <2>2. /\ SaidOf(j) = {j} \X rekon[j].talk
        /\ \A s \in Requests :
             req[s].op = "reply" /\ req[s].id = j => rekon[j].talk \subseteq req[s].talk
    BY <2>1 DEF RekonInv, RepliesOK
  <2>3. CASE j # k
    <3>1. SaidOf(j)' = SaidOf(j)
      BY <1>1, <2>3 DEF SaidOf
    <3>2. QED
      BY <1>1, <1>2, <2>2, <2>3, <3>1
  <2>4. CASE j = k
    <3>1. rekon[j].talk \subseteq talk
      BY <1>1, <2>2, <2>4
    <3>2. SaidOf(j)' = {j} \X rekon'[j].talk
      BY <1>1, <2>2, <2>4, <3>1 DEF SaidOf
    <3>3. ASSUME NEW s \in Requests, req'[s].op = "reply", req'[s].id = j
          PROVE  FALSE
      <4>1. s # r /\ req[s].op = "reply" /\ req[s].id = j
        BY <1>2, <3>3
      <4>2. Talk(j) \in req[s].topic /\ Talk(j) \in req[r].topic
        BY <1>1, <2>4, <4>1, Mine DEF ShapeOK
      <4>3. QED
        BY <2>1, <4>1, <4>2, Alone
    <3>4. QED
      BY <3>2, <3>3
  <2>5. QED
    BY <2>3, <2>4
<1>5. QED
  BY <1>3, <1>4 DEF RekonInv

LEMMA RekonStepsKeep ==
  ASSUME Base, RekonInv, NEW r \in Requests, RekonSteps(r)
  PROVE  RekonInv'
BY ProposeKeeps, JudgeKeeps, ReplyKeeps, CheckKeeps, WriteProposalKeeps, ScoreKeeps,
   WriteVerdictKeeps, WriteReplyKeeps DEF RekonSteps

\* A reconciliation that is deleted was open no more than it was.
LEMMA DeletionsKeep ==
  ASSUME Base, RekonInv, Deletions
  PROVE  RekonInv'
<1>1. ASSUME NEW k \in DOMAIN rekon, RemoveRekon(k)
      PROVE  RekonInv'
  <2> DEFINE S == {k}
  <2>1. rekon' = Delete(rekon, S) /\ UNCHANGED <<tapping, req, said, raced, judged>>
    BY <1>1 DEF RemoveRekon
  <2> HIDE DEF S
  <2>2. /\ DOMAIN rekon' = DOMAIN rekon
        /\ \A j \in DOMAIN rekon :
             /\ rekon'[j].tapping = rekon[j].tapping
             /\ rekon'[j].status = rekon[j].status
             /\ rekon'[j].talk = rekon[j].talk
             /\ rekon'[j].live => rekon[j].live
    BY <2>1, RekonDeleted
  <2>3. ProposalsOK'
    BY <2>1, <2>2, ProposalsKept DEF RekonInv
  <2>4. RepliesOK'
    BY <2>1, <2>2, DiscussionsKept DEF RekonInv
  <2>5. QED
    BY <2>3, <2>4 DEF RekonInv
<1>2. ASSUME UNCHANGED <<rekon, req, said, raced, judged>>
      PROVE  RekonInv'
  <2>1. ProposalsOK'
    BY <1>2, ProposalsKept DEF RekonInv
  <2>2. RepliesOK'
    BY <1>2, DiscussionsKept DEF RekonInv
  <2>3. QED
    BY <2>1, <2>2 DEF RekonInv
<1>3. QED
  BY <1>1, <1>2 DEF Deletions, DeletePendingTicket, DeleteFormTapping, UpdateFormTapping

LEMMA RekonInvAtFirst ==
  ASSUME Init
  PROVE  RekonInv
<1>1. rekon = <<>> /\ tapping = <<>>
  BY DEF Init
<1>2. DOMAIN rekon = {} /\ DOMAIN tapping = {}
  BY <1>1
<1>3. QED
  BY <1>1, <1>2 DEF RekonInv, ProposalsOK, RepliesOK

LEMMA RekonInvHolds == Spec => [](Base /\ RekonInv)
<1>1. ASSUME Base, RekonInv, [Next]_vars
      PROVE  RekonInv'
  <2>1. CASE \E r \in Requests : TicketSteps(r)
    BY <1>1, <2>1, TicketStepsApart, ApartKeeps
  <2>2. CASE \E r \in Requests : RekonSteps(r)
    BY <1>1, <2>2, RekonStepsKeep
  <2>3. CASE \E r \in Requests : Fail(r)
    <3>1. PICK r \in Requests : Fail(r)
      BY <2>3
    <3>2. Leave(r) /\ UNCHANGED <<rekon, said, judged>> /\ raced \subseteq raced'
      BY <3>1 DEF Fail, tables
    <3>3. QED
      BY <1>1, <3>2, LeavesApart, ApartKeeps
  <2>4. CASE Deletions
    BY <1>1, <2>4, DeletionsKeep
  <2>5. CASE UNCHANGED vars
    <3>1. UNCHANGED <<rekon, req, said, raced, judged>>
      BY <2>5 DEF vars, tables
    <3>2. ProposalsOK'
      BY <1>1, <3>1, ProposalsKept DEF RekonInv
    <3>3. RepliesOK'
      BY <1>1, <3>1, DiscussionsKept DEF RekonInv
    <3>4. QED
      BY <3>2, <3>3 DEF RekonInv
  <2>6. QED
    BY <1>1, <2>1, <2>2, <2>3, <2>4, <2>5 DEF Next
<1>2. QED
  BY <1>1, BaseHolds, RekonInvAtFirst, PTL DEF Spec

\* create of QaReconciliationService looks for an open reconciliation before it writes
\* one: no tapping has two unless two proposals of it were under way at the same time.
THEOREM OnePendingRekonHolds == Spec => []OnePendingRekon
<1>1. ASSUME RekonInv
      PROVE  OnePendingRekon
  <2>1. SUFFICES ASSUME NEW f \in DOMAIN tapping, Proposal(f) \notin raced
                 PROVE  Cardinality(PendingRekons(f)) <= 1
    BY DEF OnePendingRekon
  <2>2. \A j, k \in PendingRekons(f) : j = k
    BY <1>1, <2>1 DEF RekonInv, ProposalsOK
  <2>3. QED
    BY <2>2, AtMostOne
<1>2. QED
  BY <1>1, RekonInvHolds, PTL

\* Every reply writes the whole discussion it read, and a verdict the row: a reply that
\* was acknowledged stays, unless two replies to one reconciliation overlapped.
THEOREM RepliesKeptHolds == Spec => []RepliesKept
<1>1. RekonInv => RepliesKept
  BY DEF RekonInv, RepliesOK, RepliesKept, SaidOf
<1>2. QED
  BY <1>1, RekonInvHolds, PTL

-----------------------------------------------------------------------------
(* The promise of the verdicts.                                            *)

VerdictInv == ScoresOK /\ VerdictsOK

\* No tapping gets scores of a reconciliation, and those it loses are recorded.
ScoresStay ==
  /\ \A f \in DOMAIN tapping' :
       \/ tapping'[f].scores = None
       \/ f \in DOMAIN tapping /\ tapping'[f].scores = tapping[f].scores
  /\ \A f \in DOMAIN tapping :
       /\ f \in DOMAIN tapping'
       /\ \/ tapping'[f].scores = tapping[f].scores
          \/ tapping[f].scores \in replaced' \union {None}
  /\ replaced \subseteq replaced'

LEMMA RekonFacts ==
  ASSUME Base, NEW k \in DOMAIN rekon
  PROVE  /\ k \in Nat \ {0} /\ k # None
         /\ rekon[k].tapping \in DOMAIN tapping
         /\ \A f \in DOMAIN tapping : tapping[f].scores \in (DOMAIN rekon) \union {None}
         /\ judged \subseteq DOMAIN rekon
BY Indices, TypeParts, QaReviewAssumption DEF Base, RestOK, RekonRow, TappingRow, QaReviewAssumption

\* A reconciliation whose verdict a step is not about.
LEMMA VerdictAside ==
  ASSUME NEW k \in DOMAIN rekon, VerdictOK(k),
         Has(k)' => Has(k),
         Has(k) \/ k \in replaced => Has(k)' \/ k \in replaced',
         rekon'[k].status = rekon[k].status,
         rekon'[k].live => rekon[k].live,
         k \in judged' => k \in judged,
         \A s \in Requests :
           req'[s].op \in {"approve", "reject"} /\ req'[s].id = k => req'[s] = req[s],
         \A s \in Requests :
           req[s].op = "approve" /\ req[s].at = "verdict" /\ req[s].id = k => req'[s] = req[s]
  PROVE  VerdictOK(k)'
<1>1. rekon'[k].status = "APPROVED" => Has(k)' \/ k \in replaced'
  BY DEF VerdictOK
<1>2. ASSUME Has(k)', rekon'[k].live
      PROVE  \/ rekon'[k].status = "APPROVED"
             \/ \E s \in Requests : req'[s].op = "approve" /\ req'[s].at = "verdict" /\ req'[s].id = k
  BY <1>2 DEF VerdictOK
<1>3. ASSUME NEW s \in Requests, req'[s].id = k
      PROVE  /\ req'[s].op = "reject" => k \notin judged'
             /\ req'[s].op = "approve" /\ req'[s].at = "verdict" => Has(k)' \/ k \in replaced'
  <2>1. req'[s].op \in {"approve", "reject"} => req'[s] = req[s]
    BY <1>3
  <2>2. QED
    BY <1>3, <2>1 DEF VerdictOK
<1>4. QED
  BY <1>1, <1>2, <1>3 DEF VerdictOK

LEMMA ScoresKept ==
  ASSUME Base, ScoresOK, ScoresStay, judged \subseteq judged',
         \A k \in DOMAIN rekon : k \in DOMAIN rekon' /\ rekon'[k].tapping = rekon[k].tapping
  PROVE  /\ ScoresOK'
         /\ \A k \in DOMAIN rekon : /\ Has(k)' => Has(k)
                                    /\ Has(k) \/ k \in replaced => Has(k)' \/ k \in replaced'
<1>1. ScoresOK'
  <2>1. SUFFICES ASSUME NEW f \in DOMAIN tapping', tapping'[f].scores # None
                 PROVE  /\ tapping'[f].scores \in judged'
                        /\ rekon'[tapping'[f].scores].tapping = f
    BY DEF ScoresOK
  <2>2. f \in DOMAIN tapping /\ tapping'[f].scores = tapping[f].scores
    BY <2>1 DEF ScoresStay
  <2>3. tapping[f].scores \in judged /\ rekon[tapping[f].scores].tapping = f
    BY <2>1, <2>2 DEF ScoresOK
  <2>4. judged \subseteq DOMAIN rekon
    BY TypeParts DEF Base, RestOK
  <2>5. QED
    BY <2>2, <2>3, <2>4
<1>2. ASSUME NEW k \in DOMAIN rekon
      PROVE  /\ Has(k)' => Has(k)
             /\ Has(k) \/ k \in replaced => Has(k)' \/ k \in replaced'
  <2>1. k # None /\ rekon[k].tapping \in DOMAIN tapping /\ rekon'[k].tapping = rekon[k].tapping
    BY RekonFacts
  <2>2. Has(k)' => Has(k)
    BY <2>1 DEF Has, ScoresStay
  <2>3. Has(k) => Has(k)' \/ k \in replaced'
    BY <2>1 DEF Has, ScoresStay
  <2>4. QED
    BY <2>2, <2>3 DEF ScoresStay
<1>3. QED
  BY <1>1, <1>2

LEMMA VerdictsKept ==
  ASSUME Base, VerdictInv, ScoresStay, raced \subseteq raced', UNCHANGED judged,
         DOMAIN rekon' = DOMAIN rekon,
         \A k \in DOMAIN rekon : /\ rekon'[k].tapping = rekon[k].tapping
                                 /\ rekon'[k].status = rekon[k].status
                                 /\ rekon'[k].live => rekon[k].live,
         \A s \in Requests : req'[s].op \in {"approve", "reject"} => req'[s] = req[s],
         \A s \in Requests :
           req[s].op = "approve" /\ req[s].at = "verdict" =>
             req'[s] = req[s] \/ Verdict(req[s].id) \in raced'
  PROVE  VerdictInv'
<1>1. /\ ScoresOK'
      /\ \A k \in DOMAIN rekon : /\ Has(k)' => Has(k)
                                 /\ Has(k) \/ k \in replaced => Has(k)' \/ k \in replaced'
  BY ScoresKept DEF VerdictInv
<1>2. ASSUME NEW k \in DOMAIN rekon, Verdict(k) \notin raced'
      PROVE  VerdictOK(k)'
  <2>1. VerdictOK(k)
    BY <1>2 DEF VerdictInv, VerdictsOK
  <2>2. \A s \in Requests :
          req[s].op = "approve" /\ req[s].at = "verdict" /\ req[s].id = k => req'[s] = req[s]
    BY <1>2
  <2>3. QED
    BY <1>1, <2>1, <2>2, VerdictAside
<1>3. QED
  BY <1>1, <1>2 DEF VerdictInv, VerdictsOK, Verdict

LEMMA SameScores ==
  ASSUME UNCHANGED <<tapping, replaced>>
  PROVE  ScoresStay
BY DEF ScoresStay

\* Scores of a file or an edit take the place of others.
LEMMA OtherScores ==
  ASSUME Base, NEW f \in DOMAIN tapping, Rescore(f, None)
  PROVE  ScoresStay
<1>1. /\ DOMAIN tapping' = DOMAIN tapping
      /\ \A g \in DOMAIN tapping : tapping'[g].scores = IF g = f THEN None ELSE tapping[g].scores
      /\ replaced' = (replaced \union {tapping[f].scores}) \ {None, None}
  BY RescoreEffect
<1>2. None \notin replaced
  BY TypeParts, Indices, QaReviewAssumption DEF Base, RestOK, QaReviewAssumption
<1>3. QED
  BY <1>1, <1>2 DEF ScoresStay

LEMMA TicketStepsScores ==
  ASSUME Base, NEW r \in Requests, TicketSteps(r)
  PROVE  ScoresStay /\ req[r].op \notin {"approve", "reject"}
<1>1. ASSUME NEW q, Start(r, q)
      PROVE  ScoresStay /\ req[r].op \notin {"approve", "reject"}
  BY <1>1, Started, SameScores DEF Idle
<1>2. ASSUME NEW S \in Files, UploadTickets(r, S) \/ SyncTicketsFromOca(r, S)
      PROVE  \E q : Start(r, q)
  BY <1>2 DEF UploadTickets, SyncTicketsFromOca, Receive
<1>3. ASSUME NEW S \in Files, UploadHistoryTapping(r, S)
      PROVE  \E q : Start(r, q)
  BY <1>3 DEF UploadHistoryTapping
<1>4. ASSUME NEW t, NEW p, CreateFormTapping(r, t, p)
      PROVE  \E q : Start(r, q)
  BY <1>4 DEF CreateFormTapping
<1>5. CASE ReadTapped(r) \/ Fill(r) \/ Insert(r) \/ Remove(r) \/ Find(r) \/ Clean(r)
  BY <1>5, SameScores DEF ReadTapped, Fill, Insert, Remove, Find, Clean, Is, tables
<1>6. CASE Create(r)
  <2>1. /\ tapping' = NewTapping(req[r].ticket) /\ req[r].op = "tap" /\ replaced' = replaced
        /\ req[r].ticket \in Tickets
    BY <1>6, Mine DEF Create, Is, ShapeOK
  <2>2. QED
    BY <2>1, TappingAdded DEF ScoresStay
<1>7. CASE Put(r)
  <2>1. req[r].op = "history"
    BY <1>7 DEF Put, Is
  <2>2. CASE (\A f \in DOMAIN tapping : tapping'[f] = tapping[f]) /\ replaced' = replaced
    BY <1>7, <2>1, <2>2, PutEffect DEF ScoresStay
  <2>3. CASE req[r].id \in DOMAIN tapping /\ Rescore(req[r].id, None)
    BY <2>1, <2>3, OtherScores
  <2>4. QED
    BY <1>7, <2>2, <2>3, PutEffect
<1>8. QED
  BY <1>1, <1>2, <1>3, <1>4, <1>5, <1>6, <1>7 DEF TicketSteps

LEMMA TicketStepsVerdicts ==
  ASSUME Base, VerdictInv, NEW r \in Requests, TicketSteps(r)
  PROVE  VerdictInv'
BY TicketStepsApart, TicketStepsScores, VerdictsKept DEF RekonApart

\* Nobody else is giving a verdict on k, unless that was recorded.
LEMMA OnlyVerdict ==
  ASSUME Base, NEW r \in Requests, NEW k, req[r].topic = {Verdict(k)}, Verdict(k) \notin raced
  PROVE  \A s \in Requests \ {r} : req[s].op \in {"approve", "reject"} => req[s].id # k
BY Alone, Mine DEF ShapeOK

\* The first verdict, or a later one: there is no other meanwhile.
LEMMA JudgeVerdicts ==
  ASSUME Base, VerdictInv, NEW r \in Requests, NEW k \in DOMAIN rekon, Approve(r, k) \/ Reject(r, k)
  PROVE  VerdictInv'
<1>1. PICK q \in Request :
        /\ Start(r, q)
        /\ q.op \in {"approve", "reject"} /\ q.at = IF q.op = "approve" THEN "score" ELSE "verdict"
        /\ q.id = k
        /\ judged' = IF q.op = "approve" THEN judged \union {k} ELSE judged
        /\ raced \union Races({Verdict(k)}) \subseteq raced'
        /\ q.op = "reject" /\ k \in judged => Verdict(k) \in raced'
  BY JudgeStarts
<1>2. /\ req'[r] = q /\ \A s \in Requests \ {r} : req'[s] = req[s]
      /\ req[r].op = "none"
      /\ UNCHANGED <<tapping, rekon, replaced>>
  BY <1>1, Started DEF Idle
<1>3. judged \subseteq judged' /\ ScoresStay
  BY <1>1, <1>2, SameScores
<1>4. ScoresOK' /\ \A j \in DOMAIN rekon : Has(j)' <=> Has(j)
  BY <1>2, <1>3, ScoresKept DEF VerdictInv, Has
<1>5. ASSUME NEW j \in DOMAIN rekon, Verdict(j) \notin raced'
      PROVE  VerdictOK(j)'
  <2>1. VerdictOK(j)
    BY <1>1, <1>5 DEF VerdictInv, VerdictsOK
  <2>2. CASE j # k
    BY <1>1, <1>2, <1>4, <2>1, <2>2, VerdictAside
  <2>3. CASE j = k
    <3>1. \A s \in Requests : req[s].op \in {"approve", "reject"} => req[s].id # k
      <4>1. \A s \in Requests : Verdict(k) \notin req[s].topic
        BY <1>1, <1>5, <2>3 DEF Races
      <4>2. QED
        BY <4>1, Mine DEF ShapeOK
    <3>2. /\ rekon[k].status = "APPROVED" => Has(k) \/ k \in replaced
          /\ Has(k) /\ rekon[k].live => rekon[k].status = "APPROVED"
      BY <2>1, <2>3, <3>1 DEF VerdictOK
    <3>3. \A s \in Requests :
            req'[s].id = k =>
              /\ req'[s].op = "reject" => k \notin judged'
              /\ ~(req'[s].op = "approve" /\ req'[s].at = "verdict")
      BY <1>1, <1>2, <1>5, <2>3, <3>1
    <3>4. QED
      BY <1>2, <1>4, <2>3, <3>2, <3>3 DEF VerdictOK
  <2>4. QED
    BY <2>2, <2>3
<1>6. QED
  BY <1>2, <1>4, <1>5 DEF VerdictInv, VerdictsOK, Verdict

\* A row that is new has no verdict, and no scores are its own.
LEMMA WriteProposalVerdicts ==
  ASSUME Base, VerdictInv, NEW r \in Requests, WriteProposal(r)
  PROVE  VerdictInv'
<1>1. /\ DOMAIN rekon \subseteq DOMAIN rekon'
      /\ \A k \in DOMAIN rekon : rekon'[k] = rekon[k]
      /\ \A k \in (DOMAIN rekon') \ DOMAIN rekon :
           rekon'[k].tapping = req[r].id /\ rekon'[k].status = "PENDING"
      /\ Leave(r) /\ req[r].op = "propose"
      /\ UNCHANGED <<tapping, replaced, raced, judged>>
  BY WriteProposalEffect
<1>2. /\ req'[r] = Idle /\ \A s \in Requests \ {r} : req'[s] = req[s]
      /\ Idle.op = "none"
  BY <1>1, HasLeft DEF Idle
<1>3. /\ ScoresOK'
      /\ \A k \in DOMAIN rekon : /\ Has(k)' => Has(k)
                                 /\ Has(k) \/ k \in replaced => Has(k)' \/ k \in replaced'
  BY <1>1, SameScores, ScoresKept DEF VerdictInv
<1>4. ASSUME NEW k \in DOMAIN rekon', Verdict(k) \notin raced
      PROVE  VerdictOK(k)'
  <2>1. CASE k \in DOMAIN rekon
    <3>1. VerdictOK(k)
      BY <1>4, <2>1 DEF VerdictInv, VerdictsOK
    <3>2. QED
      BY <1>1, <1>2, <1>3, <2>1, <3>1, VerdictAside
  <2>2. CASE k \notin DOMAIN rekon
    <3>1. /\ rekon'[k].tapping \in DOMAIN tapping
          /\ \A f \in DOMAIN tapping : tapping[f].scores \in (DOMAIN rekon) \union {None}
          /\ k # None
      <4>1. ShapeOK(req[r]) /\ TablesOK /\ rekon' \in Seq(RekonRow)
        BY Mine, TypeParts, WriteProposalEffect DEF Base, RestOK
      <4>2. k \in Nat
        BY <4>1
      <4>3. QED
        BY <1>1, <2>2, <4>1, <4>2, Indices, QaReviewAssumption
           DEF ShapeOK, TappingRow, QaReviewAssumption
    <3>2. ~Has(k)'
      BY <1>1, <2>2, <3>1 DEF Has
    <3>3. \A s \in Requests : req'[s].op \in {"approve", "reject"} => req'[s].id # k
      BY <1>2, <2>2, Mine DEF ShapeOK
    <3>4. QED
      BY <1>1, <2>2, <3>2, <3>3 DEF VerdictOK
  <2>3. QED
    BY <2>1, <2>2
<1>5. QED
  BY <1>1, <1>3, <1>4 DEF VerdictInv, VerdictsOK, Verdict

\* The scores of the reconciliation replace those of another, which is recorded.
LEMMA ScoreVerdicts ==
  ASSUME Base, VerdictInv, NEW r \in Requests, Score(r)
  PROVE  VerdictInv'
<1> DEFINE k == req[r].id
           f == rekon[k].tapping
<1>1. /\ req[r] \in Request /\ ShapeOK(req[r]) /\ req[r].op = "approve" /\ req[r].at = "score"
      /\ k \in DOMAIN rekon /\ f \in DOMAIN tapping
      /\ UNCHANGED <<rekon, raced, judged>>
      /\ \/ Leave(r) /\ UNCHANGED <<tapping, replaced>>
         \/ Rescore(f, k) /\ Goto(r, [req[r] EXCEPT !.at = "verdict"])
  BY ScoreEffect
<1>2. req[r].topic = {Verdict(k)} /\ k \in judged
  BY <1>1 DEF ShapeOK
<1> HIDE DEF f
<1>3. CASE Leave(r) /\ UNCHANGED <<tapping, replaced>>
  <2>1. /\ req'[r] = Idle /\ \A s \in Requests \ {r} : req'[s] = req[s]
        /\ Idle.op = "none"
    BY <1>3, HasLeft DEF Idle
  <2>2. QED
    BY <1>1, <1>3, <2>1, SameScores, VerdictsKept
<1>4. CASE Rescore(f, k) /\ Goto(r, [req[r] EXCEPT !.at = "verdict"])
  <2> DEFINE q == [req[r] EXCEPT !.at = "verdict"]
  <2>1. Goto(r, q) /\ q.op = "approve" /\ q.id = k /\ q.at = "verdict"
    BY <1>1, <1>4 DEF Request
  <2> HIDE DEF q, k
  <2>2. req'[r] = q /\ \A s \in Requests \ {r} : req'[s] = req[s]
    BY <2>1, WentOn
  <2>3. k \in (DOMAIN rekon) \union {None}
    BY <1>1
  <2>4. /\ DOMAIN tapping' = DOMAIN tapping
        /\ \A g \in DOMAIN tapping : tapping'[g].scores = IF g = f THEN k ELSE tapping[g].scores
        /\ replaced' = (replaced \union {tapping[f].scores}) \ {k, None}
    BY <1>1, <1>4, <2>3, RescoreEffect
  <2>5. ScoresOK'
    <3>1. SUFFICES ASSUME NEW g \in DOMAIN tapping, tapping'[g].scores # None
                   PROVE  /\ tapping'[g].scores \in judged
                          /\ rekon[tapping'[g].scores].tapping = g
      BY <1>1, <2>4 DEF ScoresOK
    <3>2. CASE g = f
      BY <1>2, <2>4, <3>2 DEF f, k
    <3>3. CASE g # f
      BY <2>4, <3>1, <3>3 DEF VerdictInv, ScoresOK
    <3>4. QED
      BY <3>2, <3>3
  <2>6. ASSUME NEW j \in DOMAIN rekon, Verdict(j) \notin raced
        PROVE  VerdictOK(j)'
    <3>1. VerdictOK(j) /\ j # None /\ rekon[j].tapping \in DOMAIN tapping
      BY <2>6, RekonFacts DEF VerdictInv, VerdictsOK
    <3>2. CASE j # k
      <4>1. /\ Has(j)' => Has(j)
            /\ Has(j) \/ j \in replaced => Has(j)' \/ j \in replaced'
        BY <1>1, <2>4, <3>1, <3>2 DEF Has
      <4>2. \A s \in Requests :
              /\ req'[s].op \in {"approve", "reject"} /\ req'[s].id = j => req'[s] = req[s]
              /\ req[s].op = "approve" /\ req[s].at = "verdict" /\ req[s].id = j => req'[s] = req[s]
        BY <1>1, <2>1, <2>2, <3>2
      <4>3. QED
        BY <1>1, <3>1, <4>1, <4>2, VerdictAside
    <3>3. CASE j = k
      <4>1. Has(j)'
        <5>1. rekon'[j].tapping = f
          BY <1>1, <3>3 DEF f
        <5>2. tapping'[f].scores = j
          BY <1>1, <2>4, <3>3
        <5>3. QED
          BY <5>1, <5>2 DEF Has
      <4>2. \A s \in Requests \ {r} : req[s].op \in {"approve", "reject"} => req[s].id # k
        BY <1>2, <2>6, <3>3, OnlyVerdict
      <4>3. \A s \in Requests : req'[s].id = k => req'[s].op # "reject"
        BY <2>1, <2>2, <4>2
      <4>4. req'[r].op = "approve" /\ req'[r].at = "verdict" /\ req'[r].id = k
        BY <2>1, <2>2
      <4>5. QED
        BY <1>1, <3>3, <4>1, <4>3, <4>4 DEF VerdictOK
    <3>4. QED
      BY <3>2, <3>3
  <2>7. QED
    BY <1>1, <2>5, <2>6 DEF VerdictInv, VerdictsOK, Verdict
<1>5. QED
  BY <1>1, <1>3, <1>4

\* What is approved has had its scores written, and what is rejected has not.
LEMMA WriteVerdictVerdicts ==
  ASSUME Base, VerdictInv, NEW r \in Requests, WriteVerdict(r)
  PROVE  VerdictInv'
<1> DEFINE k == req[r].id
<1>1. /\ DOMAIN rekon' = DOMAIN rekon
      /\ \A j \in DOMAIN rekon :
           /\ rekon'[j].tapping = rekon[j].tapping
           /\ rekon'[j].live = rekon[j].live
           /\ \/ rekon'[j].status = rekon[j].status
              \/ j = k /\ rekon'[j].status = StatusOf(req[r].op)
      /\ Leave(r) /\ req[r].op \in {"approve", "reject"} /\ req[r].at = "verdict"
      /\ UNCHANGED <<tapping, replaced, raced, judged>>
  BY WriteVerdictEffect
<1>2. k \in DOMAIN rekon /\ req[r].topic = {Verdict(k)}
  BY <1>1, Mine DEF ShapeOK
<1>3. rekon[k].live => rekon'[k].status = StatusOf(req[r].op)
  <2>1. rekon[k].live => rekon' = [rekon EXCEPT ![k].status = StatusOf(req[r].op)]
    BY <1>2 DEF WriteVerdict, Live
  <2>2. rekon[k] \in RekonRow
    BY <1>2, Indices, TypeParts DEF Base, RestOK
  <2>3. QED
    BY <1>2, <2>1, <2>2 DEF RekonRow
<1>4. StatusOf(req[r].op) = IF req[r].op = "approve" THEN "APPROVED" ELSE "REJECTED"
  BY DEF StatusOf
<1>5. /\ req'[r] = Idle /\ \A s \in Requests \ {r} : req'[s] = req[s]
      /\ Idle.op = "none"
  BY <1>1, HasLeft DEF Idle
<1>6. /\ ScoresOK'
      /\ \A j \in DOMAIN rekon : Has(j)' <=> Has(j)
  BY <1>1, SameScores, ScoresKept DEF VerdictInv, Has
<1>7. ASSUME NEW j \in DOMAIN rekon, Verdict(j) \notin raced
      PROVE  VerdictOK(j)'
  <2>1. VerdictOK(j)
    BY <1>7 DEF VerdictInv, VerdictsOK
  <2>2. CASE j # k
    BY <1>1, <1>5, <1>6, <2>1, <2>2, VerdictAside
  <2>3. CASE j = k
    <3>1. \A s \in Requests : req'[s].op \in {"approve", "reject"} => req'[s].id # k
      BY <1>2, <1>5, <1>7, <2>3, OnlyVerdict
    <3>2. CASE req[r].op = "approve"
      <4>1. Has(k) \/ k \in replaced
        BY <1>1, <2>1, <2>3, <3>2 DEF VerdictOK
      <4>2. rekon'[k].live => rekon'[k].status = "APPROVED"
        BY <1>1, <1>2, <1>3, <1>4, <3>2
      <4>3. QED
        BY <1>1, <1>6, <2>3, <3>1, <4>1, <4>2 DEF VerdictOK
    <3>3. CASE req[r].op = "reject"
      <4>1. k \notin judged
        BY <2>1, <2>3, <3>3 DEF VerdictOK
      <4>2. ~Has(k)
        BY <1>2, <4>1, RekonFacts DEF VerdictInv, ScoresOK, Has
      <4>3. rekon'[k].status = "APPROVED" => Has(k) \/ k \in replaced
        BY <1>1, <1>2, <1>4, <2>1, <2>3, <3>3 DEF VerdictOK
      <4>4. QED
        BY <1>1, <1>6, <2>3, <3>1, <4>2, <4>3 DEF VerdictOK
    <3>4. QED
      BY <1>1, <3>2, <3>3
  <2>4. QED
    BY <2>2, <2>3
<1>8. QED
  BY <1>1, <1>6, <1>7 DEF VerdictInv, VerdictsOK, Verdict

\* Proposals and replies give no verdict.
LEMMA OtherRekonVerdicts ==
  ASSUME Base, VerdictInv, NEW r \in Requests,
         \/ \E f \in DOMAIN tapping : Propose(r, f)
         \/ \E k \in DOMAIN rekon : Reply(r, k)
         \/ Check(r) \/ WriteReply(r)
  PROVE  VerdictInv'
<1>1. /\ UNCHANGED <<tapping, replaced, judged>> /\ raced \subseteq raced'
      /\ DOMAIN rekon' = DOMAIN rekon
      /\ \A k \in DOMAIN rekon : /\ rekon'[k].tapping = rekon[k].tapping
                                 /\ rekon'[k].status = rekon[k].status
                                 /\ rekon'[k].live => rekon[k].live
  <2>1. CASE WriteReply(r)
    BY <2>1, WriteReplyEffect
  <2>2. CASE Check(r)
    BY <2>2 DEF Check, tables
  <2>3. CASE \E f \in DOMAIN tapping : Propose(r, f)
    BY <2>3 DEF Propose, Start, Count, tables
  <2>4. CASE \E k \in DOMAIN rekon : Reply(r, k)
    BY <2>4 DEF Reply, Start, Count, tables
  <2>5. QED
    BY <2>1, <2>2, <2>3, <2>4
<1>2. /\ req[r].op \notin {"approve", "reject"} /\ req'[r].op \notin {"approve", "reject"}
      /\ \A s \in Requests \ {r} : req'[s] = req[s]
  <2>1. req[r] \in Request /\ Idle.op = "none"
    BY Mine DEF Idle
  <2>2. CASE WriteReply(r)
    BY <2>1, <2>2, WriteReplyEffect, HasLeft
  <2>3. CASE Check(r)
    <3> DEFINE q == [req[r] EXCEPT !.at = "write"]
    <3>1. req[r].op = "propose" /\ q.op = "propose" /\ (Leave(r) \/ Goto(r, q))
      BY <2>1, <2>3 DEF Check, Is, Request
    <3> HIDE DEF q
    <3>2. QED
      BY <2>1, <3>1, HasLeft, WentOn
  <2>4. ASSUME NEW f \in DOMAIN tapping, Propose(r, f)
        PROVE  /\ req[r].op \notin {"approve", "reject"} /\ req'[r].op \notin {"approve", "reject"}
               /\ \A s \in Requests \ {r} : req'[s] = req[s]
    <3> DEFINE q == [Idle EXCEPT !.op = "propose", !.at = "check", !.topic = {Proposal(f)}, !.id = f]
    <3>1. Start(r, q) /\ q.op = "propose"
      BY <2>4 DEF Propose, Idle
    <3> HIDE DEF q
    <3>2. QED
      BY <2>1, <3>1, Started
  <2>5. ASSUME NEW k \in DOMAIN rekon, Reply(r, k)
        PROVE  /\ req[r].op \notin {"approve", "reject"} /\ req'[r].op \notin {"approve", "reject"}
               /\ \A s \in Requests \ {r} : req'[s] = req[s]
    <3> DEFINE talk == rekon[k].talk \union {started + 1}
               q == [Idle EXCEPT !.op = "reply", !.at = "write", !.topic = {Talk(k)}, !.id = k,
                                 !.talk = talk]
    <3>1. Start(r, q)
      BY <2>5 DEF Reply
    <3> HIDE DEF talk
    <3>2. q.op = "reply"
      BY DEF Idle
    <3> HIDE DEF q
    <3>3. QED
      BY <2>1, <3>1, <3>2, Started
  <2>6. QED
    BY <2>2, <2>3, <2>4, <2>5
<1>3. QED
  BY <1>1, <1>2, SameScores, VerdictsKept

LEMMA DeletionsVerdicts ==
  ASSUME Base, VerdictInv, Deletions
  PROVE  VerdictInv'
<1>1. UNCHANGED <<req, raced, judged>>
  BY DEF Deletions, DeletePendingTicket, DeleteFormTapping, UpdateFormTapping, RemoveRekon
<1>2. ASSUME NEW k \in DOMAIN rekon, RemoveRekon(k)
      PROVE  VerdictInv'
  <2> DEFINE S == {k}
  <2>1. rekon' = Delete(rekon, S) /\ UNCHANGED <<tapping, replaced>>
    BY <1>2 DEF RemoveRekon
  <2> HIDE DEF S
  <2>2. QED
    BY <1>1, <2>1, RekonDeleted, SameScores, VerdictsKept
<1>3. ASSUME NEW f \in DOMAIN tapping, DeleteFormTapping(f)
      PROVE  VerdictInv'
  <2> DEFINE S == {f}
  <2>1. tapping' = Delete(tapping, S) /\ UNCHANGED <<rekon, replaced>>
    BY <1>3 DEF DeleteFormTapping
  <2> HIDE DEF S
  <2>2. ScoresStay
    BY <2>1, TappingDeleted DEF ScoresStay
  <2>3. QED
    BY <1>1, <2>1, <2>2, VerdictsKept
<1>4. ASSUME NEW f \in DOMAIN tapping, UpdateFormTapping(f)
      PROVE  VerdictInv'
  BY <1>1, <1>4, OtherScores, VerdictsKept DEF UpdateFormTapping
<1>5. ASSUME NEW p \in DOMAIN pending, DeletePendingTicket(p)
      PROVE  VerdictInv'
  BY <1>1, <1>5, SameScores, VerdictsKept DEF DeletePendingTicket
<1>6. QED
  BY <1>2, <1>3, <1>4, <1>5 DEF Deletions

\* An approval that dies between its two writes is recorded.
LEMMA FailVerdicts ==
  ASSUME Base, VerdictInv, NEW r \in Requests, Fail(r)
  PROVE  VerdictInv'
<1>1. /\ Leave(r) /\ UNCHANGED <<tapping, rekon, replaced, judged>> /\ raced \subseteq raced'
      /\ req[r].op = "approve" /\ req[r].at = "verdict" => req[r].topic \subseteq raced'
  BY DEF Fail, tables
<1>2. /\ req'[r] = Idle /\ \A s \in Requests \ {r} : req'[s] = req[s]
      /\ Idle.op = "none"
  BY <1>1, HasLeft DEF Idle
<1>3. req[r].op = "approve" => req[r].topic = {Verdict(req[r].id)}
  BY Mine DEF ShapeOK
<1>4. QED
  BY <1>1, <1>2, <1>3, SameScores, VerdictsKept

LEMMA VerdictInvHolds == Spec => [](Base /\ VerdictInv)
<1>1. ASSUME Init
      PROVE  VerdictInv
  <2>1. DOMAIN rekon = {} /\ DOMAIN tapping = {}
    BY <1>1 DEF Init
  <2>2. QED
    BY <2>1 DEF VerdictInv, ScoresOK, VerdictsOK
<1>2. ASSUME Base, VerdictInv, [Next]_vars
      PROVE  VerdictInv'
  <2>1. ASSUME NEW r \in Requests, RekonSteps(r)
        PROVE  VerdictInv'
    BY <1>2, <2>1, JudgeVerdicts, WriteProposalVerdicts, ScoreVerdicts, WriteVerdictVerdicts,
       OtherRekonVerdicts DEF RekonSteps
  <2>2. CASE UNCHANGED vars
    BY <1>2, <2>2, SameScores, VerdictsKept DEF vars, tables
  <2>3. QED
    BY <1>2, <2>1, <2>2, TicketStepsVerdicts, DeletionsVerdicts, FailVerdicts DEF Next
<1>3. QED
  BY <1>1, <1>2, BaseHolds, PTL DEF Spec

\* approve writes the scores into the tapping and then the verdict into the row, in two
\* calls either of which may fail, and a history upload or an edit may write other scores
\* at any time: yet scores that were proposed are in the tapping only if they are approved,
\* and what is approved has its scores there until other scores replace them.
THEOREM ScoresFollowVerdictHolds == Spec => []ScoresFollowVerdict
<1>1. ASSUME Base, VerdictInv
      PROVE  ScoresFollowVerdict
  <2>1. SUFFICES ASSUME NEW k \in DOMAIN rekon, rekon[k].live, Verdict(k) \notin raced,
                        \A r \in Requests : Verdict(k) \notin req[r].topic
                 PROVE  /\ Has(k) => rekon[k].status = "APPROVED"
                        /\ rekon[k].status = "APPROVED" => Has(k) \/ k \in replaced
    BY DEF ScoresFollowVerdict, Live, Has
  <2>2. \A r \in Requests : req[r].op = "approve" => req[r].id # k
    BY <1>1, <2>1, Mine DEF ShapeOK
  <2>3. QED
    BY <1>1, <2>1, <2>2 DEF VerdictInv, VerdictsOK, VerdictOK
<1>2. QED
  BY <1>1, VerdictInvHolds, PTL

-----------------------------------------------------------------------------
(* The promise of the tickets.                                             *)

\* A ticket that a step does not touch: it has no row more, no tapping more, and who is
\* about it is no further.
LEMMA TicketAside ==
  ASSUME NEW t \in Tickets, TicketOK(t), RowsOf(t)' \subseteq RowsOf(t), t \in Tapped' => t \in Tapped,
         t \in left /\ RowsOf(t)' # {} => t \in left',
         \A s \in Requests :
           Ticket(t) \in req'[s].topic => Ticket(t) \in req[s].topic /\ req'[s] = req[s],
         \A s \in Requests :
           Ticket(t) \in req[s].topic /\ Midway(req[s], t) => req'[s] = req[s]
  PROVE  TicketOK(t)'
<1>1. Waits(t)'
  BY DEF TicketOK, Waits
<1>2. ASSUME NEW s \in Requests, Ticket(t) \in req'[s].topic
      PROVE  HasRead(req[s], t)'
  <2>1. HasRead(req[s], t) /\ req'[s] = req[s]
    BY <1>2 DEF TicketOK
  <2>2. (RowsOf(t) \subseteq {req[s].id} \/ t \in left) =>
           (RowsOf(t)' \subseteq {req[s].id} \/ t \in left')
    OBVIOUS
  <2>3. RowsOf(t) = {} => RowsOf(t)' = {}
    OBVIOUS
  <2>4. QED
    BY <2>1, <2>2, <2>3 DEF HasRead, Receives
<1>3. CASE Settled(t)
  <2>1. Settled(t)'
    BY <1>1, <1>3 DEF Settled
  <2>2. QED
    BY <1>1, <1>2, <2>1 DEF TicketOK, Ticket
<1>4. CASE \E s \in Requests : Ticket(t) \in req[s].topic /\ Midway(req[s], t)
  <2>1. PICK s \in Requests : Ticket(t) \in req[s].topic /\ Midway(req[s], t)
    BY <1>4
  <2>2. req'[s] = req[s]
    BY <2>1
  <2>3. Ticket(t) \in req'[s].topic /\ Midway(req[s], t)'
    BY <2>1, <2>2 DEF Midway
  <2>4. QED
    BY <1>1, <1>2, <2>3 DEF TicketOK, Ticket
<1>5. QED
  BY <1>3, <1>4 DEF TicketOK

\* A ticket that only r is about: what is known of it, and what is to be shown.
LEMMA TicketMine ==
  ASSUME NEW t \in Tickets, TicketOK(t), NEW r \in Requests,
         \A s \in Requests \ {r} : Ticket(t) \notin req[s].topic
  PROVE  /\ Waits(t)
         /\ Ticket(t) \in req[r].topic => HasRead(req[r], t)
         /\ Settled(t) \/ (Ticket(t) \in req[r].topic /\ Midway(req[r], t))
BY DEF TicketOK

LEMMA TicketStillMine ==
  ASSUME NEW t \in Tickets, NEW r \in Requests,
         \A s \in Requests \ {r} : Ticket(t) \notin req[s].topic,
         \A s \in Requests \ {r} : req'[s] = req[s],
         Waits(t)',
         Ticket(t) \in req'[r].topic => HasRead(req[r], t)',
         Settled(t)' \/ (Ticket(t) \in req'[r].topic /\ Midway(req[r], t)')
  PROVE  TicketOK(t)'
<1>1. ASSUME NEW s \in Requests, Ticket(t) \in req'[s].topic
      PROVE  HasRead(req[s], t)'
  <2>1. s = r
    BY <1>1
  <2>2. QED
    BY <1>1, <2>1
<1>2. QED
  BY <1>1 DEF TicketOK, Ticket

\* The tables of t, when a step leaves them alone.
LEMMA SameTables ==
  ASSUME NEW t, UNCHANGED <<pending, tapping>>, t \in left => t \in left' \/ RowsOf(t)' = {}
  PROVE  /\ RowsOf(t)' = RowsOf(t)
         /\ t \in Tapped' <=> t \in Tapped
         /\ Waits(t)' <=> Waits(t)
         /\ Settled(t) => Settled(t)'
BY DEF RowsOf, Tapped, Live, Waits, Settled

LEMMA RowsShrink ==
  ASSUME NEW t, DOMAIN pending' = DOMAIN pending,
         \A p \in DOMAIN pending : /\ pending'[p].ticket = pending[p].ticket
                                   /\ pending'[p].live => pending[p].live
  PROVE  RowsOf(t)' \subseteq RowsOf(t)
BY DEF RowsOf, Live

LEMMA TappedSame ==
  ASSUME NEW t, UNCHANGED tapping
  PROVE  t \in Tapped' <=> t \in Tapped
BY DEF Tapped, Live

LEMMA TappedGrows ==
  ASSUME NEW t, NEW u, DOMAIN tapping \subseteq DOMAIN tapping',
         \A f \in DOMAIN tapping : /\ tapping'[f].ticket = tapping[f].ticket
                                 /\ tapping'[f].live = tapping[f].live,
         \A f \in (DOMAIN tapping') \ DOMAIN tapping : tapping'[f].ticket = u,
         t # u
  PROVE  t \in Tapped' => t \in Tapped
BY DEF Tapped, Live

\* What is tapped, when no tapping comes or goes.
LEMMA SameTapped ==
  ASSUME UNCHANGED tapping
  PROVE  \A t : t \in Tapped' <=> t \in Tapped
BY DEF Tapped, Live

LEMMA RescoredTapped ==
  ASSUME Base, NEW f \in DOMAIN tapping, NEW k \in (DOMAIN rekon) \union {None}, Rescore(f, k)
  PROVE  \A t : t \in Tapped' <=> t \in Tapped
<1>1. /\ DOMAIN tapping' = DOMAIN tapping
      /\ \A g \in DOMAIN tapping : /\ tapping'[g].ticket = tapping[g].ticket
                                   /\ tapping'[g].live = tapping[g].live
  BY RescoreEffect
<1>2. QED
  BY <1>1 DEF Tapped, Live

\* A request about reconciliations is about no ticket.
LEMMA NotTickets ==
  ASSUME Base, NEW r \in Requests,
         req[r].op \in {"none", "propose", "approve", "reject", "reply"}
  PROVE  \A t : Ticket(t) \notin req[r].topic
BY Mine, TopicsApart DEF ShapeOK, Idle

LEMMA NotTicketsNext ==
  ASSUME Base', NEW r \in Requests,
         req'[r].op \in {"none", "propose", "approve", "reject", "reply"}
  PROVE  \A t : Ticket(t) \notin req'[r].topic
<1>1. ShapeOK(req[r])'
  BY DEF Base, ShapesOK
<1>2. CASE req'[r].op = "none"
  BY <1>1, <1>2 DEF ShapeOK, Idle
<1>3. CASE req'[r].op = "propose"
  <2>1. req'[r].topic = {Proposal(req'[r].id)}
    BY <1>1, <1>3 DEF ShapeOK, Proposal
  <2>2. QED
    BY <2>1, TopicsApart
<1>4. CASE req'[r].op \in {"approve", "reject"}
  <2>1. req'[r].topic = {Verdict(req'[r].id)}
    BY <1>1, <1>4 DEF ShapeOK, Verdict
  <2>2. QED
    BY <2>1, TopicsApart
<1>5. CASE req'[r].op = "reply"
  <2>1. req'[r].topic = {Talk(req'[r].id)}
    BY <1>1, <1>5 DEF ShapeOK, Talk
  <2>2. QED
    BY <2>1, TopicsApart
<1>6. QED
  BY <1>2, <1>3, <1>4, <1>5

LEMMA RekonStepsElsewhere ==
  ASSUME Base, NEW r \in Requests, RekonSteps(r)
  PROVE  /\ UNCHANGED <<pending, left>> /\ raced \subseteq raced'
         /\ \A t : t \in Tapped' <=> t \in Tapped
         /\ \A s \in Requests \ {r} : req'[s] = req[s]
         /\ req[r].op \in {"none", "propose", "approve", "reject", "reply"}
         /\ req'[r].op \in {"none", "propose", "approve", "reject", "reply"}
<1> DEFINE ops == {"none", "propose", "approve", "reject", "reply"}
<1>0. req[r] \in Request /\ Idle.op = "none"
  BY Mine DEF Idle
<1>1. ASSUME NEW q, Start(r, q), q.op \in ops, raced \subseteq raced'
      PROVE  /\ UNCHANGED <<pending, tapping>>
             /\ \A s \in Requests \ {r} : req'[s] = req[s]
             /\ req[r].op \in ops /\ req'[r].op \in ops
  BY <1>0, <1>1, Started
<1>2. ASSUME NEW f \in DOMAIN tapping, Propose(r, f)
      PROVE  \E q : Start(r, q) /\ q.op \in ops /\ raced \subseteq raced' /\ UNCHANGED left
  <2> DEFINE q == [Idle EXCEPT !.op = "propose", !.at = "check", !.topic = {Proposal(f)}, !.id = f]
  <2>1. Start(r, q) /\ raced \subseteq raced' /\ UNCHANGED left
    BY <1>2 DEF Propose
  <2>2. q.op = "propose"
    BY DEF Idle
  <2> HIDE DEF q
  <2>3. QED
    BY <2>1, <2>2
<1>3. ASSUME NEW k \in DOMAIN rekon, Approve(r, k) \/ Reject(r, k)
      PROVE  \E q : Start(r, q) /\ q.op \in ops /\ raced \subseteq raced' /\ UNCHANGED left
  <2>1. PICK op \in {"approve", "reject"}, at \in {"score", "verdict"} :
          Judge(r, op, k, at) /\ raced \subseteq raced'
    BY <1>3 DEF Approve, Reject
  <2> DEFINE q == [Idle EXCEPT !.op = op, !.at = at, !.topic = {Verdict(k)}, !.id = k,
                               !.talk = rekon[k].talk]
  <2>2. Start(r, q) /\ raced \subseteq raced' /\ UNCHANGED left
    BY <2>1 DEF Judge
  <2>3. q.op = op
    BY DEF Idle
  <2> HIDE DEF q
  <2>4. QED
    BY <2>2, <2>3
<1>4. ASSUME NEW k \in DOMAIN rekon, Reply(r, k)
      PROVE  \E q : Start(r, q) /\ q.op \in ops /\ raced \subseteq raced' /\ UNCHANGED left
  <2> DEFINE talk == rekon[k].talk \union {started + 1}
             q == [Idle EXCEPT !.op = "reply", !.at = "write", !.topic = {Talk(k)}, !.id = k,
                               !.talk = talk]
  <2>1. Start(r, q) /\ raced \subseteq raced' /\ UNCHANGED left
    BY <1>4 DEF Reply
  <2> HIDE DEF talk
  <2>2. q.op = "reply"
    BY DEF Idle
  <2> HIDE DEF q
  <2>3. QED
    BY <2>1, <2>2
<1>5. ASSUME NEW at, Goto(r, [req[r] EXCEPT !.at = at])
      PROVE  /\ \A s \in Requests \ {r} : req'[s] = req[s]
             /\ req'[r].op = req[r].op
  <2> DEFINE q == [req[r] EXCEPT !.at = at]
  <2>1. Goto(r, q) /\ q.op = req[r].op
    BY <1>0, <1>5 DEF Request
  <2> HIDE DEF q
  <2>2. QED
    BY <2>1, WentOn
<1>6. CASE Check(r)
  <2>1. req[r].op = "propose" /\ UNCHANGED <<pending, tapping, raced, left>>
    BY <1>6 DEF Check, Is, tables
  <2>2. Leave(r) \/ Goto(r, [req[r] EXCEPT !.at = "write"])
    BY <1>6 DEF Check
  <2>3. QED
    BY <1>0, <1>5, <2>1, <2>2, HasLeft, SameTapped
<1>7. CASE Score(r)
  <2>1. req[r].op = "approve" /\ UNCHANGED <<pending, raced, left>>
    BY <1>7 DEF Score, Is
  <2>2. Leave(r) \/ Goto(r, [req[r] EXCEPT !.at = "verdict"])
    BY <1>7 DEF Score
  <2>3. \A t : t \in Tapped' <=> t \in Tapped
    <3>1. req[r].id \in DOMAIN rekon /\ rekon[req[r].id].tapping \in DOMAIN tapping
      BY <1>7, ScoreEffect
    <3>2. UNCHANGED tapping \/ Rescore(rekon[req[r].id].tapping, req[r].id)
      BY <1>7, ScoreEffect
    <3>3. CASE Rescore(rekon[req[r].id].tapping, req[r].id)
      BY <3>1, <3>3, RescoredTapped
    <3>4. QED
      BY <3>2, <3>3, SameTapped
  <2>4. QED
    BY <1>0, <1>5, <2>1, <2>2, <2>3, HasLeft
<1>8. CASE WriteProposal(r) \/ WriteVerdict(r) \/ WriteReply(r)
  BY <1>0, <1>8, HasLeft, SameTapped DEF WriteProposal, WriteVerdict, WriteReply, Is
<1>9. QED
  <2> HIDE DEF ops
  <2>1. CASE \E q : Start(r, q) /\ q.op \in ops /\ raced \subseteq raced' /\ UNCHANGED left
    BY <1>1, <2>1, SameTapped DEF ops
  <2>2. QED
    BY <1>2, <1>3, <1>4, <1>6, <1>7, <1>8, <2>1 DEF RekonSteps

LEMMA RekonStepsTickets ==
  ASSUME Base, Base', TicketsOK, NEW r \in Requests, RekonSteps(r)
  PROVE  TicketsOK'
<1>1. SUFFICES ASSUME NEW t \in Tickets, Ticket(t) \notin raced'
               PROVE  TicketOK(t)'
  BY DEF TicketsOK, Ticket
<1>2. /\ UNCHANGED <<pending, left>> /\ raced \subseteq raced'
      /\ (t \in Tapped' <=> t \in Tapped)
      /\ \A s \in Requests \ {r} : req'[s] = req[s]
      /\ Ticket(t) \notin req[r].topic /\ Ticket(t) \notin req'[r].topic
  BY RekonStepsElsewhere, NotTickets, NotTicketsNext
<1>3. TicketOK(t)
  BY <1>1, <1>2 DEF TicketsOK
<1>4. RowsOf(t)' = RowsOf(t)
  BY <1>2 DEF RowsOf, Live
<1>5. QED
  BY <1>2, <1>3, <1>4, TicketAside

LEMMA DeletionsTickets ==
  ASSUME Base, TicketsOK, Deletions
  PROVE  TicketsOK'
<1>1. SUFFICES ASSUME NEW t \in Tickets, Ticket(t) \notin raced'
               PROVE  TicketOK(t)'
  BY DEF TicketsOK, Ticket
<1>2. UNCHANGED <<req, raced>>
  BY DEF Deletions, DeletePendingTicket, UpdateFormTapping, DeleteFormTapping, RemoveRekon
<1>3. TicketOK(t)
  BY <1>1, <1>2 DEF TicketsOK
<1>4. /\ RowsOf(t)' \subseteq RowsOf(t) /\ (t \in Tapped' => t \in Tapped)
      /\ t \in left /\ RowsOf(t)' # {} => t \in left'
  <2>1. ASSUME NEW p \in DOMAIN pending, DeletePendingTicket(p)
        PROVE  /\ RowsOf(t)' \subseteq RowsOf(t) /\ (t \in Tapped' => t \in Tapped)
               /\ t \in left /\ RowsOf(t)' # {} => t \in left'
    <3> DEFINE S == {p}
    <3>1. pending' = Delete(pending, S) /\ UNCHANGED tapping
      BY <2>1 DEF DeletePendingTicket
    <3> HIDE DEF S
    <3>2. t \in left /\ RowsOf(t)' # {} => t \in left'
      BY <2>1, LeavesFacts DEF DeletePendingTicket
    <3>3. QED
      BY <3>1, <3>2, PendingDeleted, RowsShrink, TappedSame
  <2>2. ASSUME NEW f \in DOMAIN tapping, DeleteFormTapping(f)
        PROVE  /\ RowsOf(t)' \subseteq RowsOf(t) /\ (t \in Tapped' => t \in Tapped)
               /\ t \in left /\ RowsOf(t)' # {} => t \in left'
    <3> DEFINE S == {f}
    <3>1. tapping' = Delete(tapping, S) /\ UNCHANGED <<pending, left>>
      BY <2>2 DEF DeleteFormTapping
    <3> HIDE DEF S
    <3>2. RowsOf(t)' \subseteq RowsOf(t)
      BY <3>1 DEF RowsOf, Live
    <3>3. t \in Tapped' => t \in Tapped
      BY <3>1, TappingDeleted DEF Tapped, Live
    <3>4. QED
      BY <3>1, <3>2, <3>3
  <2>3. ASSUME NEW k \in DOMAIN rekon, RemoveRekon(k)
        PROVE  /\ RowsOf(t)' \subseteq RowsOf(t) /\ (t \in Tapped' => t \in Tapped)
               /\ t \in left /\ RowsOf(t)' # {} => t \in left'
    BY <2>3, SameTables DEF RemoveRekon
  <2>4. ASSUME NEW f \in DOMAIN tapping, UpdateFormTapping(f)
        PROVE  /\ RowsOf(t)' \subseteq RowsOf(t) /\ (t \in Tapped' => t \in Tapped)
               /\ t \in left /\ RowsOf(t)' # {} => t \in left'
    <3>1. Rescore(f, None) /\ UNCHANGED <<pending, left>>
      BY <2>4 DEF UpdateFormTapping
    <3>2. RowsOf(t)' = RowsOf(t)
      BY <3>1 DEF RowsOf, Live
    <3>3. QED
      BY <3>1, <3>2, RescoredTapped
  <2>5. QED
    BY <2>1, <2>2, <2>3, <2>4 DEF Deletions
<1>5. QED
  BY <1>2, <1>3, <1>4, TicketAside

LEMMA OthersNot ==
  ASSUME Base, NEW r \in Requests, NEW t, Ticket(t) \in req[r].topic, Ticket(t) \notin raced
  PROVE  \A s \in Requests \ {r} : Ticket(t) \notin req[s].topic
BY Alone

\* A request that ends between tapping a ticket and removing its row leaves it waiting,
\* which is recorded; one that ends elsewhere leaves its tickets settled.
LEMMA FailTickets ==
  ASSUME Base, TicketsOK, NEW r \in Requests, Fail(r)
  PROVE  TicketsOK'
<1>1. SUFFICES ASSUME NEW t \in Tickets, Ticket(t) \notin raced'
               PROVE  TicketOK(t)'
  BY DEF TicketsOK, Ticket
<1> DEFINE S == IF req[r].at \in {"remove", "clean"} THEN {req[r].ticket} ELSE {}
<1>2. /\ Leave(r) /\ UNCHANGED <<pending, tapping>> /\ raced \subseteq raced' /\ Leaves(S)
  BY DEF Fail, tables
<1>3. /\ req'[r] = Idle /\ \A s \in Requests \ {r} : req'[s] = req[s]
      /\ Idle.topic = {}
  BY <1>2, HasLeft DEF Idle
<1>4. TicketOK(t)
  BY <1>1, <1>2 DEF TicketsOK
<1>5. RowsOf(t)' = RowsOf(t) /\ (t \in Tapped' <=> t \in Tapped)
  BY <1>2, TappedSame DEF RowsOf, Live
<1>6. \A u \in left \union S : RowsOf(u)' # {} => u \in left'
  BY <1>2 DEF Leaves
<1>7. CASE Ticket(t) \in req[r].topic /\ Midway(req[r], t)
  <2>1. t \in S
    BY <1>7 DEF Midway
  <2> HIDE DEF S
  <2>2. Waits(t)'
    BY <1>4, <1>5 DEF TicketOK, Waits
  <2>3. Settled(t)'
    BY <1>6, <2>1, <2>2 DEF Settled
  <2>4. \A s \in Requests \ {r} : Ticket(t) \notin req[s].topic
    BY <1>1, <1>2, <1>7, OthersNot
  <2>5. QED
    BY <1>3, <2>2, <2>3, <2>4, TicketStillMine
<1>8. CASE ~(Ticket(t) \in req[r].topic /\ Midway(req[r], t))
  <2> HIDE DEF S
  <2>1. QED
    BY <1>3, <1>4, <1>5, <1>6, <1>8, TicketAside
<1>9. QED
  BY <1>7, <1>8

LEMMA NobodyYet ==
  ASSUME NEW topic, NEW t, Ticket(t) \in topic, Races(topic) \subseteq raced', Ticket(t) \notin raced'
  PROVE  \A s \in Requests : Ticket(t) \notin req[s].topic
BY DEF Races

\* A request that begins: who is about its tickets finds them settled, or is recorded.
LEMMA StartsTickets ==
  ASSUME Base, NEW t \in Tickets, Ticket(t) \notin raced', raced \subseteq raced', TicketsOK,
         UNCHANGED left,
         NEW r \in Requests, NEW q, Start(r, q),
         Ticket(t) \in q.topic =>
           /\ \A s \in Requests : Ticket(t) \notin req[s].topic
           /\ HasRead(req[r], t)'
  PROVE  TicketOK(t)'
<1>1. TicketOK(t)
  BY DEF TicketsOK
<1>2. /\ req'[r] = q /\ \A s \in Requests \ {r} : req'[s] = req[s]
      /\ UNCHANGED <<pending, tapping>> /\ req[r].topic = {}
  BY Started DEF Idle
<1>3. CASE Ticket(t) \in q.topic
  <2>1. Waits(t) /\ Settled(t)
    BY <1>1, <1>3, TicketMine
  <2>2. Waits(t)' /\ Settled(t)'
    BY <1>2, <2>1, SameTables
  <2>3. QED
    BY <1>2, <1>3, <2>2, TicketStillMine
<1>4. CASE Ticket(t) \notin q.topic
  BY <1>1, <1>2, <1>4, SameTables, TicketAside
<1>5. QED
  BY <1>3, <1>4

LEMMA ReceiveTickets ==
  ASSUME Base, TicketsOK, NEW r \in Requests, NEW op \in {"upload", "sync"}, NEW S \in Files,
         NEW timed \in SUBSET Tickets, Receive(r, op, S, timed)
  PROVE  TicketsOK'
<1>1. SUFFICES ASSUME NEW t \in Tickets, Ticket(t) \notin raced'
               PROVE  TicketOK(t)'
  BY DEF TicketsOK, Ticket
<1> DEFINE topic == {Ticket(u) : u \in S}
           todo == {u \in S : RowsOf(u) = {}}
           fill == {p \in First(UNION {RowsOf(u) : u \in S}) :
                      ~pending[p].timed /\ pending[p].ticket \in timed}
           q == [Idle EXCEPT !.op = op, !.at = "readTapped", !.topic = topic, !.todo = todo,
                             !.fill = fill, !.timed = timed]
<1>2. Start(r, q) /\ raced' = raced \union Races(topic) /\ UNCHANGED left
  BY DEF Receive
<1>3. t \in todo => RowsOf(t) = {}
  OBVIOUS
<1> HIDE DEF topic, todo, fill
<1>4. q.op = op /\ q.at = "readTapped" /\ q.topic = topic /\ q.todo = todo
  BY DEF Idle
<1> HIDE DEF q
<1>5. req'[r] = q /\ UNCHANGED <<pending, tapping>>
  BY <1>2, Started
<1>6. RowsOf(t)' = RowsOf(t)
  BY <1>5 DEF RowsOf, Live
<1>7. HasRead(req[r], t)'
  BY <1>3, <1>4, <1>5, <1>6 DEF HasRead, Receives
<1>8. QED
  BY <1>1, <1>2, <1>4, <1>7, NobodyYet, StartsTickets

LEMMA HistoryTickets ==
  ASSUME Base, TicketsOK, NEW r \in Requests, NEW S \in Files, UploadHistoryTapping(r, S)
  PROVE  TicketsOK'
<1>1. SUFFICES ASSUME NEW t \in Tickets, Ticket(t) \notin raced'
               PROVE  TicketOK(t)'
  BY DEF TicketsOK, Ticket
<1> DEFINE topic == {Ticket(u) : u \in S}
           q == [Idle EXCEPT !.op = "history", !.at = "find", !.topic = topic, !.todo = S]
<1>2. Start(r, q) /\ raced' = raced \union Races(topic) /\ UNCHANGED left
  BY DEF UploadHistoryTapping
<1> HIDE DEF topic
<1>3. q.op = "history" /\ q.topic = topic
  BY DEF Idle
<1> HIDE DEF q
<1>4. req'[r] = q
  BY <1>2, Started
<1>5. HasRead(req[r], t)'
  BY <1>3, <1>4 DEF HasRead, Receives
<1>6. QED
  BY <1>1, <1>2, <1>3, <1>5, NobodyYet, StartsTickets

LEMMA CreateFormTappingTickets ==
  ASSUME Base, TicketsOK, NEW r \in Requests, NEW u \in Tickets,
         NEW p \in {n \in DOMAIN pending : pending[n].ticket = u} \union {None},
         CreateFormTapping(r, u, p)
  PROVE  TicketsOK'
<1>1. SUFFICES ASSUME NEW t \in Tickets, Ticket(t) \notin raced'
               PROVE  TicketOK(t)'
  BY DEF TicketsOK, Ticket
<1> DEFINE topic == {Ticket(u)}
           q == [Idle EXCEPT !.op = "tap", !.at = "create", !.topic = topic, !.ticket = u, !.id = p]
<1>2. Start(r, q) /\ raced' = raced \union Races(topic) /\ UNCHANGED left
  BY DEF CreateFormTapping
<1> HIDE DEF topic
<1>3. q.op = "tap" /\ q.at = "create" /\ q.topic = topic
  BY DEF Idle
<1> HIDE DEF q
<1>4. req'[r] = q
  BY <1>2, Started
<1>5. HasRead(req[r], t)'
  BY <1>3, <1>4 DEF HasRead, Receives
<1>6. QED
  BY <1>1, <1>2, <1>3, <1>5, NobodyYet, StartsTickets

\* A later step of a request, about a ticket that is not its own.
LEMMA LaterAside ==
  ASSUME NEW t \in Tickets, TicketOK(t), NEW r \in Requests,
         Ticket(t) \notin req[r].topic, Ticket(t) \notin req'[r].topic,
         \A s \in Requests \ {r} : req'[s] = req[s],
         RowsOf(t)' \subseteq RowsOf(t), t \in Tapped' => t \in Tapped,
         t \in left /\ RowsOf(t)' # {} => t \in left'
  PROVE  TicketOK(t)'
BY TicketAside

LEMMA ReadTappedTickets ==
  ASSUME Base, TicketsOK, NEW r \in Requests, ReadTapped(r)
  PROVE  TicketsOK'
<1>1. SUFFICES ASSUME NEW t \in Tickets, Ticket(t) \notin raced'
               PROVE  TicketOK(t)'
  BY DEF TicketsOK, Ticket
<1> DEFINE todo == req[r].todo \ Tapped
           fill == {p \in req[r].fill : pending[p].ticket \notin Tapped}
           q == [req[r] EXCEPT !.at = "fill", !.todo = todo, !.fill = fill]
<1>2. /\ req[r] \in Request /\ req[r].op \in {"upload", "sync"}
      /\ Goto(r, q) /\ UNCHANGED <<pending, tapping, raced, left>>
  BY Mine DEF ReadTapped, Is, tables
<1>3. t \in todo => t \in req[r].todo /\ t \notin Tapped
  OBVIOUS
<1> HIDE DEF todo, fill
<1>4. q.op = req[r].op /\ q.at = "fill" /\ q.topic = req[r].topic /\ q.todo = todo
  BY <1>2 DEF Request
<1> HIDE DEF q
<1>5. req'[r] = q /\ \A s \in Requests \ {r} : req'[s] = req[s]
  BY <1>2, WentOn
<1>6. TicketOK(t) /\ Ticket(t) \notin raced
  BY <1>1, <1>2 DEF TicketsOK
<1>7. CASE Ticket(t) \notin req[r].topic
  BY <1>2, <1>4, <1>5, <1>6, <1>7, SameTables, LaterAside
<1>8. CASE Ticket(t) \in req[r].topic
  <2>1. \A s \in Requests \ {r} : Ticket(t) \notin req[s].topic
    BY <1>6, <1>8, OthersNot
  <2>2. Waits(t) /\ HasRead(req[r], t) /\ Settled(t)
    BY <1>2, <1>6, <1>8, <2>1, TicketMine DEF Midway
  <2>3. /\ RowsOf(t)' = RowsOf(t) /\ (t \in Tapped' <=> t \in Tapped)
        /\ Waits(t)' /\ Settled(t)'
    BY <1>2, <2>2, SameTables
  <2>4. HasRead(req[r], t)'
    BY <1>2, <1>3, <1>4, <1>5, <2>2, <2>3 DEF HasRead, Receives
  <2>5. QED
    BY <1>5, <2>1, <2>3, <2>4, TicketStillMine
<1>9. QED
  BY <1>7, <1>8

LEMMA FillTickets ==
  ASSUME Base, TicketsOK, NEW r \in Requests, Fill(r)
  PROVE  TicketsOK'
<1>1. SUFFICES ASSUME NEW t \in Tickets, Ticket(t) \notin raced'
               PROVE  TicketOK(t)'
  BY DEF TicketsOK, Ticket
<1>2. req[r] \in Request /\ req[r].op \in {"upload", "sync"}
  BY Mine DEF Fill, Is
<1>3. /\ DOMAIN pending' = DOMAIN pending
      /\ \A p \in DOMAIN pending : /\ pending'[p].ticket = pending[p].ticket
                                   /\ pending'[p].live = pending[p].live
      /\ UNCHANGED <<tapping, raced, left>>
  BY FillEffect DEF Fill
<1>4. /\ \A s \in Requests \ {r} : req'[s] = req[s]
      /\ \/ req'[r].topic = {}
         \/ /\ req'[r].topic = req[r].topic /\ req'[r].op = req[r].op
            /\ req'[r].at = req[r].at /\ req'[r].todo = req[r].todo
  <2>1. CASE Leave(r)
    BY <2>1, HasLeft DEF Idle
  <2>2. ASSUME NEW p \in req[r].fill, Goto(r, [req[r] EXCEPT !.fill = req[r].fill \ {p}])
        PROVE  /\ \A s \in Requests \ {r} : req'[s] = req[s]
               /\ req'[r].topic = req[r].topic /\ req'[r].op = req[r].op
               /\ req'[r].at = req[r].at /\ req'[r].todo = req[r].todo
    <3> DEFINE q == [req[r] EXCEPT !.fill = req[r].fill \ {p}]
    <3>1. /\ Goto(r, q)
          /\ q.topic = req[r].topic /\ q.op = req[r].op /\ q.at = req[r].at /\ q.todo = req[r].todo
      BY <1>2, <2>2 DEF Request
    <3> HIDE DEF q
    <3>2. QED
      BY <3>1, WentOn
  <2>3. QED
    BY <2>1, <2>2, FillEffect
<1>5. TicketOK(t) /\ Ticket(t) \notin raced
  BY <1>1, <1>3 DEF TicketsOK
<1>6. RowsOf(t)' = RowsOf(t) /\ (t \in Tapped' <=> t \in Tapped)
  <2>1. RowsOf(t)' = RowsOf(t)
    BY <1>3 DEF RowsOf, Live
  <2>2. QED
    BY <1>3, <2>1, TappedSame
<1>7. CASE Ticket(t) \notin req[r].topic
  BY <1>3, <1>4, <1>5, <1>6, <1>7, LaterAside
<1>8. CASE Ticket(t) \in req[r].topic
  <2>1. \A s \in Requests \ {r} : Ticket(t) \notin req[s].topic
    BY <1>5, <1>8, OthersNot
  <2>2. Waits(t) /\ HasRead(req[r], t) /\ Settled(t)
    BY <1>2, <1>5, <1>8, <2>1, TicketMine DEF Midway
  <2>3. Waits(t)' /\ Settled(t)'
    BY <1>3, <1>6, <2>2 DEF Waits, Settled
  <2>4. Ticket(t) \in req'[r].topic => HasRead(req[r], t)'
    BY <1>2, <1>3, <1>4, <1>6, <2>2 DEF HasRead, Receives
  <2>5. QED
    BY <1>4, <2>1, <2>3, <2>4, TicketStillMine
<1>9. QED
  BY <1>7, <1>8

\* What is inserted has no row and no tapping, and gets one row.
LEMMA InsertTickets ==
  ASSUME Base, TicketsOK, NEW r \in Requests, Insert(r)
  PROVE  TicketsOK'
<1>1. SUFFICES ASSUME NEW t \in Tickets, Ticket(t) \notin raced'
               PROVE  TicketOK(t)'
  BY DEF TicketsOK, Ticket
<1>2. /\ req[r] \in Request /\ req[r].op \in {"upload", "sync"} /\ req[r].at = "fill"
      /\ \A u \in req[r].todo : Ticket(u) \in req[r].topic
  BY Mine DEF Insert, Is, ShapeOK, Receives
<1>3. UNCHANGED <<tapping, raced, left>>
  BY InsertEffect DEF Insert
<1>4. TicketOK(t) /\ Ticket(t) \notin raced
  BY <1>1, <1>3 DEF TicketsOK
<1>5. t \in Tapped' <=> t \in Tapped
  BY <1>3, TappedSame
<1>6. Ticket(t) \in req[r].topic =>
        /\ \A s \in Requests \ {r} : Ticket(t) \notin req[s].topic
        /\ Waits(t) /\ HasRead(req[r], t) /\ Settled(t)
  <2>1. Ticket(t) \in req[r].topic => \A s \in Requests \ {r} : Ticket(t) \notin req[s].topic
    BY <1>4, OthersNot
  <2>2. QED
    BY <1>2, <1>4, <2>1, TicketMine DEF Midway
<1>7. CASE Leave(r) /\ UNCHANGED pending
  <2>1. req'[r].topic = {} /\ \A s \in Requests \ {r} : req'[s] = req[s]
    BY <1>7, HasLeft DEF Idle
  <2>2. RowsOf(t)' = RowsOf(t) /\ (Waits(t)' <=> Waits(t)) /\ (Settled(t) => Settled(t)')
    BY <1>3, <1>7, SameTables
  <2>3. CASE Ticket(t) \in req[r].topic
    BY <1>6, <2>1, <2>2, <2>3, TicketStillMine
  <2>4. CASE Ticket(t) \notin req[r].topic
    BY <1>3, <1>4, <1>5, <2>1, <2>2, <2>4, LaterAside
  <2>5. QED
    BY <2>3, <2>4
<1>8. ASSUME NEW B \in SUBSET req[r].todo, Inserted(r, B)
      PROVE  TicketOK(t)'
  <2> DEFINE todo == req[r].todo \ B
             q == [req[r] EXCEPT !.todo = todo]
  <2>1. Goto(r, q)
    BY <1>8 DEF Inserted
  <2>2. t \in todo => t \in req[r].todo /\ t \notin B
    OBVIOUS
  <2> HIDE DEF todo
  <2>3. q.op = req[r].op /\ q.at = "fill" /\ q.topic = req[r].topic /\ q.todo = todo
    BY <1>2 DEF Request
  <2> HIDE DEF q
  <2>4. req'[r] = q /\ \A s \in Requests \ {r} : req'[s] = req[s]
    BY <2>1, WentOn
  <2>5. /\ DOMAIN pending \subseteq DOMAIN pending'
        /\ \A p \in DOMAIN pending : pending'[p] = pending[p]
        /\ \A p \in (DOMAIN pending') \ DOMAIN pending : pending'[p].ticket \in B
        /\ \A p, p2 \in (DOMAIN pending') \ DOMAIN pending :
             pending'[p].ticket = pending'[p2].ticket => p = p2
    BY <1>8 DEF Inserted
  <2>6. CASE t \in B
    <3>1. Ticket(t) \in req[r].topic /\ t \in req[r].todo
      BY <1>2, <1>8, <2>6
    <3>2. RowsOf(t) = {} /\ t \notin Tapped
      BY <1>2, <1>6, <3>1 DEF HasRead, Receives
    <3>3. RowsOf(t)' \subseteq (DOMAIN pending') \ DOMAIN pending
      BY <2>5, <3>2 DEF RowsOf, Live
    <3>4. \A p \in RowsOf(t)' : pending'[p].ticket = t
      BY DEF RowsOf
    <3>5. \A p, p2 \in RowsOf(t)' : p = p2
      BY <2>5, <3>3, <3>4
    <3>6. Waits(t)' /\ Settled(t)'
      BY <1>5, <3>2, <3>5 DEF Waits, Settled
    <3>7. HasRead(req[r], t)'
      BY <1>2, <2>2, <2>3, <2>4, <2>6 DEF HasRead, Receives
    <3>8. QED
      BY <1>6, <2>4, <3>1, <3>6, <3>7, TicketStillMine
  <2>7. CASE t \notin B
    <3>1. RowsOf(t)' = RowsOf(t)
      BY <2>5, <2>7 DEF RowsOf, Live
    <3>2. CASE Ticket(t) \notin req[r].topic
      BY <1>3, <1>4, <1>5, <2>3, <2>4, <3>1, <3>2, LaterAside
    <3>3. CASE Ticket(t) \in req[r].topic
      <4>1. Waits(t)' /\ Settled(t)'
        BY <1>3, <1>5, <1>6, <3>1, <3>3 DEF Waits, Settled
      <4>2. HasRead(req[r], t)'
        BY <1>2, <1>5, <1>6, <2>2, <2>3, <2>4, <3>1, <3>3 DEF HasRead, Receives
      <4>3. QED
        BY <1>6, <2>4, <3>3, <4>1, <4>2, TicketStillMine
    <3>4. QED
      BY <3>2, <3>3
  <2>8. QED
    BY <2>6, <2>7
<1>9. QED
  BY <1>7, <1>8, InsertEffect

\* A ticket is tapped: its row goes next, or there is none, or it is left waiting.
LEMMA CreateTickets ==
  ASSUME Base, TicketsOK, NEW r \in Requests, Create(r)
  PROVE  TicketsOK'
<1>1. SUFFICES ASSUME NEW t \in Tickets, Ticket(t) \notin raced'
               PROVE  TicketOK(t)'
  BY DEF TicketsOK, Ticket
<1> DEFINE u == req[r].ticket
           q == [req[r] EXCEPT !.at = "remove"]
<1>2. /\ req[r] \in Request /\ req[r].op = "tap" /\ req[r].at = "create"
      /\ u \in Tickets /\ req[r].topic = {Ticket(u)}
      /\ tapping' = NewTapping(u) /\ UNCHANGED <<pending, raced>>
      /\ Leaves(IF RowsOf(u) \subseteq {req[r].id} THEN {} ELSE {u})
      /\ IF req[r].id = None THEN Leave(r) ELSE Goto(r, q)
  BY Mine DEF Create, Is, ShapeOK
<1>3. /\ q.op = "tap" /\ q.at = "remove" /\ q.topic = {Ticket(u)} /\ q.ticket = u
      /\ q.id = req[r].id
  BY <1>2 DEF Request
<1> HIDE DEF q, u
<1>4. /\ \A s \in Requests \ {r} : req'[s] = req[s]
      /\ IF req[r].id = None THEN req'[r].topic = {} ELSE req'[r] = q
  BY <1>2, HasLeft, WentOn DEF Idle
<1>5. TicketOK(t) /\ Ticket(t) \notin raced
  BY <1>1, <1>2 DEF TicketsOK
<1>6. RowsOf(t)' = RowsOf(t)
  BY <1>2 DEF RowsOf, Live
<1>7. CASE t # u
  <2>0. t \in left /\ RowsOf(t)' # {} => t \in left'
    BY <1>2 DEF Leaves
  <2>1. t \in Tapped' => t \in Tapped
    <3>1. /\ DOMAIN tapping \subseteq DOMAIN tapping'
          /\ \A f \in DOMAIN tapping : /\ tapping'[f].ticket = tapping[f].ticket
                                       /\ tapping'[f].live = tapping[f].live
          /\ \A f \in (DOMAIN tapping') \ DOMAIN tapping : tapping'[f].ticket = u
      BY <1>2, TappingAdded
    <3>2. QED
      BY <1>7, <3>1, TappedGrows
  <2>2. Ticket(t) \notin {Ticket(u)}
    BY <1>7, TopicsApart
  <2>3. QED
    BY <1>2, <1>3, <1>4, <1>5, <1>6, <2>0, <2>1, <2>2, LaterAside
<1>8. CASE t = u
  <2>1. Ticket(t) \in req[r].topic /\ \A s \in Requests \ {r} : Ticket(t) \notin req[s].topic
    BY <1>2, <1>5, <1>8, OthersNot
  <2>2. Waits(t)'
    BY <1>5, <1>6 DEF TicketOK, Waits
  <2>3. CASE RowsOf(t) \subseteq {req[r].id} /\ req[r].id = None
    <3>1. RowsOf(t) = {}
      <4>1. RowsOf(t) \subseteq Nat
        BY Indices, TypeParts DEF Base, RestOK, RowsOf, Live
      <4>2. QED
        BY <2>3, <4>1, QaReviewAssumption DEF QaReviewAssumption
    <3>2. Settled(t)'
      BY <1>6, <2>2, <3>1 DEF Settled
    <3>3. QED
      BY <1>4, <2>1, <2>2, <2>3, <3>2, TicketStillMine
  <2>4. CASE RowsOf(t) \subseteq {req[r].id} /\ req[r].id # None
    <3>1. Ticket(t) \in req'[r].topic /\ Midway(req[r], t)'
      BY <1>3, <1>4, <1>8, <2>4 DEF Midway
    <3>2. HasRead(req[r], t)'
      BY <1>3, <1>4, <1>6, <2>4 DEF HasRead, Receives
    <3>3. QED
      BY <1>4, <2>1, <2>2, <3>1, <3>2, TicketStillMine
  <2>5. CASE ~(RowsOf(t) \subseteq {req[r].id})
    <3>1. t \in left'
      BY <1>2, <1>6, <1>8, <2>5 DEF Leaves
    <3>2. Settled(t)'
      BY <2>2, <3>1 DEF Settled
    <3>3. Ticket(t) \in req'[r].topic => HasRead(req[r], t)'
      BY <1>3, <1>4, <3>1 DEF HasRead, Receives
    <3>4. QED
      BY <1>4, <2>1, <2>2, <3>2, <3>3, TicketStillMine
  <2>6. QED
    BY <2>3, <2>4, <2>5
<1>9. QED
  BY <1>7, <1>8

\* The row that is removed is the only one, or the ticket is left waiting.
LEMMA RemoveTickets ==
  ASSUME Base, TicketsOK, NEW r \in Requests, Remove(r)
  PROVE  TicketsOK'
<1>1. SUFFICES ASSUME NEW t \in Tickets, Ticket(t) \notin raced'
               PROVE  TicketOK(t)'
  BY DEF TicketsOK, Ticket
<1> DEFINE u == req[r].ticket
           S == {req[r].id}
<1>2. /\ req[r].op = "tap" /\ req[r].at = "remove" /\ req[r].topic = {Ticket(u)}
      /\ UNCHANGED <<tapping, raced>> /\ Leave(r)
      /\ \/ pending' = Delete(pending, S) /\ Leaves({})
         \/ UNCHANGED pending /\ Leaves({u})
  BY Mine DEF Remove, Is, ShapeOK
<1>3. req[r].id \in S
  OBVIOUS
<1> HIDE DEF S, u
<1>4. req'[r].topic = {} /\ \A s \in Requests \ {r} : req'[s] = req[s]
  BY <1>2, HasLeft DEF Idle
<1>5. TicketOK(t) /\ Ticket(t) \notin raced
  BY <1>1, <1>2 DEF TicketsOK
<1>6. RowsOf(t)' \subseteq RowsOf(t) /\ (t \in Tapped' <=> t \in Tapped)
  <2>1. CASE pending' = Delete(pending, S)
    BY <1>2, <2>1, PendingDeleted, RowsShrink, TappedSame
  <2>2. CASE UNCHANGED pending
    BY <1>2, <2>2, TappedSame DEF RowsOf, Live
  <2>3. QED
    BY <1>2, <2>1, <2>2
<1>7. t \in left /\ RowsOf(t)' # {} => t \in left'
  BY <1>2 DEF Leaves
<1>8. CASE Ticket(t) \notin req[r].topic
  BY <1>4, <1>5, <1>6, <1>7, <1>8, LaterAside
<1>9. CASE Ticket(t) \in req[r].topic
  <2>1. \A s \in Requests \ {r} : Ticket(t) \notin req[s].topic
    BY <1>5, <1>9, OthersNot
  <2>2. t = u
    BY <1>2, <1>9, TopicsApart
  <2>3. RowsOf(t) \subseteq {req[r].id} \/ t \in left
    BY <1>2, <1>5, <1>9, <2>1, <2>2, TicketMine DEF HasRead, u
  <2>4. RowsOf(t)' = {} \/ t \in left'
    <3>1. CASE pending' = Delete(pending, S) /\ RowsOf(t) \subseteq {req[r].id}
      <4>1. req[r].id \notin RowsOf(t)'
        BY <1>3, <3>1, PendingDeleted DEF RowsOf, Live
      <4>2. QED
        BY <1>6, <3>1, <4>1
    <3>2. CASE t \in left
      BY <1>7, <3>2
    <3>3. CASE UNCHANGED pending /\ Leaves({u})
      BY <2>2, <3>3 DEF Leaves
    <3>4. QED
      BY <1>2, <2>3, <3>1, <3>2, <3>3
  <2>5. Waits(t)' /\ Settled(t)'
    BY <1>5, <1>6, <2>4 DEF TicketOK, Waits, Settled
  <2>6. QED
    BY <1>4, <2>1, <2>5, TicketStillMine
<1>10. QED
  BY <1>8, <1>9

LEMMA FindTickets ==
  ASSUME Base, TicketsOK, NEW r \in Requests, Find(r)
  PROVE  TicketsOK'
<1>1. SUFFICES ASSUME NEW t \in Tickets, Ticket(t) \notin raced'
               PROVE  TicketOK(t)'
  BY DEF TicketsOK, Ticket
<1>2. /\ req[r] \in Request /\ req[r].op = "history" /\ req[r].at = "find"
      /\ UNCHANGED <<pending, tapping, raced, left>>
  BY Mine DEF Find, Is, tables
<1>3. PICK u, f : Goto(r, [req[r] EXCEPT !.at = "put", !.ticket = u, !.id = f,
                                         !.todo = req[r].todo \ {u}])
  BY DEF Find
<1> DEFINE q == [req[r] EXCEPT !.at = "put", !.ticket = u, !.id = f, !.todo = req[r].todo \ {u}]
<1>4. Goto(r, q) /\ q.op = "history" /\ q.topic = req[r].topic
  BY <1>2, <1>3 DEF Request
<1> HIDE DEF q
<1>5. req'[r] = q /\ \A s \in Requests \ {r} : req'[s] = req[s]
  BY <1>4, WentOn
<1>6. TicketOK(t) /\ Ticket(t) \notin raced
  BY <1>1, <1>2 DEF TicketsOK
<1>7. CASE Ticket(t) \notin req[r].topic
  BY <1>2, <1>4, <1>5, <1>6, <1>7, SameTables, LaterAside
<1>8. CASE Ticket(t) \in req[r].topic
  <2>1. \A s \in Requests \ {r} : Ticket(t) \notin req[s].topic
    BY <1>6, <1>8, OthersNot
  <2>2. Waits(t) /\ Settled(t)
    BY <1>2, <1>6, <2>1, TicketMine DEF Midway
  <2>3. Waits(t)' /\ Settled(t)'
    BY <1>2, <2>2, SameTables
  <2>4. HasRead(req[r], t)'
    BY <1>4, <1>5 DEF HasRead, Receives
  <2>5. QED
    BY <1>5, <2>1, <2>3, <2>4, TicketStillMine
<1>9. QED
  BY <1>7, <1>8

\* The ticket at hand has its tapping: its rows go next.
LEMMA PutTickets ==
  ASSUME Base, TicketsOK, NEW r \in Requests, Put(r)
  PROVE  TicketsOK'
<1>1. SUFFICES ASSUME NEW t \in Tickets, Ticket(t) \notin raced'
               PROVE  TicketOK(t)'
  BY DEF TicketsOK, Ticket
<1> DEFINE u == req[r].ticket
           q == [req[r] EXCEPT !.at = "clean"]
<1>2. /\ req[r] \in Request /\ req[r].op = "history" /\ req[r].at = "put"
      /\ Ticket(u) \in req[r].topic
  BY Mine DEF Put, Is, ShapeOK
<1>3. /\ DOMAIN tapping \subseteq DOMAIN tapping'
      /\ \A f \in DOMAIN tapping : /\ tapping'[f].ticket = tapping[f].ticket
                                   /\ tapping'[f].live = tapping[f].live
      /\ \A f \in (DOMAIN tapping') \ DOMAIN tapping : tapping'[f].ticket = u
      /\ UNCHANGED <<pending, raced, left>>
      /\ (Leave(r) /\ UNCHANGED tapping) \/ Goto(r, q)
  BY PutEffect DEF Put
<1>4. q.op = "history" /\ q.at = "clean" /\ q.ticket = u /\ q.topic = req[r].topic
  BY <1>2 DEF Request
<1> HIDE DEF q, u
<1>5. TicketOK(t) /\ Ticket(t) \notin raced
  BY <1>1, <1>3 DEF TicketsOK
<1>6. Ticket(t) \in req[r].topic =>
        /\ \A s \in Requests \ {r} : Ticket(t) \notin req[s].topic
        /\ Waits(t) /\ Settled(t)
  <2>1. Ticket(t) \in req[r].topic => \A s \in Requests \ {r} : Ticket(t) \notin req[s].topic
    BY <1>5, OthersNot
  <2>2. QED
    BY <1>2, <1>5, <2>1, TicketMine DEF Midway
<1>7. RowsOf(t)' = RowsOf(t) /\ (t # u => (t \in Tapped' => t \in Tapped))
  <2>1. RowsOf(t)' = RowsOf(t)
    BY <1>3 DEF RowsOf, Live
  <2>2. QED
    BY <1>3, <2>1, TappedGrows
<1>8. CASE Leave(r) /\ UNCHANGED tapping
  <2>1. req'[r].topic = {} /\ \A s \in Requests \ {r} : req'[s] = req[s]
    BY <1>8, HasLeft DEF Idle
  <2>2. (Waits(t)' <=> Waits(t)) /\ (Settled(t) => Settled(t)') /\ (t \in Tapped' <=> t \in Tapped)
    BY <1>3, <1>8, SameTables
  <2>3. CASE Ticket(t) \in req[r].topic
    BY <1>6, <2>1, <2>2, <2>3, TicketStillMine
  <2>4. CASE Ticket(t) \notin req[r].topic
    BY <1>3, <1>5, <1>7, <2>1, <2>2, <2>4, LaterAside
  <2>5. QED
    BY <2>3, <2>4
<1>9. CASE Goto(r, q)
  <2>1. req'[r] = q /\ \A s \in Requests \ {r} : req'[s] = req[s]
    BY <1>9, WentOn
  <2>2. HasRead(req[r], t)'
    BY <1>4, <2>1 DEF HasRead, Receives
  <2>3. Waits(t) => Waits(t)'
    BY <1>7 DEF Waits
  <2>4. CASE Ticket(t) \notin req[r].topic
    <3>1. t # u
      BY <1>2, <2>4
    <3>2. QED
      BY <1>3, <1>4, <1>5, <1>7, <2>1, <2>4, <3>1, LaterAside
  <2>5. CASE Ticket(t) \in req[r].topic /\ t = u
    <3>1. Ticket(t) \in req'[r].topic /\ Midway(req[r], t)'
      BY <1>4, <2>1, <2>5 DEF Midway
    <3>2. QED
      BY <1>6, <2>1, <2>2, <2>3, <2>5, <3>1, TicketStillMine
  <2>6. CASE Ticket(t) \in req[r].topic /\ t # u
    <3>1. Settled(t)'
      BY <1>3, <1>6, <1>7, <2>3, <2>6 DEF Settled
    <3>2. QED
      BY <1>6, <2>1, <2>2, <2>3, <2>6, <3>1, TicketStillMine
  <2>7. QED
    BY <2>4, <2>5, <2>6
<1>10. QED
  BY <1>3, <1>8, <1>9

LEMMA CleanTickets ==
  ASSUME Base, TicketsOK, NEW r \in Requests, Clean(r)
  PROVE  TicketsOK'
<1>1. SUFFICES ASSUME NEW t \in Tickets, Ticket(t) \notin raced'
               PROVE  TicketOK(t)'
  BY DEF TicketsOK, Ticket
<1> DEFINE u == req[r].ticket
           S == RowsOf(u)
           q == [req[r] EXCEPT !.at = "find"]
<1>2. /\ req[r] \in Request /\ req[r].op = "history" /\ req[r].at = "clean"
      /\ Ticket(u) \in req[r].topic
      /\ pending' = Delete(pending, S) /\ UNCHANGED <<tapping, raced>>
      /\ Leave(r) \/ Goto(r, q)
      /\ Leaves({})
  BY Mine DEF Clean, Is, ShapeOK
<1>3. q.op = "history" /\ q.topic = req[r].topic
  BY <1>2 DEF Request
<1>4. t = u => RowsOf(t) \subseteq S
  OBVIOUS
<1> HIDE DEF q, S
<1>5. /\ \A s \in Requests \ {r} : req'[s] = req[s]
      /\ req'[r].topic = {} \/ (req'[r].topic = req[r].topic /\ req'[r].op = "history")
  BY <1>2, <1>3, HasLeft, WentOn DEF Idle
<1>6. TicketOK(t) /\ Ticket(t) \notin raced
  BY <1>1, <1>2 DEF TicketsOK
<1>7. RowsOf(t)' \subseteq RowsOf(t) /\ (t \in Tapped' <=> t \in Tapped)
  BY <1>2, PendingDeleted, RowsShrink, TappedSame
<1>0. t \in left /\ RowsOf(t)' # {} => t \in left'
  BY <1>2 DEF Leaves
<1>8. CASE Ticket(t) \notin req[r].topic
  BY <1>0, <1>5, <1>6, <1>7, <1>8, LaterAside
<1>9. CASE Ticket(t) \in req[r].topic
  <2>1. \A s \in Requests \ {r} : Ticket(t) \notin req[s].topic
    BY <1>6, <1>9, OthersNot
  <2>2. Waits(t)'
    BY <1>6, <1>7 DEF TicketOK, Waits
  <2>3. Settled(t)'
    <3>1. CASE t = u
      <4>1. \A p \in RowsOf(t)' : p \notin S
        BY <1>2, PendingDeleted DEF RowsOf, Live
      <4>2. RowsOf(t)' = {}
        BY <1>4, <1>7, <3>1, <4>1
      <4>3. QED
        BY <2>2, <4>2 DEF Settled
    <3>2. CASE t # u
      <4>1. Settled(t)
        BY <1>2, <1>6, <2>1, <3>2, TicketMine DEF Midway
      <4>2. QED
        BY <1>0, <1>7, <2>2, <4>1 DEF Settled
    <3>3. QED
      BY <3>1, <3>2
  <2>4. Ticket(t) \in req'[r].topic => HasRead(req[r], t)'
    BY <1>5, <1>9 DEF HasRead, Receives
  <2>5. QED
    BY <1>5, <2>1, <2>2, <2>3, <2>4, TicketStillMine
<1>10. QED
  BY <1>8, <1>9

LEMMA TicketStepsTickets ==
  ASSUME Base, TicketsOK, NEW r \in Requests, TicketSteps(r)
  PROVE  TicketsOK'
<1>1. ASSUME NEW S \in Files, UploadTickets(r, S) \/ SyncTicketsFromOca(r, S)
      PROVE  TicketsOK'
  <2>1. {} \in SUBSET Tickets /\ Timed \in SUBSET Tickets
    BY QaReviewAssumption DEF QaReviewAssumption
  <2>2. QED
    BY <1>1, <2>1, ReceiveTickets DEF UploadTickets, SyncTicketsFromOca
<1>2. QED
  BY <1>1, HistoryTickets, CreateFormTappingTickets, ReadTappedTickets, FillTickets, InsertTickets,
     CreateTickets, RemoveTickets, FindTickets, PutTickets, CleanTickets DEF TicketSteps

LEMMA TicketsAtFirst ==
  ASSUME Init
  PROVE  TicketsOK
<1>1. pending = <<>> /\ \A r \in Requests : req[r].topic = {}
  BY DEF Init, Idle
<1>2. \A t : RowsOf(t) = {}
  BY <1>1 DEF RowsOf, Live
<1>3. QED
  BY <1>1, <1>2 DEF TicketsOK, TicketOK, Waits, Settled

LEMMA TicketsOKHolds == Spec => [](Base /\ TicketsOK)
<1>1. ASSUME Base, Base', TicketsOK, [Next]_vars
      PROVE  TicketsOK'
  <2>1. CASE UNCHANGED vars
    <3>1. UNCHANGED <<pending, tapping, req, raced, left>>
      BY <2>1 DEF vars, tables
    <3>2. ASSUME NEW t \in Tickets, Ticket(t) \notin raced'
          PROVE  TicketOK(t)'
      BY <1>1, <3>1, <3>2, SameTables, TicketAside DEF TicketsOK
    <3>3. QED
      BY <3>2 DEF TicketsOK, Ticket
  <2>2. QED
    BY <1>1, <2>1, TicketStepsTickets, RekonStepsTickets, FailTickets, DeletionsTickets DEF Next
<1>2. QED
  BY <1>1, BaseHolds, TicketsAtFirst, PTL DEF Spec

\* idTiket is no unique key: that a ticket has one pending row at most is what
\* uploadTickets and syncTicketsFromOca achieve by looking before they write, and that it
\* has none once it is tapped, but for the rows a tapping did not name or could not remove,
\* what createFormTapping and uploadHistoryTapping achieve by removing after, however
\* their steps and those of requests about other tickets interleave.
THEOREM PendingOrTappedHolds == Spec => []PendingOrTapped
<1>1. ASSUME TicketsOK
      PROVE  PendingOrTapped
  <2>1. SUFFICES ASSUME NEW t \in Tickets, Ticket(t) \notin raced,
                        \A r \in Requests : Ticket(t) \notin req[r].topic
                 PROVE  /\ Cardinality(RowsOf(t)) <= 1
                        /\ RowsOf(t) # {} /\ t \in Tapped => t \in left
    BY DEF PendingOrTapped
  <2>2. Settled(t)
    BY <1>1, <2>1 DEF TicketsOK, TicketOK
  <2>3. \A p, q \in RowsOf(t) : p = q
    BY <2>2 DEF Settled, Waits
  <2>4. Cardinality(RowsOf(t)) <= 1
    BY <2>3, AtMostOne
  <2>5. QED
    BY <2>2, <2>4 DEF Settled
<1>2. QED
  BY <1>1, TicketsOKHolds, PTL
=============================================================================
