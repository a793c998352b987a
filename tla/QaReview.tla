------------------------------- MODULE QaReview -------------------------------
(***************************************************************************)
(* The life of a ticket in quality assurance: QaService makes it a pending *)
(* QaTicket (uploadTickets, syncTicketsFromOca) and then a QaFormTapping   *)
(* (createFormTapping, uploadHistoryTapping), whose scores a team leader   *)
(* may contest (QaReconciliationService).  No column but the ids is unique *)
(* and no request has a transaction, so requests interleave at every       *)
(* database call, and one that fails leaves what it wrote.                 *)
(*                                                                         *)
(* A table is a sequence of rows: the n-th row ever created has id n, and  *)
(* one that was deleted is not live.  The scores of a tapping are those a  *)
(* reconciliation proposed, or those of a form, a file or an edit (None).  *)
(* Roles, notifications and commitments are left out.                      *)
(***************************************************************************)
EXTENDS Naturals, Sequences, FiniteSets

CONSTANTS
  Tickets,     \* idTiket
  Files,       \* what may come at once: the tickets of a file, or of RawOca in some dates
  Timed,       \* the tickets of which RawOca has a handling time
  Requests,    \* requests in flight at once
  BatchSize,   \* rows in a createMany (1000 in the code)
  MaxRequests, \* bound: requests started in a behaviour
  None         \* no row

ASSUME QaReviewAssumption ==
  /\ None \notin Nat \union Tickets
  /\ Files \subseteq SUBSET Tickets
  /\ \A S \in Files : IsFiniteSet(S)
  /\ Timed \subseteq Tickets
  /\ BatchSize \in Nat \ {0}
  /\ MaxRequests \in Nat

VARIABLES
  pending,  \* table QaTicket
  tapping,  \* table QaFormTapping
  rekon,    \* table QaReconciliation
  req,      \* what each request is doing
  started,  \* the requests so far, counted towards MaxRequests
  replaced, \* history: the reconciliations whose scores were written, and then overwritten
  said,     \* history: the replies acknowledged, with their reconciliation
  raced,    \* history: what overlapping requests were about, and the verdicts that undo others
  left,     \* history: the tickets that have a pending row their tapping did not remove
  judged    \* history: the reconciliations that were to be approved

tables == <<pending, tapping, rekon>>
vars == <<tables, req, started, replaced, said, raced, left, judged>>

\* topic is what a request is about, todo the tickets it still has to treat, id and
\* ticket the row and ticket at hand, fill the rows to give a handling time, talk the
\* discussion it read.
Idle ==
  [op |-> "none", at |-> "idle", topic |-> {}, todo |-> {}, id |-> None, ticket |-> None,
   timed |-> {}, fill |-> {}, talk |-> {}]

Ticket(t) == <<"ticket", t>>
Proposal(f) == <<"proposal", f>>
Talk(k) == <<"talk", k>>
Verdict(k) == <<"verdict", k>>

Live(table) == {n \in DOMAIN table : table[n].live}
RowsOf(t) == {p \in Live(pending) : pending[p].ticket = t}
Tapped == {tapping[f].ticket : f \in Live(tapping)}
Delete(table, S) ==
  [n \in DOMAIN table |-> IF n \in S THEN [table[n] EXCEPT !.live = FALSE] ELSE table[n]]

Init ==
  /\ pending = <<>>
  /\ tapping = <<>>
  /\ rekon = <<>>
  /\ req = [r \in Requests |-> Idle]
  /\ started = 0
  /\ replaced = {}
  /\ said = {}
  /\ raced = {}
  /\ left = {}
  /\ judged = {}

-----------------------------------------------------------------------------
(* The shape of a request: it starts with its first read, goes from call to *)
(* call, and leaves when it is answered.                                    *)

Count == started < MaxRequests /\ started' = started + 1

Start(r, q) ==
  /\ req[r] = Idle
  /\ Count
  /\ req' = [req EXCEPT ![r] = q]
  /\ UNCHANGED <<tables, replaced, said>>

Races(topic) == {x \in topic : \E s \in Requests : x \in req[s].topic}

\* The tickets of S keep the pending rows they have, although tapped: that lasts until
\* those are gone.
Leaves(S) == left' = {t \in left \union S : RowsOf(t)' # {}}

Is(r, op, at) == req[r].op \in op /\ req[r].at = at
Goto(r, q) == req' = [req EXCEPT ![r] = q]
Leave(r) == req' = [req EXCEPT ![r] = Idle]

-----------------------------------------------------------------------------
(* uploadTickets and syncTicketsFromOca.                                   *)

\* The first of several rows of a ticket is the one that "find" gives.
First(S) == {p \in S : \A q \in S : pending[q].ticket = pending[p].ticket => p <= q}

\* The tickets of the file, or of RawOca with their handling times; findMany of the
\* pending ones.
Receive(r, op, S, timed) ==
  LET rows == UNION {RowsOf(t) : t \in S} IN
  /\ Start(r, [Idle EXCEPT !.op = op, !.at = "readTapped",
                           !.topic = {Ticket(t) : t \in S},
                           !.todo = {t \in S : RowsOf(t) = {}},
                           !.fill = {p \in First(rows) :
                                       ~pending[p].timed /\ pending[p].ticket \in timed},
                           !.timed = timed])
  /\ raced' = raced \union Races({Ticket(t) : t \in S})
  /\ UNCHANGED <<left, judged>>

UploadTickets(r, S) == Receive(r, "upload", S, {})
SyncTicketsFromOca(r, S) == Receive(r, "sync", S, Timed)

\* Mutant: only the pending tickets are looked up.
ReadTappedNot(r) ==
  /\ Is(r, {"upload", "sync"}, "readTapped")
  /\ Goto(r, [req[r] EXCEPT !.at = "fill"])
  /\ UNCHANGED <<tables, started, replaced, said, raced, left, judged>>

ReadTapped(r) ==
  /\ Is(r, {"upload", "sync"}, "readTapped")
  /\ Goto(r, [req[r] EXCEPT !.at = "fill",
                            !.todo = req[r].todo \ Tapped,
                            !.fill = {p \in req[r].fill : pending[p].ticket \notin Tapped}])
  /\ UNCHANGED <<tables, started, replaced, said, raced, left, judged>>

\* syncTicketsFromOca gives pending tickets the handling time they lack, one update
\* each; a row deleted meanwhile ends the request with an error.
Fill(r) ==
  /\ Is(r, {"upload", "sync"}, "fill")
  /\ req[r].fill # {}
  /\ \E p \in req[r].fill :
       IF pending[p].live
       THEN /\ pending' = [pending EXCEPT ![p].timed = TRUE]
            /\ Goto(r, [req[r] EXCEPT !.fill = req[r].fill \ {p}])
       ELSE Leave(r) /\ UNCHANGED pending
  /\ UNCHANGED <<tapping, rekon, started, replaced, said, raced, left, judged>>

Batches(S) ==
  {B \in SUBSET S : B # {} /\ Cardinality(B) <= BatchSize
                    /\ (B = S \/ Cardinality(B) = BatchSize)}
Listings(B) ==
  {s \in [1..Cardinality(B) -> B] : \A m, n \in 1..Cardinality(B) : s[m] = s[n] => m = n}

\* createMany, a batch at a time.
Insert(r) ==
  /\ Is(r, {"upload", "sync"}, "fill")
  /\ req[r].fill = {}
  /\ IF req[r].todo = {}
     THEN Leave(r) /\ UNCHANGED pending
     ELSE \E batch \in Batches(req[r].todo) :
            /\ \E s \in Listings(batch) :
                 pending' = pending \o
                   [n \in DOMAIN s |-> [ticket |-> s[n], timed |-> s[n] \in req[r].timed,
                                        live |-> TRUE]]
            /\ Goto(r, [req[r] EXCEPT !.todo = req[r].todo \ batch])
  /\ UNCHANGED <<tapping, rekon, started, replaced, said, raced, left, judged>>

-----------------------------------------------------------------------------
(* createFormTapping, of a pending row or of a ticket typed in (None): the *)
(* form of a page may also name a row that is gone.                        *)

CreateFormTapping(r, t, p) ==
  /\ Start(r, [Idle EXCEPT !.op = "tap", !.at = "create", !.topic = {Ticket(t)},
                           !.ticket = t, !.id = p])
  /\ raced' = raced \union Races({Ticket(t)})
  /\ UNCHANGED <<left, judged>>

NewTapping(t) == Append(tapping, [ticket |-> t, scores |-> None, live |-> TRUE])

Create(r) ==
  /\ Is(r, {"tap"}, "create")
  /\ tapping' = NewTapping(req[r].ticket)
  /\ IF req[r].id = None THEN Leave(r) ELSE Goto(r, [req[r] EXCEPT !.at = "remove"])
  /\ UNCHANGED <<pending, rekon, started, replaced, said, raced, judged>>
  /\ Leaves(IF RowsOf(req[r].ticket) \subseteq {req[r].id} THEN {} ELSE {req[r].ticket})

\* "Ignore if not found": any other error of the delete is ignored as well.
Remove(r) ==
  /\ Is(r, {"tap"}, "remove")
  /\ \/ pending' = Delete(pending, {req[r].id}) /\ Leaves({})
     \/ UNCHANGED pending /\ Leaves({req[r].ticket})
  /\ Leave(r)
  /\ UNCHANGED <<tapping, rekon, started, replaced, said, raced, judged>>

-----------------------------------------------------------------------------
(* uploadHistoryTapping.                                                   *)

UploadHistoryTapping(r, S) ==
  /\ Start(r, [Idle EXCEPT !.op = "history", !.at = "find", !.topic = {Ticket(t) : t \in S},
                           !.todo = S])
  /\ raced' = raced \union Races({Ticket(t) : t \in S})
  /\ UNCHANGED <<left, judged>>

Find(r) ==
  /\ Is(r, {"history"}, "find")
  /\ \E t \in req[r].todo :
       LET found == {f \in Live(tapping) : tapping[f].ticket = t}
       IN  \E f \in IF found = {} THEN {None} ELSE found :
             Goto(r, [req[r] EXCEPT !.at = "put", !.ticket = t, !.id = f,
                                    !.todo = req[r].todo \ {t}])
  /\ UNCHANGED <<tables, started, replaced, said, raced, left, judged>>

\* The scores of tapping f are written: those it had are no more.
Rescore(f, k) ==
  /\ tapping' = [tapping EXCEPT ![f].scores = k]
  /\ replaced' = (replaced \union {tapping[f].scores}) \ {k, None}

\* Update, of the scores too, an error if the row was deleted meanwhile; or create.
Put(r) ==
  /\ Is(r, {"history"}, "put")
  /\ LET f == req[r].id IN
       \/ /\ f # None /\ f \notin Live(tapping)
          /\ Leave(r) /\ UNCHANGED <<tapping, replaced>>
       \/ /\ \/ f = None /\ tapping' = NewTapping(req[r].ticket) /\ UNCHANGED replaced
             \/ f \in Live(tapping) /\ Rescore(f, None)
          /\ Goto(r, [req[r] EXCEPT !.at = "clean"])
  /\ UNCHANGED <<pending, rekon, started, said, raced, left, judged>>

\* "Clean up pending tickets if they are now tapped".
Clean(r) ==
  /\ Is(r, {"history"}, "clean")
  /\ pending' = Delete(pending, RowsOf(req[r].ticket))
  /\ Leaves({})
  /\ IF req[r].todo = {} THEN Leave(r) ELSE Goto(r, [req[r] EXCEPT !.at = "find"])
  /\ UNCHANGED <<tapping, rekon, started, replaced, said, raced, judged>>

-----------------------------------------------------------------------------
(* QaReconciliationService.                                                *)

\* create: the tapping is read.
Propose(r, f) ==
  /\ f \in Live(tapping)
  /\ Start(r, [Idle EXCEPT !.op = "propose", !.at = "check", !.topic = {Proposal(f)}, !.id = f])
  /\ raced' = raced \union Races({Proposal(f)})
  /\ UNCHANGED <<left, judged>>

PendingRekons(f) == {k \in Live(rekon) : rekon[k].tapping = f /\ rekon[k].status = "PENDING"}

\* Mutant: the wrong status is looked for.
CheckApproved(r) ==
  /\ Is(r, {"propose"}, "check")
  /\ IF \E k \in Live(rekon) : rekon[k].tapping = req[r].id /\ rekon[k].status = "APPROVED"
     THEN Leave(r)
     ELSE Goto(r, [req[r] EXCEPT !.at = "write"])
  /\ UNCHANGED <<tables, started, replaced, said, raced, left, judged>>

\* existingPending.
Check(r) ==
  /\ Is(r, {"propose"}, "check")
  /\ IF PendingRekons(req[r].id) # {}
     THEN Leave(r)
     ELSE Goto(r, [req[r] EXCEPT !.at = "write"])
  /\ UNCHANGED <<tables, started, replaced, said, raced, left, judged>>

WriteProposal(r) ==
  /\ Is(r, {"propose"}, "write")
  /\ rekon' = Append(rekon, [tapping |-> req[r].id, status |-> "PENDING", talk |-> {},
                             live |-> TRUE])
  /\ Leave(r)
  /\ UNCHANGED <<pending, tapping, started, replaced, said, raced, left, judged>>

\* approve and reject: findOne.  Nothing asks for the status the row has.
Judge(r, op, k, at) ==
  /\ k \in Live(rekon)
  /\ Start(r, [Idle EXCEPT !.op = op, !.at = at, !.topic = {Verdict(k)}, !.id = k,
                           !.talk = rekon[k].talk])
  /\ UNCHANGED left

Approve(r, k) ==
  /\ Judge(r, "approve", k, "score")
  /\ raced' = raced \union Races({Verdict(k)})
  /\ judged' = judged \union {k}

\* Nothing takes the scores of an approval back.
Reject(r, k) ==
  /\ Judge(r, "reject", k, "verdict")
  /\ raced' = IF k \in judged THEN raced \union {Verdict(k)} ELSE raced \union Races({Verdict(k)})
  /\ UNCHANGED judged

\* Mutant: a tapping that is gone is passed over.
ScoreOrNot(r) ==
  /\ Is(r, {"approve"}, "score")
  /\ LET k == req[r].id IN
       IF rekon[k].tapping \in Live(tapping)
       THEN Rescore(rekon[k].tapping, k)
       ELSE UNCHANGED <<tapping, replaced>>
  /\ Goto(r, [req[r] EXCEPT !.at = "verdict"])
  /\ UNCHANGED <<pending, rekon, started, said, raced, left, judged>>

\* approve writes the proposed scores into the tapping first: an error if it is gone.
Score(r) ==
  /\ Is(r, {"approve"}, "score")
  /\ LET k == req[r].id IN
       IF rekon[k].tapping \in Live(tapping)
       THEN /\ Rescore(rekon[k].tapping, k)
            /\ Goto(r, [req[r] EXCEPT !.at = "verdict"])
       ELSE Leave(r) /\ UNCHANGED <<tapping, replaced>>
  /\ UNCHANGED <<pending, rekon, started, said, raced, left, judged>>

\* Mutant: the verdict is saved as it was asked for.
StatusAsAsked(op) == op

StatusOf(op) == IF op = "approve" THEN "APPROVED" ELSE "REJECTED"

\* Mutant: the verdict saves the whole row it read.
WriteVerdictRow(r) ==
  /\ Is(r, {"approve", "reject"}, "verdict")
  /\ LET k == req[r].id IN
       rekon' = IF k \in Live(rekon)
                THEN [rekon EXCEPT ![k].status = StatusOf(req[r].op), ![k].talk = req[r].talk]
                ELSE rekon
  /\ Leave(r)
  /\ UNCHANGED <<pending, tapping, started, replaced, said, raced, left, judged>>

WriteVerdict(r) ==
  /\ Is(r, {"approve", "reject"}, "verdict")
  /\ LET k == req[r].id IN
       rekon' = IF k \in Live(rekon)
                THEN [rekon EXCEPT ![k].status = StatusOf(req[r].op)]
                ELSE rekon
  /\ Leave(r)
  /\ UNCHANGED <<pending, tapping, started, replaced, said, raced, left, judged>>

\* reply reads the discussion, and writes it back with a message more.
Reply(r, k) ==
  /\ k \in Live(rekon)
  /\ Start(r, [Idle EXCEPT !.op = "reply", !.at = "write", !.topic = {Talk(k)}, !.id = k,
                           !.talk = rekon[k].talk \union {started + 1}])
  /\ raced' = raced \union Races({Talk(k)})
  /\ UNCHANGED <<left, judged>>

WriteReply(r) ==
  /\ Is(r, {"reply"}, "write")
  /\ LET k == req[r].id IN
       IF k \in Live(rekon)
       THEN /\ rekon' = [rekon EXCEPT ![k].talk = req[r].talk]
            /\ said' = said \union ({k} \X (req[r].talk))
       ELSE UNCHANGED <<rekon, said>>
  /\ Leave(r)
  /\ UNCHANGED <<pending, tapping, started, replaced, raced, left, judged>>

-----------------------------------------------------------------------------
(* Requests of one call that matters.                                      *)

DeletePendingTicket(p) ==
  /\ p \in Live(pending)
  /\ Count
  /\ pending' = Delete(pending, {p})
  /\ Leaves({})
  /\ UNCHANGED <<tapping, rekon, req, replaced, said, raced, judged>>

\* updateFormTapping, with scores; a ticket number is not edited.
UpdateFormTapping(f) ==
  /\ f \in Live(tapping)
  /\ Count
  /\ Rescore(f, None)
  /\ UNCHANGED <<pending, rekon, req, said, raced, left, judged>>

DeleteFormTapping(f) ==
  /\ f \in Live(tapping)
  /\ Count
  /\ tapping' = Delete(tapping, {f})
  /\ UNCHANGED <<pending, rekon, req, replaced, said, raced, left, judged>>

RemoveRekon(k) ==
  /\ k \in Live(rekon)
  /\ Count
  /\ rekon' = Delete(rekon, {k})
  /\ UNCHANGED <<pending, tapping, req, replaced, said, raced, left, judged>>

\* A call the database refuses, or the end of the process, is the end of the request: a
\* ticket already tapped may stay pending, and scores may be written without the verdict.
Fail(r) ==
  /\ req[r] # Idle
  /\ raced' = IF req[r].op = "approve" /\ req[r].at = "verdict"
              THEN raced \union req[r].topic ELSE raced
  /\ Leave(r)
  /\ UNCHANGED <<tables, started, replaced, said, judged>>
  /\ Leaves(IF req[r].at \in {"remove", "clean"} THEN {req[r].ticket} ELSE {})

-----------------------------------------------------------------------------
TicketSteps(r) ==
  \/ \E S \in Files :
       \/ UploadTickets(r, S)
       \/ SyncTicketsFromOca(r, S)
       \/ UploadHistoryTapping(r, S)
  \/ \E t \in Tickets : \E p \in {n \in DOMAIN pending : pending[n].ticket = t} \union {None} :
       CreateFormTapping(r, t, p)
  \/ ReadTapped(r) \/ Fill(r) \/ Insert(r)
  \/ Create(r) \/ Remove(r)
  \/ Find(r) \/ Put(r) \/ Clean(r)

RekonSteps(r) ==
  \/ \E f \in DOMAIN tapping : Propose(r, f)
  \/ \E k \in DOMAIN rekon : Approve(r, k) \/ Reject(r, k) \/ Reply(r, k)
  \/ Check(r) \/ WriteProposal(r)
  \/ Score(r) \/ WriteVerdict(r)
  \/ WriteReply(r)

Deletions ==
  \/ \E p \in DOMAIN pending : DeletePendingTicket(p)
  \/ \E f \in DOMAIN tapping : UpdateFormTapping(f) \/ DeleteFormTapping(f)
  \/ \E k \in DOMAIN rekon : RemoveRekon(k)

Next == (\E r \in Requests : TicketSteps(r) \/ RekonSteps(r) \/ Fail(r)) \/ Deletions

Spec == Init /\ [][Next]_vars

-----------------------------------------------------------------------------
(* Properties.                                                             *)

Topics ==
  ({"ticket"} \X Tickets) \union ({"proposal", "talk", "verdict"} \X (Nat \ {0}))

Request ==
  [op : {"none", "upload", "sync", "tap", "history", "propose", "approve", "reject", "reply"},
   at : {"idle", "readTapped", "fill", "create", "remove", "find", "put", "clean", "check",
         "write", "score", "verdict"},
   topic : SUBSET Topics, todo : SUBSET Tickets, id : Nat \union {None},
   ticket : Tickets \union {None}, timed : SUBSET Tickets,
   fill : SUBSET DOMAIN pending, talk : SUBSET Nat]

\* Every variable has its type, and a request points only at rows that were created.
TypeOK ==
  /\ pending \in Seq([ticket : Tickets, timed : BOOLEAN, live : BOOLEAN])
  /\ tapping \in Seq([ticket : Tickets, scores : (DOMAIN rekon) \union {None}, live : BOOLEAN])
  /\ rekon \in Seq([tapping : DOMAIN tapping, status : {"PENDING", "APPROVED", "REJECTED"},
                    talk : SUBSET Nat, live : BOOLEAN])
  /\ req \in [Requests -> Request]
  /\ started \in 0..MaxRequests
  /\ replaced \subseteq DOMAIN rekon
  /\ said \subseteq (DOMAIN rekon) \X Nat
  /\ raced \subseteq Topics
  /\ left \subseteq Tickets
  /\ judged \subseteq DOMAIN rekon

\* A ticket waits for its tapping or has had it, and waits once: idTiket has no unique
\* key, so this is what the lookups of uploadTickets and syncTicketsFromOca and the
\* deletions of createFormTapping and uploadHistoryTapping are to achieve together.  It
\* waits once unless requests about it overlapped; and it is tapped and waits as well only
\* if the form did not name its row, or the row was not removed because of a failure
\* (which Remove ignores), until something else removes the row.
PendingOrTapped ==
  \A t \in Tickets :
    Ticket(t) \notin raced /\ (\A r \in Requests : Ticket(t) \notin req[r].topic) =>
      /\ Cardinality(RowsOf(t)) <= 1
      /\ RowsOf(t) # {} /\ t \in Tapped => t \in left

\* "Rekonsiliasi untuk tiket ini sedang dalam status PENDING": a tapping has one open
\* reconciliation at most, unless two were being proposed at the same time.
OnePendingRekon ==
  \A f \in DOMAIN tapping : Proposal(f) \notin raced => Cardinality(PendingRekons(f)) <= 1

\* The verdict on a reconciliation and the scores of its tapping agree: they are the
\* proposed ones only if it is approved, and if it is, until another approval, a history
\* upload or an edit replaces them; whatever was deleted or failed in between.  The
\* exceptions: verdicts on it overlapped, a rejection came after an approval, which nothing
\* refuses and which leaves the scores, or an approval died between its two writes.
ScoresFollowVerdict ==
  \A k \in Live(rekon) :
    Verdict(k) \notin raced /\ (\A r \in Requests : Verdict(k) \notin req[r].topic) =>
      LET proposed == tapping[rekon[k].tapping].scores = k IN
        /\ proposed => rekon[k].status = "APPROVED"
        /\ rekon[k].status = "APPROVED" => proposed \/ k \in replaced

\* A reply that was acknowledged stays in the discussion, although every reply writes the
\* whole of it, and whatever verdicts come meanwhile: only overlapping replies lose one.
RepliesKept ==
  \A k \in DOMAIN rekon : Talk(k) \notin raced => {x \in said : x[1] = k} = {k} \X rekon[k].talk
=============================================================================
