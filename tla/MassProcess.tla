------------------------------ MODULE MassProcess ------------------------------
(***************************************************************************)
(* The requests that change mass tickets: uploadTickets, saveRecap,        *)
(* updateAgent, markWorked and recalculateAllOpen.  Each is a sequence of  *)
(* database calls without a transaction around them (but for               *)
(* updateAgent's), so requests interleave at every await, and one that     *)
(* fails, or dies with the process, leaves what it wrote.                  *)
(*                                                                         *)
(* An upload of several rows is an upload per row; all happens on one day. *)
(* The team leader and free text are left out.                             *)
(***************************************************************************)
EXTENDS MassWorkflow

CONSTANTS
  Tickets,
  Requests,     \* requests in flight at once
  Agents,
  NoAgent,      \* the empty string
  Recaps,       \* the SaveRecapDtos that may come: new values of some columns and the agent
  UploadStatus, \* the values of the lastStatus column of an upload
  MaxRequests,  \* bound: requests started in a behaviour
  None          \* no row, no value

ASSUME MassProcessAssumption ==
  /\ NoAgent \notin Agents
  /\ \A d \in Recaps :
       /\ DOMAIN d \subseteq DOMAIN InputType \union {"agent"}
       /\ \A f \in DOMAIN d \ {"agent"} : d[f] \in InputType[f]
       /\ "agent" \in DOMAIN d => d.agent \in Agents \union {NoAgent}
  /\ MaxRequests \in Nat

VARIABLES
  row,         \* table MassTicket
  assignments, \* table MassAssignmentHistory, of each ticket in the order of commit
  logged,      \* table MassTicketHistory: the last statuses logged for each ticket
  daily,       \* table MassDailyActivity: who was assigned each ticket today, and worked it
  op, on, at,  \* what each request does, on which ticket, where it is
  dto,         \* its body
  before,      \* saveRecap's before, upload's existing
  read,        \* the row it last read or wrote
  todo,        \* recalculateAllOpen's tickets to go
  started,     \* counts towards MaxRequests
  late,        \* history: tickets whose derived columns an old or missing recalculation left
  mixed        \* history: tickets on which requests overlapped or failed

tables == <<row, assignments, logged, daily>>
request == <<op, on, at, dto, before, read, todo>>
vars == <<tables, request, started, late, mixed>>

Blank ==
  [pic |-> "", pks |-> "", nodin |-> "", profiling |-> "", steps |-> <<>>,
   confirmations |-> [n \in 1..Confirmations |-> ""]]

NullDerived ==
  [validationStatus |-> "null", currentProcess |-> "null", step |-> 0,
   overallStatus |-> "null", processProgress |-> 0, bottleneck |-> 0]

NewRow(s) ==
  [in |-> Blank, derived |-> NullDerived, lastStatus |-> s, completed |-> FALSE,
   agent |-> NoAgent, agentChangeCount |-> 0]

\* writeHistoryForChanges watches these.
Watched(w) ==
  <<w.derived.validationStatus, w.in.profiling, w.derived.overallStatus,
    w.derived.currentProcess, w.derived.step>>

Init ==
  /\ row = [t \in Tickets |-> None]
  /\ assignments = [t \in Tickets |-> <<>>]
  /\ logged = [t \in Tickets |-> None]
  /\ daily = [t \in Tickets |-> [assigned |-> {}, worked |-> {}]]
  /\ op = [r \in Requests |-> "none"]
  /\ on = [r \in Requests |-> None]
  /\ at = [r \in Requests |-> "idle"]
  /\ dto = [r \in Requests |-> None]
  /\ before = [r \in Requests |-> None]
  /\ read = [r \in Requests |-> None]
  /\ todo = [r \in Requests |-> {}]
  /\ started = 0
  /\ late = {}
  /\ mixed = {}

-----------------------------------------------------------------------------
Start(r, o, t, d, first) ==
  /\ at[r] = "idle"
  /\ started < MaxRequests
  /\ started' = started + 1
  /\ op' = [op EXCEPT ![r] = o]
  /\ on' = [on EXCEPT ![r] = t]
  /\ at' = [at EXCEPT ![r] = first]
  /\ dto' = [dto EXCEPT ![r] = d]
  /\ mixed' = mixed \union
       {u \in Tickets : u = t /\ \E q \in Requests : at[q] # "idle" /\ (on[q] = t \/ t \in todo[q])}
  /\ UNCHANGED <<tables, before, read, todo, late>>

Upload(r, t, s) == Start(r, "upload", t, s, "find")
SaveRecap(r, t, d) == Start(r, "recap", t, d, "load")
UpdateAgent(r, t, a) == Start(r, "assign", t, a, "reread")
MarkWorked(r, t) == Start(r, "work", t, None, "fetch")

Goto(r, where) == at' = [at EXCEPT ![r] = where]

\* The request is over.
Leave(r) ==
  /\ op' = [op EXCEPT ![r] = "none"]
  /\ on' = [on EXCEPT ![r] = None]
  /\ at' = [at EXCEPT ![r] = "idle"]
  /\ dto' = [dto EXCEPT ![r] = None]
  /\ before' = [before EXCEPT ![r] = None]
  /\ read' = [read EXCEPT ![r] = None]
  /\ todo' = [todo EXCEPT ![r] = {}]

\* recalculateAllOpen's findMany: a row whose overallStatus is NULL is not one that is
\* NOT 'Completed'.
RecalculateAllOpen(r) ==
  LET open == {t \in Tickets :
                 row[t] # None /\ row[t].derived.overallStatus \notin {"null", "Completed"}}
  IN  /\ at[r] = "idle"
      /\ started < MaxRequests
      /\ open # {}
      /\ started' = started + 1
      /\ op' = [op EXCEPT ![r] = "recalculate"]
      /\ at' = [at EXCEPT ![r] = "calculate"]
      /\ todo' = [todo EXCEPT ![r] = open]
      /\ mixed' = mixed \union {t \in open : \E q \in Requests : on[q] = t \/ t \in todo[q]}
      /\ UNCHANGED <<tables, on, dto, before, read, late>>

-----------------------------------------------------------------------------
(* uploadTickets, for a row.                                               *)

Find(r) ==
  /\ at[r] = "find"
  /\ before' = [before EXCEPT ![r] = row[on[r]]]
  /\ Goto(r, "put")
  /\ UNCHANGED <<tables, op, on, dto, read, todo, started, late, mixed>>

\* Create, which fails if a row came in between; or update, with the lastStatus of the
\* file or that of a ticket found completed.
Put(r) ==
  /\ at[r] = "put"
  /\ LET t == on[r] IN
       IF before[r] = None /\ row[t] # None
       THEN Leave(r) /\ UNCHANGED <<tables, started, late, mixed>>
       ELSE /\ row' = [row EXCEPT ![t] =
                 IF before[r] = None THEN NewRow(dto[r])
                 ELSE [row[t] EXCEPT !.lastStatus =
                   IF before[r].derived.overallStatus = "Completed" THEN before[r].lastStatus
                   ELSE IF dto[r] # None THEN dto[r] ELSE row[t].lastStatus]]
            /\ Goto(r, "calculate")
            /\ UNCHANGED <<assignments, logged, daily, op, on, dto, before, read, todo, started,
                           late, mixed>>

-----------------------------------------------------------------------------
(* saveRecap and updateAgent.                                              *)

\* requireTicket, and the choice of updateAgent.
Load(r) ==
  /\ at[r] = "load"
  /\ LET w == row[on[r]] IN
       IF w = None
       THEN Leave(r)
       ELSE /\ before' = [before EXCEPT ![r] = w]
            /\ Goto(r, IF "agent" \in DOMAIN dto[r] /\ dto[r].agent # w.agent
                       THEN "reread" ELSE "save")
            /\ UNCHANGED <<op, on, dto, read, todo>>
  /\ UNCHANGED <<tables, started, late, mixed>>

NewAgent(r) == IF op[r] = "recap" THEN dto[r].agent ELSE dto[r]

\* updateAgent returns: to saveRecap, or to the client.
AfterAssign(r) ==
  IF op[r] = "recap"
  THEN Goto(r, "save") /\ UNCHANGED <<op, on, dto, before, read, todo>>
  ELSE Leave(r)

\* updateAgent's requireTicket.
Reread(r) ==
  /\ at[r] = "reread"
  /\ LET w == row[on[r]] IN
       IF w = None THEN Leave(r)
       ELSE IF w.agent = NewAgent(r) THEN AfterAssign(r)
       ELSE /\ read' = [read EXCEPT ![r] = w]
            /\ Goto(r, "assign")
            /\ UNCHANGED <<op, on, dto, before, todo>>
  /\ UNCHANGED <<tables, started, late, mixed>>

\* Mutant: the first assignment is counted as a change.
AssignCountsFirst(r) ==
  /\ at[r] = "assign"
  /\ LET t == on[r] IN
       /\ row' = [row EXCEPT ![t].agent = NewAgent(r), ![t].agentChangeCount = @ + 1]
       /\ assignments' = [assignments EXCEPT ![t] =
            Append(@, [previous |-> read[r].agent, new |-> NewAgent(r)])]
  /\ Goto(r, "fetch")
  /\ UNCHANGED <<logged, daily, op, on, dto, before, read, todo, started, late, mixed>>

\* The transaction, from what was read before it.
Assign(r) ==
  /\ at[r] = "assign"
  /\ LET t == on[r] IN
       /\ row' = [row EXCEPT ![t] =
            [row[t] EXCEPT !.agent = NewAgent(r),
                           !.agentChangeCount = row[t].agentChangeCount +
                             (IF read[r].agent = NoAgent THEN 0 ELSE 1)]]
       /\ assignments' = [assignments EXCEPT ![t] =
            Append(@, [previous |-> read[r].agent, new |-> NewAgent(r)])]
  /\ Goto(r, "fetch")
  /\ UNCHANGED <<logged, daily, op, on, dto, before, read, todo, started, late, mixed>>

\* requireTicket, of updateAgent after its transaction and of markWorked.
Fetch(r) ==
  /\ at[r] = "fetch"
  /\ LET w == row[on[r]] IN
       IF w = None THEN Leave(r)
       ELSE /\ read' = [read EXCEPT ![r] = w]
            /\ Goto(r, IF op[r] = "work" THEN "work" ELSE "daily")
            /\ UNCHANGED <<op, on, dto, before, todo>>
  /\ UNCHANGED <<tables, started, late, mixed>>

\* Mutant: the row of the agent the ticket is taken from.
CreateDailyOfBefore(r) ==
  /\ at[r] = "daily"
  /\ daily' = [daily EXCEPT ![on[r]].assigned =
       @ \union {IF before[r] = None THEN read[r].agent ELSE before[r].agent}]
  /\ AfterAssign(r)
  /\ UNCHANGED <<row, assignments, logged, started, late, mixed>>

\* createDailyAssignment: the row of the agent that requireTicket found.
CreateDailyAssignment(r) ==
  /\ at[r] = "daily"
  /\ daily' = [daily EXCEPT ![on[r]].assigned = @ \union {read[r].agent}]
  /\ AfterAssign(r)
  /\ UNCHANGED <<row, assignments, logged, started, late, mixed>>

\* Mutant: a recap without a status field is not recalculated.
SaveWithoutRecalculate(r) ==
  /\ at[r] = "save"
  /\ LET t == on[r]
         fields == DOMAIN row[t].in \intersect DOMAIN dto[r]
     IN /\ row' = [row EXCEPT ![t].in =
             [f \in DOMAIN @ |-> IF f \in fields THEN dto[r][f] ELSE @[f]]]
        /\ read' = [read EXCEPT ![r] = row'[t]]
        /\ Goto(r, IF fields \subseteq {"steps", "confirmations"} THEN "log" ELSE "calculate")
  /\ UNCHANGED <<assignments, logged, daily, op, on, dto, before, todo, started, late, mixed>>

\* massTicket.update: the fields of the body overwrite those of the row.
Save(r) ==
  /\ at[r] = "save"
  /\ LET t == on[r] IN
       row' = [row EXCEPT ![t].in = [f \in DOMAIN row[t].in |->
                 IF f \in DOMAIN dto[r] THEN dto[r][f] ELSE row[t].in[f]]]
  /\ Goto(r, "calculate")
  /\ UNCHANGED <<assignments, logged, daily, op, on, dto, before, read, todo, started, late,
                 mixed>>

\* Mutant: compared with the row as it is, not as it was.
LogAgainstNow(r) ==
  /\ at[r] = "log"
  /\ logged' = [logged EXCEPT ![on[r]] =
       IF Watched(row[on[r]]) # Watched(read[r]) THEN Watched(read[r]) ELSE @]
  /\ Goto(r, "work")
  /\ UNCHANGED <<row, assignments, daily, op, on, dto, before, read, todo, started, late, mixed>>

\* writeHistoryForChanges, from what saveRecap first read to what recalculate returned.
Log(r) ==
  /\ at[r] = "log"
  /\ logged' = [logged EXCEPT ![on[r]] =
       IF Watched(before[r]) # Watched(read[r]) THEN Watched(read[r]) ELSE @]
  /\ Goto(r, "work")
  /\ UNCHANGED <<row, assignments, daily, op, on, dto, before, read, todo, started, late, mixed>>

\* markWorkedToday, of the agent of the ticket as it was recalculated or read.
MarkWorkedToday(r) ==
  /\ at[r] = "work"
  /\ daily' = [daily EXCEPT ![on[r]].worked = @ \union {read[r].agent}]
  /\ Leave(r)
  /\ UNCHANGED <<row, assignments, logged, started, late, mixed>>

-----------------------------------------------------------------------------
(* recalculate.                                                            *)

\* requireTicket, of the ticket of the request or one recalculateAllOpen has to go.
Calculating(r) ==
  /\ at[r] = "calculate"
  /\ \E t \in IF op[r] = "recalculate" THEN todo[r] ELSE {on[r]} :
       /\ on' = [on EXCEPT ![r] = t]
       /\ read' = [read EXCEPT ![r] = row[t]]
       /\ todo' = [todo EXCEPT ![r] = @ \ {t}]
  /\ Goto(r, "write")
  /\ UNCHANGED <<tables, op, dto, before, started, late, mixed>>

\* Mutant: a completed ticket gets its date but not its last status.
RecalculatedKeepsStatus(w, d) ==
  [w EXCEPT !.derived = d, !.completed = w.completed \/ d.overallStatus = "Completed"]

\* The update of a row w with what was calculated.
Recalculated(w, d) ==
  [w EXCEPT !.derived = d,
            !.lastStatus = IF d.overallStatus = "Completed" THEN "Closed" ELSE w.lastStatus,
            !.completed = w.completed \/ d.overallStatus = "Completed"]

Write(r) ==
  /\ at[r] = "write"
  /\ LET t == on[r]
         w == Recalculated(row[t], Calculate(read[r].in, read[r].derived.validationStatus))
     IN /\ row' = [row EXCEPT ![t] = w]
        /\ late' = IF read[r].in = row[t].in THEN late \ {t} ELSE late \union {t}
        /\ CASE op[r] = "recap" ->
                  /\ read' = [read EXCEPT ![r] = w]
                  /\ Goto(r, "log")
                  /\ UNCHANGED <<op, on, dto, before, todo>>
             [] op[r] = "recalculate" /\ todo[r] # {} ->
                  Goto(r, "calculate") /\ UNCHANGED <<op, on, dto, before, read, todo>>
             [] OTHER -> Leave(r)
  /\ UNCHANGED <<assignments, logged, daily, started, mixed>>

\* A call the database refuses, or the end of the process, is the end of the request.
Fail(r) ==
  /\ at[r] # "idle"
  /\ late' = IF at[r] \in {"calculate", "write"} /\ op[r] # "recalculate"
             THEN late \union {on[r]} ELSE late
  /\ mixed' = mixed \union ({on[r]} \intersect Tickets)
  /\ Leave(r)
  /\ UNCHANGED <<tables, started>>

Next ==
  \E r \in Requests :
    \/ \E t \in Tickets :
         \/ \E s \in UploadStatus : Upload(r, t, s)
         \/ \E d \in Recaps : SaveRecap(r, t, d)
         \/ \E a \in Agents : UpdateAgent(r, t, a)
         \/ MarkWorked(r, t)
    \/ RecalculateAllOpen(r)
    \/ Find(r) \/ Put(r)
    \/ Load(r) \/ Reread(r) \/ Assign(r) \/ Save(r) \/ Log(r)
    \/ Fetch(r) \/ CreateDailyAssignment(r) \/ MarkWorkedToday(r)
    \/ Calculating(r) \/ Write(r)
    \/ Fail(r)

Spec == Init /\ [][Next]_vars

-----------------------------------------------------------------------------
(* Properties.                                                             *)

Watches ==
  {"null", "OK", "NOK"} \X Progresses \X {"null", "Not Started", "In Progress", "Completed"}
    \X {"null", "Validation", "Profiling Preparation", "Process Steps", "Completed"} \X Nat

Statuses == UploadStatus \union {"Closed"}
Row ==
  [in : Inputs, derived : Derived, lastStatus : Statuses, completed : BOOLEAN,
   agent : Agents \union {NoAgent}, agentChangeCount : Nat]

ASSUME NoneAssumption == None \notin Row \union Watches \union Tickets

\* Every variable has its type.
TypeOK ==
  /\ row \in [Tickets -> Row \union {None}]
  /\ assignments \in [Tickets -> Seq([previous : Agents \union {NoAgent},
                                     new : Agents \union {NoAgent}])]
  /\ logged \in [Tickets -> Watches \union {None}]
  /\ daily \in [Tickets -> [assigned : SUBSET (Agents \union {NoAgent}),
                            worked : SUBSET (Agents \union {NoAgent})]]
  /\ op \in [Requests -> {"none", "upload", "recap", "assign", "work", "recalculate"}]
  /\ on \in [Requests -> Tickets \union {None}]
  /\ at \in [Requests -> {"idle", "find", "put", "load", "reread", "assign", "save",
                          "calculate", "write", "log", "fetch", "daily", "work"}]
  /\ before \in [Requests -> Row \union {None}]
  /\ read \in [Requests -> Row \union {None}]
  /\ todo \in [Requests -> SUBSET Tickets]
  /\ started \in 0..MaxRequests
  /\ late \subseteq Tickets /\ mixed \subseteq Tickets

\* Nobody is about to recalculate t.
AtRest(t) ==
  row[t] # None /\ \A r \in Requests : on[r] = t => at[r] \notin {"calculate", "write"}

\* "Hitung ulang kolom turunan dari kondisi tiket saat ini": at rest the derived columns
\* are what calculate makes of the row, unless the last recalculation to write was of an
\* older row, or a request died before its own.
RestIsFresh ==
  \A t \in Tickets \ late :
    AtRest(t) => row[t].derived = Calculate(row[t].in, row[t].derived.validationStatus)

\* "PIC dan PKS OK sudah cukup untuk lolos": at rest, a ticket whose PIC and PKS are OK and
\* whose NODIN is empty has passed the validation.
PicAndPksSuffice ==
  \A t \in Tickets \ late :
    AtRest(t) /\ row[t].in.pic = "OK" /\ row[t].in.pks = "OK" /\ row[t].in.nodin = "" =>
      row[t].derived.validationStatus = "OK"

\* "supaya penyelesaian tidak terbuka kembali": whatever uploads raced its completion, a
\* completed ticket ends up closed and dated, unless an upload died half-way.
CompletedIsClosed ==
  \A t \in Tickets \ late :
    AtRest(t) /\ row[t].derived.overallStatus = "Completed" =>
      row[t].lastStatus = "Closed" /\ row[t].completed

\* The rotation report adds up: agentChangeCount is the number of reassignments in the
\* history, and the agent is that of its last row, whatever requests raced.
AssignmentsAddUp ==
  \A t \in Tickets :
    row[t] # None =>
      /\ row[t].agentChangeCount =
           Cardinality({n \in DOMAIN assignments[t] : assignments[t][n].previous # NoAgent})
      /\ row[t].agent = IF assignments[t] = <<>> THEN NoAgent
                        ELSE assignments[t][Len(assignments[t])].new

\* The daily sheet shows everyone who was given the ticket, and as working on it nobody who
\* never was, although updateAgent reads the agent again after its transaction: only where
\* requests overlapped or one failed is somebody who was given it missing.
DailySheetComplete ==
  \A t \in Tickets :
    LET given == {assignments[t][n].new : n \in DOMAIN assignments[t]}
        busy == \E r \in Requests : on[r] = t /\ at[r] \in {"fetch", "daily"}
    IN  /\ daily[t].assigned \subseteq given
        /\ daily[t].worked \subseteq given \union {NoAgent}
        /\ daily[t].assigned # given => busy \/ t \in mixed

\* The history explains a ticket: as long as requests on it came one after the other and
\* none failed, its last statuses logged are those it has, or it has those of a new one.
HistoryExplains ==
  \A t \in Tickets \ mixed :
    AtRest(t) /\ (\A r \in Requests : on[r] = t => at[r] # "log") =>
      Watched(row[t]) = IF logged[t] = None
                        THEN Watched([in |-> Blank, derived |-> Calculate(Blank, "null")])
                        ELSE logged[t]
=============================================================================
