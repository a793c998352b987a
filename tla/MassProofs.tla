------------------------------ MODULE MassProofs ------------------------------
(***************************************************************************)
(* Proofs about MassProcess, for every set of tickets, agents, recaps and  *)
(* requests: the types, that recalculating twice changes nothing, and the  *)
(* five promises of the tables.                                            *)
(*                                                                         *)
(* Each promise has an invariant of its own, which says what holds of a    *)
(* ticket while a request about it is under way (FreshOK, AssignmentsOK,   *)
(* DailyOK, SheetOK, HistoryOK).  The last two are only of tickets that    *)
(* one request at a time is about (Exclusive).                             *)
(***************************************************************************)
EXTENDS MassProcess, FiniteSetTheorems, SequenceTheorems, WellFoundedInduction, TLAPS

Agent == Agents \union {NoAgent}
Given(t) == {assignments[t][n].new : n \in DOMAIN assignments[t]}

-----------------------------------------------------------------------------
(* Where a request may be, and what it then has.                           *)

Placed(r) ==
  /\ op[r] = "none" => at[r] = "idle"
  /\ op[r] = "upload" => at[r] \in {"find", "put", "calculate", "write"}
  /\ op[r] = "recap" => at[r] \in {"load", "reread", "assign", "fetch", "daily", "save",
                                   "calculate", "write", "log", "work"}
  /\ op[r] = "assign" => at[r] \in {"reread", "assign", "fetch", "daily"}
  /\ op[r] = "work" => at[r] \in {"fetch", "work"}
  /\ op[r] = "recalculate" => at[r] \in {"calculate", "write"}

RequestOK(r) ==
  /\ Placed(r)
  /\ op[r] = "none" => on[r] = None
  /\ op[r] \in {"upload", "recap", "assign", "work"} => on[r] \in Tickets
  /\ op[r] # "recalculate" => todo[r] = {}
  /\ op[r] = "recalculate" /\ at[r] = "calculate" => todo[r] # {}
  /\ \A t \in todo[r] : row[t] # None
  /\ op[r] = "upload" => dto[r] \in UploadStatus
  /\ op[r] = "recap" => dto[r] \in Recaps
  /\ op[r] = "recap" /\ at[r] # "load" => before[r] # None
  /\ at[r] \in {"reread", "assign", "fetch", "daily"} /\ op[r] # "work" => NewAgent(r) \in Agent
  /\ at[r] \in {"assign", "daily", "save", "write", "log"} => row[on[r]] # None
  /\ at[r] = "calculate" /\ op[r] # "recalculate" => row[on[r]] # None
  /\ at[r] = "put" /\ before[r] # None => row[on[r]] # None
  /\ at[r] = "write" => on[r] \in Tickets
  /\ at[r] \in {"assign", "daily", "work", "write", "log"} => read[r] # None

RequestsOK == \A r \in Requests : RequestOK(r)

TableTypes ==
  /\ row \in [Tickets -> Row \union {None}]
  /\ assignments \in [Tickets -> Seq([previous : Agent, new : Agent])]
  /\ logged \in [Tickets -> Watches \union {None}]
  /\ daily \in [Tickets -> [assigned : SUBSET Agent, worked : SUBSET Agent]]
RequestTypes ==
  /\ op \in [Requests -> {"none", "upload", "recap", "assign", "work", "recalculate"}]
  /\ on \in [Requests -> Tickets \union {None}]
  /\ at \in [Requests -> {"idle", "find", "put", "load", "reread", "assign", "save",
                          "calculate", "write", "log", "fetch", "daily", "work"}]
  /\ before \in [Requests -> Row \union {None}]
  /\ read \in [Requests -> Row \union {None}]
  /\ todo \in [Requests -> SUBSET Tickets]
  /\ DOMAIN dto = Requests
CountTypes == started \in 0..MaxRequests /\ late \subseteq Tickets /\ mixed \subseteq Tickets

Base == TableTypes /\ RequestTypes /\ CountTypes /\ RequestsOK

-----------------------------------------------------------------------------
(* RestIsFresh and CompletedIsClosed: what is not so is to be recalculated. *)

Fresh(w) == w.derived = Calculate(w.in, w.derived.validationStatus)
Good(w) ==
  /\ Fresh(w)
  /\ w.derived.overallStatus = "Completed" => w.lastStatus = "Closed" /\ w.completed

Recalculates(r, t) ==
  on[r] = t /\ at[r] \in {"calculate", "write"} /\ op[r] # "recalculate"

FreshOK ==
  \A t \in Tickets :
    row[t] # None => Good(row[t]) \/ t \in late \/ \E r \in Requests : Recalculates(r, t)

-----------------------------------------------------------------------------
(* AssignmentsAddUp, and of it what the daily sheet needs.                 *)

Changes(t) == {n \in DOMAIN assignments[t] : assignments[t][n].previous # NoAgent}
Last(t) == IF assignments[t] = <<>> THEN NoAgent ELSE assignments[t][Len(assignments[t])].new

AssignmentsOK ==
  \A t \in Tickets :
    /\ row[t] = None => assignments[t] = <<>>
    /\ row[t] # None => /\ row[t].agentChangeCount = Cardinality(Changes(t))
                        /\ row[t].agent = Last(t)

-----------------------------------------------------------------------------
(* DailySheetComplete: the agent that is still to be put into the sheet is *)
(* the last that was given the ticket.                                     *)

Assigns(r, t) == on[r] = t /\ at[r] \in {"fetch", "daily"} /\ op[r] # "work"

DailyOK ==
  /\ \A t \in Tickets : daily[t].assigned \subseteq Given(t)
  /\ \A t \in Tickets : daily[t].worked \subseteq Given(t) \union {NoAgent}
  /\ \A r \in Requests :
       /\ Assigns(r, on[r]) => assignments[on[r]] # <<>>
       /\ at[r] = "daily" => read[r].agent \in Given(on[r])
       /\ at[r] \in {"log", "work"} => read[r].agent \in Given(on[r]) \union {NoAgent}

About(r, t) == at[r] # "idle" /\ (on[r] = t \/ t \in todo[r])
Exclusive ==
  \A t \in Tickets \ mixed : \A r, s \in Requests : About(r, t) /\ About(s, t) => r = s

SheetOK ==
  \A t \in Tickets \ mixed :
    /\ daily[t].assigned # Given(t) => \E r \in Requests : Assigns(r, t)
    /\ \A r \in Requests :
         Assigns(r, t) =>
           /\ Given(t) \subseteq daily[t].assigned \union {row[t].agent}
           /\ at[r] = "daily" => read[r].agent = row[t].agent

-----------------------------------------------------------------------------
(* HistoryExplains.                                                        *)

Expected(t) ==
  IF logged[t] = None THEN Watched([in |-> Blank, derived |-> Calculate(Blank, "null")])
  ELSE logged[t]

Explained(t) == Watched(row[t]) = Expected(t) /\ Fresh(row[t])

New(t) == row[t].in = Blank /\ row[t].derived = NullDerived /\ logged[t] = None

Changing(r, t) ==
  on[r] = t /\ (Recalculates(r, t) \/ at[r] = "log")

Held(r, t) ==
  /\ at[r] = "write" => read[r].in = row[t].in /\ read[r].derived = row[t].derived
  /\ op[r] = "upload" /\ at[r] \in {"calculate", "write"} => New(t) \/ Explained(t)
  /\ op[r] = "recap" /\ at[r] \notin {"load", "work"} => Watched(before[r]) = Expected(t)
  /\ at[r] = "log" => Watched(read[r]) = Watched(row[t]) /\ Fresh(row[t])

Story(t) ==
  /\ t \notin late
  /\ row[t] # None => /\ Explained(t) \/ \E r \in Requests : Changing(r, t)
                      /\ \A r \in Requests : on[r] = t => Held(r, t)

HistoryOK ==
  /\ \A t \in Tickets : row[t] = None => logged[t] = None
  /\ \A t \in Tickets \ mixed : Story(t)

-----------------------------------------------------------------------------
(* What calculate makes of a ticket.                                       *)

LEMMA NatWellFounded ==
  \E R : IsWellFoundedOn(R, Nat) /\ \A m, n \in Nat : m < n => <<m, n>> \in R
<1> DEFINE R == OpToRel(<, Nat)
<1>1. IsWellFoundedOn(R, Nat)
  BY NatLessThanWellFounded
<1>2. \A m, n \in Nat : m < n => <<m, n>> \in R
  BY DEF OpToRel
<1> HIDE DEF R
<1>3. QED
  BY <1>1, <1>2

LEMMA LeastExists ==
  ASSUME NEW S, S \subseteq Nat, S # {}
  PROVE  FirstOf(S) \in S /\ \A m \in S : FirstOf(S) <= m
<1>1. PICK R : IsWellFoundedOn(R, Nat) /\ \A m, n \in Nat : m < n => <<m, n>> \in R
  BY NatWellFounded
<1>2. PICK n \in S : \A m \in S : ~ (<<m, n>> \in R)
  BY <1>1, WFMin
<1>3. ASSUME NEW m \in S
      PROVE  n <= m
  <2>1. m \in Nat /\ n \in Nat /\ ~ (m < n)
    BY <1>1, <1>2
  <2>2. QED
    BY <2>1
<1>4. QED
  BY <1>3 DEF FirstOf

\* Of a number of steps, the share that is done, in percent.
LEMMA RatioBound ==
  ASSUME NEW a \in Nat, NEW b \in Nat \ {0}, NEW c \in Nat, a <= c * b
  PROVE  RoundedRatio(a, b) \in 0..c
<1> DEFINE q == (2 * a + b) \div (2 * b)
<1>1. 2 * a + b \in Nat /\ 2 * b \in Nat \ {0}
  OBVIOUS
<1>2. q \in Nat /\ q * (2 * b) <= 2 * a + b
  BY <1>1
<1>3. q <= c
  <2>1. SUFFICES ASSUME q >= c + 1 PROVE FALSE
    BY <1>2
  <2>2. q * (2 * b) >= (c + 1) * (2 * b)
    BY <1>1, <1>2, <2>1
  <2>3. (c + 1) * (2 * b) = 2 * (c * b) + 2 * b
    OBVIOUS
  <2>4. QED
    BY <1>2, <2>2, <2>3
<1>4. QED
  BY <1>2, <1>3 DEF RoundedRatio

Stages ==
  [process : {"Validation", "Profiling Preparation", "Process Steps", "Completed"},
   step : Nat, overall : {"Not Started", "In Progress", "Completed"}, progress : 0..100]

LEMMA StepStageTyped ==
  ASSUME NEW in \in Inputs
  PROVE  StepStage(in) \in Stages
<1> DEFINE total == Len(in.steps)
           open == OpenSteps(in)
           done == total - Cardinality(open)
<1>1. in.steps \in Seq(Progresses)
  BY DEF Inputs
<1>2. total \in Nat /\ open \subseteq 1..total
  BY <1>1 DEF OpenSteps
<1>3. IsFiniteSet(1..total) /\ Cardinality(1..total) = total
  BY <1>2, FS_Interval
<1>4. Cardinality(open) \in Nat /\ Cardinality(open) <= total
  BY <1>2, <1>3, FS_Subset, FS_CardinalityType
<1>5. done \in Nat /\ done <= total
  BY <1>2, <1>4
<1>6. StepStage(in) =
        IF total = 0 THEN Stage("Process Steps", 0, "In Progress", 67)
        ELSE IF open = {} THEN Stage("Completed", 0, "Completed", 100)
        ELSE Stage("Process Steps", FirstOf(open), "In Progress",
                   67 + RoundedRatio(33 * RoundedRatio(100 * done, total), 100))
  BY DEF StepStage
<1> HIDE DEF total, open, done
<1>7. CASE total = 0
  <2>1. StepStage(in) = Stage("Process Steps", 0, "In Progress", 67)
    BY <1>6, <1>7
  <2>2. Stage("Process Steps", 0, "In Progress", 67) \in Stages
    BY DEF Stage, Stages
  <2>3. QED
    BY <2>1, <2>2
<1>8. CASE total # 0 /\ open = {}
  <2>1. StepStage(in) = Stage("Completed", 0, "Completed", 100)
    BY <1>6, <1>8
  <2>2. Stage("Completed", 0, "Completed", 100) \in Stages
    BY DEF Stage, Stages
  <2>3. QED
    BY <2>1, <2>2
<1>9. CASE total # 0 /\ open # {}
  <2>1. FirstOf(open) \in Nat
    <3>1. open \subseteq Nat
      BY <1>2
    <3>2. FirstOf(open) \in open
      BY <1>9, <3>1, LeastExists
    <3>3. QED
      BY <3>1, <3>2
  <2> DEFINE p == RoundedRatio(100 * done, total)
             n == RoundedRatio(33 * p, 100)
             f == FirstOf(open)
             g == 67 + n
  <2>2. 100 * done \in Nat /\ total \in Nat \ {0} /\ 100 * done <= 100 * total
    BY <1>2, <1>5, <1>9
  <2>3. p \in 0..100
    BY <2>2, RatioBound
  <2> HIDE DEF p
  <2>4. 33 * p \in Nat /\ 33 * p <= 33 * 100 /\ 100 \in Nat \ {0} /\ 33 \in Nat
    BY <2>3
  <2>5. n \in 0..33
    BY <2>4, RatioBound
  <2>6. StepStage(in) = Stage("Process Steps", f, "In Progress", g)
    BY <1>6, <1>9 DEF p
  <2> HIDE DEF n
  <2>7. f \in Nat /\ g \in 0..100
    BY <2>1, <2>5
  <2> HIDE DEF f, g
  <2>8. Stage("Process Steps", f, "In Progress", g) \in Stages
    BY <2>7 DEF Stage, Stages
  <2>9. QED
    BY <2>6, <2>8
<1>10. QED
  BY <1>7, <1>8, <1>9

LEMMA Percents == 0 \in Nat /\ 0 \in 0..100 /\ 33 \in 0..100
  OBVIOUS

LEMMA EarlyStageTyped ==
  ASSUME NEW o \in {"Not Started", "In Progress"}
  PROVE  /\ Stage("Validation", 0, o, 0) \in Stages
         /\ Stage("Profiling Preparation", 0, o, 33) \in Stages
<1>1. ASSUME NEW p \in {"Validation", "Profiling Preparation"}, NEW n \in Nat, NEW g \in 0..100
      PROVE  Stage(p, n, o, g) \in Stages
  BY DEF Stage, Stages
<1>2. QED
  BY <1>1, Percents, Zenon

LEMMA StageTyped ==
  ASSUME NEW in \in Inputs, NEW stored
  PROVE  StageOf(in, stored) \in Stages
<1>1. CASE ~ValidationNok(in, stored) /\ ValidationComplete(in) /\ in.profiling = "Done"
  <2>1. StageOf(in, stored) = StepStage(in)
    BY <1>1 DEF StageOf
  <2>2. QED
    BY <2>1, StepStageTyped
<1>2. CASE ValidationNok(in, stored) \/ ~ValidationComplete(in)
  <2>1. PICK o \in {"Not Started", "In Progress"} :
          StageOf(in, stored) = Stage("Validation", 0, o, 0)
    BY <1>2 DEF StageOf
  <2>2. QED
    BY <2>1, EarlyStageTyped
<1>3. CASE ~ValidationNok(in, stored) /\ ValidationComplete(in) /\ in.profiling # "Done"
  <2>1. PICK o \in {"Not Started", "In Progress"} :
          StageOf(in, stored) = Stage("Profiling Preparation", 0, o, 33)
    BY <1>3 DEF StageOf
  <2>2. QED
    BY <2>1, EarlyStageTyped
<1>4. QED
  BY <1>1, <1>2, <1>3

LEMMA CalculateTyped ==
  ASSUME NEW in \in Inputs, NEW stored
  PROVE  Calculate(in, stored) \in Derived
<1> DEFINE b == Bottleneck(in, stored)
           s == StageOf(in, stored)
           v == ValidationOf(in, stored)
<1>1. b \in 0..(Confirmations + 1)
  <2> DEFINE open == {n \in 1..Confirmations : in.confirmations[n] = "In Progress"}
  <2> HIDE DEF b, s, v
  <2>1. Confirmations \in Nat /\ open \subseteq 1..Confirmations /\ open \subseteq Nat
    <3>1. Confirmations \in Nat
      BY MassWorkflowAssumption DEF MassWorkflowAssumption
    <3>2. open \subseteq 1..Confirmations
      OBVIOUS
    <3>3. 1..Confirmations \subseteq Nat
      BY <3>1
    <3> HIDE DEF open
    <3>4. QED
      BY <3>1, <3>2, <3>3, Zenon
  <2>2. open # {} => FirstOf(open) \in open
    BY <2>1, LeastExists
  <2>3. b = IF ValidationNok(in, stored) THEN Confirmations + 1
            ELSE IF open = {} THEN 0 ELSE FirstOf(open)
    BY DEF Bottleneck, b
  <2> HIDE DEF open
  <2>4. QED
    BY <2>1, <2>2, <2>3
<1>2. v \in {"null", "OK", "NOK"}
  BY DEF ValidationOf
<1>3. s \in Stages
  BY StageTyped
<1> DEFINE p == s.process
           n == s.step
           o == s.overall
           g == s.progress
<1>4. Calculate(in, stored) =
        [validationStatus |-> v, currentProcess |-> p, step |-> n, overallStatus |-> o,
         processProgress |-> g, bottleneck |-> b]
  BY DEF Calculate
<1> HIDE DEF b, s, v
<1>5. /\ p \in {"null", "Validation", "Profiling Preparation", "Process Steps", "Completed"}
      /\ n \in Nat /\ o \in {"null", "Not Started", "In Progress", "Completed"}
      /\ g \in 0..100
  BY <1>3 DEF Stages
<1> HIDE DEF p, n, o, g
<1>6. [validationStatus |-> v, currentProcess |-> p, step |-> n, overallStatus |-> o,
       processProgress |-> g, bottleneck |-> b] \in Derived
  BY <1>1, <1>2, <1>5 DEF Derived
<1>7. QED
  BY <1>4, <1>6

\* recalculate can be repeated: what it stored as the validation status is what it would
\* store again, so a second recalculation of the same row changes no derived column.
THEOREM RecalculationIdempotent ==
  ASSUME NEW in, NEW stored
  PROVE  Calculate(in, Calculate(in, stored).validationStatus) = Calculate(in, stored)
<1> DEFINE v == ValidationOf(in, stored)
<1>1. Calculate(in, stored).validationStatus = v
  BY DEF Calculate
<1>2. ValidationNok(in, v) <=> ValidationNok(in, stored)
  BY DEF ValidationNok, ValidationOf
<1> HIDE DEF v
<1>3. /\ StageOf(in, v) = StageOf(in, stored)
      /\ Bottleneck(in, v) = Bottleneck(in, stored)
      /\ ValidationOf(in, v) = ValidationOf(in, stored)
  BY <1>2 DEF StageOf, Bottleneck, ValidationOf
<1>4. QED
  BY <1>1, <1>3 DEF Calculate

-----------------------------------------------------------------------------
(* A step of a request leaves the others, and the rows that are, where     *)
(* they are.                                                               *)

Aside(r) ==
  \A q \in Requests \ {r} :
    /\ op'[q] = op[q] /\ on'[q] = on[q] /\ at'[q] = at[q] /\ dto'[q] = dto[q]
    /\ before'[q] = before[q] /\ read'[q] = read[q] /\ todo'[q] = todo[q]
Survive == \A t \in Tickets : row[t] # None => row'[t] # None

LEMMA AsideOK ==
  ASSUME Base, NEW r \in Requests, NEW q \in Requests, q # r, Aside(r), Survive
  PROVE  RequestOK(q)'
<1>1. /\ op'[q] = op[q] /\ on'[q] = on[q] /\ at'[q] = at[q] /\ dto'[q] = dto[q]
      /\ before'[q] = before[q] /\ read'[q] = read[q] /\ todo'[q] = todo[q]
  BY DEF Aside
<1>2. RequestOK(q)
  BY DEF Base, RequestsOK
<1>3. \A t \in todo[q] : t \in Tickets
  BY DEF Base, RequestTypes
<1>4. /\ op[q] \in {"none", "upload", "recap", "assign", "work", "recalculate"}
      /\ on[q] \in Tickets \union {None}
  BY DEF Base, RequestTypes
<1>5. \A t \in todo[q] : row'[t] # None
  BY <1>2, <1>3 DEF RequestOK, Survive
<1>6. /\ at[q] \in {"assign", "daily", "save", "write", "log"} => row'[on[q]] # None
      /\ at[q] = "calculate" /\ op[q] # "recalculate" => row'[on[q]] # None
      /\ at[q] = "put" /\ before[q] # None => row'[on[q]] # None
  BY <1>2, <1>4 DEF RequestOK, Placed, Survive
<1>7. NewAgent(q)' = NewAgent(q)
  BY <1>1 DEF NewAgent
<1>8. Placed(q)'
  BY <1>1, <1>2 DEF RequestOK, Placed
<1>9. QED
  BY <1>1, <1>2, <1>5, <1>6, <1>7, <1>8 DEF RequestOK

LEMMA BaseNext ==
  ASSUME Base, NEW r \in Requests, TableTypes', RequestTypes', CountTypes', Aside(r), Survive,
         RequestOK(r)'
  PROVE  Base'
<1>1. \A q \in Requests : q # r => RequestOK(q)'
  BY AsideOK
<1>2. RequestsOK'
  BY <1>1 DEF RequestsOK
<1>3. QED
  BY <1>2 DEF Base

LEMMA LeaveBase ==
  ASSUME Base, NEW r \in Requests, Leave(r)
  PROVE  RequestTypes' /\ Aside(r) /\ RequestOK(r)'
<1>1. RequestTypes'
  BY DEF Base, RequestTypes, Leave
<1>2. Aside(r)
  BY DEF Base, RequestTypes, Leave, Aside
<1>3. op'[r] = "none" /\ on'[r] = None /\ at'[r] = "idle" /\ todo'[r] = {}
  BY DEF Base, RequestTypes, Leave
<1>4. QED
  BY <1>1, <1>2, <1>3 DEF RequestOK, Placed

LEMMA GotoBase ==
  ASSUME Base, NEW r \in Requests,
         NEW p \in {"idle", "find", "put", "load", "reread", "assign", "save",
                    "calculate", "write", "log", "fetch", "daily", "work"},
         Goto(r, p)
  PROVE  /\ at' \in [Requests -> {"idle", "find", "put", "load", "reread", "assign", "save",
                          "calculate", "write", "log", "fetch", "daily", "work"}]
         /\ at'[r] = p
         /\ \A q \in Requests \ {r} : at'[q] = at[q]
BY DEF Base, RequestTypes, Goto

LEMMA StartBase ==
  ASSUME Base, NEW r \in Requests,
         NEW o \in {"upload", "recap", "assign", "work"}, NEW t \in Tickets, NEW d,
         NEW p \in {"find", "load", "reread", "fetch"}, Start(r, o, t, d, p),
         o = "upload" => p = "find" /\ d \in UploadStatus,
         o = "recap" => p = "load" /\ d \in Recaps,
         o = "assign" => p = "reread" /\ d \in Agents,
         o = "work" => p = "fetch"
  PROVE  Base'
<1>1. TableTypes' /\ Survive
  BY DEF Base, TableTypes, Start, tables, Survive
<1>2. RequestTypes'
  BY DEF Base, RequestTypes, Start
<1>3. started' \in 0..MaxRequests
  BY MassProcessAssumption DEF Base, CountTypes, Start, MassProcessAssumption
<1>4. CountTypes'
  BY <1>3 DEF Base, CountTypes, Start
<1>5. Aside(r)
  BY DEF Base, RequestTypes, Start, Aside
<1>6. /\ op'[r] = o /\ on'[r] = t /\ at'[r] = p /\ dto'[r] = d
      /\ todo'[r] = todo[r]
  BY DEF Base, RequestTypes, Start
<1>7. todo[r] = {}
  BY DEF Base, RequestsOK, RequestTypes, RequestOK, Placed, Start
<1>8. Placed(r)'
  BY <1>6 DEF Placed
<1>9. RequestOK(r)'
  BY <1>6, <1>7, <1>8 DEF RequestOK, NewAgent, Agent
<1>10. QED
  BY <1>1, <1>2, <1>4, <1>5, <1>9, BaseNext

-----------------------------------------------------------------------------
(* The rows the requests write.                                            *)

LEMMA RowIs == \A w \in Row : w # None
  BY NoneAssumption

LEMMA RowOf ==
  ASSUME Base, NEW t \in Tickets, row[t] # None
  PROVE  row[t] \in Row
BY DEF Base, TableTypes

LEMMA Zeros == 0 \in Nat /\ 0 \in 0..100 /\ 0 \in 0..(Confirmations + 1)
<1>1. Confirmations \in Nat
  BY MassWorkflowAssumption DEF MassWorkflowAssumption
<1>2. QED
  BY <1>1

LEMMA BlankTyped == Blank \in Inputs
<1>1. <<>> \in Seq(Progresses)
  OBVIOUS
<1>2. [n \in 1..Confirmations |-> ""] \in [1..Confirmations -> Progresses]
  BY DEF Progresses
<1>3. QED
  BY <1>1, <1>2 DEF Blank, Inputs, Answers, Progresses

LEMMA NullDerivedTyped == NullDerived \in Derived
<1>1. \A n \in Nat, g \in 0..100, b \in 0..(Confirmations + 1) :
        [validationStatus |-> "null", currentProcess |-> "null", step |-> n,
         overallStatus |-> "null", processProgress |-> g, bottleneck |-> b] \in Derived
  BY DEF Derived
<1>2. QED
  BY <1>1, Zeros, Zenon DEF NullDerived

LEMMA NewRowTyped ==
  ASSUME NEW s \in UploadStatus
  PROVE  NewRow(s) \in Row
<1>1. \A i \in Inputs, d \in Derived, n \in Nat, a \in Agents \union {NoAgent} :
        [in |-> i, derived |-> d, lastStatus |-> s, completed |-> FALSE, agent |-> a,
         agentChangeCount |-> n] \in Row
  BY DEF Row, Statuses
<1>2. NoAgent \in Agents \union {NoAgent}
  OBVIOUS
<1>3. QED
  BY <1>1, <1>2, BlankTyped, NullDerivedTyped, Zeros, Zenon DEF NewRow

LEMMA NewRowFields ==
  ASSUME NEW s
  PROVE  /\ NewRow(s).in = Blank /\ NewRow(s).derived = NullDerived
         /\ NewRow(s).agent = NoAgent /\ NewRow(s).agentChangeCount = 0
BY DEF NewRow

LEMMA StatusRow ==
  ASSUME NEW w \in Row, NEW s \in Statuses, NEW v, v = [w EXCEPT !.lastStatus = s]
  PROVE  /\ v \in Row
         /\ v.in = w.in /\ v.derived = w.derived /\ v.lastStatus = s /\ v.completed = w.completed
         /\ v.agent = w.agent /\ v.agentChangeCount = w.agentChangeCount
BY DEF Row

LEMMA AgentRow ==
  ASSUME NEW w \in Row, NEW a \in Agents \union {NoAgent}, NEW n \in Nat,
         NEW v, v = [w EXCEPT !.agent = a, !.agentChangeCount = n]
  PROVE  /\ v \in Row
         /\ v.in = w.in /\ v.derived = w.derived /\ v.lastStatus = w.lastStatus
         /\ v.completed = w.completed /\ v.agent = a /\ v.agentChangeCount = n
BY DEF Row

LEMMA InputRow ==
  ASSUME NEW w \in Row, NEW i \in Inputs, NEW v, v = [w EXCEPT !.in = i]
  PROVE  /\ v \in Row
         /\ v.in = i /\ v.derived = w.derived /\ v.lastStatus = w.lastStatus
         /\ v.completed = w.completed /\ v.agent = w.agent
         /\ v.agentChangeCount = w.agentChangeCount
BY DEF Row

LEMMA RecalculatedRow ==
  ASSUME NEW w \in Row, NEW d \in Derived
  PROVE  /\ Recalculated(w, d) \in Row
         /\ Recalculated(w, d).in = w.in /\ Recalculated(w, d).derived = d
         /\ Recalculated(w, d).agent = w.agent
         /\ Recalculated(w, d).agentChangeCount = w.agentChangeCount
         /\ Recalculated(w, d).lastStatus =
              IF d.overallStatus = "Completed" THEN "Closed" ELSE w.lastStatus
         /\ d.overallStatus = "Completed" => Recalculated(w, d).completed
         /\ w.completed => Recalculated(w, d).completed
<1> DEFINE s == IF d.overallStatus = "Completed" THEN "Closed" ELSE w.lastStatus
           c == w.completed \/ d.overallStatus = "Completed"
<1>1. s \in Statuses /\ c \in BOOLEAN
  BY DEF Row, Statuses
<1>2. Recalculated(w, d) = [w EXCEPT !.derived = d, !.lastStatus = s, !.completed = c]
  BY DEF Recalculated
<1>3. /\ d.overallStatus = "Completed" => c
      /\ w.completed => c
  OBVIOUS
<1> HIDE DEF c
<1>4. ASSUME NEW v, v = [w EXCEPT !.derived = d, !.lastStatus = s, !.completed = c]
      PROVE  /\ v \in Row
             /\ v.in = w.in /\ v.derived = d /\ v.agent = w.agent
             /\ v.agentChangeCount = w.agentChangeCount
             /\ v.lastStatus = s /\ v.completed = c
  <2> HIDE DEF s
  <2>1. QED
    BY <1>1, <1>4 DEF Row
<1>5. QED
  BY <1>2, <1>3, <1>4

\* The body of a recap over the columns of a row.
Merged(i, d) == [f \in DOMAIN i |-> IF f \in DOMAIN d THEN d[f] ELSE i[f]]

LEMMA MergedTyped ==
  ASSUME NEW i \in Inputs, NEW d \in Recaps
  PROVE  Merged(i, d) \in Inputs
<1> DEFINE F == {"pic", "pks", "nodin", "profiling", "steps", "confirmations"}
           m == Merged(i, d)
<1>1. DOMAIN i = F /\ DOMAIN InputType = F
  BY DEF Inputs, InputType
<1>2. \A f \in F : i[f] \in InputType[f]
  BY DEF Inputs, InputType
<1>3. \A f \in DOMAIN d \ {"agent"} : d[f] \in InputType[f]
  BY MassProcessAssumption DEF MassProcessAssumption
<1>4. \A f \in F : f # "agent"
  OBVIOUS
<1>5. \A f \in F : m[f] \in InputType[f]
  <2> HIDE DEF F
  <2>1. QED
    BY <1>1, <1>2, <1>3, <1>4 DEF Merged
<1>6. m = [f \in F |-> m[f]]
  <2> HIDE DEF F
  <2>1. QED
    BY <1>1 DEF Merged
<1> HIDE DEF m
<1>7. /\ m["pic"] \in Answers /\ m["pks"] \in Answers /\ m["nodin"] \in Answers
      /\ m["profiling"] \in Progresses /\ m["steps"] \in Seq(Progresses)
      /\ m["confirmations"] \in [1..Confirmations -> Progresses]
  BY <1>5 DEF InputType
<1>8. m \in Inputs
  BY <1>6, <1>7 DEF Inputs
<1>9. QED
  BY <1>8 DEF m

-----------------------------------------------------------------------------
(* Every step keeps the types and what a request has.                      *)

LEMMA RecalculateAllOpenBase ==
  ASSUME Base, NEW r \in Requests, RecalculateAllOpen(r)
  PROVE  Base'
<1> DEFINE open == {t \in Tickets :
                      row[t] # None /\ row[t].derived.overallStatus \notin {"null", "Completed"}}
<1>1. /\ open # {} /\ at[r] = "idle" /\ started < MaxRequests /\ started' = started + 1
      /\ op' = [op EXCEPT ![r] = "recalculate"] /\ at' = [at EXCEPT ![r] = "calculate"]
      /\ todo' = [todo EXCEPT ![r] = open]
      /\ mixed' = mixed \union {t \in open : \E q \in Requests : on[q] = t \/ t \in todo[q]}
      /\ UNCHANGED <<tables, on, dto, before, read, late>>
  BY DEF RecalculateAllOpen
<1>2. open \subseteq Tickets /\ \A t \in open : row[t] # None
  OBVIOUS
<1> HIDE DEF open
<1>3. TableTypes' /\ Survive
  BY <1>1 DEF Base, TableTypes, tables, Survive
<1>4. RequestTypes'
  BY <1>1, <1>2 DEF Base, RequestTypes
<1>5. started' \in 0..MaxRequests
  BY <1>1, MassProcessAssumption DEF Base, CountTypes, MassProcessAssumption
<1>6. CountTypes'
  BY <1>1, <1>2, <1>5 DEF Base, CountTypes
<1>7. Aside(r)
  BY <1>1 DEF Base, RequestTypes, Aside
<1>8. op'[r] = "recalculate" /\ at'[r] = "calculate" /\ todo'[r] = open /\ row' = row
  BY <1>1 DEF Base, RequestTypes, tables
<1>9. Placed(r)'
  BY <1>8 DEF Placed
<1>10. RequestOK(r)'
  BY <1>1, <1>2, <1>8, <1>9 DEF RequestOK
<1>11. QED
  BY <1>3, <1>4, <1>6, <1>7, <1>10, BaseNext

LEMMA FindBase ==
  ASSUME Base, NEW r \in Requests, Find(r)
  PROVE  Base'
<1>1. at[r] = "find" /\ Goto(r, "put") /\ before' = [before EXCEPT ![r] = row[on[r]]]
      /\ UNCHANGED <<tables, op, on, dto, read, todo, started, late, mixed>>
  BY DEF Find
<1>2. RequestOK(r) /\ op[r] = "upload" /\ on[r] \in Tickets
  BY <1>1 DEF Base, RequestTypes, RequestsOK, RequestOK, Placed
<1>3. TableTypes' /\ Survive /\ CountTypes'
  BY <1>1 DEF Base, TableTypes, CountTypes, tables, Survive
<1>4. row[on[r]] \in Row \union {None}
  BY <1>2 DEF Base, TableTypes
<1>5. RequestTypes'
  BY <1>1, <1>4, GotoBase DEF Base, RequestTypes
<1>6. Aside(r)
  BY <1>1, GotoBase DEF Base, RequestTypes, Aside
<1>7. at'[r] = "put" /\ before'[r] = row[on[r]] /\ row' = row
  BY <1>1, GotoBase DEF Base, RequestTypes, tables
<1>8. Placed(r)'
  BY <1>1, <1>2, <1>7 DEF Placed
<1>9. RequestOK(r)'
  BY <1>1, <1>2, <1>7, <1>8 DEF RequestOK
<1>10. QED
  BY <1>3, <1>5, <1>6, <1>9, BaseNext

LEMMA StillBase ==
  ASSUME Base, NEW r \in Requests, Leave(r), UNCHANGED <<tables, started, late, mixed>>
  PROVE  Base'
<1>1. TableTypes' /\ Survive /\ CountTypes'
  BY DEF Base, TableTypes, CountTypes, tables, Survive
<1>2. QED
  BY <1>1, LeaveBase, BaseNext

\* What a request without tables to write does when it goes on.
LEMMA GoesBase ==
  ASSUME Base, NEW r \in Requests, NEW p, Goto(r, p),
         p \in {"find", "put", "load", "reread", "assign", "save", "calculate", "write", "log",
                "fetch", "daily", "work"},
         UNCHANGED <<op, on, dto, todo>>,
         NEW v \in Row, before' = [before EXCEPT ![r] = v] \/ UNCHANGED before,
         NEW u \in Row, read' = [read EXCEPT ![r] = u] \/ UNCHANGED read
  PROVE  /\ RequestTypes' /\ Aside(r)
         /\ at'[r] = p /\ op'[r] = op[r] /\ on'[r] = on[r] /\ dto'[r] = dto[r]
         /\ todo'[r] = todo[r] /\ NewAgent(r)' = NewAgent(r)
         /\ before'[r] = v \/ UNCHANGED before
         /\ read'[r] = u \/ UNCHANGED read
<1>1. at' \in [Requests -> {"idle", "find", "put", "load", "reread", "assign", "save",
                          "calculate", "write", "log", "fetch", "daily", "work"}]
  BY GotoBase
<1>2. at'[r] = p /\ \A q \in Requests \ {r} : at'[q] = at[q]
  BY GotoBase
<1>3. RequestTypes'
  BY <1>1 DEF Base, RequestTypes
<1>4. Aside(r)
  BY <1>2 DEF Base, RequestTypes, Aside
<1>5. /\ before'[r] = v \/ UNCHANGED before
      /\ read'[r] = u \/ UNCHANGED read
  BY DEF Base, RequestTypes
<1>6. NewAgent(r)' = NewAgent(r)
  BY DEF NewAgent
<1>7. QED
  BY <1>2, <1>3, <1>4, <1>5, <1>6

LEMMA PutBase ==
  ASSUME Base, NEW r \in Requests, Put(r)
  PROVE  Base'
<1> DEFINE t == on[r]
<1>1. at[r] = "put"
  BY DEF Put
<1>2. RequestOK(r) /\ op[r] = "upload" /\ t \in Tickets /\ dto[r] \in UploadStatus
  BY <1>1 DEF Base, RequestTypes, RequestsOK, RequestOK, Placed
<1>3. CASE before[r] = None /\ row[t] # None
  BY <1>3, StillBase DEF Put
<1>4. CASE ~ (before[r] = None /\ row[t] # None)
  <2> DEFINE s == IF before[r].derived.overallStatus = "Completed" THEN before[r].lastStatus
                  ELSE IF dto[r] # None THEN dto[r] ELSE row[t].lastStatus
             w == IF before[r] = None THEN NewRow(dto[r]) ELSE [row[t] EXCEPT !.lastStatus = s]
  <2>1. /\ row' = [row EXCEPT ![t] = w] /\ Goto(r, "calculate")
        /\ UNCHANGED <<assignments, logged, daily, op, on, dto, before, read, todo, started,
                       late, mixed>>
    BY <1>4 DEF Put
  <2>2. w \in Row
    <3>1. CASE before[r] = None
      BY <1>2, <3>1, NewRowTyped
    <3>2. CASE before[r] # None
      <4>1. before[r] \in Row /\ row[t] # None
        BY <1>1, <1>2, <3>2 DEF Base, RequestTypes, RequestOK
      <4>2. row[t] \in Row
        BY <1>2, <4>1, RowOf
      <4>3. s \in Statuses
        BY <1>2, <4>1, <4>2 DEF Row, Statuses
      <4> HIDE DEF s
      <4>4. [row[t] EXCEPT !.lastStatus = s] \in Row
        BY <4>2, <4>3, StatusRow
      <4>5. QED
        BY <3>2, <4>4
    <3>3. QED
      BY <3>1, <3>2
  <2> HIDE DEF w
  <2>3. TableTypes' /\ Survive
    BY <1>2, <2>1, <2>2, RowIs DEF Base, TableTypes, Survive
  <2>4. CountTypes'
    BY <2>1 DEF Base, CountTypes
  <2>5. RequestTypes' /\ Aside(r) /\ at'[r] = "calculate"
    BY <2>1, GotoBase DEF Base, RequestTypes, Aside
  <2>6. row'[t] # None
    BY <1>2, <2>1, <2>2, RowIs DEF Base, TableTypes
  <2>7. Placed(r)'
    BY <1>2, <2>1, <2>5 DEF Placed
  <2>8. RequestOK(r)'
    BY <1>2, <2>1, <2>5, <2>6, <2>7 DEF RequestOK
  <2>9. QED
    BY <2>3, <2>4, <2>5, <2>8, BaseNext
<1>5. QED
  BY <1>3, <1>4

LEMMA LoadBase ==
  ASSUME Base, NEW r \in Requests, Load(r)
  PROVE  Base'
<1> DEFINE w == row[on[r]]
           p == IF "agent" \in DOMAIN dto[r] /\ dto[r].agent # w.agent THEN "reread" ELSE "save"
<1>1. at[r] = "load" /\ UNCHANGED <<tables, started, late, mixed>>
  BY DEF Load
<1>2. RequestOK(r) /\ op[r] = "recap" /\ on[r] \in Tickets /\ dto[r] \in Recaps
  BY <1>1 DEF Base, RequestTypes, RequestsOK, RequestOK, Placed
<1>3. CASE w = None
  BY <1>1, <1>3, StillBase DEF Load
<1>4. CASE w # None
  <2>1. before' = [before EXCEPT ![r] = w] /\ Goto(r, p) /\ UNCHANGED <<op, on, dto, read, todo>>
    BY <1>4 DEF Load
  <2>2. w \in Row /\ w # None
    BY <1>2, <1>4, RowOf
  <2>3. p = "reread" => dto[r].agent \in Agent
    BY <1>2, MassProcessAssumption DEF MassProcessAssumption, Agent
  <2>4. p \in {"reread", "save"}
    OBVIOUS
  <2> HIDE DEF p, w
  <2>5. /\ RequestTypes' /\ Aside(r)
        /\ at'[r] = p /\ op'[r] = op[r] /\ on'[r] = on[r] /\ dto'[r] = dto[r]
        /\ todo'[r] = todo[r] /\ NewAgent(r)' = NewAgent(r)
    BY <2>1, <2>2, <2>4, GoesBase
  <2>6. before'[r] = w
    BY <2>1 DEF Base, RequestTypes
  <2>7. TableTypes' /\ Survive /\ CountTypes' /\ row' = row
    BY <1>1 DEF Base, TableTypes, CountTypes, tables, Survive
  <2>8. Placed(r)'
    BY <1>2, <2>4, <2>5 DEF Placed
  <2>9. p = "reread" => NewAgent(r) \in Agent
    BY <1>2, <2>3 DEF NewAgent
  <2>10. row'[on[r]] # None
    BY <1>4, <2>7 DEF w
  <2>11. RequestOK(r)'
    BY <1>2, <2>2, <2>4, <2>5, <2>6, <2>7, <2>8, <2>9, <2>10 DEF RequestOK
  <2>12. QED
    BY <2>5, <2>7, <2>11, BaseNext
<1>5. QED
  BY <1>3, <1>4

LEMMA AfterAssignBase ==
  ASSUME Base, NEW r \in Requests, AfterAssign(r), at[r] \in {"reread", "daily"},
         row[on[r]] # None, TableTypes', UNCHANGED row, CountTypes'
  PROVE  Base'
<1>1. Survive
  BY DEF Survive
<1>2. RequestOK(r) /\ op[r] \in {"recap", "assign"}
  BY DEF Base, RequestTypes, RequestsOK, RequestOK, Placed
<1>3. CASE op[r] = "recap"
  <2>1. Goto(r, "save") /\ UNCHANGED <<op, on, dto, before, read, todo>>
    BY <1>3 DEF AfterAssign
  <2>2. on[r] \in Tickets
    BY <1>2 DEF RequestOK
  <2>3. row[on[r]] \in Row
    BY <2>2, RowOf
  <2>4. /\ RequestTypes' /\ Aside(r) /\ at'[r] = "save" /\ op'[r] = op[r] /\ on'[r] = on[r]
        /\ dto'[r] = dto[r] /\ todo'[r] = todo[r]
    BY <2>1, <2>3, GoesBase
  <2>5. Placed(r)'
    BY <1>3, <2>4 DEF Placed
  <2>6. before'[r] # None
    BY <1>2, <1>3, <2>1 DEF RequestOK
  <2>7. RequestOK(r)'
    BY <1>2, <1>3, <2>4, <2>5, <2>6 DEF RequestOK
  <2>8. QED
    BY <1>1, <2>4, <2>7, BaseNext
<1>4. CASE op[r] # "recap"
  <2>1. Leave(r)
    BY <1>4 DEF AfterAssign
  <2>2. QED
    BY <1>1, <2>1, LeaveBase, BaseNext
<1>5. QED
  BY <1>3, <1>4

LEMMA RereadBase ==
  ASSUME Base, NEW r \in Requests, Reread(r)
  PROVE  Base'
<1> DEFINE w == row[on[r]]
<1>1. at[r] = "reread" /\ UNCHANGED <<tables, started, late, mixed>>
  BY DEF Reread
<1>2. RequestOK(r) /\ op[r] \in {"recap", "assign"} /\ on[r] \in Tickets
  BY <1>1 DEF Base, RequestTypes, RequestsOK, RequestOK, Placed
<1>3. TableTypes' /\ CountTypes' /\ row' = row /\ Survive
  BY <1>1 DEF Base, TableTypes, CountTypes, tables, Survive
<1>4. CASE w = None
  BY <1>1, <1>4, StillBase DEF Reread
<1>5. CASE w # None /\ w.agent = NewAgent(r)
  BY <1>1, <1>3, <1>5, AfterAssignBase DEF Reread
<1>6. CASE w # None /\ w.agent # NewAgent(r)
  <2>1. read' = [read EXCEPT ![r] = w] /\ Goto(r, "assign")
        /\ UNCHANGED <<op, on, dto, before, todo>>
    BY <1>6 DEF Reread
  <2>2. w \in Row /\ w # None
    BY <1>2, <1>6, RowOf
  <2> HIDE DEF w
  <2>3. /\ RequestTypes' /\ Aside(r) /\ at'[r] = "assign" /\ op'[r] = op[r] /\ on'[r] = on[r]
        /\ dto'[r] = dto[r] /\ todo'[r] = todo[r] /\ NewAgent(r)' = NewAgent(r)
    BY <2>1, <2>2, GoesBase
  <2>4. read'[r] = w
    BY <2>1 DEF Base, RequestTypes
  <2>5. Placed(r)'
    BY <1>2, <2>3 DEF Placed
  <2>6. row'[on[r]] # None
    BY <1>3, <2>2 DEF w
  <2>7. op[r] = "recap" => before'[r] # None
    BY <1>1, <1>2, <2>1 DEF RequestOK
  <2>8. NewAgent(r) \in Agent
    BY <1>1, <1>2 DEF RequestOK
  <2>9. RequestOK(r)'
    BY <1>2, <2>2, <2>3, <2>4, <2>5, <2>6, <2>7, <2>8 DEF RequestOK
  <2>10. QED
    BY <1>3, <2>3, <2>9, BaseNext
<1>7. QED
  BY <1>4, <1>5, <1>6

LEMMA FetchBase ==
  ASSUME Base, NEW r \in Requests, Fetch(r)
  PROVE  Base'
<1> DEFINE w == row[on[r]]
           p == IF op[r] = "work" THEN "work" ELSE "daily"
<1>1. at[r] = "fetch" /\ UNCHANGED <<tables, started, late, mixed>>
  BY DEF Fetch
<1>2. RequestOK(r) /\ op[r] \in {"recap", "assign", "work"} /\ on[r] \in Tickets
  BY <1>1 DEF Base, RequestTypes, RequestsOK, RequestOK, Placed
<1>3. TableTypes' /\ CountTypes' /\ row' = row /\ Survive
  BY <1>1 DEF Base, TableTypes, CountTypes, tables, Survive
<1>4. CASE w = None
  BY <1>1, <1>4, StillBase DEF Fetch
<1>5. CASE w # None
  <2>1. read' = [read EXCEPT ![r] = w] /\ Goto(r, p) /\ UNCHANGED <<op, on, dto, before, todo>>
    BY <1>5 DEF Fetch
  <2>2. w \in Row /\ w # None
    BY <1>2, <1>5, RowOf
  <2>3. p \in {"work", "daily"} /\ (p = "work" <=> op[r] = "work")
    OBVIOUS
  <2> HIDE DEF w, p
  <2>4. /\ RequestTypes' /\ Aside(r) /\ at'[r] = p /\ op'[r] = op[r] /\ on'[r] = on[r]
        /\ dto'[r] = dto[r] /\ todo'[r] = todo[r] /\ NewAgent(r)' = NewAgent(r)
    BY <2>1, <2>2, <2>3, GoesBase
  <2>5. read'[r] = w
    BY <2>1 DEF Base, RequestTypes
  <2>6. Placed(r)'
    BY <1>2, <2>3, <2>4 DEF Placed
  <2>7. row'[on[r]] # None
    BY <1>3, <2>2 DEF w
  <2>8. op[r] = "recap" => before'[r] # None
    BY <1>1, <1>2, <2>1 DEF RequestOK
  <2>9. p = "daily" => NewAgent(r) \in Agent
    BY <1>1, <1>2, <2>3 DEF RequestOK
  <2>10. RequestOK(r)'
    BY <1>2, <2>2, <2>3, <2>4, <2>5, <2>6, <2>7, <2>8, <2>9 DEF RequestOK
  <2>11. QED
    BY <1>3, <2>4, <2>10, BaseNext
<1>6. QED
  BY <1>4, <1>5

LEMMA AssignBase ==
  ASSUME Base, NEW r \in Requests, Assign(r)
  PROVE  Base'
<1> DEFINE t == on[r]
           k == row[t].agentChangeCount + (IF read[r].agent = NoAgent THEN 0 ELSE 1)
           w == [row[t] EXCEPT !.agent = NewAgent(r), !.agentChangeCount = k]
           e == [previous |-> read[r].agent, new |-> NewAgent(r)]
<1>1. /\ at[r] = "assign" /\ row' = [row EXCEPT ![t] = w]
      /\ assignments' = [assignments EXCEPT ![t] = Append(@, e)]
      /\ Goto(r, "fetch")
      /\ UNCHANGED <<logged, daily, op, on, dto, before, read, todo, started, late, mixed>>
  BY DEF Assign
<1>2. RequestOK(r) /\ op[r] \in {"recap", "assign"} /\ t \in Tickets
  BY <1>1 DEF Base, RequestTypes, RequestsOK, RequestOK, Placed
<1>3. /\ row[t] # None /\ row[t] \in Row /\ read[r] \in Row /\ NewAgent(r) \in Agent
  BY <1>1, <1>2, RowOf DEF Base, RequestTypes, RequestOK
<1>4. k \in Nat
  <2>1. row[t].agentChangeCount \in Nat
    BY <1>3 DEF Row
  <2> DEFINE b == IF read[r].agent = NoAgent THEN 0 ELSE 1
  <2>2. b \in {0, 1}
    OBVIOUS
  <2> HIDE DEF b
  <2>3. row[t].agentChangeCount + b \in Nat
    BY <2>1, <2>2
  <2>4. QED
    BY <2>3 DEF b
<1> HIDE DEF k
<1>5. w \in Row
  BY <1>3, <1>4, AgentRow DEF Agent
<1>6. e \in [previous : Agent, new : Agent]
  BY <1>3 DEF Agent, Row
<1> HIDE DEF w, e
<1>7. row' \in [Tickets -> Row \union {None}] /\ Survive /\ row'[t] # None
  BY <1>1, <1>2, <1>5, RowIs DEF Base, TableTypes, Survive
<1>8. assignments' \in [Tickets -> Seq([previous : Agent, new : Agent])]
  <2> DEFINE E == [previous : Agent, new : Agent]
  <2>1. assignments \in [Tickets -> Seq(E)] /\ e \in E
    BY <1>6 DEF Base, TableTypes
  <2> HIDE DEF E
  <2>2. assignments' \in [Tickets -> Seq(E)]
    BY <1>1, <1>2, <2>1
  <2>3. QED
    BY <2>2 DEF E
<1>9. TableTypes' /\ CountTypes'
  BY <1>1, <1>7, <1>8 DEF Base, TableTypes, CountTypes
<1>10. /\ RequestTypes' /\ Aside(r) /\ at'[r] = "fetch" /\ op'[r] = op[r] /\ on'[r] = on[r]
       /\ dto'[r] = dto[r] /\ todo'[r] = todo[r] /\ NewAgent(r)' = NewAgent(r)
  BY <1>1, <1>3, GoesBase
<1>11. Placed(r)'
  BY <1>2, <1>10 DEF Placed
<1>12. op[r] = "recap" => before'[r] # None
  BY <1>1, <1>2 DEF RequestOK
<1>13. RequestOK(r)'
  BY <1>2, <1>3, <1>7, <1>10, <1>11, <1>12 DEF RequestOK
<1>14. QED
  BY <1>7, <1>9, <1>10, <1>13, BaseNext

LEMMA CreateDailyAssignmentBase ==
  ASSUME Base, NEW r \in Requests, CreateDailyAssignment(r)
  PROVE  Base'
<1> DEFINE t == on[r]
           a == read[r].agent
<1>1. /\ at[r] = "daily" /\ AfterAssign(r)
      /\ daily' = [daily EXCEPT ![t].assigned = @ \union {a}]
      /\ UNCHANGED <<row, assignments, logged, started, late, mixed>>
  BY DEF CreateDailyAssignment
<1>2. /\ RequestOK(r) /\ t \in Tickets /\ row[t] # None /\ read[r] \in Row
  BY <1>1 DEF Base, RequestTypes, RequestsOK, RequestOK, Placed
<1>3. a \in Agent
  BY <1>2 DEF Row, Agent
<1> HIDE DEF a
<1>4. daily' \in [Tickets -> [assigned : SUBSET Agent, worked : SUBSET Agent]]
  BY <1>1, <1>2, <1>3 DEF Base, TableTypes
<1>5. TableTypes' /\ CountTypes' /\ UNCHANGED row
  BY <1>1, <1>4 DEF Base, TableTypes, CountTypes
<1>6. QED
  BY <1>1, <1>2, <1>5, AfterAssignBase

LEMMA SaveBase ==
  ASSUME Base, NEW r \in Requests, Save(r)
  PROVE  Base'
<1> DEFINE t == on[r]
           i == Merged(row[t].in, dto[r])
<1>1. /\ at[r] = "save" /\ Goto(r, "calculate")
      /\ row' = [row EXCEPT ![t].in = i]
      /\ UNCHANGED <<assignments, logged, daily, op, on, dto, before, read, todo, started, late,
                     mixed>>
  BY DEF Save, Merged
<1>2. RequestOK(r) /\ op[r] = "recap" /\ t \in Tickets /\ dto[r] \in Recaps
  BY <1>1 DEF Base, RequestTypes, RequestsOK, RequestOK, Placed
<1>3. row[t] # None /\ row[t] \in Row
  BY <1>1, <1>2, RowOf DEF RequestOK
<1>4. i \in Inputs
  BY <1>2, <1>3, MergedTyped DEF Row
<1> HIDE DEF i
<1>5. [row[t] EXCEPT !.in = i] \in Row
  BY <1>3, <1>4, InputRow
<1>6. row' \in [Tickets -> Row \union {None}] /\ Survive /\ row'[t] # None
  BY <1>1, <1>2, <1>5, RowIs DEF Base, TableTypes, Survive
<1>7. TableTypes' /\ CountTypes'
  BY <1>1, <1>6 DEF Base, TableTypes, CountTypes
<1>8. /\ RequestTypes' /\ Aside(r) /\ at'[r] = "calculate" /\ op'[r] = op[r] /\ on'[r] = on[r]
      /\ dto'[r] = dto[r] /\ todo'[r] = todo[r]
  BY <1>1, <1>3, GoesBase
<1>9. Placed(r)'
  BY <1>2, <1>8 DEF Placed
<1>10. before'[r] # None
  BY <1>1, <1>2 DEF RequestOK
<1>11. RequestOK(r)'
  BY <1>2, <1>6, <1>8, <1>9, <1>10 DEF RequestOK
<1>12. QED
  BY <1>6, <1>7, <1>8, <1>11, BaseNext

LEMMA WatchedTyped ==
  ASSUME NEW w \in Row
  PROVE  Watched(w) \in Watches
BY DEF Row, Inputs, Derived, Watched, Watches

LEMMA LogBase ==
  ASSUME Base, NEW r \in Requests, Log(r)
  PROVE  Base'
<1> DEFINE t == on[r]
           a == Watched(before[r])
           b == Watched(read[r])
<1>1. /\ at[r] = "log" /\ Goto(r, "work")
      /\ logged' = [logged EXCEPT ![t] = IF a # b THEN b ELSE @]
      /\ UNCHANGED <<row, assignments, daily, op, on, dto, before, read, todo, started, late,
                     mixed>>
  BY DEF Log
<1>2. RequestOK(r) /\ op[r] = "recap" /\ t \in Tickets /\ before[r] # None /\ read[r] \in Row
  BY <1>1 DEF Base, RequestTypes, RequestsOK, RequestOK, Placed
<1>3. b \in Watches
  BY <1>2, WatchedTyped
<1> HIDE DEF a, b
<1>4. logged' \in [Tickets -> Watches \union {None}]
  BY <1>1, <1>2, <1>3 DEF Base, TableTypes
<1>5. TableTypes' /\ CountTypes' /\ Survive /\ row' = row
  BY <1>1, <1>4 DEF Base, TableTypes, CountTypes, Survive
<1>6. /\ RequestTypes' /\ Aside(r) /\ at'[r] = "work" /\ op'[r] = op[r] /\ on'[r] = on[r]
      /\ dto'[r] = dto[r] /\ todo'[r] = todo[r]
  BY <1>1, <1>2, GoesBase
<1>7. Placed(r)'
  BY <1>2, <1>6 DEF Placed
<1>8. before'[r] # None /\ read'[r] # None
  BY <1>1, <1>2 DEF RequestOK
<1>9. RequestOK(r)'
  BY <1>2, <1>5, <1>6, <1>7, <1>8 DEF RequestOK
<1>10. QED
  BY <1>5, <1>6, <1>9, BaseNext

LEMMA MarkWorkedTodayBase ==
  ASSUME Base, NEW r \in Requests, MarkWorkedToday(r)
  PROVE  Base'
<1> DEFINE t == on[r]
           a == read[r].agent
<1>1. /\ at[r] = "work" /\ Leave(r)
      /\ daily' = [daily EXCEPT ![t].worked = @ \union {a}]
      /\ UNCHANGED <<row, assignments, logged, started, late, mixed>>
  BY DEF MarkWorkedToday
<1>2. RequestOK(r) /\ t \in Tickets /\ read[r] \in Row
  BY <1>1 DEF Base, RequestTypes, RequestsOK, RequestOK, Placed
<1>3. a \in Agent
  BY <1>2 DEF Row, Agent
<1> HIDE DEF a
<1>4. daily' \in [Tickets -> [assigned : SUBSET Agent, worked : SUBSET Agent]]
  BY <1>1, <1>2, <1>3 DEF Base, TableTypes
<1>5. TableTypes' /\ CountTypes' /\ Survive
  BY <1>1, <1>4 DEF Base, TableTypes, CountTypes, Survive
<1>6. QED
  BY <1>1, <1>5, LeaveBase, BaseNext

\* The ticket recalculate took.
Takes(r, t) ==
  /\ t \in IF op[r] = "recalculate" THEN todo[r] ELSE {on[r]}
  /\ on' = [on EXCEPT ![r] = t]
  /\ read' = [read EXCEPT ![r] = row[t]]
  /\ todo' = [todo EXCEPT ![r] = todo[r] \ {t}]

LEMMA CalculatingTakes ==
  ASSUME Base, NEW r \in Requests, Calculating(r)
  PROVE  \E t \in Tickets :
           /\ Takes(r, t) /\ row[t] # None /\ row[t] \in Row
           /\ op[r] # "recalculate" => t = on[r] /\ todo'[r] = {}
           /\ on'[r] = t /\ read'[r] = row[t] /\ todo'[r] = todo[r] \ {t}
<1>1. at[r] = "calculate"
  BY DEF Calculating
<1>2. PICK t \in IF op[r] = "recalculate" THEN todo[r] ELSE {on[r]} :
        /\ on' = [on EXCEPT ![r] = t]
        /\ read' = [read EXCEPT ![r] = row[t]]
        /\ todo' = [todo EXCEPT ![r] = @ \ {t}]
  BY DEF Calculating
<1>3. todo' = [todo EXCEPT ![r] = todo[r] \ {t}]
  BY <1>2 DEF Base, RequestTypes
<1>4. RequestOK(r) /\ op[r] \in {"upload", "recap", "recalculate"}
  BY <1>1 DEF Base, RequestTypes, RequestsOK, RequestOK, Placed
<1>5. t \in Tickets /\ row[t] # None /\ (op[r] # "recalculate" => t = on[r] /\ todo[r] = {})
  BY <1>1, <1>2, <1>4 DEF Base, RequestTypes, RequestOK
<1>6. row[t] \in Row
  BY <1>5, RowOf
<1>7. on'[r] = t /\ read'[r] = row[t] /\ todo'[r] = todo[r] \ {t}
  BY <1>2, <1>3 DEF Base, RequestTypes
<1>8. Takes(r, t)
  BY <1>2, <1>3 DEF Takes
<1>9. QED
  BY <1>5, <1>6, <1>7, <1>8

LEMMA CalculatingBase ==
  ASSUME Base, NEW r \in Requests, Calculating(r)
  PROVE  Base'
<1>1. /\ at[r] = "calculate" /\ Goto(r, "write")
      /\ UNCHANGED <<tables, op, dto, before, started, late, mixed>>
  BY DEF Calculating
<1>2. PICK t \in Tickets :
           /\ Takes(r, t) /\ row[t] # None /\ row[t] \in Row
           /\ op[r] # "recalculate" => t = on[r] /\ todo'[r] = {}
           /\ on'[r] = t /\ read'[r] = row[t] /\ todo'[r] = todo[r] \ {t}
  BY CalculatingTakes
<1>3. RequestOK(r) /\ op[r] \in {"upload", "recap", "recalculate"}
  BY <1>1 DEF Base, RequestTypes, RequestsOK, RequestOK, Placed
<1>4. TableTypes' /\ CountTypes' /\ Survive /\ row' = row
  BY <1>1 DEF Base, TableTypes, CountTypes, Survive, tables
<1>5. RequestTypes'
  BY <1>1, <1>2, GotoBase DEF Base, RequestTypes, Takes
<1>6. Aside(r)
  BY <1>1, <1>2, GotoBase DEF Base, RequestTypes, Takes, Aside
<1>7. at'[r] = "write" /\ op'[r] = op[r] /\ dto'[r] = dto[r] /\ before'[r] = before[r]
  BY <1>1, GotoBase
<1>8. Placed(r)'
  BY <1>3, <1>7 DEF Placed
<1>9. RequestOK(r)'
  BY <1>1, <1>2, <1>3, <1>4, <1>7, <1>8 DEF RequestOK
<1>10. QED
  BY <1>4, <1>5, <1>6, <1>9, BaseNext

\* What a write makes of the row.
Updated(r) == Recalculated(row[on[r]], Calculate(read[r].in, read[r].derived.validationStatus))

LEMMA UpdatedRow ==
  ASSUME Base, NEW r \in Requests, at[r] = "write"
  PROVE  /\ RequestOK(r) /\ on[r] \in Tickets /\ row[on[r]] # None /\ row[on[r]] \in Row
         /\ read[r] \in Row /\ op[r] \in {"upload", "recap", "recalculate"}
         /\ Calculate(read[r].in, read[r].derived.validationStatus) \in Derived
         /\ Updated(r) \in Row
<1>1. /\ RequestOK(r) /\ on[r] \in Tickets /\ row[on[r]] # None /\ read[r] \in Row
      /\ op[r] \in {"upload", "recap", "recalculate"}
  BY DEF Base, RequestTypes, RequestsOK, RequestOK, Placed
<1>2. row[on[r]] \in Row
  BY <1>1, RowOf
<1>3. read[r].in \in Inputs
  BY <1>1 DEF Row
<1>4. Calculate(read[r].in, read[r].derived.validationStatus) \in Derived
  BY <1>3, CalculateTyped
<1>5. QED
  BY <1>1, <1>2, <1>4, RecalculatedRow DEF Updated

LEMMA WriteBase ==
  ASSUME Base, NEW r \in Requests, Write(r)
  PROVE  Base'
<1> DEFINE t == on[r]
           w == Updated(r)
<1>1. /\ at[r] = "write" /\ row' = [row EXCEPT ![t] = w]
      /\ late' = IF read[r].in = row[t].in THEN late \ {t} ELSE late \union {t}
      /\ UNCHANGED <<assignments, logged, daily, started, mixed>>
  BY DEF Write, Updated
<1>2. /\ RequestOK(r) /\ t \in Tickets /\ op[r] \in {"upload", "recap", "recalculate"} /\ w \in Row
  BY <1>1, UpdatedRow
<1> HIDE DEF w
<1>3. row' \in [Tickets -> Row \union {None}] /\ Survive /\ row'[t] # None
  BY <1>1, <1>2, RowIs DEF Base, TableTypes, Survive
<1>4. TableTypes' /\ CountTypes'
  BY <1>1, <1>2, <1>3 DEF Base, TableTypes, CountTypes
<1>5. CASE op[r] = "recap"
  <2>1. read' = [read EXCEPT ![r] = w] /\ Goto(r, "log") /\ UNCHANGED <<op, on, dto, before, todo>>
    BY <1>5 DEF Write, Updated, w
  <2>2. /\ RequestTypes' /\ Aside(r) /\ at'[r] = "log" /\ op'[r] = op[r] /\ on'[r] = on[r]
        /\ dto'[r] = dto[r] /\ todo'[r] = todo[r]
    BY <1>2, <2>1, GoesBase
  <2>3. Placed(r)'
    BY <1>5, <2>2 DEF Placed
  <2>4. before'[r] # None /\ read'[r] # None
    BY <1>1, <1>2, <1>5, <2>1, RowIs DEF Base, RequestTypes, RequestOK
  <2>5. RequestOK(r)'
    BY <1>2, <1>3, <1>5, <2>2, <2>3, <2>4 DEF RequestOK
  <2>6. QED
    BY <1>3, <1>4, <2>2, <2>5, BaseNext
<1>6. CASE op[r] = "recalculate" /\ todo[r] # {}
  <2>1. Goto(r, "calculate") /\ UNCHANGED <<op, on, dto, before, read, todo>>
    BY <1>6 DEF Write
  <2>2. /\ RequestTypes' /\ Aside(r) /\ at'[r] = "calculate" /\ op'[r] = op[r] /\ on'[r] = on[r]
        /\ dto'[r] = dto[r] /\ todo'[r] = todo[r]
    BY <1>2, <2>1, GoesBase
  <2>3. Placed(r)'
    BY <1>6, <2>2 DEF Placed
  <2>4. \A u \in todo[r] : row'[u] # None
    BY <1>2, <1>3 DEF Base, RequestTypes, RequestOK, Survive
  <2>5. RequestOK(r)'
    BY <1>2, <1>6, <2>2, <2>3, <2>4 DEF RequestOK
  <2>6. QED
    BY <1>3, <1>4, <2>2, <2>5, BaseNext
<1>7. CASE op[r] # "recap" /\ ~ (op[r] = "recalculate" /\ todo[r] # {})
  <2>1. Leave(r)
    BY <1>7 DEF Write
  <2>2. QED
    BY <1>3, <1>4, <2>1, LeaveBase, BaseNext
<1>8. QED
  BY <1>5, <1>6, <1>7

LEMMA FailBase ==
  ASSUME Base, NEW r \in Requests, Fail(r)
  PROVE  Base'
<1>1. RequestOK(r) /\ op[r] \in {"none", "upload", "recap", "assign", "work", "recalculate"}
  BY DEF Base, RequestTypes, RequestsOK
<1>2. at[r] \in {"calculate", "write"} /\ op[r] # "recalculate" => on[r] \in Tickets
  BY <1>1 DEF RequestOK, Placed
<1>3. TableTypes' /\ Survive
  BY DEF Base, TableTypes, Fail, tables, Survive
<1>4. CountTypes'
  BY <1>2 DEF Base, CountTypes, Fail
<1>5. Leave(r)
  BY DEF Fail
<1>6. QED
  BY <1>3, <1>4, <1>5, LeaveBase, BaseNext

Starts(r) ==
  \E t \in Tickets :
    \/ \E s \in UploadStatus : Upload(r, t, s)
    \/ \E d \in Recaps : SaveRecap(r, t, d)
    \/ \E a \in Agents : UpdateAgent(r, t, a)
    \/ MarkWorked(r, t)

LEMMA StartsBase ==
  ASSUME Base, NEW r \in Requests, Starts(r)
  PROVE  Base'
<1>1. PICK t \in Tickets :
        \/ \E s \in UploadStatus : Upload(r, t, s)
        \/ \E d \in Recaps : SaveRecap(r, t, d)
        \/ \E a \in Agents : UpdateAgent(r, t, a)
        \/ MarkWorked(r, t)
  BY DEF Starts
<1>2. ASSUME NEW s \in UploadStatus, Upload(r, t, s)
      PROVE  Base'
  BY <1>2, StartBase DEF Upload
<1>3. ASSUME NEW d \in Recaps, SaveRecap(r, t, d)
      PROVE  Base'
  BY <1>3, StartBase DEF SaveRecap
<1>4. ASSUME NEW a \in Agents, UpdateAgent(r, t, a)
      PROVE  Base'
  BY <1>4, StartBase DEF UpdateAgent
<1>5. ASSUME MarkWorked(r, t)
      PROVE  Base'
  BY <1>5, StartBase DEF MarkWorked
<1>6. QED
  BY <1>1, <1>2, <1>3, <1>4, <1>5

LEMMA NextBase ==
  ASSUME Base, [Next]_vars
  PROVE  Base'
<1>1. CASE UNCHANGED vars
  <2>1. TableTypes' /\ RequestTypes' /\ CountTypes'
    BY <1>1 DEF Base, TableTypes, RequestTypes, CountTypes, vars, tables, request
  <2>2. ASSUME NEW q \in Requests
        PROVE  RequestOK(q)'
    <3>1. RequestOK(q)
      BY DEF Base, RequestsOK
    <3>2. UNCHANGED <<row, op, on, at, dto, before, read, todo>>
      BY <1>1 DEF vars, tables, request
    <3>3. QED
      BY <3>1, <3>2 DEF RequestOK, Placed, NewAgent
  <2>3. QED
    BY <2>1, <2>2 DEF Base, RequestsOK
<1>2. ASSUME NEW r \in Requests, Starts(r)
      PROVE  Base'
  BY <1>2, StartsBase
<1>3. QED
  BY <1>1, <1>2, RecalculateAllOpenBase, FindBase, PutBase, LoadBase, RereadBase, AssignBase,
     SaveBase, LogBase, FetchBase, CreateDailyAssignmentBase, MarkWorkedTodayBase, CalculatingBase,
     WriteBase, FailBase DEF Next, Starts

LEMMA InitBase ==
  ASSUME Init
  PROVE  Base
<1>1. TableTypes
  <2> DEFINE E == [previous : Agent, new : Agent]
  <2>1. <<>> \in Seq(E)
    OBVIOUS
  <2> HIDE DEF E
  <2>2. assignments \in [Tickets -> Seq(E)]
    BY <2>1 DEF Init
  <2>3. QED
    BY <2>2 DEF Init, TableTypes, E
<1>2. RequestTypes
  BY DEF Init, RequestTypes
<1>3. CountTypes
  BY MassProcessAssumption DEF Init, CountTypes, MassProcessAssumption
<1>4. RequestsOK
  BY DEF Init, RequestsOK, RequestOK, Placed
<1>5. QED
  BY <1>1, <1>2, <1>3, <1>4 DEF Base

LEMMA BaseHolds == Spec => []Base
BY InitBase, NextBase, PTL DEF Spec

\* Every variable has its type: no step leaves a row that is not one, not even one that
\* merges the body of a recap, or one that dies between two calls.
THEOREM TypeCorrect == Spec => []TypeOK
<1>1. Base => TypeOK
  BY DEF Base, TableTypes, RequestTypes, CountTypes, TypeOK, Agent
<1>2. QED
  BY <1>1, BaseHolds, PTL

-----------------------------------------------------------------------------
(* What is not recalculated is to be, or late.                             *)

LEMMA GoodIs ==
  ASSUME NEW w, NEW v, Good(w), v.in = w.in, v.derived = w.derived, v.lastStatus = w.lastStatus,
         v.completed = w.completed
  PROVE  Good(v)
BY DEF Good, Fresh

\* What a step of r has to do to ticket u.
FreshKept(r, u) ==
  row'[u] # None =>
    \/ /\ row[u] # None
       /\ Good(row[u]) => Good(row[u])'
       /\ u \in late => u \in late'
       /\ Recalculates(r, u) => u \in late' \/ Recalculates(r, u)'
    \/ Good(row[u])' \/ u \in late' \/ Recalculates(r, u)'

LEMMA FreshStep ==
  ASSUME FreshOK, NEW r \in Requests, Aside(r), \A u \in Tickets : FreshKept(r, u)
  PROVE  FreshOK'
<1>1. SUFFICES ASSUME NEW u \in Tickets, row'[u] # None, u \notin late', ~ Good(row[u])'
               PROVE  \E q \in Requests : Recalculates(q, u)'
  BY DEF FreshOK
<1>2. CASE Recalculates(r, u)'
  BY <1>2
<1>3. CASE ~ Recalculates(r, u)'
  <2>1. FreshKept(r, u)
    OBVIOUS
  <2>2. row[u] # None /\ ~ Good(row[u]) /\ u \notin late /\ ~ Recalculates(r, u)
    BY <1>1, <1>3, <2>1 DEF FreshKept
  <2>3. PICK q \in Requests : Recalculates(q, u)
    BY <2>2 DEF FreshOK
  <2>4. q # r
    BY <2>2, <2>3
  <2>5. Recalculates(q, u)'
    BY <2>3, <2>4 DEF Recalculates, Aside
  <2>6. QED
    BY <2>5
<1>4. QED
  BY <1>2, <1>3

LEMMA FreshQuiet ==
  ASSUME FreshOK, NEW r \in Requests, Aside(r), UNCHANGED <<row, late>>,
         \A u \in Tickets : Recalculates(r, u) => Recalculates(r, u)'
  PROVE  FreshOK'
<1>1. ASSUME NEW u \in Tickets
      PROVE  FreshKept(r, u)
  BY DEF FreshKept
<1>2. QED
  BY <1>1, FreshStep

\* The steps that leave the others aside.
LEMMA ActionsAside ==
  ASSUME Base, NEW r \in Requests
  PROVE  /\ Starts(r) => Aside(r)
         /\ RecalculateAllOpen(r) => Aside(r)
         /\ Find(r) => Aside(r)
         /\ Put(r) => Aside(r)
         /\ Load(r) => Aside(r)
         /\ Reread(r) => Aside(r)
         /\ Assign(r) => Aside(r)
         /\ Fetch(r) => Aside(r)
         /\ CreateDailyAssignment(r) => Aside(r)
         /\ Save(r) => Aside(r)
         /\ Log(r) => Aside(r)
         /\ MarkWorkedToday(r) => Aside(r)
         /\ Calculating(r) => Aside(r)
         /\ Write(r) => Aside(r)
         /\ Fail(r) => Aside(r)
<1> USE DEF Base, RequestTypes
<1>1. Leave(r) => Aside(r)
  BY DEF Leave, Aside
<1>2. AfterAssign(r) => Aside(r)
  BY <1>1 DEF AfterAssign, Goto, Aside
<1>3. Starts(r) => Aside(r)
  BY DEF Starts, Upload, SaveRecap, UpdateAgent, MarkWorked, Start, Aside
<1>4. RecalculateAllOpen(r) => Aside(r)
  BY DEF RecalculateAllOpen, Aside
<1>5. Find(r) => Aside(r)
  BY DEF Find, Goto, Aside
<1>6. Put(r) => Aside(r)
  BY <1>1 DEF Put, Goto, Aside
<1>7. Load(r) => Aside(r)
  BY <1>1 DEF Load, Goto, Aside
<1>8. Reread(r) => Aside(r)
  BY <1>1, <1>2 DEF Reread, Goto, Aside
<1>9. Assign(r) => Aside(r)
  BY DEF Assign, Goto, Aside
<1>10. Fetch(r) => Aside(r)
  BY <1>1 DEF Fetch, Goto, Aside
<1>11. CreateDailyAssignment(r) => Aside(r)
  BY <1>2 DEF CreateDailyAssignment
<1>12. Save(r) => Aside(r)
  BY DEF Save, Goto, Aside
<1>13. Log(r) => Aside(r)
  BY DEF Log, Goto, Aside
<1>14. MarkWorkedToday(r) => Aside(r)
  BY <1>1 DEF MarkWorkedToday
<1>15. Calculating(r) => Aside(r)
  BY DEF Calculating, Goto, Aside
<1>16. Write(r) => Aside(r)
  BY <1>1 DEF Write, Goto, Aside
<1>17. Fail(r) => Aside(r)
  BY <1>1 DEF Fail
<1>18. QED
  BY <1>3, <1>4, <1>5, <1>6, <1>7, <1>8, <1>9, <1>10, <1>11, <1>12, <1>13, <1>14, <1>15, <1>16,
     <1>17

QuietSteps(r) ==
  \/ Starts(r) \/ RecalculateAllOpen(r) \/ Find(r) \/ Load(r) \/ Reread(r) \/ Fetch(r)
  \/ CreateDailyAssignment(r) \/ Log(r) \/ MarkWorkedToday(r)

LEMMA QuietFresh ==
  ASSUME Base, FreshOK, NEW r \in Requests, QuietSteps(r)
  PROVE  FreshOK'
<1>1. Aside(r)
  BY ActionsAside DEF QuietSteps
<1>2. at[r] \notin {"calculate", "write"} /\ UNCHANGED <<row, late>>
  BY DEF QuietSteps, Starts, Upload, SaveRecap, UpdateAgent, MarkWorked, Start,
         RecalculateAllOpen, Find, Load, Reread, Fetch, CreateDailyAssignment, Log,
         MarkWorkedToday, tables
<1>3. QED
  BY <1>1, <1>2, FreshQuiet DEF Recalculates

LEMMA PutFresh ==
  ASSUME Base, FreshOK, NEW r \in Requests, Put(r)
  PROVE  FreshOK'
<1>1. Aside(r) /\ at[r] = "put"
  BY ActionsAside DEF Put
<1>2. op[r] = "upload"
  BY <1>1 DEF Base, RequestTypes, RequestsOK, RequestOK, Placed
<1>3. CASE before[r] = None /\ row[on[r]] # None
  BY <1>1, <1>3, FreshQuiet DEF Put, Recalculates, tables
<1>4. CASE ~ (before[r] = None /\ row[on[r]] # None)
  <2>1. at'[r] = "calculate" /\ op'[r] = "upload" /\ on'[r] = on[r] /\ late' = late
    BY <1>2, <1>4 DEF Put, Goto, Base, RequestTypes
  <2>2. Recalculates(r, on[r])'
    BY <2>1 DEF Recalculates
  <2>3. \A u \in Tickets \ {on[r]} : row'[u] = row[u]
    BY <1>4 DEF Put, Base, TableTypes
  <2>4. ASSUME NEW u \in Tickets
        PROVE  FreshKept(r, u)
    BY <1>1, <2>1, <2>2, <2>3 DEF FreshKept, Recalculates
  <2>5. QED
    BY <1>1, <2>4, FreshStep
<1>5. QED
  BY <1>3, <1>4

LEMMA SaveFresh ==
  ASSUME Base, FreshOK, NEW r \in Requests, Save(r)
  PROVE  FreshOK'
<1>1. Aside(r) /\ at[r] = "save"
  BY ActionsAside DEF Save
<1>2. op[r] = "recap"
  BY <1>1 DEF Base, RequestTypes, RequestsOK, RequestOK, Placed
<1>3. at'[r] = "calculate" /\ op'[r] = "recap" /\ on'[r] = on[r] /\ late' = late
  BY <1>2 DEF Save, Goto, Base, RequestTypes
<1>4. Recalculates(r, on[r])'
  BY <1>3 DEF Recalculates
<1>5. \A u \in Tickets \ {on[r]} : row'[u] = row[u]
  BY DEF Save, Base, TableTypes
<1>6. ASSUME NEW u \in Tickets
      PROVE  FreshKept(r, u)
  BY <1>1, <1>3, <1>4, <1>5 DEF FreshKept, Recalculates
<1>7. QED
  BY <1>1, <1>6, FreshStep

\* What updateAgent's transaction makes of the row.
LEMMA AssignRow ==
  ASSUME Base, NEW r \in Requests, Assign(r)
  PROVE  /\ at[r] = "assign" /\ RequestOK(r) /\ on[r] \in Tickets /\ op[r] \in {"recap", "assign"}
         /\ row[on[r]] \in Row /\ read[r] \in Row /\ NewAgent(r) \in Agent
         /\ \A u \in Tickets \ {on[r]} : row'[u] = row[u]
         /\ row[on[r]] # None /\ row'[on[r]] # None
         /\ row'[on[r]].in = row[on[r]].in
         /\ row'[on[r]].derived = row[on[r]].derived
         /\ row'[on[r]].lastStatus = row[on[r]].lastStatus
         /\ row'[on[r]].completed = row[on[r]].completed
         /\ row'[on[r]].agent = NewAgent(r)
         /\ row'[on[r]].agentChangeCount =
              row[on[r]].agentChangeCount + (IF read[r].agent = NoAgent THEN 0 ELSE 1)
<1> DEFINE t == on[r]
           k == row[t].agentChangeCount + (IF read[r].agent = NoAgent THEN 0 ELSE 1)
           w == [row[t] EXCEPT !.agent = NewAgent(r), !.agentChangeCount = k]
<1>1. at[r] = "assign" /\ row' = [row EXCEPT ![t] = w]
  BY DEF Assign
<1>2. RequestOK(r) /\ op[r] \in {"recap", "assign"} /\ t \in Tickets
  BY <1>1 DEF Base, RequestTypes, RequestsOK, RequestOK, Placed
<1>3. /\ row[t] # None /\ row[t] \in Row /\ read[r] \in Row /\ NewAgent(r) \in Agent
  BY <1>1, <1>2, RowOf DEF Base, RequestTypes, RequestOK
<1>4. k \in Nat
  <2>1. row[t].agentChangeCount \in Nat
    BY <1>3 DEF Row
  <2> DEFINE b == IF read[r].agent = NoAgent THEN 0 ELSE 1
  <2>2. b \in {0, 1}
    OBVIOUS
  <2> HIDE DEF b
  <2>3. row[t].agentChangeCount + b \in Nat
    BY <2>1, <2>2
  <2>4. QED
    BY <2>3 DEF b
<1> HIDE DEF k
<1> DEFINE a == NewAgent(r)
<1>5. \E v : v = [row[t] EXCEPT !.agent = a, !.agentChangeCount = k]
  OBVIOUS
<1>6. PICK v : v = [row[t] EXCEPT !.agent = a, !.agentChangeCount = k]
  BY <1>5
<1> HIDE DEF a
<1>7. /\ v # None /\ v.in = row[t].in /\ v.derived = row[t].derived /\ v.lastStatus = row[t].lastStatus
      /\ v.completed = row[t].completed /\ v.agent = a /\ v.agentChangeCount = k
  <2>1. a \in Agents \union {NoAgent}
    BY <1>3 DEF Agent, a
  <2> DEFINE o == row[t]
  <2>2. o \in Row /\ v = [o EXCEPT !.agent = a, !.agentChangeCount = k]
    BY <1>3, <1>6
  <2> HIDE DEF o
  <2>3. /\ v \in Row /\ v.in = o.in /\ v.derived = o.derived /\ v.lastStatus = o.lastStatus
        /\ v.completed = o.completed /\ v.agent = a /\ v.agentChangeCount = k
    BY <1>4, <2>1, <2>2 DEF Row
  <2>4. QED
    BY <2>3, RowIs DEF o
<1>8. row'[t] = v /\ \A u \in Tickets \ {t} : row'[u] = row[u]
  BY <1>1, <1>2, <1>6 DEF Base, TableTypes, a
<1>9. QED
  BY <1>1, <1>2, <1>3, <1>7, <1>8 DEF k, a

LEMMA AssignFresh ==
  ASSUME Base, FreshOK, NEW r \in Requests, Assign(r)
  PROVE  FreshOK'
<1>1. Aside(r) /\ late' = late
  BY ActionsAside DEF Assign
<1>2. Good(row[on[r]]) => Good(row[on[r]])'
  <2>1. ASSUME Good(row[on[r]])
        PROVE  Good(row'[on[r]])
    BY <2>1, AssignRow, GoodIs
  <2>2. on'[r] = on[r]
    BY DEF Assign
  <2>3. QED
    BY <2>1, <2>2
<1>3. ASSUME NEW u \in Tickets
      PROVE  FreshKept(r, u)
  <2>1. on'[r] = on[r]
    BY DEF Assign
  <2>2. CASE u = on[r]
    BY <1>1, <1>2, <2>1, <2>2, AssignRow DEF FreshKept, Recalculates
  <2>3. CASE u # on[r]
    BY <1>1, <2>3, AssignRow DEF FreshKept, Recalculates
  <2>4. QED
    BY <2>2, <2>3
<1>4. QED
  BY <1>1, <1>3, FreshStep

LEMMA CalculatingFresh ==
  ASSUME Base, FreshOK, NEW r \in Requests, Calculating(r)
  PROVE  FreshOK'
<1>1. Aside(r) /\ UNCHANGED <<row, late>> /\ op'[r] = op[r] /\ at'[r] = "write"
  BY ActionsAside DEF Calculating, tables, Goto, Base, RequestTypes
<1>2. op[r] # "recalculate" => on'[r] = on[r]
  BY CalculatingTakes
<1>3. QED
  BY <1>1, <1>2, FreshQuiet DEF Recalculates

LEMMA WriteRow ==
  ASSUME Base, NEW r \in Requests, Write(r)
  PROVE  /\ row'[on[r]] = Updated(r) /\ \A u \in Tickets \ {on[r]} : row'[u] = row[u]
         /\ late' = IF read[r].in = row[on[r]].in THEN late \ {on[r]} ELSE late \union {on[r]}
         /\ UNCHANGED <<assignments, logged, daily, started, mixed>>
<1>1. at[r] = "write"
  BY DEF Write
<1>2. on[r] \in Tickets
  BY <1>1, UpdatedRow
<1>3. row' = [row EXCEPT ![on[r]] = Updated(r)]
  BY DEF Write, Updated
<1>4. row'[on[r]] = Updated(r) /\ \A u \in Tickets \ {on[r]} : row'[u] = row[u]
  BY <1>2, <1>3 DEF Base, TableTypes
<1>5. QED
  BY <1>4 DEF Write

\* A write of what was calculated of the row as it is leaves it recalculated.
LEMMA UpdatedGood ==
  ASSUME Base, NEW r \in Requests, at[r] = "write", read[r].in = row[on[r]].in
  PROVE  Good(Updated(r))
<1> DEFINE w == row[on[r]]
           v == read[r].derived.validationStatus
           d == Calculate(w.in, v)
<1>1. w \in Row /\ d \in Derived /\ Updated(r) = Recalculated(w, d)
  BY UpdatedRow DEF Updated
<1>2. d = Calculate(w.in, d.validationStatus)
  BY RecalculationIdempotent
<1> HIDE DEF d, w
<1>3. /\ Recalculated(w, d).in = w.in /\ Recalculated(w, d).derived = d
      /\ Recalculated(w, d).lastStatus =
              IF d.overallStatus = "Completed" THEN "Closed" ELSE w.lastStatus
      /\ d.overallStatus = "Completed" => Recalculated(w, d).completed
  BY <1>1, RecalculatedRow
<1>4. QED
  BY <1>1, <1>2, <1>3 DEF Good, Fresh

LEMMA WriteFresh ==
  ASSUME Base, FreshOK, NEW r \in Requests, Write(r)
  PROVE  FreshOK'
<1>1. Aside(r) /\ at[r] = "write"
  BY ActionsAside DEF Write
<1>2. ASSUME NEW u \in Tickets
      PROVE  FreshKept(r, u)
  <2>1. CASE u # on[r]
    BY <2>1, WriteRow DEF FreshKept, Recalculates
  <2>2. CASE u = on[r] /\ read[r].in # row[on[r]].in
    BY <2>2, WriteRow DEF FreshKept
  <2>3. CASE u = on[r] /\ read[r].in = row[on[r]].in
    <3>1. Good(row'[u])
      BY <1>1, <2>3, UpdatedGood, WriteRow
    <3>2. QED
      BY <3>1 DEF FreshKept
  <2>4. QED
    BY <2>1, <2>2, <2>3
<1>3. QED
  BY <1>1, <1>2, FreshStep

LEMMA FailFresh ==
  ASSUME Base, FreshOK, NEW r \in Requests, Fail(r)
  PROVE  FreshOK'
<1>1. Aside(r) /\ row' = row
  BY ActionsAside DEF Fail, tables
<1>2. ASSUME NEW u \in Tickets
      PROVE  FreshKept(r, u)
  BY <1>1 DEF FreshKept, Recalculates, Fail
<1>3. QED
  BY <1>1, <1>2, FreshStep

LEMMA FreshOKHolds == Spec => [](Base /\ FreshOK)
<1>1. Init => FreshOK
  BY DEF Init, FreshOK
<1>2. ASSUME Base, FreshOK, [Next]_vars
      PROVE  FreshOK'
  <2>1. CASE UNCHANGED vars
    <3>1. UNCHANGED <<row, late, on, at, op>>
      BY <2>1 DEF vars, tables, request
    <3>2. ASSUME NEW t \in Tickets
          PROVE  /\ row'[t] = row[t] /\ (Good(row[t]) => Good(row[t])')
                 /\ \A q \in Requests : Recalculates(q, t) => Recalculates(q, t)'
      BY <3>1 DEF Good, Fresh, Recalculates
    <3>3. QED
      BY <1>2, <3>1, <3>2 DEF FreshOK
  <2>2. QED
    BY <1>2, <2>1, QuietFresh, PutFresh, SaveFresh, AssignFresh, CalculatingFresh, WriteFresh,
       FailFresh DEF Next, QuietSteps, Starts
<1>3. QED
  BY <1>1, <1>2, BaseHolds, PTL DEF Spec

LEMMA GoodAtRest ==
  ASSUME FreshOK, NEW t \in Tickets \ late, AtRest(t)
  PROVE  Good(row[t])
BY DEF FreshOK, AtRest, Recalculates

\* "Hitung ulang kolom turunan dari kondisi tiket saat ini": uploads, recaps and
\* recalculations of all tickets read, change and write a ticket in steps that interleave,
\* and the derived columns still end up as calculate makes them of the row, unless the last
\* recalculation to write was of an older row, or a request died before its own.
THEOREM RestIsFreshHolds == Spec => []RestIsFresh
<1>1. FreshOK => RestIsFresh
  BY GoodAtRest DEF RestIsFresh, Good, Fresh
<1>2. QED
  BY <1>1, FreshOKHolds, PTL

\* "supaya penyelesaian tidak terbuka kembali": an upload may write over the last status
\* of a ticket that completes at the same time, and the recalculation that follows every
\* such write closes it again.
THEOREM CompletedIsClosedHolds == Spec => []CompletedIsClosed
<1>1. FreshOK => CompletedIsClosed
  BY GoodAtRest DEF CompletedIsClosed, Good
<1>2. QED
  BY <1>1, FreshOKHolds, PTL

-----------------------------------------------------------------------------
(* The changes of agent are counted.                                       *)

LEMMA PutRow ==
  ASSUME Base, NEW r \in Requests, Put(r), ~ (before[r] = None /\ row[on[r]] # None)
  PROVE  /\ on[r] \in Tickets /\ op[r] = "upload" /\ at[r] = "put" /\ RequestOK(r)
         /\ \A u \in Tickets \ {on[r]} : row'[u] = row[u]
         /\ row[on[r]] = None => before[r] = None /\ row'[on[r]] = NewRow(dto[r])
         /\ row[on[r]] # None =>
              /\ before[r] # None /\ row'[on[r]] # None
              /\ row'[on[r]].in = row[on[r]].in /\ row'[on[r]].derived = row[on[r]].derived
              /\ row'[on[r]].agent = row[on[r]].agent
              /\ row'[on[r]].agentChangeCount = row[on[r]].agentChangeCount
         /\ Goto(r, "calculate")
         /\ UNCHANGED <<assignments, logged, daily, op, on, dto, before, read, todo, started,
                        late, mixed>>
<1> DEFINE t == on[r]
           s == IF before[r].derived.overallStatus = "Completed" THEN before[r].lastStatus
                ELSE IF dto[r] # None THEN dto[r] ELSE row[t].lastStatus
           w == IF before[r] = None THEN NewRow(dto[r]) ELSE [row[t] EXCEPT !.lastStatus = s]
<1>1. /\ at[r] = "put" /\ row' = [row EXCEPT ![t] = w] /\ Goto(r, "calculate")
      /\ UNCHANGED <<assignments, logged, daily, op, on, dto, before, read, todo, started,
                     late, mixed>>
  BY DEF Put
<1>2. RequestOK(r) /\ op[r] = "upload" /\ t \in Tickets /\ dto[r] \in UploadStatus
  BY <1>1 DEF Base, RequestTypes, RequestsOK, RequestOK, Placed
<1>3. row[t] = None => before[r] = None
  BY <1>1, <1>2 DEF RequestOK
<1>4. row'[t] = w /\ \A u \in Tickets \ {t} : row'[u] = row[u]
  <2> HIDE DEF w
  <2>1. QED
    BY <1>1, <1>2 DEF Base, TableTypes
<1>5. ASSUME row[t] # None
      PROVE  /\ before[r] # None /\ w # None
             /\ w.in = row[t].in /\ w.derived = row[t].derived
             /\ w.agent = row[t].agent /\ w.agentChangeCount = row[t].agentChangeCount
  <2>1. before[r] # None
    BY <1>5
  <2>2. before[r] \in Row /\ row[t] \in Row
    BY <1>2, <1>5, <2>1, RowOf DEF Base, RequestTypes
  <2>3. s \in Statuses
    BY <1>2, <2>2 DEF Row, Statuses
  <2> DEFINE o == row[t]
  <2>4. w = [o EXCEPT !.lastStatus = s] /\ o \in Row
    BY <2>1, <2>2
  <2> HIDE DEF s, w, o
  <2>5. /\ w \in Row /\ w.in = o.in /\ w.derived = o.derived /\ w.agent = o.agent
        /\ w.agentChangeCount = o.agentChangeCount
    BY <2>3, <2>4 DEF Row
  <2>6. QED
    BY <2>1, <2>5, RowIs DEF o
<1>6. row[t] = None => w = NewRow(dto[r])
  BY <1>3
<1> HIDE DEF w
<1>7. QED
  BY <1>1, <1>2, <1>3, <1>4, <1>5, <1>6

LEMMA SaveRow ==
  ASSUME Base, NEW r \in Requests, Save(r)
  PROVE  /\ on[r] \in Tickets /\ op[r] = "recap" /\ at[r] = "save" /\ RequestOK(r)
         /\ \A u \in Tickets \ {on[r]} : row'[u] = row[u]
         /\ row[on[r]] # None /\ row'[on[r]] # None
         /\ row'[on[r]].derived = row[on[r]].derived
         /\ row'[on[r]].agent = row[on[r]].agent
         /\ row'[on[r]].agentChangeCount = row[on[r]].agentChangeCount
         /\ Goto(r, "calculate")
         /\ UNCHANGED <<assignments, logged, daily, op, on, dto, before, read, todo, started,
                        late, mixed>>
<1> DEFINE t == on[r]
           i == Merged(row[t].in, dto[r])
           o == row[t]
<1>1. /\ at[r] = "save" /\ Goto(r, "calculate") /\ row' = [row EXCEPT ![t].in = i]
      /\ UNCHANGED <<assignments, logged, daily, op, on, dto, before, read, todo, started,
                     late, mixed>>
  BY DEF Save, Merged
<1>2. RequestOK(r) /\ op[r] = "recap" /\ t \in Tickets /\ dto[r] \in Recaps
  BY <1>1 DEF Base, RequestTypes, RequestsOK, RequestOK, Placed
<1>3. row[t] # None /\ o \in Row
  BY <1>1, <1>2, RowOf DEF RequestOK
<1>4. i \in Inputs
  BY <1>2, <1>3, MergedTyped DEF Row
<1> HIDE DEF i
<1>5. row'[t] = [o EXCEPT !.in = i] /\ \A u \in Tickets \ {t} : row'[u] = row[u]
  BY <1>1, <1>2 DEF Base, TableTypes
<1> DEFINE w == row'[t]
<1>6. w = [o EXCEPT !.in = i]
  BY <1>5
<1> HIDE DEF w, o
<1>7. /\ w \in Row /\ w.derived = o.derived /\ w.agent = o.agent
      /\ w.agentChangeCount = o.agentChangeCount
  BY <1>3, <1>4, <1>6 DEF Row
<1> USE DEF w, o
<1>8. QED
  BY <1>1, <1>2, <1>3, <1>5, <1>7, RowIs

\* The previous agents that were somebody, of a longer history.
LEMMA AppendChanges ==
  ASSUME NEW s \in Seq([previous : Agent, new : Agent]), NEW e \in [previous : Agent, new : Agent],
         NEW c \in Nat, c = IF e.previous = NoAgent THEN 0 ELSE 1
  PROVE  Cardinality({n \in DOMAIN Append(s, e) : Append(s, e)[n].previous # NoAgent}) =
           Cardinality({n \in DOMAIN s : s[n].previous # NoAgent}) + c
<1> DEFINE E == [previous : Agent, new : Agent]
           k == Len(s)
           C == {n \in DOMAIN s : s[n].previous # NoAgent}
           a == Append(s, e)
           D == {n \in DOMAIN a : a[n].previous # NoAgent}
<1>1. s \in Seq(E) /\ e \in E
  OBVIOUS
<1>2. /\ k \in Nat /\ DOMAIN s = 1..k /\ DOMAIN a = 1..(k + 1)
      /\ a[k + 1] = e /\ \A n \in 1..k : a[n] = s[n]
  <2> HIDE DEF E
  <2>1. QED
    BY <1>1
<1>3. IsFiniteSet(C) /\ k + 1 \notin C
  <2>1. IsFiniteSet(1..k)
    BY <1>2, FS_Interval
  <2>2. C \subseteq 1..k
    BY <1>2
  <2> HIDE DEF C
  <2>3. IsFiniteSet(C)
    BY <2>1, <2>2, FS_Subset
  <2>4. k + 1 \notin 1..k
    BY <1>2
  <2>5. QED
    BY <2>2, <2>3, <2>4
<1>4. D = IF e.previous = NoAgent THEN C ELSE C \union {k + 1}
  <2>1. 1..(k + 1) = 1..k \union {k + 1} /\ k + 1 \notin 1..k
    BY <1>2
  <2> HIDE DEF E, a, k
  <2>2. QED
    BY <1>2, <2>1
<1>5. Cardinality(C) \in Nat
  BY <1>3, FS_CardinalityType
<1> HIDE DEF C, D
<1>6. CASE e.previous = NoAgent
  <2>1. D = C /\ c = 0
    BY <1>4, <1>6
  <2>2. Cardinality(D) = Cardinality(C) + c
    BY <1>5, <2>1
  <2>3. QED
    BY <2>2 DEF C, D
<1>7. CASE e.previous # NoAgent
  <2>1. D = C \union {k + 1} /\ c = 1
    BY <1>4, <1>7
  <2>2. Cardinality(D) = Cardinality(C) + 1
    BY <1>3, <2>1, FS_AddElement
  <2>3. QED
    BY <2>1, <2>2 DEF C, D
<1>8. QED
  BY <1>6, <1>7

\* The history of t and the agent of its row are as they were, or the row is new.
CountsKept(t) ==
  /\ assignments'[t] = assignments[t]
  /\ row[t] # None => /\ row'[t] # None /\ row'[t].agent = row[t].agent
                      /\ row'[t].agentChangeCount = row[t].agentChangeCount
  /\ row[t] = None => \/ row'[t] = None
                      \/ row'[t].agent = NoAgent /\ row'[t].agentChangeCount = 0

AssignmentOK(t) ==
  /\ row[t] = None => assignments[t] = <<>>
  /\ row[t] # None => /\ row[t].agentChangeCount = Cardinality(Changes(t))
                      /\ row[t].agent = Last(t)

LEMMA NoChanges ==
  ASSUME NEW t, assignments[t] = <<>>
  PROVE  Cardinality(Changes(t)) = 0 /\ Last(t) = NoAgent
<1>1. Changes(t) = {}
  BY DEF Changes
<1>2. QED
  BY <1>1, FS_EmptySet DEF Last

LEMMA AssignmentsKept ==
  ASSUME NEW t \in Tickets, AssignmentOK(t), CountsKept(t)
  PROVE  AssignmentOK(t)'
<1>1. Changes(t)' = Changes(t) /\ Last(t)' = Last(t)
  BY DEF Changes, Last, CountsKept
<1>2. CASE row[t] # None
  BY <1>1, <1>2 DEF AssignmentOK, CountsKept
<1>3. CASE row[t] = None
  <2>1. Cardinality(Changes(t)) = 0 /\ Last(t) = NoAgent
    BY <1>3, NoChanges DEF AssignmentOK
  <2>2. QED
    BY <1>1, <1>3, <2>1 DEF AssignmentOK, CountsKept
<1>4. QED
  BY <1>2, <1>3

LEMMA AssignAssignments ==
  ASSUME Base, AssignmentsOK, NEW r \in Requests, Assign(r)
  PROVE  AssignmentsOK'
<1> DEFINE t == on[r]
           e == [previous |-> read[r].agent, new |-> NewAgent(r)]
           c == IF read[r].agent = NoAgent THEN 0 ELSE 1
           s == assignments[t]
<1>1. /\ t \in Tickets /\ row[t] # None /\ read[r] \in Row /\ NewAgent(r) \in Agent
      /\ row'[t].agent = NewAgent(r) /\ row'[t].agentChangeCount = row[t].agentChangeCount + c
      /\ \A u \in Tickets \ {t} : row'[u] = row[u]
  BY AssignRow
<1>2. assignments' = [assignments EXCEPT ![t] = Append(@, e)]
  BY DEF Assign
<1>3. e \in [previous : Agent, new : Agent] /\ e.previous = read[r].agent /\ e.new = NewAgent(r)
  BY <1>1 DEF Row, Agent
<1>4. /\ assignments'[t] = Append(s, e)
      /\ \A u \in Tickets \ {t} : assignments'[u] = assignments[u]
      /\ s \in Seq([previous : Agent, new : Agent])
  <2> HIDE DEF e
  <2>1. QED
    BY <1>1, <1>2 DEF Base, TableTypes
<1>5. c \in Nat /\ c = IF e.previous = NoAgent THEN 0 ELSE 1
  BY <1>3
<1> HIDE DEF c, e
<1>6. Cardinality({n \in DOMAIN Append(s, e) : Append(s, e)[n].previous # NoAgent}) =
        Cardinality({n \in DOMAIN s : s[n].previous # NoAgent}) + c
  BY <1>3, <1>4, <1>5, AppendChanges
<1>7. Cardinality(Changes(t))' = Cardinality(Changes(t)) + c
  <2>1. on'[r] = on[r]
    BY DEF Assign
  <2>2. QED
    BY <1>4, <1>6, <2>1 DEF Changes
<1>8. Append(s, e) # <<>> /\ Append(s, e)[Len(Append(s, e))] = e
  <2> DEFINE E == [previous : Agent, new : Agent]
  <2>1. s \in Seq(E) /\ e \in E
    BY <1>3, <1>4
  <2> HIDE DEF E, s
  <2>2. QED
    BY <2>1
<1>9. Last(t)' = NewAgent(r)
  <2>1. on'[r] = on[r]
    BY DEF Assign
  <2>2. QED
    BY <1>3, <1>4, <1>8, <2>1 DEF Last
<1>10. row[t].agentChangeCount = Cardinality(Changes(t))
  BY <1>1 DEF AssignmentsOK
<1>11. on'[r] = on[r] /\ row'[t] # None
  BY AssignRow DEF Assign
<1>12. ASSUME NEW u \in Tickets
       PROVE  AssignmentOK(u)'
  <2>1. CASE u = t
    BY <1>1, <1>7, <1>9, <1>10, <1>11, <2>1 DEF AssignmentOK
  <2>2. CASE u # t
    <3>1. AssignmentOK(u) /\ CountsKept(u)
      BY <1>1, <1>4, <2>2 DEF AssignmentsOK, AssignmentOK, CountsKept
    <3>2. QED
      BY <3>1, AssignmentsKept
  <2>3. QED
    BY <2>1, <2>2
<1>13. QED
  BY <1>12 DEF AssignmentsOK, AssignmentOK

OtherSteps(r) ==
  \/ QuietSteps(r) \/ Put(r) \/ Save(r) \/ Calculating(r) \/ Write(r) \/ Fail(r)

LEMMA OtherCounts ==
  ASSUME Base, NEW r \in Requests, OtherSteps(r), NEW t \in Tickets
  PROVE  CountsKept(t)
<1>1. CASE UNCHANGED <<row, assignments>>
  BY <1>1 DEF CountsKept
<1>2. CASE Put(r) /\ ~ (before[r] = None /\ row[on[r]] # None)
  BY <1>2, PutRow, NewRowFields DEF CountsKept
<1>3. CASE Save(r)
  BY <1>3, SaveRow DEF CountsKept
<1>4. CASE Write(r)
  <2>1. at[r] = "write"
    BY <1>4 DEF Write
  <2>2. /\ row[on[r]] # None /\ Updated(r) \in Row
        /\ Updated(r).agent = row[on[r]].agent
        /\ Updated(r).agentChangeCount = row[on[r]].agentChangeCount
    BY <2>1, UpdatedRow, RecalculatedRow DEF Updated
  <2>3. QED
    BY <1>4, <2>2, WriteRow, RowIs DEF CountsKept
<1>5. QED
  BY <1>1, <1>2, <1>3, <1>4
     DEF OtherSteps, QuietSteps, Starts, Upload, SaveRecap, UpdateAgent, MarkWorked, Start,
         RecalculateAllOpen, Find, Put, Load, Reread, Fetch, CreateDailyAssignment, Log,
         MarkWorkedToday, Calculating, Fail, tables

LEMMA AssignmentsOKHolds == Spec => [](Base /\ AssignmentsOK)
<1>1. ASSUME Init
      PROVE  AssignmentsOK
  BY <1>1 DEF Init, AssignmentsOK
<1>2. ASSUME Base, AssignmentsOK, [Next]_vars
      PROVE  AssignmentsOK'
  <2>1. CASE UNCHANGED vars
    <3>1. UNCHANGED <<row, assignments>>
      BY <2>1 DEF vars, tables
    <3>2. ASSUME NEW t \in Tickets
          PROVE  AssignmentOK(t)'
      BY <1>2, <3>1, AssignmentsKept DEF AssignmentsOK, AssignmentOK, CountsKept
    <3>3. QED
      BY <3>2 DEF AssignmentsOK, AssignmentOK
  <2>2. ASSUME NEW r \in Requests, OtherSteps(r)
        PROVE  AssignmentsOK'
    <3>1. ASSUME NEW t \in Tickets
          PROVE  AssignmentOK(t)'
      BY <1>2, <2>2, OtherCounts, AssignmentsKept DEF AssignmentsOK, AssignmentOK
    <3>2. QED
      BY <3>1 DEF AssignmentsOK, AssignmentOK
  <2>3. QED
    BY <1>2, <2>1, <2>2, AssignAssignments DEF Next, OtherSteps, QuietSteps, Starts
<1>3. QED
  BY <1>1, <1>2, BaseHolds, PTL DEF Spec

\* The rotation report adds up: updateAgent counts in a transaction, from a row it read
\* before it, and the count is still the number of reassignments in the history and the
\* agent that of its last row, whatever requests race and wherever one fails.
THEOREM AssignmentsAddUpHolds == Spec => []AssignmentsAddUp
<1>1. AssignmentsOK => AssignmentsAddUp
  BY DEF AssignmentsOK, AssignmentsAddUp, Changes, Last
<1>2. QED
  BY <1>1, AssignmentsOKHolds, PTL

-----------------------------------------------------------------------------
(* Who is in the daily sheet was given the ticket.                         *)

LEMMA AppendGiven ==
  ASSUME NEW s \in Seq([previous : Agent, new : Agent]), NEW e \in [previous : Agent, new : Agent]
  PROVE  {Append(s, e)[n].new : n \in DOMAIN Append(s, e)} = {s[n].new : n \in DOMAIN s} \union {e.new}
<1> DEFINE E == [previous : Agent, new : Agent]
           k == Len(s)
           a == Append(s, e)
<1>1. s \in Seq(E) /\ e \in E
  OBVIOUS
<1>2. /\ k \in Nat /\ DOMAIN s = 1..k /\ DOMAIN a = 1..(k + 1)
      /\ a[k + 1] = e /\ \A n \in 1..k : a[n] = s[n]
  <2> HIDE DEF E
  <2>1. QED
    BY <1>1
<1>3. 1..(k + 1) = 1..k \union {k + 1}
  BY <1>2
<1> HIDE DEF a, k, E
<1>4. {a[n].new : n \in DOMAIN a} = {s[n].new : n \in DOMAIN s} \union {e.new}
  BY <1>2, <1>3
<1>5. QED
  BY <1>4 DEF a

LEMMA AssignGiven ==
  ASSUME Base, NEW r \in Requests, Assign(r)
  PROVE  /\ Given(on[r])' = Given(on[r]) \union {NewAgent(r)}
         /\ assignments'[on[r]] # <<>>
         /\ \A u \in Tickets \ {on[r]} : Given(u)' = Given(u) /\ assignments'[u] = assignments[u]
<1> DEFINE t == on[r]
           e == [previous |-> read[r].agent, new |-> NewAgent(r)]
           s == assignments[t]
<1>1. /\ t \in Tickets /\ read[r] \in Row /\ NewAgent(r) \in Agent
  BY AssignRow
<1>2. assignments' = [assignments EXCEPT ![t] = Append(@, e)]
  BY DEF Assign
<1>3. e \in [previous : Agent, new : Agent] /\ e.new = NewAgent(r)
  BY <1>1 DEF Row, Agent
<1> HIDE DEF e
<1>4. /\ assignments'[t] = Append(s, e)
      /\ \A u \in Tickets \ {t} : assignments'[u] = assignments[u]
      /\ s \in Seq([previous : Agent, new : Agent])
  BY <1>1, <1>2 DEF Base, TableTypes
<1>5. {Append(s, e)[n].new : n \in DOMAIN Append(s, e)} = {s[n].new : n \in DOMAIN s} \union {e.new}
  BY <1>3, <1>4, AppendGiven
<1>6. on'[r] = on[r]
  BY DEF Assign
<1>7. Append(s, e) # <<>>
  <2> DEFINE E == [previous : Agent, new : Agent]
  <2>1. s \in Seq(E) /\ e \in E
    BY <1>3, <1>4
  <2> HIDE DEF E, s
  <2>2. Len(Append(s, e)) = Len(s) + 1 /\ Len(s) \in Nat /\ Len(<<>>) = 0
    BY <2>1
  <2>3. Len(Append(s, e)) # 0
    BY <2>2
  <2>4. QED
    BY <2>2, <2>3
<1>8. Given(t)' = Given(t) \union {NewAgent(r)}
  BY <1>3, <1>4, <1>5, <1>6 DEF Given
<1>9. ASSUME NEW u \in Tickets \ {t}
      PROVE  Given(u)' = Given(u)
  BY <1>4 DEF Given
<1>10. QED
  BY <1>4, <1>7, <1>8, <1>9

LEMMA LastGiven ==
  ASSUME Base, NEW t \in Tickets
  PROVE  /\ assignments[t] # <<>> => Last(t) \in Given(t)
         /\ Last(t) \in Given(t) \union {NoAgent}
<1>1. ASSUME assignments[t] # <<>>
      PROVE  Last(t) \in Given(t)
  <2> DEFINE E == [previous : Agent, new : Agent]
             s == assignments[t]
  <2>1. s \in Seq(E) /\ s # <<>>
    BY <1>1 DEF Base, TableTypes
  <2> HIDE DEF E, s
  <2>2. Len(s) \in DOMAIN s
    BY <2>1
  <2>3. QED
    BY <1>1, <2>2 DEF Last, Given, s
<1>2. QED
  BY <1>1 DEF Last

Listed(t) == daily[t].assigned \subseteq Given(t) /\ daily[t].worked \subseteq Given(t) \union {NoAgent}
ListsGiven(r) ==
  /\ Assigns(r, on[r]) => assignments[on[r]] # <<>>
  /\ at[r] = "daily" => read[r].agent \in Given(on[r])
  /\ at[r] \in {"log", "work"} => read[r].agent \in Given(on[r]) \union {NoAgent}

LEMMA GivenGrows ==
  ASSUME Base, NEW r \in Requests, OtherSteps(r) \/ Assign(r), NEW t \in Tickets
  PROVE  /\ Given(t) \subseteq Given(t)'
         /\ assignments[t] # <<>> => assignments'[t] # <<>>
<1>1. CASE Assign(r)
  BY <1>1, AssignGiven DEF Assign
<1>2. CASE OtherSteps(r)
  <2>1. assignments'[t] = assignments[t]
    BY <1>2, OtherCounts DEF CountsKept
  <2>2. Given(t)' = Given(t)
    BY <2>1 DEF Given
  <2>3. QED
    BY <2>1, <2>2
<1>3. QED
  BY <1>1, <1>2

LEMMA OthersListGiven ==
  ASSUME Base, DailyOK, NEW r \in Requests, OtherSteps(r) \/ Assign(r), NEW q \in Requests \ {r}
  PROVE  ListsGiven(q)'
<1>1. Aside(r)
  BY ActionsAside DEF OtherSteps, QuietSteps
<1>2. on'[q] = on[q] /\ at'[q] = at[q] /\ op'[q] = op[q] /\ read'[q] = read[q]
  BY <1>1 DEF Aside
<1>3. CASE at[q] \notin {"fetch", "daily", "log", "work"}
  BY <1>2, <1>3 DEF ListsGiven, Assigns
<1>4. CASE at[q] \in {"fetch", "daily", "log", "work"}
  <2> DEFINE t == on[q]
  <2>1. t \in Tickets
    BY <1>4 DEF Base, RequestTypes, RequestsOK, RequestOK, Placed
  <2>2. ListsGiven(q)
    BY DEF DailyOK, ListsGiven
  <2>3. Given(t) \subseteq Given(t)' /\ (assignments[t] # <<>> => assignments'[t] # <<>>)
    BY <1>2, <2>1, GivenGrows
  <2>4. Given(on[q])' = Given(t)'
    BY <1>2
  <2>5. QED
    BY <1>2, <2>2, <2>3 DEF ListsGiven, Assigns
<1>5. QED
  BY <1>3, <1>4

\* Where a request goes.
LEMMA QuietGoes ==
  ASSUME Base, NEW r \in Requests, OtherSteps(r), at'[r] \in {"fetch", "daily", "log", "work"}
  PROVE  \/ at'[r] = "fetch" /\ op'[r] = "work"
         \/ Fetch(r) /\ row[on[r]] # None
         \/ Log(r)
         \/ Write(r) /\ op[r] = "recap"
<1> USE DEF Base, RequestTypes
<1>1. Leave(r) => at'[r] = "idle"
  BY DEF Leave
<1>2. AfterAssign(r) => at'[r] \in {"idle", "save"}
  BY <1>1 DEF AfterAssign, Goto
<1>3. Starts(r) => at'[r] \in {"find", "load", "reread"} \/ (at'[r] = "fetch" /\ op'[r] = "work")
  BY DEF Starts, Upload, SaveRecap, UpdateAgent, MarkWorked, Start
<1>4. RecalculateAllOpen(r) => at'[r] = "calculate"
  BY DEF RecalculateAllOpen
<1>5. Find(r) => at'[r] = "put"
  BY DEF Find, Goto
<1>6. Put(r) => at'[r] \in {"idle", "calculate"}
  BY <1>1 DEF Put, Goto
<1>7. Load(r) => at'[r] \in {"idle", "reread", "save"}
  BY <1>1 DEF Load, Goto
<1>8. Reread(r) => at'[r] \in {"idle", "save", "assign"}
  BY <1>1, <1>2 DEF Reread, Goto
<1>9. Fetch(r) => at'[r] = "idle" \/ row[on[r]] # None
  BY <1>1 DEF Fetch
<1>10. CreateDailyAssignment(r) => at'[r] \in {"idle", "save"}
  BY <1>2 DEF CreateDailyAssignment
<1>11. Save(r) => at'[r] = "calculate"
  BY DEF Save, Goto
<1>12. MarkWorkedToday(r) => at'[r] = "idle"
  BY <1>1 DEF MarkWorkedToday
<1>13. Calculating(r) => at'[r] = "write"
  BY DEF Calculating, Goto
<1>14. Write(r) /\ op[r] # "recap" => at'[r] \in {"idle", "calculate"}
  BY <1>1 DEF Write, Goto
<1>15. Fail(r) => at'[r] = "idle"
  BY <1>1 DEF Fail
<1>16. QED
  BY <1>3, <1>4, <1>5, <1>6, <1>7, <1>8, <1>9, <1>10, <1>11, <1>12, <1>13, <1>14, <1>15
     DEF OtherSteps, QuietSteps

LEMMA GoesListGiven ==
  ASSUME Base, AssignmentsOK, DailyOK, NEW r \in Requests, OtherSteps(r) \/ Assign(r)
  PROVE  ListsGiven(r)'
<1> DEFINE t == on[r]
<1>1. CASE at'[r] \notin {"fetch", "daily", "log", "work"}
  BY <1>1 DEF ListsGiven, Assigns
<1>2. CASE at'[r] = "fetch" /\ op'[r] = "work"
  BY <1>2 DEF ListsGiven, Assigns
<1>3. CASE Assign(r)
  <2>1. at'[r] = "fetch" /\ on'[r] = t
    BY <1>3 DEF Assign, Goto, Base, RequestTypes
  <2>2. QED
    BY <1>3, <2>1, AssignGiven DEF ListsGiven
<1>4. ASSUME OtherSteps(r), t \in Tickets, on'[r] = t
      PROVE  /\ Given(on[r])' = Given(t) /\ assignments'[on'[r]] = assignments[t]
             /\ (row[t] # None => row[t].agent \in Given(t) \union {NoAgent})
             /\ (row[t] # None /\ assignments[t] # <<>> => row[t].agent \in Given(t))
  <2>1. assignments'[t] = assignments[t]
    BY <1>4, OtherCounts DEF CountsKept
  <2>2. Given(on[r])' = Given(t)
    BY <1>4, <2>1 DEF Given
  <2>3. row[t] # None => row[t].agent = Last(t)
    BY <1>4 DEF AssignmentsOK
  <2>4. QED
    BY <1>4, <2>1, <2>2, <2>3, LastGiven
<1>5. CASE Fetch(r) /\ row[t] # None
  <2>1. at[r] = "fetch" /\ op'[r] = op[r] /\ on'[r] = t
    BY <1>5 DEF Fetch
  <2>2. /\ read'[r] = row[t] /\ (at'[r] = "work" <=> op[r] = "work") /\ at'[r] \in {"work", "daily"}
    BY <1>5 DEF Fetch, Goto, Base, RequestTypes
  <2>3. t \in Tickets
    BY <2>1 DEF Base, RequestTypes, RequestsOK, RequestOK, Placed
  <2>4. OtherSteps(r)
    BY <1>5 DEF OtherSteps, QuietSteps
  <2>5. op[r] # "work" => assignments[t] # <<>>
    BY <2>1 DEF DailyOK, Assigns
  <2>6. QED
    BY <1>4, <1>5, <2>1, <2>2, <2>3, <2>4, <2>5 DEF ListsGiven, Assigns
<1>6. CASE Log(r)
  <2>1. at[r] = "log" /\ at'[r] = "work" /\ on'[r] = t /\ read'[r] = read[r]
    BY <1>6 DEF Log, Goto, Base, RequestTypes
  <2>2. t \in Tickets
    BY <2>1 DEF Base, RequestTypes, RequestsOK, RequestOK, Placed
  <2>3. OtherSteps(r)
    BY <1>6 DEF OtherSteps, QuietSteps
  <2>4. read[r].agent \in Given(t) \union {NoAgent}
    BY <2>1 DEF DailyOK
  <2>5. QED
    BY <1>4, <2>1, <2>2, <2>3, <2>4 DEF ListsGiven, Assigns
<1>7. CASE Write(r) /\ op[r] = "recap"
  <2>1. at[r] = "write"
    BY <1>7 DEF Write
  <2>2. /\ t \in Tickets /\ row[t] # None /\ Updated(r).agent = row[t].agent
    BY <2>1, UpdatedRow, RecalculatedRow DEF Updated
  <2>3. at'[r] = "log" /\ on'[r] = t /\ read'[r] = Updated(r)
    BY <1>7 DEF Write, Updated, Goto, Base, RequestTypes
  <2>4. OtherSteps(r)
    BY <1>7 DEF OtherSteps
  <2>5. QED
    BY <1>4, <2>2, <2>3, <2>4 DEF ListsGiven, Assigns
<1>8. QED
  BY <1>1, <1>2, <1>3, <1>5, <1>6, <1>7, QuietGoes

LEMMA StepsList ==
  ASSUME Base, DailyOK, NEW r \in Requests, OtherSteps(r) \/ Assign(r), NEW t \in Tickets
  PROVE  Listed(t)'
<1>1. Listed(t) /\ Given(t) \subseteq Given(t)'
  BY GivenGrows DEF DailyOK, Listed
<1>2. CASE daily'[t] = daily[t]
  BY <1>1, <1>2 DEF Listed
<1>3. CASE CreateDailyAssignment(r) /\ on[r] = t
  <2> DEFINE a == read[r].agent
  <2>1. at[r] = "daily" /\ daily' = [daily EXCEPT ![t].assigned = @ \union {a}]
    BY <1>3 DEF CreateDailyAssignment
  <2>2. a \in Given(t)
    BY <1>3, <2>1 DEF DailyOK
  <2> HIDE DEF a
  <2>3. daily'[t].assigned = daily[t].assigned \union {a} /\ daily'[t].worked = daily[t].worked
    BY <2>1 DEF Base, TableTypes
  <2>4. QED
    BY <1>1, <2>2, <2>3 DEF Listed
<1>4. CASE MarkWorkedToday(r) /\ on[r] = t
  <2> DEFINE a == read[r].agent
  <2>1. at[r] = "work" /\ daily' = [daily EXCEPT ![t].worked = @ \union {a}]
    BY <1>4 DEF MarkWorkedToday
  <2>2. a \in Given(t) \union {NoAgent}
    BY <1>4, <2>1 DEF DailyOK
  <2> HIDE DEF a
  <2>3. daily'[t].worked = daily[t].worked \union {a} /\ daily'[t].assigned = daily[t].assigned
    BY <2>1 DEF Base, TableTypes
  <2>4. QED
    BY <1>1, <2>2, <2>3 DEF Listed
<1>5. CASE CreateDailyAssignment(r) /\ on[r] # t
  <2>1. daily'[t] = daily[t]
    BY <1>5 DEF CreateDailyAssignment, Base, TableTypes
  <2>2. QED
    BY <1>2, <2>1
<1>6. CASE MarkWorkedToday(r) /\ on[r] # t
  <2>1. daily'[t] = daily[t]
    BY <1>6 DEF MarkWorkedToday, Base, TableTypes
  <2>2. QED
    BY <1>2, <2>1
<1>7. CASE ~ CreateDailyAssignment(r) /\ ~ MarkWorkedToday(r)
  <2>1. daily' = daily
    BY <1>7 DEF OtherSteps, QuietSteps, Starts, Upload, SaveRecap, UpdateAgent, MarkWorked, Start,
         RecalculateAllOpen, Find, Put, Load, Reread, Fetch, Log, Calculating, Fail, Save, Assign,
         Write, tables
  <2>2. QED
    BY <1>2, <2>1
<1>8. QED
  BY <1>3, <1>4, <1>5, <1>6, <1>7

Steps(r) == OtherSteps(r) \/ Assign(r)

LEMMA NextIs ==
  ASSUME Next
  PROVE  \E r \in Requests : Steps(r)
BY DEF Next, Steps, OtherSteps, QuietSteps, Starts

LEMMA DailyOKHolds == Spec => [](Base /\ AssignmentsOK /\ DailyOK)
<1>1. ASSUME Init
      PROVE  DailyOK
  BY <1>1 DEF Init, DailyOK, Assigns
<1>2. ASSUME Base, AssignmentsOK, DailyOK, [Next]_vars
      PROVE  DailyOK'
  <2>1. CASE UNCHANGED vars
    BY <1>2, <2>1 DEF vars, tables, request, DailyOK, Assigns, Given
  <2>2. ASSUME NEW r \in Requests, Steps(r)
        PROVE  DailyOK'
    <3>1. \A t \in Tickets : Listed(t)'
      BY <1>2, <2>2, StepsList DEF Steps
    <3>2. \A q \in Requests : ListsGiven(q)'
      BY <1>2, <2>2, OthersListGiven, GoesListGiven DEF Steps
    <3>3. QED
      BY <3>1, <3>2 DEF DailyOK, Listed, ListsGiven
  <2>3. QED
    BY <1>2, <2>1, <2>2, NextIs
<1>3. QED
  BY <1>1, <1>2, AssignmentsOKHolds, PTL DEF Spec

-----------------------------------------------------------------------------
(* One request at a time is about a ticket, unless it is mixed.            *)

LEMMA MixedGrows ==
  ASSUME NEW r \in Requests, Steps(r)
  PROVE  mixed \subseteq mixed'
BY DEF Steps, OtherSteps, QuietSteps, Starts, Upload, SaveRecap, UpdateAgent, MarkWorked, Start,
       RecalculateAllOpen, Find, Put, Load, Reread, Fetch, CreateDailyAssignment, Log,
       MarkWorkedToday, Calculating, Fail, Save, Assign, Write

\* A request is about no ticket it was not about, but for one that starts.
LEMMA AboutWas ==
  ASSUME Base, NEW r \in Requests, Steps(r), ~ Starts(r), ~ RecalculateAllOpen(r), NEW u \in Tickets,
         About(r, u)'
  PROVE  About(r, u)
<1> USE DEF Base, RequestTypes
<1>1. ~ Leave(r)
  BY DEF Leave, About
<1>2. CASE Calculating(r)
  <2>1. PICK t \in Tickets :
           /\ Takes(r, t) /\ row[t] # None /\ row[t] \in Row
           /\ op[r] # "recalculate" => t = on[r] /\ todo'[r] = {}
           /\ on'[r] = t /\ read'[r] = row[t] /\ todo'[r] = todo[r] \ {t}
    BY <1>2, CalculatingTakes
  <2>2. QED
    BY <1>2, <2>1 DEF Calculating, About, Takes
<1>3. CASE ~ Calculating(r)
  <2>1. on'[r] = on[r] /\ todo'[r] = todo[r] /\ at[r] # "idle"
    BY <1>1, <1>3 DEF Steps, OtherSteps, QuietSteps, Find, Put, Load, Reread, AfterAssign, Fetch,
         CreateDailyAssignment, Log, MarkWorkedToday, Fail, Save, Assign, Write
  <2>2. QED
    BY <2>1 DEF About
<1>4. QED
  BY <1>2, <1>3

\* A request that starts is about a ticket no other is about, or mixes it.
LEMMA StartsAlone ==
  ASSUME Base, NEW r \in Requests, Starts(r) \/ RecalculateAllOpen(r), NEW u \in Tickets \ mixed',
         About(r, u)', NEW q \in Requests
  PROVE  ~ About(q, u)
<1> USE DEF Base, RequestTypes
<1>1. ASSUME NEW o, NEW t \in Tickets, NEW d, NEW p, Start(r, o, t, d, p)
      PROVE  ~ About(q, u)
  <2>1. on'[r] = t /\ todo'[r] = todo[r] /\ at[r] = "idle"
    BY <1>1 DEF Start
  <2>2. todo[r] = {}
    BY <2>1 DEF RequestsOK, RequestOK, Placed
  <2>3. u = t
    BY <2>1, <2>2 DEF About
  <2>4. ~ \E s \in Requests : at[s] # "idle" /\ (on[s] = t \/ t \in todo[s])
    BY <1>1, <2>3 DEF Start
  <2>5. QED
    BY <2>3, <2>4 DEF About
<1>2. CASE Starts(r)
  BY <1>1, <1>2 DEF Starts, Upload, SaveRecap, UpdateAgent, MarkWorked
<1>3. CASE RecalculateAllOpen(r)
  <2> DEFINE open == {t \in Tickets :
                        row[t] # None /\ row[t].derived.overallStatus \notin {"null", "Completed"}}
  <2>1. /\ todo'[r] = open /\ on'[r] = on[r] /\ at[r] = "idle"
        /\ mixed' = mixed \union {t \in open : \E s \in Requests : on[s] = t \/ t \in todo[s]}
    BY <1>3 DEF RecalculateAllOpen
  <2> HIDE DEF open
  <2>2. CASE u \in open
    BY <2>1, <2>2 DEF About
  <2>3. CASE u \notin open
    <3>1. on[r] = u
      BY <2>1, <2>3 DEF About
    <3>2. op[r] = "none"
      BY <2>1 DEF RequestsOK, RequestOK, Placed
    <3>3. on[r] = None
      BY <3>2 DEF RequestsOK, RequestOK
    <3>4. QED
      BY <3>1, <3>3, NoneAssumption
  <2>4. QED
    BY <2>2, <2>3
<1>4. QED
  BY <1>2, <1>3

LEMMA StepsExclusive ==
  ASSUME Base, Exclusive, NEW r \in Requests, Steps(r)
  PROVE  Exclusive'
<1>1. SUFFICES ASSUME NEW u \in Tickets \ mixed', NEW p \in Requests, NEW q \in Requests,
                      About(p, u)', About(q, u)', p # q
               PROVE  FALSE
  BY DEF Exclusive
<1>2. u \notin mixed
  BY MixedGrows
<1>3. Aside(r)
  BY ActionsAside DEF Steps, OtherSteps, QuietSteps
<1>4. ASSUME NEW s \in Requests \ {r}, About(s, u)'
      PROVE  About(s, u)
  BY <1>3, <1>4 DEF Aside, About
<1>5. CASE Starts(r) \/ RecalculateAllOpen(r)
  <2>1. ASSUME NEW s \in Requests \ {r}, About(s, u)', About(r, u)'
        PROVE  FALSE
    BY <1>4, <1>5, <2>1, StartsAlone
  <2>2. CASE p = r
    BY <1>1, <2>1, <2>2
  <2>3. CASE q = r
    BY <1>1, <2>1, <2>3
  <2>4. CASE p # r /\ q # r
    BY <1>1, <1>2, <1>4, <2>4 DEF Exclusive
  <2>5. QED
    BY <2>2, <2>3, <2>4
<1>6. CASE ~ Starts(r) /\ ~ RecalculateAllOpen(r)
  <2>1. ASSUME NEW s \in Requests, About(s, u)'
        PROVE  About(s, u)
    BY <1>4, <1>6, <2>1, AboutWas
  <2>2. QED
    BY <1>1, <1>2, <2>1 DEF Exclusive
<1>7. QED
  BY <1>5, <1>6

-----------------------------------------------------------------------------
(* The agent that is still to be put into the sheet is the last.           *)

Sheet(t) ==
  /\ daily[t].assigned # Given(t) => \E r \in Requests : Assigns(r, t)
  /\ \A r \in Requests :
       Assigns(r, t) =>
         /\ Given(t) \subseteq daily[t].assigned \union {row[t].agent}
         /\ at[r] = "daily" => read[r].agent = row[t].agent

\* Who assigns t is about it, and its row and history are.
LEMMA AssignsAbout ==
  ASSUME Base, AssignmentsOK, DailyOK, NEW r \in Requests, NEW t \in Tickets, Assigns(r, t)
  PROVE  About(r, t) /\ assignments[t] # <<>> /\ row[t] # None /\ row[t].agent = Last(t)
BY DEF Assigns, About, DailyOK, AssignmentsOK

\* A step that does not touch the sheet of t, nor those who assign it.
LEMMA SheetAside ==
  ASSUME Base, AssignmentsOK, DailyOK, NEW t \in Tickets, Sheet(t), CountsKept(t),
         daily'[t].assigned = daily[t].assigned,
         \A q \in Requests : Assigns(q, t)' <=> Assigns(q, t),
         \A q \in Requests :
           Assigns(q, t)' /\ at'[q] = "daily" => at[q] = "daily" /\ read'[q] = read[q]
  PROVE  Sheet(t)'
<1>1. Given(t)' = Given(t)
  BY DEF Given, CountsKept
<1>2. daily'[t].assigned # Given(t)' => \E r \in Requests : Assigns(r, t)'
  BY <1>1 DEF Sheet
<1>3. ASSUME NEW q \in Requests, Assigns(q, t)'
      PROVE  /\ Given(t)' \subseteq daily'[t].assigned \union {row'[t].agent}
             /\ at'[q] = "daily" => read'[q].agent = row'[t].agent
  <2>1. Assigns(q, t) /\ row[t] # None
    BY <1>3, AssignsAbout
  <2>2. row'[t].agent = row[t].agent
    BY <2>1 DEF CountsKept
  <2>3. QED
    BY <1>1, <1>3, <2>1, <2>2 DEF Sheet
<1>4. QED
  BY <1>2, <1>3 DEF Sheet

LEMMA AssignSheet ==
  ASSUME Base, AssignmentsOK, DailyOK, Exclusive, SheetOK, NEW r \in Requests, Assign(r),
         NEW t \in Tickets \ mixed, t = on[r]
  PROVE  Sheet(t)'
<1>1. Aside(r) /\ at'[r] = "fetch" /\ on'[r] = t /\ op'[r] = op[r] /\ daily' = daily
  BY ActionsAside DEF Assign, Goto, Base, RequestTypes
<1>2. at[r] = "assign" /\ op[r] \in {"recap", "assign"}
  BY AssignRow
<1>3. About(r, t) /\ ~ Assigns(r, t)
  BY <1>2 DEF About, Assigns
<1>4. ASSUME NEW q \in Requests, Assigns(q, t)
      PROVE  FALSE
  <2>1. About(q, t)
    BY <1>4 DEF About, Assigns
  <2>2. q = r
    BY <1>3, <2>1 DEF Exclusive
  <2>3. QED
    BY <1>3, <1>4, <2>2
<1>5. daily[t].assigned = Given(t)
  BY <1>4 DEF SheetOK
<1>6. row'[t].agent = NewAgent(r)
  BY AssignRow
<1>7. Given(t)' = Given(t) \union {NewAgent(r)}
  <2>1. Given(on[r])' = Given(on[r]) \union {NewAgent(r)}
    BY AssignGiven
  <2>2. Given(on[r])' = Given(t)'
    BY <1>1 DEF Given
  <2>3. QED
    BY <2>1, <2>2
<1>8. Assigns(r, t)'
  BY <1>1, <1>2 DEF Assigns
<1>9. ASSUME NEW q \in Requests, Assigns(q, t)'
      PROVE  q = r
  <2>1. q # r => Assigns(q, t)
    BY <1>1, <1>9 DEF Assigns, Aside
  <2>2. QED
    BY <1>4, <2>1
<1>10. QED
  BY <1>1, <1>5, <1>6, <1>7, <1>8, <1>9 DEF Sheet

LEMMA FetchSheet ==
  ASSUME Base, AssignmentsOK, DailyOK, Exclusive, SheetOK, NEW r \in Requests, Fetch(r),
         NEW t \in Tickets \ mixed, Assigns(r, t)
  PROVE  Sheet(t)'
<1>1. Aside(r) /\ t = on[r] /\ at[r] = "fetch" /\ op[r] # "work"
  BY ActionsAside DEF Assigns, Fetch
<1>2. row[t] # None
  BY AssignsAbout
<1>3. at'[r] = "daily" /\ read'[r] = row[t] /\ on'[r] = on[r] /\ op'[r] = op[r]
      /\ UNCHANGED <<row, assignments, daily>>
  BY <1>1, <1>2 DEF Fetch, Goto, Base, RequestTypes, tables
<1>4. Given(t)' = Given(t)
  BY <1>3 DEF Given
<1>5. Sheet(t)
  BY DEF SheetOK, Sheet
<1>6. Assigns(r, t)'
  BY <1>1, <1>3 DEF Assigns
<1>7. ASSUME NEW q \in Requests, Assigns(q, t)'
      PROVE  /\ Given(t)' \subseteq daily'[t].assigned \union {row'[t].agent}
             /\ at'[q] = "daily" => read'[q].agent = row'[t].agent
  <2>1. q # r => Assigns(q, t) /\ at'[q] = at[q] /\ read'[q] = read[q]
    BY <1>1, <1>7 DEF Assigns, Aside
  <2>2. QED
    BY <1>3, <1>4, <1>5, <2>1 DEF Sheet
<1>8. QED
  BY <1>6, <1>7 DEF Sheet

LEMMA CreateDailySheet ==
  ASSUME Base, AssignmentsOK, DailyOK, Exclusive, SheetOK, NEW r \in Requests,
         CreateDailyAssignment(r), NEW t \in Tickets \ mixed, t = on[r]
  PROVE  Sheet(t)'
<1> DEFINE a == read[r].agent
<1>1. at[r] = "daily" /\ daily' = [daily EXCEPT ![t].assigned = @ \union {a}]
      /\ UNCHANGED <<row, assignments>>
  BY DEF CreateDailyAssignment
<1>2. op[r] # "work"
  BY <1>1 DEF Base, RequestsOK, RequestOK, Placed
<1>3. Assigns(r, t) /\ Aside(r)
  BY <1>1, <1>2, ActionsAside DEF Assigns
<1>4. a = row[t].agent /\ a \in Given(t) /\ Given(t) \subseteq daily[t].assigned \union {a}
  BY <1>1, <1>3 DEF SheetOK, DailyOK
<1>5. daily[t].assigned \subseteq Given(t)
  BY DEF DailyOK
<1> HIDE DEF a
<1>6. daily'[t].assigned = daily[t].assigned \union {a}
  BY <1>1 DEF Base, TableTypes
<1>7. Given(t)' = Given(t)
  BY <1>1 DEF Given
<1>8. daily'[t].assigned = Given(t)'
  BY <1>4, <1>5, <1>6, <1>7
<1>9. at'[r] \notin {"fetch", "daily"}
  BY DEF CreateDailyAssignment, AfterAssign, Leave, Goto, Base, RequestTypes
<1>10. ASSUME NEW q \in Requests, Assigns(q, t)'
       PROVE  FALSE
  <2>1. q # r
    BY <1>9, <1>10 DEF Assigns
  <2>2. Assigns(q, t)
    BY <1>3, <1>10, <2>1 DEF Assigns, Aside
  <2>3. About(q, t) /\ About(r, t)
    BY <1>3, <2>2 DEF Assigns, About
  <2>4. QED
    BY <2>1, <2>3 DEF Exclusive
<1>11. QED
  BY <1>8, <1>10 DEF Sheet

\* The steps that do not write a sheet for t, nor take a request that assigns it further.
LEMMA OtherSheet ==
  ASSUME Base, AssignmentsOK, DailyOK, SheetOK, NEW r \in Requests, Steps(r),
         NEW t \in Tickets \ mixed', t \notin mixed,
         ~ (Assign(r) /\ on[r] = t), ~ (Fetch(r) /\ Assigns(r, t)),
         ~ (CreateDailyAssignment(r) /\ on[r] = t)
  PROVE  Sheet(t)'
<1>1. Aside(r)
  BY ActionsAside DEF Steps, OtherSteps, QuietSteps
<1>2. Sheet(t)
  BY DEF SheetOK, Sheet
<1>3. CountsKept(t)
  <2>1. CASE Assign(r)
    BY <2>1, AssignRow, AssignGiven DEF CountsKept
  <2>2. CASE OtherSteps(r)
    BY <2>2, OtherCounts
  <2>3. QED
    BY <2>1, <2>2 DEF Steps
<1>4. daily'[t].assigned = daily[t].assigned
  <2>1. CASE CreateDailyAssignment(r)
    BY <2>1 DEF CreateDailyAssignment, Base, TableTypes
  <2>2. CASE MarkWorkedToday(r)
    <3> DEFINE a == read[r].agent
    <3>1. daily' = [daily EXCEPT ![on[r]].worked = @ \union {a}]
      BY <2>2 DEF MarkWorkedToday
    <3> HIDE DEF a
    <3>2. QED
      BY <3>1 DEF Base, TableTypes
  <2>3. CASE ~ CreateDailyAssignment(r) /\ ~ MarkWorkedToday(r)
    BY <2>3 DEF Steps, OtherSteps, QuietSteps, Starts, Upload, SaveRecap, UpdateAgent, MarkWorked,
         Start, RecalculateAllOpen, Find, Put, Load, Reread, Fetch, Log, Calculating, Fail, Save,
         Assign, Write, tables
  <2>4. QED
    BY <2>1, <2>2, <2>3
<1>5. ~ Assigns(r, t)
  <2>1. SUFFICES ASSUME Assigns(r, t)
                 PROVE  FALSE
    OBVIOUS
  <2>2. on[r] = t /\ at[r] \in {"fetch", "daily"} /\ op[r] # "work"
    BY <2>1 DEF Assigns
  <2>3. Fail(r) => t \in mixed'
    BY <2>2 DEF Fail
  <2>4. QED
    BY <2>1, <2>2, <2>3
       DEF Steps, OtherSteps, QuietSteps, Starts, Upload, SaveRecap, UpdateAgent, MarkWorked,
         Start, RecalculateAllOpen, Find, Put, Load, Reread, Log, MarkWorkedToday, Calculating, Save,
         Assign, Write, CreateDailyAssignment
<1>6. ~ Assigns(r, t)'
  <2>1. SUFFICES ASSUME Assigns(r, t)'
                 PROVE  FALSE
    OBVIOUS
  <2>2. on'[r] = t /\ at'[r] \in {"fetch", "daily"} /\ op'[r] # "work"
    BY <2>1 DEF Assigns
  <2>3. CASE Assign(r)
    BY <2>2, <2>3 DEF Assign
  <2>4. CASE OtherSteps(r)
    <3>1. Fetch(r) \/ Log(r) \/ (Write(r) /\ op[r] = "recap")
      BY <2>2, <2>4, QuietGoes
    <3>2. CASE Fetch(r)
      BY <1>5, <2>2, <3>2 DEF Fetch, Assigns, Leave, Goto, Base, RequestTypes
    <3>3. CASE Log(r)
      BY <2>2, <3>3 DEF Log, Goto, Base, RequestTypes
    <3>4. CASE Write(r) /\ op[r] = "recap"
      BY <2>2, <3>4 DEF Write, Goto, Base, RequestTypes
    <3>5. QED
      BY <3>1, <3>2, <3>3, <3>4
  <2>5. QED
    BY <2>3, <2>4 DEF Steps
<1>7. \A q \in Requests \ {r} :
        /\ Assigns(q, t)' <=> Assigns(q, t)
        /\ at'[q] = at[q] /\ read'[q] = read[q]
  BY <1>1 DEF Aside, Assigns
<1>8. QED
  BY <1>2, <1>3, <1>4, <1>5, <1>6, <1>7, SheetAside

LEMMA SheetOKHolds == Spec => [](Base /\ AssignmentsOK /\ DailyOK /\ Exclusive /\ SheetOK)
<1>1. ASSUME Init
      PROVE  Exclusive /\ SheetOK
  <2>1. \A r \in Requests, t \in Tickets : ~ About(r, t) /\ ~ Assigns(r, t)
    BY <1>1 DEF Init, About, Assigns
  <2>2. \A t \in Tickets : Given(t) = {} /\ daily[t].assigned = {}
    BY <1>1 DEF Init, Given
  <2>3. QED
    BY <2>1, <2>2 DEF Exclusive, SheetOK
<1>2. ASSUME Base, AssignmentsOK, DailyOK, Exclusive, SheetOK, [Next]_vars
      PROVE  Exclusive' /\ SheetOK'
  <2>1. CASE UNCHANGED vars
    BY <1>2, <2>1 DEF vars, tables, request, Exclusive, About, SheetOK, Assigns, Given
  <2>2. ASSUME NEW r \in Requests, Steps(r)
        PROVE  Exclusive' /\ SheetOK'
    <3>1. ASSUME NEW t \in Tickets \ mixed'
          PROVE  Sheet(t)'
      <4>1. t \in Tickets \ mixed
        BY <2>2, MixedGrows
      <4>2. QED
        BY <1>2, <2>2, <4>1, AssignSheet, FetchSheet, CreateDailySheet, OtherSheet
    <3>2. QED
      BY <1>2, <2>2, <3>1, StepsExclusive DEF SheetOK, Sheet
  <2>3. QED
    BY <1>2, <2>1, <2>2, NextIs
<1>3. QED
  BY <1>1, <1>2, DailyOKHolds, PTL DEF Spec

\* updateAgent reads the agent again after its transaction before it writes the daily sheet,
\* and markWorkedToday takes that of a row read or written earlier: the sheet still shows
\* nobody who was not given the ticket, and misses one who was only while his request runs,
\* or where requests overlapped or failed.
THEOREM DailySheetCompleteHolds == Spec => []DailySheetComplete
<1>1. ASSUME DailyOK, SheetOK
      PROVE  DailySheetComplete
  <2>1. SUFFICES ASSUME NEW t \in Tickets
                 PROVE  /\ daily[t].assigned \subseteq Given(t)
                        /\ daily[t].worked \subseteq Given(t) \union {NoAgent}
                        /\ daily[t].assigned # Given(t) =>
                             \/ \E r \in Requests : on[r] = t /\ at[r] \in {"fetch", "daily"}
                             \/ t \in mixed
    BY DEF DailySheetComplete, Given
  <2>2. QED
    BY <1>1 DEF DailyOK, SheetOK, Assigns
<1>2. QED
  BY <1>1, SheetOKHolds, PTL

-----------------------------------------------------------------------------
(* The history explains a ticket one request at a time is about.           *)

LEMMA WatchedSame ==
  ASSUME NEW v, NEW w, v.in = w.in, v.derived = w.derived
  PROVE  Watched(v) = Watched(w) /\ (Fresh(w) => Fresh(v))
BY DEF Watched, Fresh

LEMMA OnAbout ==
  ASSUME Base, NEW r \in Requests, NEW t \in Tickets, on[r] = t
  PROVE  About(r, t) /\ at[r] # "idle"
<1>1. t # None
  BY NoneAssumption
<1>2. op[r] # "none"
  BY <1>1 DEF Base, RequestsOK, RequestOK
<1>3. at[r] # "idle"
  BY <1>2 DEF Base, RequestTypes, RequestsOK, RequestOK, Placed
<1>4. QED
  BY <1>3 DEF About

\* Nobody is half-way in changing t.
LEMMA WasExplained ==
  ASSUME HistoryOK, NEW t \in Tickets \ mixed, row[t] # None,
         \A q \in Requests : ~ Changing(q, t)
  PROVE  Explained(t)
BY DEF HistoryOK, Story

LEMMA ChangingAbout ==
  ASSUME NEW r \in Requests, NEW t, Changing(r, t)
  PROVE  About(r, t)
BY DEF Changing, Recalculates, About

LEMMA SoleChanging ==
  ASSUME HistoryOK, Exclusive, NEW r \in Requests, NEW t \in Tickets \ mixed, row[t] # None,
         About(r, t), ~ Changing(r, t)
  PROVE  Explained(t)
<1>1. ASSUME NEW q \in Requests, Changing(q, t)
      PROVE  FALSE
  <2>1. q = r
    BY <1>1, ChangingAbout DEF Exclusive
  <2>2. QED
    BY <1>1, <2>1
<1>2. QED
  BY <1>1, WasExplained

\* The row of t and its history stay but for the steps of a request on t.
LEMMA Elsewhere ==
  ASSUME Base, NEW r \in Requests, Steps(r), NEW t \in Tickets, on[r] # t
  PROVE  row'[t] = row[t] /\ logged'[t] = logged[t] /\ (t \in late' => t \in late)
<1>1. CASE Put(r) /\ ~ (before[r] = None /\ row[on[r]] # None)
  BY <1>1, PutRow
<1>2. CASE Save(r)
  BY <1>2, SaveRow
<1>3. CASE Write(r)
  BY <1>3, WriteRow
<1>4. CASE Assign(r)
  BY <1>4, AssignRow DEF Assign
<1>5. CASE Log(r)
  <2>1. \E v : logged' = [logged EXCEPT ![on[r]] = v]
    BY <1>5 DEF Log
  <2>2. QED
    BY <1>5, <2>1 DEF Log, Base, TableTypes
<1>6. QED
  BY <1>1, <1>2, <1>3, <1>4, <1>5
     DEF Steps, OtherSteps, QuietSteps, Starts, Upload, SaveRecap, UpdateAgent, MarkWorked, Start,
         RecalculateAllOpen, Find, Put, Load, Reread, Fetch, CreateDailyAssignment, MarkWorkedToday,
         Calculating, Fail, tables

LEMMA ExplainedSame ==
  ASSUME NEW t, row'[t].in = row[t].in, row'[t].derived = row[t].derived, logged'[t] = logged[t]
  PROVE  Expected(t)' = Expected(t) /\ (Explained(t) => Explained(t)') /\ (New(t) => New(t)')
<1>1. Expected(t)' = Expected(t)
  BY DEF Expected
<1>2. Watched(row'[t]) = Watched(row[t]) /\ (Fresh(row[t]) => Fresh(row'[t]))
  BY WatchedSame
<1>3. Explained(t) => Explained(t)'
  BY <1>1, <1>2 DEF Explained
<1>4. New(t) => New(t)'
  BY DEF New
<1>5. QED
  BY <1>1, <1>3, <1>4

LEMMA StoryElsewhere ==
  ASSUME Base, HistoryOK, NEW r \in Requests, Steps(r), NEW t \in Tickets \ mixed, on[r] # t,
         on'[r] # t
  PROVE  Story(t)'
<1>1. Aside(r)
  BY ActionsAside DEF Steps, OtherSteps, QuietSteps
<1>2. row'[t] = row[t] /\ logged'[t] = logged[t] /\ t \notin late'
  BY Elsewhere DEF HistoryOK, Story
<1>3. Expected(t)' = Expected(t) /\ (Explained(t) => Explained(t)') /\ (New(t) => New(t)')
  BY <1>2, ExplainedSame
<1>4. Story(t)
  BY DEF HistoryOK
<1>5. ASSUME NEW q \in Requests, on'[q] = t, row'[t] # None
      PROVE  Held(q, t)'
  <2>1. q # r
    BY <1>5
  <2>2. /\ on[q] = t /\ op'[q] = op[q] /\ at'[q] = at[q] /\ before'[q] = before[q]
        /\ read'[q] = read[q]
    BY <1>1, <1>5, <2>1 DEF Aside
  <2>3. Held(q, t)
    BY <1>2, <1>4, <1>5, <2>2 DEF Story
  <2>4. Fresh(row[t]) => Fresh(row'[t])
    BY <1>2, WatchedSame
  <2>5. QED
    BY <1>2, <1>3, <2>2, <2>3, <2>4 DEF Held
<1>6. ASSUME NEW q \in Requests, Changing(q, t)
      PROVE  Changing(q, t)'
  <2>1. q # r
    BY <1>6 DEF Changing
  <2>2. QED
    BY <1>1, <1>6, <2>1 DEF Changing, Recalculates, Aside
<1>7. QED
  BY <1>2, <1>3, <1>4, <1>5, <1>6 DEF Story

\* The request is the only one about t.
LEMMA OneStory ==
  ASSUME Base, Exclusive, NEW r \in Requests, Aside(r), NEW t \in Tickets \ mixed, About(r, t),
         t \notin late', row'[t] # None => Explained(t)' \/ Changing(r, t)',
         row'[t] # None /\ on'[r] = t => Held(r, t)'
  PROVE  Story(t)'
<1>1. ASSUME NEW q \in Requests, on'[q] = t
      PROVE  q = r
  <2>1. q # r => on[q] = t
    BY <1>1 DEF Aside
  <2>2. on[q] = t => About(q, t)
    BY OnAbout
  <2>3. QED
    BY <2>1, <2>2 DEF Exclusive
<1>2. QED
  BY <1>1 DEF Story

\* A step of the only request on t that leaves its row and history as they are, and is
\* neither before nor after it half-way in changing t.
LEMMA CalmStory ==
  ASSUME Base, HistoryOK, Exclusive, NEW r \in Requests, Steps(r), NEW t \in Tickets \ mixed,
         on[r] = t, late' = late, logged'[t] = logged[t], row'[t] # None => row[t] # None,
         row[t] # None => row'[t].in = row[t].in /\ row'[t].derived = row[t].derived,
         at[r] \notin {"calculate", "write", "log"}, at'[r] \notin {"calculate", "write", "log"},
         row[t] # None /\ Explained(t) /\ on'[r] = t /\ op'[r] = "recap"
           /\ at'[r] \notin {"load", "work"} => Watched(before[r])' = Expected(t)
  PROVE  Story(t)'
<1>1. Aside(r) /\ About(r, t)
  BY ActionsAside, OnAbout DEF Steps, OtherSteps, QuietSteps
<1>2. t \notin late'
  BY DEF HistoryOK, Story
<1>3. ~ Changing(r, t)
  BY DEF Changing, Recalculates
<1>4. ASSUME row'[t] # None
      PROVE  Explained(t) /\ Explained(t)' /\ Expected(t)' = Expected(t)
  <2>1. row[t] # None
    BY <1>4
  <2>2. Explained(t)
    BY <1>1, <1>3, <2>1, SoleChanging
  <2>3. QED
    BY <2>1, <2>2, ExplainedSame
<1>5. ASSUME row'[t] # None, on'[r] = t
      PROVE  Held(r, t)'
  BY <1>4, <1>5 DEF Held
<1>6. QED
  BY <1>1, <1>2, <1>4, <1>5, OneStory

\* The steps before a ticket is changed and after it is logged.
CalmSteps(r) ==
  \/ Find(r) \/ Load(r) \/ Reread(r) \/ Assign(r) \/ Fetch(r) \/ CreateDailyAssignment(r)
  \/ MarkWorkedToday(r) \/ (Put(r) /\ before[r] = None /\ row[on[r]] # None)

LEMMA CalmGoes ==
  ASSUME Base, NEW r \in Requests, CalmSteps(r)
  PROVE  /\ at[r] \notin {"calculate", "write", "log"} /\ at'[r] \notin {"calculate", "write", "log"}
         /\ at'[r] # "idle" => op'[r] = op[r] /\ on'[r] = on[r]
         /\ at'[r] \notin {"idle", "put", "work"} /\ at[r] # "load" => before'[r] = before[r]
<1> USE DEF Base, RequestTypes
<1>1. Leave(r) => at'[r] = "idle"
  BY DEF Leave
<1>2. AfterAssign(r) => \/ at'[r] = "idle"
                        \/ at'[r] = "save" /\ op' = op /\ on' = on /\ before' = before
  BY <1>1 DEF AfterAssign, Goto
<1>3. Find(r) => at[r] = "find" /\ at'[r] = "put" /\ op' = op /\ on' = on
  BY DEF Find, Goto
<1>4. Load(r) => /\ at[r] = "load"
                 /\ at'[r] = "idle" \/ (at'[r] \in {"reread", "save"} /\ op' = op /\ on' = on)
  BY <1>1 DEF Load, Goto
<1>5. Reread(r) => /\ at[r] = "reread"
                   /\ \/ at'[r] = "idle"
                      \/ at'[r] \in {"save", "assign"} /\ op' = op /\ on' = on /\ before' = before
  BY <1>1, <1>2 DEF Reread, Goto
<1>6. Assign(r) => at[r] = "assign" /\ at'[r] = "fetch" /\ op' = op /\ on' = on /\ before' = before
  BY DEF Assign, Goto
<1>7. Fetch(r) => /\ at[r] = "fetch"
                  /\ \/ at'[r] = "idle"
                     \/ at'[r] \in {"work", "daily"} /\ op' = op /\ on' = on /\ before' = before
  BY <1>1 DEF Fetch, Goto
<1>8. CreateDailyAssignment(r) => /\ at[r] = "daily"
                                  /\ \/ at'[r] = "idle"
                                     \/ at'[r] = "save" /\ op' = op /\ on' = on /\ before' = before
  BY <1>2 DEF CreateDailyAssignment
<1>9. MarkWorkedToday(r) => at[r] = "work" /\ at'[r] = "idle"
  BY <1>1 DEF MarkWorkedToday
<1>10. Put(r) /\ before[r] = None /\ row[on[r]] # None => at[r] = "put" /\ at'[r] = "idle"
  BY <1>1 DEF Put
<1>11. QED
  BY <1>3, <1>4, <1>5, <1>6, <1>7, <1>8, <1>9, <1>10 DEF CalmSteps

LEMMA CalmStepsStory ==
  ASSUME Base, HistoryOK, Exclusive, NEW r \in Requests, CalmSteps(r), NEW t \in Tickets \ mixed,
         on[r] = t
  PROVE  Story(t)'
<1>1. Steps(r)
  BY DEF CalmSteps, Steps, OtherSteps, QuietSteps
<1>2. /\ late' = late /\ logged' = logged /\ (row'[t] # None => row[t] # None)
      /\ row[t] # None => row'[t].in = row[t].in /\ row'[t].derived = row[t].derived
  <2>1. CASE Assign(r)
    BY <2>1, AssignRow DEF Assign
  <2>2. CASE ~ Assign(r)
    BY <2>2 DEF CalmSteps, Find, Load, Reread, Fetch, CreateDailyAssignment, MarkWorkedToday, Put,
         tables
  <2>3. QED
    BY <2>1, <2>2
<1>3. ASSUME row[t] # None, Explained(t), on'[r] = t, op'[r] = "recap", at'[r] \notin {"load", "work"}
      PROVE  Watched(before[r])' = Expected(t)
  <2>1. at'[r] # "idle"
    <3>1. Base'
      BY <1>1, NextBase DEF Next, Steps, OtherSteps, QuietSteps, Starts
    <3>2. QED
      BY <1>3, <3>1 DEF Base, RequestsOK, RequestOK, Placed
  <2>2. op[r] = "recap"
    BY <1>3, <2>1, CalmGoes
  <2>3. CASE Load(r)
    <3>1. before' = [before EXCEPT ![r] = row[t]]
      BY <2>1, <2>3 DEF Load, Leave, Base, RequestTypes
    <3>2. before'[r] = row[t]
      BY <3>1 DEF Base, RequestTypes
    <3>3. Watched(before[r])' = Watched(row[t])
      BY <3>2 DEF Watched
    <3>4. QED
      BY <1>3, <3>3 DEF Explained
  <2>4. CASE ~ Load(r)
    <3>1. at[r] \notin {"find", "put"}
      BY <2>2 DEF Base, RequestsOK, RequestOK, Placed
    <3>2. ~ MarkWorkedToday(r)
      BY <2>1 DEF MarkWorkedToday, Leave, Base, RequestTypes
    <3>3. at[r] \notin {"load", "work"} /\ at'[r] # "put"
      BY <2>4, <3>1, <3>2 DEF CalmSteps, Find, Put, Reread, Assign, Fetch, CreateDailyAssignment,
           AfterAssign, Leave, Goto, Base, RequestTypes
    <3>4. Watched(before[r]) = Expected(t) /\ before'[r] = before[r]
      BY <1>3, <2>1, <2>2, <3>3, CalmGoes DEF HistoryOK, Story, Held
    <3>5. Watched(before[r])' = Watched(before[r])
      BY <3>4 DEF Watched
    <3>6. QED
      BY <3>4, <3>5
  <2>5. QED
    BY <2>3, <2>4
<1>4. QED
  BY <1>1, <1>2, <1>3, CalmGoes, CalmStory

LEMMA PutStory ==
  ASSUME Base, HistoryOK, Exclusive, NEW r \in Requests, Put(r),
         ~ (before[r] = None /\ row[on[r]] # None), NEW t \in Tickets \ mixed, on[r] = t
  PROVE  Story(t)'
<1>1. Aside(r) /\ About(r, t)
  BY ActionsAside, OnAbout
<1>2. /\ at[r] = "put" /\ op[r] = "upload" /\ at'[r] = "calculate" /\ op'[r] = "upload"
      /\ on'[r] = t /\ logged' = logged /\ late' = late
  BY PutRow, GotoBase
<1>3. t \notin late'
  BY <1>2 DEF HistoryOK, Story
<1>4. Changing(r, t)'
  BY <1>2 DEF Changing, Recalculates
<1>5. CASE row[t] = None
  <2>1. row'[t].in = Blank /\ row'[t].derived = NullDerived
    BY <1>5, PutRow, NewRowFields
  <2>2. logged'[t] = None
    BY <1>2, <1>5 DEF HistoryOK
  <2>3. New(t)'
    BY <2>1, <2>2 DEF New
  <2>4. Held(r, t)'
    BY <1>2, <2>3 DEF Held
  <2>5. QED
    BY <1>1, <1>3, <1>4, <2>4, OneStory
<1>6. CASE row[t] # None
  <2>1. ~ Changing(r, t)
    BY <1>2 DEF Changing, Recalculates
  <2>2. Explained(t)
    BY <1>1, <1>6, <2>1, SoleChanging
  <2>3. Explained(t)'
    BY <1>2, <1>6, <2>2, PutRow, ExplainedSame
  <2>4. Held(r, t)'
    BY <1>2, <2>3 DEF Held
  <2>5. QED
    BY <1>1, <1>3, <1>4, <2>4, OneStory
<1>7. QED
  BY <1>5, <1>6

LEMMA SaveStory ==
  ASSUME Base, HistoryOK, Exclusive, NEW r \in Requests, Save(r), NEW t \in Tickets \ mixed, on[r] = t
  PROVE  Story(t)'
<1>1. Aside(r) /\ About(r, t)
  BY ActionsAside, OnAbout
<1>2. /\ at[r] = "save" /\ op[r] = "recap" /\ at'[r] = "calculate" /\ op'[r] = "recap"
      /\ on'[r] = t /\ logged' = logged /\ late' = late /\ before' = before /\ row[t] # None
  BY SaveRow, GotoBase
<1>3. t \notin late'
  BY <1>2 DEF HistoryOK, Story
<1>4. Changing(r, t)'
  BY <1>2 DEF Changing, Recalculates
<1>5. Watched(before[r]) = Expected(t)
  BY <1>2 DEF HistoryOK, Story, Held
<1>6. Expected(t)' = Expected(t) /\ Watched(before[r])' = Watched(before[r])
  BY <1>2 DEF Expected, Watched
<1>7. Held(r, t)'
  BY <1>2, <1>5, <1>6 DEF Held
<1>8. QED
  BY <1>1, <1>3, <1>4, <1>7, OneStory

LEMMA CalculatingStory ==
  ASSUME Base, HistoryOK, Exclusive, NEW r \in Requests, Calculating(r), NEW t \in Tickets \ mixed,
         on[r] = t \/ on'[r] = t
  PROVE  Story(t)'
<1>1. PICK u \in Tickets :
           /\ Takes(r, u) /\ row[u] # None /\ row[u] \in Row
           /\ op[r] # "recalculate" => u = on[r] /\ todo'[r] = {}
           /\ on'[r] = u /\ read'[r] = row[u] /\ todo'[r] = todo[r] \ {u}
  BY CalculatingTakes
<1>2. /\ at[r] = "calculate" /\ at'[r] = "write" /\ op' = op /\ before' = before
      /\ UNCHANGED <<row, logged, late>>
  BY DEF Calculating, Goto, tables, Base, RequestTypes
<1>3. Aside(r) /\ About(r, t)
  BY <1>1, <1>2, ActionsAside DEF About, Takes
<1>4. t \notin late'
  BY <1>2 DEF HistoryOK, Story
<1>5. Expected(t)' = Expected(t) /\ (Explained(t) => Explained(t)') /\ (New(t) => New(t)')
  BY <1>2, ExplainedSame
<1>6. CASE op[r] = "recalculate"
  <2>1. ~ Changing(r, t)
    BY <1>2, <1>6 DEF Changing, Recalculates
  <2>2. row[t] # None => Explained(t)
    BY <1>3, <2>1, SoleChanging
  <2>3. on'[r] = t => Held(r, t)'
    BY <1>1, <1>2, <1>6 DEF Held
  <2>4. QED
    BY <1>2, <1>3, <1>4, <1>5, <2>2, <2>3, OneStory
<1>7. CASE op[r] # "recalculate"
  <2>1. on[r] = t /\ on'[r] = t /\ row[t] # None
    BY <1>1, <1>7
  <2>2. Changing(r, t)'
    BY <1>2, <1>7, <2>1 DEF Changing, Recalculates
  <2>3. Held(r, t)
    BY <2>1 DEF HistoryOK, Story
  <2>4. Watched(before[r])' = Watched(before[r])
    BY <1>2 DEF Watched
  <2>5. Held(r, t)'
    BY <1>1, <1>2, <1>5, <2>1, <2>3, <2>4 DEF Held
  <2>6. QED
    BY <1>3, <1>4, <2>2, <2>5, OneStory
<1>8. QED
  BY <1>6, <1>7

\* The write of what was calculated of a row that was recalculated changes no column of it.
LEMMA UpdatedAgain ==
  ASSUME Base, NEW r \in Requests, at[r] = "write", read[r].in = row[on[r]].in,
         read[r].derived = row[on[r]].derived, Fresh(row[on[r]])
  PROVE  Updated(r).derived = row[on[r]].derived
<1> DEFINE w == row[on[r]]
           d == Calculate(read[r].in, read[r].derived.validationStatus)
<1>1. w \in Row /\ d \in Derived
  BY UpdatedRow
<1>2. d = w.derived
  BY DEF Fresh
<1> HIDE DEF w, d
<1>3. Recalculated(w, d).derived = d
  BY <1>1, RecalculatedRow
<1>4. Updated(r).derived = d
  BY <1>3 DEF Updated, w, d
<1>5. QED
  BY <1>2, <1>4 DEF w

LEMMA WriteStory ==
  ASSUME Base, HistoryOK, Exclusive, NEW r \in Requests, Write(r), NEW t \in Tickets \ mixed,
         on[r] = t
  PROVE  Story(t)'
<1>1. Aside(r) /\ About(r, t)
  BY ActionsAside, OnAbout
<1>2. /\ at[r] = "write" /\ row[t] # None /\ op[r] \in {"upload", "recap", "recalculate"}
      /\ Updated(r) \in Row
  BY UpdatedRow DEF Write
<1>3. Held(r, t) /\ t \notin late
  BY <1>2 DEF HistoryOK, Story
<1>4. read[r].in = row[t].in /\ read[r].derived = row[t].derived
  BY <1>2, <1>3 DEF Held
<1>5. row'[t] = Updated(r) /\ t \notin late' /\ logged' = logged
  BY <1>3, <1>4, WriteRow
<1>6. Updated(r).in = row[t].in /\ Fresh(Updated(r))
  <2>1. Updated(r).in = row[t].in
    BY <1>2, UpdatedRow, RecalculatedRow DEF Updated
  <2>2. Good(Updated(r))
    BY <1>2, <1>4, UpdatedGood
  <2>3. QED
    BY <2>1, <2>2 DEF Good
<1>7. Expected(t)' = Expected(t) /\ Fresh(row[t])'
  BY <1>5, <1>6 DEF Expected, Fresh
<1>8. ASSUME Explained(t)
      PROVE  Explained(t)'
  <2>1. Updated(r).derived = row[t].derived
    BY <1>2, <1>4, <1>8, UpdatedAgain DEF Explained
  <2>2. Watched(row[t])' = Watched(row[t])
    BY <1>5, <1>6, <2>1 DEF Watched
  <2>3. QED
    BY <1>7, <1>8, <2>2 DEF Explained
<1>9. CASE op[r] = "recap"
  <2>1. at'[r] = "log" /\ on'[r] = t /\ op'[r] = "recap" /\ before' = before /\ read'[r] = Updated(r)
    BY <1>9 DEF Write, Updated, Goto, Base, RequestTypes
  <2>2. Changing(r, t)'
    BY <2>1 DEF Changing
  <2>3. Watched(before[r]) = Expected(t)
    BY <1>2, <1>3, <1>9 DEF Held
  <2>4. Watched(before[r])' = Watched(before[r]) /\ Watched(read[r])' = Watched(row[t])'
    BY <1>5, <2>1 DEF Watched
  <2>5. Held(r, t)'
    BY <1>7, <2>1, <2>3, <2>4 DEF Held
  <2>6. QED
    BY <1>1, <1>5, <2>2, <2>5, OneStory
<1>10. CASE op[r] = "upload"
  <2>1. at'[r] = "idle" /\ op'[r] = "none"
    BY <1>10 DEF Write, Leave, Base, RequestTypes
  <2>2. ASSUME New(t)
        PROVE  Explained(t)'
    <3> DEFINE d == Calculate(Blank, "null")
               w == [in |-> Blank, derived |-> d]
    <3>1. read[r].in = Blank /\ read[r].derived.validationStatus = "null" /\ logged[t] = None
      BY <1>4, <2>2 DEF New, NullDerived
    <3>2. Calculate(read[r].in, read[r].derived.validationStatus) = d
      BY <3>1
    <3>3. Updated(r).derived = Calculate(read[r].in, read[r].derived.validationStatus)
      BY <1>2, UpdatedRow, RecalculatedRow DEF Updated
    <3>4. Expected(t) = Watched(w)
      BY <3>1 DEF Expected
    <3> HIDE DEF d
    <3>5. w.in = Blank /\ w.derived = d
      OBVIOUS
    <3> HIDE DEF w
    <3>6. Updated(r).in = w.in /\ Updated(r).derived = w.derived
      BY <1>4, <1>6, <3>1, <3>2, <3>3, <3>5
    <3>7. Watched(Updated(r)) = Watched(w)
      BY <3>6, WatchedSame
    <3>8. Watched(row[t])' = Watched(Updated(r))
      BY <1>5 DEF Watched
    <3>9. QED
      BY <1>7, <3>4, <3>7, <3>8 DEF Explained
  <2>3. Explained(t)'
    BY <1>2, <1>3, <1>8, <1>10, <2>2 DEF Held
  <2>4. Held(r, t)'
    BY <2>1 DEF Held
  <2>5. QED
    BY <1>1, <1>5, <2>3, <2>4, OneStory
<1>11. CASE op[r] = "recalculate"
  <2>1. ~ Changing(r, t)
    BY <1>2, <1>11 DEF Changing, Recalculates
  <2>2. Explained(t)'
    BY <1>1, <1>2, <1>8, <2>1, SoleChanging
  <2>3. at'[r] \in {"idle", "calculate"} /\ op'[r] \in {"none", "recalculate"}
    BY <1>11 DEF Write, Leave, Goto, Base, RequestTypes
  <2>4. Held(r, t)'
    BY <2>3 DEF Held
  <2>5. QED
    BY <1>1, <1>5, <2>2, <2>4, OneStory
<1>12. QED
  BY <1>2, <1>9, <1>10, <1>11

LEMMA LogStory ==
  ASSUME Base, HistoryOK, Exclusive, NEW r \in Requests, Log(r), NEW t \in Tickets \ mixed, on[r] = t
  PROVE  Story(t)'
<1> DEFINE a == Watched(before[r])
           b == Watched(read[r])
<1>1. Aside(r) /\ About(r, t)
  BY ActionsAside, OnAbout
<1>2. /\ at[r] = "log" /\ at'[r] = "work" /\ on'[r] = t /\ op' = op /\ row' = row /\ late' = late
      /\ logged' = [logged EXCEPT ![t] = IF a # b THEN b ELSE @]
  BY DEF Log, Goto, Base, RequestTypes
<1>3. op[r] = "recap" /\ row[t] # None /\ read[r] \in Row
  BY <1>2 DEF Base, RequestTypes, RequestsOK, RequestOK, Placed
<1>4. Held(r, t) /\ t \notin late'
  BY <1>2, <1>3 DEF HistoryOK, Story
<1>5. a = Expected(t) /\ b = Watched(row[t]) /\ Fresh(row[t])
  BY <1>2, <1>3, <1>4 DEF Held
<1>6. b # None
  BY <1>3, WatchedTyped, NoneAssumption
<1>7. Watched(row[t])' = Watched(row[t]) /\ Fresh(row[t])'
  BY <1>2, <1>5 DEF Watched, Fresh
<1> HIDE DEF a, b
<1>8. logged'[t] = IF a # b THEN b ELSE logged[t]
  BY <1>2 DEF Base, TableTypes
<1>9. Expected(t)' = b
  <2>1. CASE a # b
    BY <1>6, <1>8, <2>1 DEF Expected
  <2>2. CASE a = b
    <3>1. Expected(t)' = Expected(t)
      BY <1>8, <2>2 DEF Expected
    <3>2. QED
      BY <1>5, <2>2, <3>1
  <2>3. QED
    BY <2>1, <2>2
<1>10. Explained(t)'
  BY <1>5, <1>7, <1>9 DEF Explained
<1>11. Held(r, t)'
  BY <1>2 DEF Held
<1>12. QED
  BY <1>1, <1>4, <1>10, <1>11, OneStory

LEMMA StartsStory ==
  ASSUME Base, HistoryOK, NEW r \in Requests, Starts(r), NEW t \in Tickets \ mixed', t \notin mixed,
         on'[r] = t
  PROVE  Story(t)'
<1>1. Aside(r)
  BY ActionsAside
<1>2. /\ UNCHANGED <<tables, late>> /\ at[r] = "idle" /\ at'[r] \in {"find", "load", "reread", "fetch"}
      /\ at'[r] = "load" \/ op'[r] # "recap"
  BY DEF Starts, Upload, SaveRecap, UpdateAgent, MarkWorked, Start, Base, RequestTypes
<1>3. About(r, t)'
  BY <1>2 DEF About
<1>4. \A q \in Requests : ~ About(q, t)
  BY <1>3, StartsAlone
<1>5. row[t] # None => Explained(t)
  BY <1>4, ChangingAbout, WasExplained
<1>6. t \notin late' /\ row' = row /\ logged' = logged
  BY <1>2 DEF HistoryOK, Story, tables
<1>7. row'[t] # None => Explained(t)'
  BY <1>5, <1>6, ExplainedSame
<1>8. ASSUME NEW q \in Requests, on'[q] = t
      PROVE  Held(q, t)'
  <2>1. q # r => on[q] = t
    BY <1>1, <1>8 DEF Aside
  <2>2. q = r
    BY <1>4, <2>1, OnAbout
  <2>3. QED
    BY <1>2, <2>2 DEF Held
<1>9. QED
  BY <1>6, <1>7, <1>8 DEF Story

LEMMA StepsStory ==
  ASSUME Base, HistoryOK, Exclusive, NEW r \in Requests, Steps(r), NEW t \in Tickets \ mixed'
  PROVE  Story(t)'
<1>1. t \notin mixed
  BY MixedGrows
<1>2. CASE on[r] # t /\ on'[r] # t
  BY <1>1, <1>2, StoryElsewhere
<1>3. CASE on[r] = t
  <2>1. at[r] # "idle"
    BY <1>3, OnAbout
  <2>2. ~ Starts(r) /\ ~ RecalculateAllOpen(r)
    BY <2>1 DEF Starts, Upload, SaveRecap, UpdateAgent, MarkWorked, Start, RecalculateAllOpen
  <2>3. ~ Fail(r)
    BY <1>3 DEF Fail
  <2>4. QED
    BY <1>1, <1>3, <2>2, <2>3, CalmStepsStory, PutStory, SaveStory, CalculatingStory, WriteStory,
       LogStory DEF Steps, OtherSteps, QuietSteps, CalmSteps
<1>4. CASE on[r] # t /\ on'[r] = t
  <2>1. on' # on
    BY <1>4
  <2>2. ~ Leave(r)
    <3>1. t # None
      BY NoneAssumption
    <3>2. QED
      BY <1>4, <3>1 DEF Leave, Base, RequestTypes
  <2>3. Starts(r) \/ Calculating(r)
    BY <2>1, <2>2 DEF Steps, OtherSteps, QuietSteps, RecalculateAllOpen, Find, Put, Load, Reread,
       AfterAssign, Fetch, CreateDailyAssignment, Log, MarkWorkedToday, Fail, Save, Assign, Write
  <2>4. QED
    BY <1>1, <1>4, <2>3, StartsStory, CalculatingStory
<1>5. QED
  BY <1>2, <1>3, <1>4

\* Only a ticket that has a row is logged.
LEMMA StepsLogged ==
  ASSUME Base, HistoryOK, NEW r \in Requests, Steps(r), NEW t \in Tickets, row'[t] = None
  PROVE  logged'[t] = None
<1>1. Base'
  BY NextBase DEF Next, Steps, OtherSteps, QuietSteps, Starts
<1>2. row[t] = None
  <2>1. CASE OtherSteps(r)
    BY <2>1, OtherCounts DEF CountsKept
  <2>2. CASE Assign(r)
    BY <2>2, AssignRow
  <2>3. QED
    BY <2>1, <2>2 DEF Steps
<1>3. logged[t] = None
  BY <1>2 DEF HistoryOK
<1>4. CASE Log(r)
  <2>1. row[on[r]] # None
    BY <1>4 DEF Log, Base, RequestsOK, RequestOK
  <2>2. QED
    BY <1>2, <1>3, <1>4, <2>1, Elsewhere
<1>5. CASE ~ Log(r)
  <2>1. logged' = logged
    BY <1>5 DEF Steps, OtherSteps, QuietSteps, Starts, Upload, SaveRecap, UpdateAgent, MarkWorked,
         Start, RecalculateAllOpen, Find, Put, Load, Reread, Fetch, CreateDailyAssignment,
         MarkWorkedToday, Calculating, Fail, Save, Assign, Write, tables
  <2>2. QED
    BY <1>3, <2>1
<1>6. QED
  BY <1>4, <1>5

LEMMA HistoryOKHolds == Spec => [](Base /\ Exclusive /\ HistoryOK)
<1>1. ASSUME Init
      PROVE  HistoryOK
  BY <1>1 DEF Init, HistoryOK, Story
<1>2. ASSUME Base, Exclusive, HistoryOK, [Next]_vars
      PROVE  HistoryOK'
  <2>1. CASE UNCHANGED vars
    <3>1. /\ UNCHANGED <<row, logged, op, on, at, before, read, late, mixed>>
      BY <2>1 DEF vars, tables, request
    <3>2. QED
      BY <1>2, <3>1 DEF HistoryOK, Story, Held, Explained, Expected, Fresh, New, Changing,
         Recalculates, Watched
  <2>2. ASSUME NEW r \in Requests, Steps(r)
        PROVE  HistoryOK'
    BY <1>2, <2>2, StepsStory, StepsLogged DEF HistoryOK
  <2>3. QED
    BY <1>2, <2>1, <2>2, NextIs
<1>3. QED
  BY <1>1, <1>2, SheetOKHolds, PTL DEF Spec

\* The history explains a ticket: writeHistoryForChanges compares what saveRecap first read
\* with what its recalculation wrote, so as long as requests on a ticket come one after the
\* other and none fails, the statuses last logged are those it has, whichever of them
\* recalculated it in between.
THEOREM HistoryExplainsHolds == Spec => []HistoryExplains
<1>1. ASSUME HistoryOK
      PROVE  HistoryExplains
  <2>1. SUFFICES ASSUME NEW t \in Tickets \ mixed, AtRest(t),
                        \A r \in Requests : on[r] = t => at[r] # "log"
                 PROVE  Watched(row[t]) = Expected(t)
    BY DEF HistoryExplains, Expected
  <2>2. \A r \in Requests : ~ Changing(r, t)
    BY <2>1 DEF AtRest, Changing, Recalculates
  <2>3. Explained(t)
    BY <1>1, <2>1, <2>2, WasExplained DEF AtRest
  <2>4. QED
    BY <2>3 DEF Explained
<1>2. QED
  BY <1>1, HistoryOKHolds, PTL
=============================================================================
