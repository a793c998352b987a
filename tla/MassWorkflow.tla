----------------------------- MODULE MassWorkflow -----------------------------
(***************************************************************************)
(* MassWorkflowService.calculate: the derived columns of a mass ticket from*)
(* what the agents filled in and the validationStatus stored before.       *)
(* Ageing, summaries and bottleneckSince are left out; a process step is   *)
(* its status (steps without a name are never read), a confirmation is the *)
(* position of its key in CONFIRMATION_DEFS.                               *)
(***************************************************************************)
EXTENDS Naturals, Sequences, FiniteSets

CONSTANT Confirmations  \* how many CONFIRMATION_DEFS there are (8 in the code)

ASSUME MassWorkflowAssumption == Confirmations \in Nat

\* The statuses are free text; every text calculate does not know counts as "other".
Answers == {"", "OK", "NOK", "other"}
Progresses == {"", "In Progress", "Done", "other"}

\* The columns saveRecap writes.
InputType ==
  [pic |-> Answers, pks |-> Answers, nodin |-> Answers, profiling |-> Progresses,
   steps |-> Seq(Progresses), confirmations |-> [1..Confirmations -> Progresses]]
Inputs ==
  [pic : Answers, pks : Answers, nodin : Answers, profiling : Progresses,
   steps : Seq(Progresses), confirmations : [1..Confirmations -> Progresses]]

\* The columns recalculate writes; bottleneck is 0 for none, else a position in
\* CONFIRMATION_DEFS, or one past its end for 'Validation NOK'.
Derived ==
  [validationStatus : {"null", "OK", "NOK"},
   currentProcess : {"null", "Validation", "Profiling Preparation", "Process Steps", "Completed"},
   step : Nat,
   overallStatus : {"null", "Not Started", "In Progress", "Completed"},
   processProgress : 0..100,
   bottleneck : 0..(Confirmations + 1)]

ValidationComplete(in) == in.pic = "OK" /\ in.pks = "OK" /\ in.nodin \in {"", "OK"}

ValidationNok(in, stored) == "NOK" \in {in.pic, in.pks, in.nodin, stored}

RoundedRatio(a, b) == (2 * a + b) \div (2 * b)  \* Math.round(a / b)

OpenSteps(in) == {n \in DOMAIN in.steps : in.steps[n] # "Done"}
FirstOf(S) == CHOOSE n \in S : \A m \in S : n <= m

Stage(process, step, overall, progress) ==
  [process |-> process, step |-> step, overall |-> overall, progress |-> progress]

\* Mutant: the steps count in full, not for the last third.
StepStageUnweighted(in) ==
  LET total == Len(in.steps)
      done == total - Cardinality(OpenSteps(in))
  IN  IF total = 0 THEN Stage("Process Steps", 0, "In Progress", 67)
      ELSE IF OpenSteps(in) = {} THEN Stage("Completed", 0, "Completed", 100)
      ELSE Stage("Process Steps", FirstOf(OpenSteps(in)), "In Progress",
                 67 + RoundedRatio(100 * done, total))

\* The steps of a ticket whose profiling is done.
StepStage(in) ==
  LET total == Len(in.steps)
      done == total - Cardinality(OpenSteps(in))
  IN  IF total = 0 THEN Stage("Process Steps", 0, "In Progress", 67)
      ELSE IF OpenSteps(in) = {} THEN Stage("Completed", 0, "Completed", 100)
      ELSE Stage("Process Steps", FirstOf(OpenSteps(in)), "In Progress",
                 67 + RoundedRatio(33 * RoundedRatio(100 * done, total), 100))

StageOf(in, stored) ==
  CASE ValidationNok(in, stored) -> Stage("Validation", 0, "In Progress", 0)
    [] ~ValidationNok(in, stored) /\ ~ValidationComplete(in) ->
         Stage("Validation", 0,
               IF {in.pic, in.pks, in.nodin} = {""} THEN "Not Started" ELSE "In Progress", 0)
    [] ~ValidationNok(in, stored) /\ ValidationComplete(in) ->
         CASE in.profiling = "Done" -> StepStage(in)
           [] in.profiling = "In Progress" -> Stage("Profiling Preparation", 0, "In Progress", 33)
           [] in.profiling \notin {"Done", "In Progress"} ->
                Stage("Profiling Preparation", 0, "Not Started", 33)

\* detectBottleneck.
Bottleneck(in, stored) ==
  LET open == {n \in 1..Confirmations : in.confirmations[n] = "In Progress"}
  IN  IF ValidationNok(in, stored) THEN Confirmations + 1
      ELSE IF open = {} THEN 0 ELSE FirstOf(open)

\* What the three answers say of the validation.
ValidationOf(in, stored) ==
  IF ValidationNok(in, stored) THEN "NOK" ELSE IF ValidationComplete(in) THEN "OK" ELSE "null"

Calculate(in, stored) ==
  LET s == StageOf(in, stored)
  IN  [validationStatus |-> ValidationOf(in, stored),
       currentProcess |-> s.process,
       step |-> s.step,
       overallStatus |-> s.overall,
       processProgress |-> s.progress,
       bottleneck |-> Bottleneck(in, stored)]
=============================================================================
