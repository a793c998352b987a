---------------------------- MODULE MCMassProcess ----------------------------
(* MassProcess with one ticket, two requests at a time and a few recaps:    *)
(* one that fails the validation, one that passes it, the last steps.       *)
EXTENDS MassProcess, TLC

CONSTANTS ani, budi

MCRecaps ==
  {("pic" :> "NOK"),
   ("pic" :> "OK" @@ "pks" :> "OK" @@ "agent" :> ani),
   ("profiling" :> "Done" @@ "steps" :> <<"Done", "Done">>),
   ("steps" :> <<"Done", "Done", "">> @@ "confirmations" :> <<"", "In Progress">>)}
=============================================================================
