-------------------------------- MODULE MCPortal --------------------------------
(***************************************************************************)
(* A small instance of Portal: two requests in flight.                     *)
(***************************************************************************)
EXTENDS Portal

CONSTANTS r1, r2

\* The forms: two of the fields that guessRefNumber knows, of every kind that matters to
\* the properties; the submissions of one record with its number and one without; a rekap
\* with a row twice and one that takes its number from elsewhere.
FormWords == {"T", "U", "7"}
Def(type, required, active, options, default) ==
  [type |-> type, required |-> required, active |-> active, options |-> options,
   default |-> default, fits |-> FormWords, columns |-> {}]
MCSeed == ("ticketId" :> Def("TEXT", FALSE, TRUE, {}, "")) @@
          ("projectId" :> Def("TEXT", FALSE, TRUE, {}, ""))
MCDefinitions == {Def("TEXT", TRUE, TRUE, {}, ""), Def("SELECT", FALSE, TRUE, {"T"}, "T"),
                  Def("TEXT", FALSE, FALSE, {}, "")}
MCSubmissions ==
  {[values |-> ("ticketId" :> Padded("T")) @@ ("projectId" :> Text("U")), ref |-> None],
   [values |-> ("projectId" :> Text("U")), ref |-> None]}
MCPatches ==
  {[values |-> ("ticketId" :> Text("U")), ref |-> None, status |-> None],
   [values |-> ("projectId" :> Text("")), ref |-> None, status |-> None],
   [values |-> None, ref |-> "R", status |-> "pending"],
   [values |-> ("projectId" :> Text("")), ref |-> None, status |-> "generated"]}
MCRekaps ==
  {<<[values |-> ("ticketId" :> Text("T")), at |-> Given("s")],
     [values |-> ("projectId" :> Text("U")), at |-> Given("s")],
     [values |-> ("ticketId" :> Text("T")), at |-> Given("s")]>>}

\* The settings: an agent, and how its name is abbreviated.
MCInitial == ("k" :> "k") @@ ("kris" :> "k") @@ ("budi" :> "b")
MCRanks == ("budi" :> 1) @@ ("k" :> 2) @@ ("kris" :> 3)
Short == <<"k", "budi">>
Long == <<"kris", "budi">>
Agent(name, tapper, team, peaks) ==
  [name |-> name, tapper |-> tapper, team |-> team, peaks |-> peaks]
MCPages ==
  {[qcs |-> <<<<"t">>, <<"t">>>>,
    agents |-> <<Agent(Long, "t", "", {1}), Agent(Short, "u", "v", {2})>>],
   [qcs |-> <<>>,
    agents |-> <<Agent(Short, "w", "", {1, 2}), Agent(Long, "", "v", {1}),
                 Agent(Long, "w", "", {3})>>]}
MCUploads == {<<[name |-> Long, team |-> "v"], [name |-> Short, team |-> ""]>>}
MCWork == [tapping |-> <<[agent |-> Short, tapper |-> "", team |-> ""]>>,
           ticket |-> <<[agent |-> Long, tapper |-> "u", team |-> ""]>>]
=============================================================================
