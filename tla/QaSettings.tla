------------------------------- MODULE QaSettings -------------------------------
(***************************************************************************)
(* QaProductivityService and the agent table of LookupManagementService:   *)
(* the targets of the agents, saved as a whole page that replaces them,    *)
(* the lookup rows that a save keeps in step with them, and the job that   *)
(* then fills in the team leader and the tapper of tappings and tickets.   *)
(*                                                                         *)
(* A name is a sequence of words in lower case.  The positive peaks of a   *)
(* target are a set, and team stands for team leader and group.  A query   *)
(* without an order is answered in the order of the ids.                   *)
(***************************************************************************)
EXTENDS InFlight, SequencesExt

CONSTANTS
  Initial,  \* the first letter of every word; a word of one letter is its own
  Ranks,    \* the place of every word in the alphabet
  Pages,    \* bodies of saveSettings: [qcs, agents]
  Uploads,  \* CSV files of agents: sequences of [name, team]
  Work,     \* the tappings, then the tickets: sequences of [agent, tapper, team]
  SettingsRequests \* bound: as MaxRequests, for the settings

IsSequence(s) == s \in Seq(Range(s))
ASSUME QaSettingsAssumption ==
  /\ \A page \in Pages : IsSequence(page.qcs) /\ IsSequence(page.agents)
  /\ \A file \in Uploads : IsSequence(file)
  /\ DOMAIN Work = {"tapping", "ticket"}

VARIABLES
  targets,      \* table QaTargetSetting
  lookups,      \* table LookupAgent, the index is the id
  work,         \* tables QaFormTapping and QaTicket: [tapping, ticket]
  retroRunning  \* isRetroactiveUpdateRunning

settingsVars == <<targets, lookups, work, retroRunning>>

Room == started < SettingsRequests

SettingsInit ==
  /\ targets = <<>>
  /\ lookups = <<>>
  /\ work = Work
  /\ retroRunning = FALSE

-----------------------------------------------------------------------------
(* Lists.  SelectSeq and SortSeq take operators, which the proofs cannot.  *)

\* The places in S, by their weight, and as they come when it is the same.
UpTo(S, weight, i) ==
  {j \in S : weight[j] < weight[i] \/ (weight[j] = weight[i] /\ j <= i)}
Ordered(S, weight) ==
  [k \in 1..Cardinality(S) |-> CHOOSE i \in S : k = Cardinality(UpTo(S, weight, i))]

Rearranged(rows, order) == [k \in DOMAIN order |-> rows[order[k]]]
RowsAt(rows, S) == Rearranged(rows, Ordered(S, [i \in S |-> 0]))

-----------------------------------------------------------------------------
(* agent-matcher.                                                          *)

Abbreviates(v, w) == Initial[v] = v /\ Initial[w] = v
SmartMatch(m, n) ==
  /\ Len(m) = Len(n)
  /\ \A i \in DOMAIN m : m[i] = n[i] \/ Abbreviates(m[i], n[i]) \/ Abbreviates(n[i], m[i])

Ids(ls) == {i \in DOMAIN ls : ls[i].live}
IdsOf(ls, name) == {i \in Ids(ls) : ls[i].name = name}
NamesIn(ls) == {ls[i].name : i \in Ids(ls)}

\* Of a name the last row; else of the first name that matches.
FindAgentMatch(ls, name) ==
  LET similar == {i \in Ids(ls) : SmartMatch(name, ls[i].name)}
  IN  IF name \in NamesIn(ls) THEN Max(IdsOf(ls, name))
      ELSE IF similar = {} THEN None
      ELSE Max(IdsOf(ls, ls[Min(similar)].name))

Canonical(ls, name) ==
  LET i == FindAgentMatch(ls, name) IN IF i = None THEN name ELSE ls[i].name

-----------------------------------------------------------------------------
(* saveSettings.                                                           *)

Target(type, name, tapper, peaks) ==
  [type |-> type, name |-> name, tapper |-> tapper, peaks |-> peaks]
OfAgent(t) == t.type = "AGENT"

\* A name again is skipped.
QcTargets(qcs) ==
  LET names == RowsAt(qcs, {n \in DOMAIN qcs : \A m \in 1..(n - 1) : qcs[m] # qcs[n]})
  IN  [n \in DOMAIN names |-> Target("QC", names[n], "", {})]

\* Mutant: the rows of an agent are looked up by the name as it was typed.
ConflictsAsTyped(acc, name, ag) ==
  \E t \in Range(acc) : OfAgent(t) /\ t.name = ag.name /\ t.peaks \intersect ag.peaks # {}

\* Another tapper of the agent has a peak of this row.
Conflicts(acc, name, ag) ==
  \E t \in Range(acc) : OfAgent(t) /\ t.name = name /\ t.peaks \intersect ag.peaks # {}

\* What becomes of the lookup table for a row that is kept: the row of the same tapper,
\* else once per agent the row that was matched, else a new one.
WithLookup(ls, acc, name, ag) ==
  LET row == [live |-> TRUE, name |-> name, tapper |-> ag.tapper, team |-> ag.team,
              peaks |-> ag.peaks]
      same == {i \in IdsOf(ls, name) : ls[i].tapper = ag.tapper}
      matched == FindAgentMatch(ls, ag.name)
  IN  IF ag.tapper = "" /\ ag.team = "" THEN acc
      ELSE IF same # {} THEN [acc EXCEPT !.updates = Append(@, <<Min(same), row>>)]
      ELSE IF matched # None /\ name \notin acc.claimed
           THEN [acc EXCEPT !.updates = Append(@, <<matched, row>>), !.claimed = @ \union {name}]
      ELSE [acc EXCEPT !.creates = Append(@, row)]

\* The same agent and tapper again is skipped, and so is a conflicting row.
TakeAgent(ls, acc, ag) ==
  LET name == Canonical(ls, ag.name)
      pair == <<name, ag.tapper>>
      noted == [acc EXCEPT !.pairs = @ \union {pair}]
      target == Target("AGENT", name, ag.tapper, ag.peaks)
  IN  IF pair \in acc.pairs THEN acc
      ELSE IF Conflicts(acc.targets, name, ag) THEN noted
      ELSE WithLookup(ls, [noted EXCEPT !.targets = Append(@, target)], name, ag)

Plan(ls, page) ==
  LET taken[n \in 0..Len(page.agents)] ==
        IF n = 0
        THEN [targets |-> QcTargets(page.qcs), pairs |-> {}, claimed |-> {},
              updates |-> <<>>, creates |-> <<>>]
        ELSE TakeAgent(ls, taken[n - 1], page.agents[n])
      end == taken[Len(page.agents)]
  IN  [targets |-> end.targets, updates |-> end.updates, creates |-> end.creates,
       names |-> {Canonical(ls, ag.name) : ag \in Range(page.agents)}]

SaveSettings(r, page) ==
  /\ Room
  /\ Start(r, [Idle EXCEPT !.op = "save", !.at = "deleteTargets",
                           !.topic = {<<"save", "targets">>}, !.data = Plan(lookups, page)])
  /\ UNCHANGED settingsVars

DeleteTargets(r) ==
  /\ Is(r, "save", "deleteTargets")
  /\ targets' = <<>>
  /\ Goto(r, "createTargets", req[r].data)
  /\ UNCHANGED <<lookups, work, retroRunning>>

\* createMany is refused when a key is taken, [name, type, tapper].
TargetKey(t) == <<t.name, t.type, t.tapper>>
CreateTargets(r) ==
  /\ Is(r, "save", "createTargets")
  /\ LET new == req[r].data.targets IN
       IF \E t \in Range(targets), u \in Range(new) : TargetKey(t) = TargetKey(u)
       THEN Leave(r) /\ UNCHANGED targets
       ELSE targets' = targets \o new /\ Goto(r, "orphans", req[r].data)
  /\ UNCHANGED <<lookups, work, retroRunning>>

\* The rows of the agents that the page does not name.
DropOrphans(r) ==
  /\ Is(r, "save", "orphans")
  /\ LET named == req[r].data.names IN
       lookups' = [i \in DOMAIN lookups |->
                     IF named # {} /\ lookups[i].name \notin named
                     THEN [lookups[i] EXCEPT !.live = FALSE] ELSE lookups[i]]
  /\ Goto(r, "creates", req[r].data)
  /\ UNCHANGED <<targets, work, retroRunning>>

CreateLookups(r) ==
  /\ Is(r, "save", "creates")
  /\ lookups' = lookups \o req[r].data.creates
  /\ Goto(r, "updates", req[r].data.updates)
  /\ UNCHANGED <<targets, work, retroRunning>>

\* One by one; the first row that is gone ends the request with an error.
UpdateLookups(r) ==
  /\ Is(r, "save", "updates")
  /\ req[r].data # <<>>
  /\ LET i == Head(req[r].data)[1]
         row == Head(req[r].data)[2]
     IN  IF lookups[i].live
         THEN /\ lookups' = [lookups EXCEPT ![i] = [row EXCEPT !.name = lookups[i].name]]
              /\ Goto(r, "updates", Tail(req[r].data))
         ELSE Leave(r) /\ UNCHANGED lookups
  /\ UNCHANGED <<targets, work, retroRunning>>

\* The save is answered, and the job goes on by itself, unless one is running.
StartRetro(r) ==
  /\ Is(r, "save", "updates")
  /\ req[r].data = <<>>
  /\ retroRunning' = TRUE
  /\ IF retroRunning THEN Leave(r)
     ELSE /\ req' = [req EXCEPT ![r] = [Idle EXCEPT !.op = "retro", !.at = "lookups"]]
          /\ UNCHANGED <<started, raced>>
  /\ UNCHANGED <<targets, lookups, work>>

BulkDelete(names) ==
  /\ Room /\ Once
  /\ targets' = RowsAt(targets, {i \in DOMAIN targets :
                                  ~(OfAgent(targets[i]) /\ targets[i].name \in names)})
  /\ UNCHANGED <<lookups, work, retroRunning>>

-----------------------------------------------------------------------------
(* retroactivelyUpdateTickets.                                             *)

RetroLookups(r) ==
  /\ Is(r, "retro", "lookups")
  /\ Goto(r, "tapping", [ls |-> lookups, rows |-> None])
  /\ UNCHANGED settingsVars

\* The rows that lack one of the two, as they are when the table is read.
RetroRows(r) ==
  /\ req[r].op = "retro" /\ req[r].at \in {"tapping", "ticket"}
  /\ req[r].data.rows = None
  /\ LET table == work[req[r].at]
         lacking == {n \in DOMAIN table : table[n].tapper = "" \/ table[n].team = ""}
     IN  Goto(r, req[r].at, [req[r].data EXCEPT !.rows = [n \in lacking |-> table[n]]])
  /\ UNCHANGED settingsVars

\* What the lookup row says wins over what the row had.
Prefer(new, old) == IF new \in {None, ""} THEN old ELSE new
Filled(ls, row) ==
  LET i == FindAgentMatch(ls, row.agent)
  IN  IF i = None THEN row
      ELSE [row EXCEPT !.team = Prefer(ls[i].team, @), !.tapper = Prefer(ls[i].tapper, @)]

RetroUpdate(r) ==
  /\ req[r].op = "retro" /\ req[r].at \in {"tapping", "ticket"}
  /\ LET rows == req[r].data.rows IN
       /\ rows \notin {None, <<>>}
       /\ \E n \in DOMAIN rows :
            /\ work' = IF Filled(req[r].data.ls, rows[n]) = rows[n] THEN work
                       ELSE [work EXCEPT ![req[r].at][n] = Filled(req[r].data.ls, rows[n])]
            /\ Goto(r, req[r].at, [req[r].data EXCEPT
                                     !.rows = [m \in (DOMAIN rows) \ {n} |-> rows[m]]])
  /\ UNCHANGED <<targets, lookups, retroRunning>>

RetroNext(r) ==
  /\ req[r].op = "retro" /\ req[r].at \in {"tapping", "ticket"}
  /\ req[r].data.rows = <<>>
  /\ IF req[r].at = "tapping"
     THEN Goto(r, "ticket", [req[r].data EXCEPT !.rows = None]) /\ UNCHANGED retroRunning
     ELSE Leave(r) /\ retroRunning' = FALSE
  /\ UNCHANGED <<targets, lookups, work>>

\* Mutant: the flag is not reset when the job fails.
SettingsFailKeepsFlag(r) == Fail(r) /\ UNCHANGED settingsVars

\* finally: the flag is reset however the job ends.
SettingsFail(r) ==
  /\ Fail(r)
  /\ retroRunning' = (retroRunning /\ req[r].op # "retro")
  /\ UNCHANGED <<targets, lookups, work>>

-----------------------------------------------------------------------------
(* LookupManagementService, the agents; and what else writes to the rows.  *)

AddLookups(rows) ==
  /\ Room /\ Once
  /\ lookups' = lookups \o [i \in DOMAIN rows |->
                  [live |-> TRUE, name |-> rows[i].name, tapper |-> None, team |-> rows[i].team,
                   peaks |-> {}]]
  /\ UNCHANGED <<targets, work, retroRunning>>

\* createMany of the rows of a CSV file that say something; nothing is deduplicated.
BulkInsertLookupAgent(file) == AddLookups(file)

RenameLookup(i, name) ==
  /\ Room /\ Once
  /\ lookups[i].live
  /\ lookups' = [lookups EXCEPT ![i].name = name]
  /\ UNCHANGED <<targets, work, retroRunning>>

\* deleteLookupAgent of one row, deleteAllLookupAgent.
DeleteLookups(S) ==
  /\ Room /\ Once
  /\ lookups' = [i \in DOMAIN lookups |-> IF i \in S THEN [lookups[i] EXCEPT !.live = FALSE]
                                          ELSE lookups[i]]
  /\ UNCHANGED <<targets, work, retroRunning>>

-----------------------------------------------------------------------------
(* getSettings.                                                            *)

\* Mutant: the tapper of the lookup row goes first.
ShownTapperOfLookup(t, row) == IF row # None /\ row.tapper # "" THEN row.tapper ELSE t.tapper

ShownTapper(t, row) ==
  IF t.tapper # "" THEN t.tapper
  ELSE IF row = None \/ row.tapper = None THEN "" ELSE row.tapper

\* The lookup row of the target's tapper, else the agent's first.
MetadataOf(t) ==
  LET rows == IdsOf(lookups, t.name)
      same == {i \in rows : lookups[i].tapper = t.tapper}
  IN  IF rows = {} THEN None ELSE lookups[Min(IF same # {} THEN same ELSE rows)]

\* A row for every target, and one for every lookup row of an agent without a target.
ShownTarget(t) ==
  [name |-> t.name, tapper |-> ShownTapper(t, MetadataOf(t)), peaks |-> t.peaks,
   team |-> IF MetadataOf(t) = None THEN "" ELSE MetadataOf(t).team]
ShownLookup(row) ==
  [name |-> row.name, tapper |-> Prefer(row.tapper, ""), team |-> row.team, peaks |-> row.peaks]

AgentTargets == RowsAt(targets, {i \in DOMAIN targets : OfAgent(targets[i])})
NameBefore(m, n) ==
  \E i \in DOMAIN m \intersect DOMAIN n :
    Ranks[m[i]] < Ranks[n[i]] /\ \A j \in 1..(i - 1) : m[j] = n[j]

ByName(rows) ==
  Rearranged(rows, Ordered(DOMAIN rows,
    [i \in DOMAIN rows |-> Cardinality({j \in DOMAIN rows :
                                          NameBefore(rows[j].name, rows[i].name)})]))

Shown ==
  LET agents == AgentTargets
      targeted == {t.name : t \in Range(agents)}
      others == RowsAt(lookups, {i \in Ids(lookups) : lookups[i].name \notin targeted})
  IN  ByName([i \in DOMAIN agents |-> ShownTarget(agents[i])] \o
             [i \in DOMAIN others |-> ShownLookup(others[i])])

\* The page as it was shown, to be saved again.
ShownPage == [qcs |-> <<>>, agents |-> Shown]

-----------------------------------------------------------------------------
SettingsSteps(r) ==
  \/ \E page \in Pages : SaveSettings(r, page)
  \/ SaveSettings(r, ShownPage)
  \/ DeleteTargets(r) \/ CreateTargets(r) \/ DropOrphans(r) \/ CreateLookups(r)
  \/ UpdateLookups(r) \/ StartRetro(r)
  \/ RetroLookups(r) \/ RetroRows(r) \/ RetroUpdate(r) \/ RetroNext(r)
  \/ SettingsFail(r)

SettingsNext ==
  \/ \E r \in Requests : SettingsSteps(r)
  \/ \E t \in Range(targets) : OfAgent(t) /\ BulkDelete({t.name})
  \/ \E file \in Uploads : BulkInsertLookupAgent(file)
  \/ \E i \in DOMAIN lookups :
       \/ DeleteLookups({i})
       \/ \E file \in Uploads : RenameLookup(i, file[1].name)
  \/ Ids(lookups) # {} /\ DeleteLookups(DOMAIN lookups)

SettingsFlight == <<flight, settingsVars>>
SettingsSpec == FlightInit /\ SettingsInit /\ [][SettingsNext]_SettingsFlight

-----------------------------------------------------------------------------
(* Properties.                                                             *)

\* The flag is up exactly while a job runs: however jobs, saves and failures interleave,
\* no failure keeps the next job from starting, and no two jobs run at once.
SettingsTypeOK ==
  /\ \A t \in Range(targets) : t.type \in {"QC", "AGENT"}
  /\ DOMAIN work = {"tapping", "ticket"}
  /\ retroRunning = (\E r \in Requests : req[r].op = "retro")
  /\ \A r, s \in Requests : req[r].op = "retro" /\ req[s].op = "retro" => r = s

\* No peak of an agent is given to two rows of table, where two rows are of one agent when
\* the lookup table ls matches their names to one of its own.
OneTapperAPeak(ls, table) ==
  \A i, j \in DOMAIN table :
    /\ i # j /\ OfAgent(table[i]) /\ OfAgent(table[j])
    /\ Canonical(ls, table[i].name) = Canonical(ls, table[j].name)
    => table[i].peaks \intersect table[j].peaks = {}

\* "check for peak overlap with another row of same agent but different tapper": whatever
\* page is saved, wherever a save may start, no peak of an agent is planned for two tappers,
\* agents being told apart by the lookup table as the save finds it; and no peak has two
\* tappers under one name as it was stored, unless two saves overlapped.  Names that no row
\* of the table matches are agents of their own, also if one abbreviates the other, and a
\* name that the table comes to match later is stored as it was.
OnePeakOneTapper ==
  /\ Room =>
       \A page \in Pages \union {ShownPage} :
         OneTapperAPeak(lookups, Plan(lookups, page).targets)
  /\ {<<"save", "targets">>} \notin raced =>
       \A i, j \in DOMAIN targets :
         /\ i # j /\ OfAgent(targets[i]) /\ OfAgent(targets[j])
         /\ targets[i].name = targets[j].name
         => targets[i].peaks \intersect targets[j].peaks = {}

\* Saving the page as it is shown loses no target, of an agent that the tables know by
\* one name and whose targets all name their tapper, or whose only target it is, unless
\* two saves overlapped.
KnownNames == {t.name : t \in Range(AgentTargets)} \union NamesIn(lookups)
ByOneName(name) ==
  \A n \in KnownNames : Canonical(lookups, n) = Canonical(lookups, name) => n = name
Plain(t) ==
  /\ ByOneName(t.name)
  /\ \A u \in Range(AgentTargets) : u # t /\ u.name = t.name => "" \notin {t.tapper, u.tapper}
SavingBackKeepsTargets ==
  {<<"save", "targets">>} \notin raced =>
    \A t \in Range(AgentTargets) :
      Plain(t) =>
        \E u \in Range(Plan(lookups, ShownPage).targets) :
          /\ OfAgent(u) /\ u.name = t.name /\ u.peaks = t.peaks
          /\ t.tapper \in {u.tapper, ""}
=============================================================================
