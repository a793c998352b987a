------------------------------ MODULE TicketPaths ------------------------------
(***************************************************************************)
(* A ticket of OCA, whose custom fields agents change, and what the two    *)
(* paths last stored of it: the CSV report that OcaUpload imports, and the *)
(* get-list that DailyOcaTicketProcessor reads with the activities.        *)
(***************************************************************************)
EXTENDS TicketRules

CONSTANTS
  Bases,      \* base data that a ticket may have
  Creations,  \* the custom fields it may be created with
  Logs,       \* the changes that were made to it before
  Values,     \* what each custom field may be changed to
  MaxChanges  \* bound: changes that are made from then on

Entry(at, name, to) == [at |-> at, name |-> name, to |-> to]

\* The newest change comes first; fields that are saved together have one date, and a
\* field is changed once at a time.
IsLog(log) ==
  /\ log \in Seq({log[i] : i \in DOMAIN log})
  /\ \A i \in DOMAIN log : log[i].at \in Nat /\ log[i].name \in CustomFields
  /\ \A i, j \in DOMAIN log :
       i < j => log[j].at <= log[i].at /\ (log[j].name = log[i].name => log[j].at < log[i].at)

IsTicket(t) ==
  /\ DOMAIN t.base = BaseFields /\ t.base.assignee # None
  /\ t.base.ticketCreated \in Times /\ t.base.resolveTime \in Times \union {None}
  /\ t.base.dates \in {"year first", "day first"}
  /\ DOMAIN t.created = CustomFields
  /\ IsLog(t.log)

ASSUME TicketAssumption ==
  /\ None # "-" /\ Zone \in Int
  /\ \A b \in Bases, c \in Creations, log \in Logs : IsTicket([base |-> b, created |-> c, log |-> log])
  /\ DOMAIN Values \subseteq CustomFields

VARIABLES
  ticket,  \* at OCA
  changed, \* the number of its changes since the start, up to MaxChanges
  stored   \* the columns that each path stored in RawOca since the last change

vars == <<ticket, changed, stored>>

NothingStored == [csv |-> None, api |-> None]

Init ==
  /\ ticket \in [base : Bases, created : Creations, log : Logs]
  /\ changed = 0
  /\ stored = NothingStored

\* An agent changes a field, at the time of the last change or later.
Newest(log) == IF log = <<>> THEN 0 ELSE log[1].at
Change(name, to) ==
  /\ changed < MaxChanges
  /\ \E at \in {Newest(ticket.log), Newest(ticket.log) + 1} :
       /\ \A i \in Changes(ticket.log, name) : ticket.log[i].at < at
       /\ ticket' = [ticket EXCEPT !.log = <<Entry(at, name, to)>> \o @]
  /\ changed' = changed + 1
  /\ stored' = NothingStored

ImportCsv == stored' = [stored EXCEPT !.csv = CsvVerdict(ticket)] /\ UNCHANGED <<ticket, changed>>
ImportApi == stored' = [stored EXCEPT !.api = ApiVerdict(ticket)] /\ UNCHANGED <<ticket, changed>>

Next ==
  \/ ImportCsv \/ ImportApi
  \/ \E name \in DOMAIN Values : \E to \in Values[name] : Change(name, to)

Spec == Init /\ [][Next]_vars

-----------------------------------------------------------------------------
\* The columns that the CSV upload and the get-list processor store of a ticket differ
\* only where the ticket has one of the causes of that column: something the API does not
\* tell, or one of the differences between the paths that TicketRules lists.
PathsAgree ==
  stored.csv # None /\ stored.api # None =>
    \A column \in DOMAIN Explains :
      \/ stored.csv[column] = stored.api[column]
      \/ Cause(ticket) \intersect Explains[column] # {}
=============================================================================
