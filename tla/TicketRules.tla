------------------------------ MODULE TicketRules ------------------------------
(***************************************************************************)
(* How an OCA ticket is classified before it is stored: by OcaUpload from  *)
(* a row of the CSV report, and by DailyOcaTicketProcessor from what the   *)
(* get-list and list-activity calls answer.  Functions of the ticket and   *)
(* of the lookup tables; OcaSync and ExcelQueue model when they run.       *)
(*                                                                         *)
(* A text that patterns are looked for in is the set of the patterns it    *)
(* has, each named for its regular expression; a text that is compared or  *)
(* looked up is a word.  Times are hours of one common year, WIB.          *)
(***************************************************************************)
EXTENDS Integers, Sequences, FiniteSetsExt

CONSTANTS
  None,      \* undefined
  Kip,       \* LookupKIP: compositeKey -> [product, isFcr, fcrNonMassal]
  Groups,    \* LookupAgent: namaAgent -> group
  Pareto,    \* AccountMapping: the companies of kategoriAccount P1
  Zone,      \* the hours that the server's clock is ahead of WIB (-7 in UTC)
  BillcoKip, \* the pairs of sub and detail category with a word of kipBillco
  AmKip      \* those with a word of kipAm

\* The first rule that applies.
Rule(when, then) == [when |-> when, then |-> then]
First(rules, otherwise) ==
  LET hits == {i \in DOMAIN rules : rules[i].when}
  IN  IF hits = {} THEN otherwise ELSE rules[Min(hits)].then

Has(text, patterns) == text \intersect patterns # {}

-----------------------------------------------------------------------------
(* rules.constant.ts, oca-ticket.utils.ts                                  *)

\* TICKET_RULES in their order, then the rule on live chats.
TicketRuleList(f) ==
  <<Rule(f.email = "ems", "EMS"),
    Rule(f.email = "rpa", "RPA"),
    Rule(f.subject = {"UAT HIA"}, "HIA"),
    Rule(f.department = {"Tiket Take Out"}, "Double"),
    Rule(f.sub = "leads", "Double"),
    Rule(Has(f.subject, {"ctp"}), "Double"),
    Rule(f.assignee = "Tiket Take Out", "Double"),
    Rule(Has(f.description, {"double ticket"}), "Double"),
    Rule(Has(f.description, {"spam"}) /\ ~Has(f.description, {"200 letters"}), "Double"),
    Rule(f.detail = "Out Of Topic", "Double"),
    Rule(f.description = {"RPA"}, "RPA"),
    Rule(f.channel = "livechat" /\ Has(f.description, {"Eskalasi BES"}), "Double")>>
ClassifyTicket(f) == First(TicketRuleList(f), "Valid")

Times == [month : 1..12, day : 1..31, hour : 0..23]
DaysBefore == <<0, 31, 59, 90, 120, 151, 181, 212, 243, 273, 304, 334>>
HourOf(time) == (DaysBefore[time.month] + time.day) * 24 + time.hour

\* safeParse: Date.parse where it can, which reads a day before a month as the month if
\* there is such a month, and a text without a zone in the server's; else parseExcelDate.
SafeParse(time, dates) ==
  CASE dates = "iso" -> HourOf(time)
    [] dates = "year first" -> HourOf(time) - Zone
    [] dates = "day first" ->
         IF time.day \in 1..12
         THEN HourOf([time EXCEPT !.month = time.day, !.day = time.month]) - Zone
         ELSE HourOf(time)

\* calculateSlaStatus: hours from creation to resolution; a ticket that is not resolved
\* is FALSE.
SlaLimit == [CONNECTIVITY |-> 3, SOLUTION |-> 6]
CalculateSlaStatus(product, f) ==
  /\ f.resolveTime # None /\ product \in DOMAIN SlaLimit
  /\ SafeParse(f.resolveTime, f.dates) - SafeParse(f.ticketCreated, f.dates) <= SlaLimit[product]

DetermineEskalasi(f) ==
  First(<<Rule(Has(f.remedy, {"INC"}), "NO"),
          Rule(Has(f.escalation, {"INC"}), "IT"),
          Rule(Has(f.escalation, {"EBO"}), "EBO"),
          Rule(Has(f.escalation, {"GTM"}), "GTM"),
          Rule(Has(f.escalation, {"Billco"}), "Billco")>>,
        "")

GroupOf(agent) == IF agent \in DOMAIN Groups THEN Groups[agent] ELSE {}
AgentOf(f) == IF f.assignee \notin {"", None} THEN f.assignee
              ELSE IF f.reporter \notin {"", None} THEN f.reporter ELSE ""

DetermineChannel(f) ==
  LET group == GroupOf(AgentOf(f))
      mail == f.channel \in {"email", "form"}
  IN  First(<<Rule(Has(group, {"cc"}) \/ Has(f.subject, {"#CCCorp"}), "callcenter"),
              Rule(Has(f.department, {"leads"}), "leads"),
              Rule(Has(f.department, {"survey"}), "survey"),
              Rule(mail /\ Has(f.department, {"^Live Chat", "TL QC"}), "email"),
              Rule(mail /\ Has(group, {"live chat"}), "livechat"),
              Rule(Has(f.department, {"live chat"}) \/ f.channel = "livechat", "livechat"),
              Rule(Has(f.department, {"GENERAL SERVICE FIX", "QC"}), "email"),
              Rule(Has(f.department, {"Messenger"}), "livechat"),
              Rule(Has(group, {"live chat"}), "livechat")>>,
            f.channel)

\* calculateOcaFcrRealisasi: to whom the ticket was escalated, None for a ticket that was
\* resolved at first contact.
IsMassal(msisdn) == msisdn.word = "massal" \/ msisdn.digits > 10
RealisasiRuleList(f, inSla) ==
  <<Rule(<<f.sub, f.detail>> \in BillcoKip, "Billco Segment"),
    Rule(<<f.sub, f.detail>> \in AmKip, "AM"),
    Rule(IsMassal(f.msisdn), "Massal"),
    Rule(Has(f.escalation \union f.description, {"INC0000"}), "IT"),
    Rule(Has(f.remedy, {"INC0000"}) \/ f.reason = "Eskalasi NO", "NO"),
    Rule(Has(f.escalation \union f.description, {"REQ0000"}), "AO"),
    Rule(Has(f.escalation, {"EBO"}), "EBO"),
    Rule(Has(f.escalation, {"AM"}) \/ Has(f.description, {"koordinasi am"})
         \/ f.reason = "Konfirmasi AM/AS", "AM"),
    Rule(Has(f.escalation, {"Billco"}) \/ f.reason \in {"Approval Billco", "Konfirmasi Billco"},
         "Billco Segment"),
    Rule(Has(f.escalation \union f.description, {"CM"}), "CM"),
    Rule(f.reason # "P45-Kirim ulang tagihan" /\ Has(f.escalation, {"partner"}), "Partner"),
    Rule(Has(f.escalation, {"owner"}) \/ Has(f.description, {"mas ari"}), "Product Owner"),
    Rule(f.reason = "Gangguan Aplikasi", "Gangguan Aplikasi"),
    Rule((f.inbound > 1 /\ ~inSla) \/ Has(f.description, {"origin ticket"}),
         "Konfirmasi Pelanggan")>>
EskalasiRealisasi(f, inSla) == First(RealisasiRuleList(f, inSla), None)

-----------------------------------------------------------------------------
(* What both paths make of the fields.                                     *)

CompositeKey(f) == <<f.category, f.sub, f.detail, IF f.iot \in {"", None} THEN "-" ELSE f.iot>>

\* The FCR columns of the lookup: isFcr for up to ten numbers, fcrNonMassal beyond.
FcrOfKip(f) ==
  IF f.msisdn.int = None \/ f.msisdn.int <= 10
  THEN \/ f.detail = "-" /\ f.iot = "-"
       \/ CompositeKey(f) \in DOMAIN Kip /\ Kip[CompositeKey(f)].isFcr
  ELSE CompositeKey(f) \in DOMAIN Kip /\ Kip[CompositeKey(f)].fcrNonMassal = "FCR"

KipProduct(f) == IF CompositeKey(f) \in DOMAIN Kip THEN Kip[CompositeKey(f)].product ELSE ""

\* Without a product in the lookup it follows from the agent's group.
DerivedProduct(f) ==
  IF KipProduct(f) # "" THEN KipProduct(f)
  ELSE IF Has(GroupOf(AgentOf(f)), {"TC"}) THEN "SOLUTION" ELSE "CONNECTIVITY"

Fcr(f, channel) ==
  /\ channel # "callcenter"
  /\ FcrOfKip(f) \/ (KipProduct(f) = "" /\ Has(GroupOf(AgentOf(f)), {"TC"}))

\* The columns of a row that are worked out; g has what determineChannel is given, timed
\* says whether the SLA is calculated.
Verdict(f, g, timed) ==
  LET status == ClassifyTicket(f)
      sla == timed /\ CalculateSlaStatus(DerivedProduct(f), f)
      channel == DetermineChannel(g)
      target == EskalasiRealisasi(f, sla)
  IN  [validationStatus |-> status, statusTiket |-> status = "Valid", channel |-> channel,
       product |-> DerivedProduct(f), sla |-> sla, fcr |-> Fcr(f, channel),
       isFcrRealisasi |-> target = None, eskalasiRealisasiTarget |-> target,
       eskalasi |-> DetermineEskalasi(f), isPareto |-> f.company \in Pareto,
       isVip |-> Has(f.subject, {"vip"})]

-----------------------------------------------------------------------------
(* The two paths.  A ticket is its base data, the custom fields it was     *)
(* created with, and the log of their changes, the newest first.  The base *)
(* data has how the report writes the two times, year or day first.        *)

BaseFields == {"email", "subject", "department", "channel", "assignee", "reporter",
               "description", "inbound", "ticketCreated", "resolveTime", "dates"}
CustomFields == {"category", "sub", "detail", "iot", "remedy", "escalation", "reason", "msisdn",
                 "company"}

Joined(f, g) ==
  [name \in (DOMAIN f) \union (DOMAIN g) |-> IF name \in DOMAIN f THEN f[name] ELSE g[name]]

\* A field in the report: the last change, or what the ticket was created with.
Changes(log, name) == {i \in DOMAIN log : log[i].name = name}
Current(t, name) ==
  IF Changes(t.log, name) = {} THEN t.created[name] ELSE t.log[Min(Changes(t.log, name))].to

\* The report as rows; determineChannel is not given the reporter.
CsvFields(t) == Joined(t.base, [name \in CustomFields |-> Current(t, name)])
CsvVerdict(t) ==
  Verdict(CsvFields(t), [CsvFields(t) EXCEPT !.reporter = None], TRUE)

Msisdn(word, int, digits) == [word |-> word, int |-> int, digits |-> digits]

\* extractLatestCustomFields starts from these, and does not know IOT.
Defaults == [category |-> "", sub |-> "", detail |-> "", remedy |-> {}, escalation |-> {},
             reason |-> "", msisdn |-> Msisdn("0", 0, 0), company |-> ""]

\* Mutant: the activities are replayed as they come, newest first.
FollowsAsListed(log, i, j) == j <= i

\* The activities are sorted from the oldest to the newest; equal ones stay as they come.
Follows(log, i, j) == log[j].at < log[i].at \/ (log[j].at = log[i].at /\ j <= i)

\* The fields once the activities in S were replayed, the last of them last.
LastOf(log, S) == CHOOSE i \in S : \A j \in S : Follows(log, i, j)
Replay(state, c) == IF c.name \in DOMAIN state THEN [state EXCEPT ![c.name] = c.to] ELSE state
ExtractLatestCustomFields(log) ==
  LET replayed[S \in SUBSET DOMAIN log] ==
        IF S = {} THEN Defaults
        ELSE Replay(replayed[S \ {LastOf(log, S)}], log[LastOf(log, S)])
  IN  replayed[DOMAIN log]

\* mapToDomainModel: no e-mail address, no inbound messages, somebody is the assignee, and
\* the times are the ISO strings of the API.
ApiFields(t) ==
  LET somebody == IF t.base.reporter # "" THEN t.base.reporter ELSE "-"
      base == [t.base EXCEPT !.email = "client_name", !.inbound = 0, !.dates = "iso",
                             !.assignee = IF t.base.assignee # "" THEN t.base.assignee
                                          ELSE somebody]
  IN  Joined(base, Joined(ExtractLatestCustomFields(t.log), [iot |-> None]))
ApiVerdict(t) == Verdict(ApiFields(t), ApiFields(t), ClassifyTicket(ApiFields(t)) = "Valid")

-----------------------------------------------------------------------------
(* Why the two may differ: something the get-list does not tell (the       *)
(* fields of the creation, e-mail address, inbound messages), or something *)
(* the two paths treat differently (IOT, a missing assignee, the SLA of a  *)
(* ticket that is not valid, times in the report written day first).       *)

MisreadDates(base) ==
  /\ base.dates = "day first" /\ base.resolveTime # None
  /\ base.resolveTime.day \in 1..12 \/ base.ticketCreated.day \in 1..12
  /\ <<base.resolveTime.month, base.resolveTime.day>>
       # <<base.ticketCreated.month, base.ticketCreated.day>>

Cause(t) ==
  (IF \E name \in DOMAIN Defaults : Changes(t.log, name) = {} /\ t.created[name] # Defaults[name]
   THEN {"custom field never changed"} ELSE {})
  \union (IF Current(t, "iot") # "" THEN {"IOT"} ELSE {})
  \union (IF t.base.email \in {"ems", "rpa"} THEN {"e-mail address"} ELSE {})
  \union (IF t.base.inbound > 1 THEN {"inbound messages"} ELSE {})
  \union (IF t.base.assignee = "" THEN {"no assignee"} ELSE {})
  \union (IF ClassifyTicket(CsvFields(t)) # "Valid" THEN {"not valid"} ELSE {})
  \union (IF MisreadDates(t.base) THEN {"day first"} ELSE {})

\* The causes that each column has.
Explains ==
  LET custom == {"custom field never changed"}
      product == custom \union {"IOT", "no assignee"}
  IN  [validationStatus |-> custom \union {"e-mail address", "no assignee"},
       statusTiket |-> custom \union {"e-mail address", "no assignee"},
       channel |-> {"no assignee"},
       product |-> product,
       sla |-> product \union {"not valid", "e-mail address", "day first"},
       fcr |-> product,
       isFcrRealisasi |-> custom \union {"inbound messages"},
       eskalasiRealisasiTarget |-> custom \union {"inbound messages"},
       eskalasi |-> custom,
       isPareto |-> custom,
       isVip |-> {}]
=============================================================================
