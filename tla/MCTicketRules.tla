----------------------------- MODULE MCTicketRules -----------------------------
(***************************************************************************)
(* A small instance of TicketPaths: lookup tables of a few rows, and the   *)
(* tickets that tell the rules apart.                                      *)
(***************************************************************************)
EXTENDS TicketPaths, TLC

MCKip == (<<"c", "s", "d", "-">> :> [product |-> "SOLUTION", isFcr |-> TRUE, fcrNonMassal |-> "NON"])
      @@ (<<"c", "s", "Out Of Topic", "-">> :> [product |-> "", isFcr |-> FALSE, fcrNonMassal |-> "FCR"])
MCGroups == ("tc" :> {"TC"}) @@ ("chat" :> {"live chat", "cc"})
MCZone == -7
MCBillcoKip == {<<"s", "adjustment">>}
MCAmKip == {<<"leads", "d">>}

Ten == Msisdn("10", 10, 10)
Many == Msisdn("10-12", 10, 1012)
Massal == Msisdn("massal", None, 0)

\* What a ticket is created with: nothing, or one thing.
Blank == Defaults @@ [iot |-> ""]
MCCreations ==
  {Blank} \union {[Blank EXCEPT !.detail = "-", !.iot = i] : i \in {"", "-"}}
  \union {[Blank EXCEPT !.escalation = {"INC", "INC0000"}], [Blank EXCEPT !.company = "p1"],
          [Blank EXCEPT !.msisdn = Many]}

\* A ticket that is new, and one that was put into its categories.
MCLogs == {<<>>, <<Entry(2, "detail", "d"), Entry(1, "sub", "s"), Entry(1, "category", "c")>>}
Time(d, h) == [month |-> 4, day |-> d, hour |-> h]
Base(e, p, a, x, n, from, to, dates) ==
  [email |-> e, subject |-> {"vip"}, department |-> p, channel |-> "email", assignee |-> a,
   reporter |-> "chat", description |-> x, inbound |-> n,
   ticketCreated |-> from, resolveTime |-> to, dates |-> dates]

\* Tickets that are not resolved, or within six hours of a day; and plain ones resolved within
\* five hours over midnight, where the first day could be a month and the second could not.
MCBases ==
  {Base(e, p, a, x, n, Time(12, 8), to, "day first") :
     e \in {"ems", "plain"}, p \in {{}, {"QC"}}, a \in {"", "tc", "other"},
     x \in {{}, {"spam"}}, n \in {0, 2}, to \in {None, Time(12, 14)}}
  \union
  {Base("plain", p, a, {}, 0, Time(12, 22), Time(13, 3), dates) :
     p \in {{}, {"QC"}}, a \in {"", "tc", "other"}, dates \in {"year first", "day first"}}

MCValues == [sub |-> {"leads"}, detail |-> {"Out Of Topic", "adjustment"},
           escalation |-> {{"EBO"}}, msisdn |-> {Ten, Massal, Msisdn("11", 11, 11)},
           iot |-> {"m2m"}]
=============================================================================
