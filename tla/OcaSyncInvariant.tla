-------------------------- MODULE OcaSyncInvariant --------------------------
(***************************************************************************)
(* The inductive invariant behind lastSync, for a deployment that writes   *)
(* RawOca only through get-list: OCA_SYNC_FALLBACK_ENABLED is 'false' and  *)
(* nobody calls trigger-oca-sync.                                          *)
(***************************************************************************)
EXTENDS OcaSync

NoCsv == ~FallbackEnabled /\ Operators = {}

\* No CSV job ever exists.
NoJobYet == (\A j \in Jobs : job[j].state = "unused") /\ queue = <<>>

\* The creation ranks are exactly 1..created: a page past the first ticket listed
\* so far is empty only when no older ticket is left.
RanksAreDense ==
  /\ \A t \in Tickets : born[t] <= created /\ (ver[t] > 0 <=> born[t] > 0)
  /\ \A k \in 1..created : \E t \in Tickets : born[t] = k

\* A run r that still may end as 'success' owes every ticket of its base: each one is
\* in the table (store), at hand, or on a page that is still to be asked for.  New
\* tickets push old ones to later pages, never to pages already read.
Owed(r, t, store) ==
  \/ r.fetchError \/ r.lost
  \/ store[t] >= r.base[t]
  \/ r.pc = "list" /\ Position(t) > r.from
  \/ r.pc = "compare" /\ r.got[t] >= r.base[t]
  \/ r.pc = "chunk" /\ t \in r.todo /\ r.got[t] >= r.base[t]
  \/ r.pc \in {"compare", "chunk"} /\ r.total - born[t] + 1 > r.from + PageSize

\* What holds of the locals of a run beside a table and a stamp: it invents nothing,
\* never enters the fallback, goes forward when it stores what is left to do, forgets
\* nothing, and will vouch for no less than the stamp already does.
RunOK(r, store, stamp) ==
  /\ AtLeast(ver, r.base) /\ AtLeast(ver, r.got) /\ r.total <= created
  /\ r.pc \notin {"report", "poll", "wait"} /\ ~r.fallbackUsed
  /\ r.pc = "chunk" => \A t \in r.todo : r.got[t] > store[t]
  /\ \A t \in Tickets : Owed(r, t, store)
  /\ r.pc # "idle" => AtLeast(r.base, stamp)

RunsOK == \A c \in Callers : RunOK(run[c], raw, lastSync)

\* What has been claimed.
ClaimsHold ==
  /\ AtLeast(raw, lastSync)
  /\ lastRun.status \in {"success", "fallback"} => AtLeast(raw, lastRun.base)

\* RawOca never runs ahead of OCA, and with the rest this is inductive.
IInv ==
  /\ TypeOK
  /\ MutualExclusion
  /\ NoJobYet
  /\ RanksAreDense
  /\ AtLeast(ver, raw)
  /\ RunsOK
  /\ ClaimsHold
=============================================================================
