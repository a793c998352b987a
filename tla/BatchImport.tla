----------------------------- MODULE BatchImport -----------------------------
(***************************************************************************)
(* What the process method of the upload services (OCA, omnix, call, avaya *)
(* and CSAT) does to the tables: it reads a file row by row, and every     *)
(* BatchSize rows removes the duplicates of the batch and upserts what is  *)
(* left.  CSAT then recomputes DailyCsatStat for the dates of the file.    *)
(* The in-memory queue and the BullMQ worker each run one import at a time,*)
(* beside each other, into the same tables.                                *)
(*                                                                         *)
(* A row is the key it is stored under and a value for the columns that    *)
(* its upsert writes (all but the msisdn of RawCall).  The batch is        *)
(* deduplicated by slot: the key itself, but for Avaya, whose rows are     *)
(* stored by time and vector and deduplicated by day and vector.           *)
(* Rows without a key are skipped.  A key belongs to one table: CsatKeys   *)
(* are those of RawCsat.  An import that is re-run, because its job was or *)
(* because the file was uploaded again, is another import of the file.     *)
(***************************************************************************)
EXTENDS Integers, Sequences, FiniteSets

CONSTANTS
  Importers,  \* the queues: each has one import in flight
  Keys,       \* ticket numbers, kip ids, survey answers, ...
  CsatKeys,   \* createdAt + customer of RawCsat
  SlotOf,     \* the uniqueKey of a row with that key
  Values,
  Satisfied,  \* the values whose score is 4 or 5
  Dates,
  DateOf,     \* the date of a CSAT key
  Files,      \* the files that may be uploaded: sequences of rows
  BatchSize,  \* rows in a batch (1000 in the code)
  None        \* no value, no importer, no key

ASSUME BatchImportAssumption ==
  /\ CsatKeys \subseteq Keys /\ IsFiniteSet(CsatKeys)
  /\ Satisfied \subseteq Values
  /\ DateOf \in [CsatKeys -> Dates]
  /\ \A c \in CsatKeys, k \in Keys : SlotOf[k] = SlotOf[c] => k = c
  /\ Files \subseteq Seq([key : Keys \union {None}, val : Values])
  /\ BatchSize \in Nat \ {0}
  /\ None \notin Values \union Importers \union Keys

VARIABLES
  at,      \* where each import is
  file,    \* the file it imports
  saved,   \* how many rows of it have been saved
  table,   \* the raw tables: the value of each key
  figures, \* what the refresh of each import has read of RawCsat
  stats,   \* table DailyCsatStat
  writer,  \* history: the import whose batch last stored each key
  stale    \* history: dates that failed or overlapping imports may have left wrong

vars == <<at, file, saved, table, figures, stats, writer, stale>>

IsCsat(f) == \E n \in DOMAIN f : f[n].key \in CsatKeys

DatesOf(f, upTo) == {DateOf[f[n].key] : n \in {m \in 1..upTo : f[m].key \in CsatKeys}}

-----------------------------------------------------------------------------
Nothing == [d \in Dates |-> [surveys |-> 0, satisfied |-> 0]]

Init ==
  /\ at = [i \in Importers |-> "idle"]
  /\ file = [i \in Importers |-> <<>>]
  /\ saved = [i \in Importers |-> 0]
  /\ table = [k \in Keys |-> None]
  /\ figures = [i \in Importers |-> Nothing]
  /\ stats = Nothing
  /\ writer = [k \in Keys |-> None]
  /\ stale = {}

\* Mutant: the position in the previous file is kept.
BeginKeepsPosition(i, f) ==
  /\ at[i] \in {"idle", "done", "failed"}
  /\ at' = [at EXCEPT ![i] = "reading"]
  /\ file' = [file EXCEPT ![i] = f]
  /\ writer' = [k \in Keys |-> IF writer[k] = i THEN None ELSE writer[k]]
  /\ UNCHANGED <<saved, table, figures, stats, stale>>

Begin(i, f) ==
  /\ at[i] \in {"idle", "done", "failed"}
  /\ at' = [at EXCEPT ![i] = "reading"]
  /\ file' = [file EXCEPT ![i] = f]
  /\ saved' = [saved EXCEPT ![i] = 0]
  /\ writer' = [k \in Keys |-> IF writer[k] = i THEN None ELSE writer[k]]
  /\ UNCHANGED <<table, figures, stats, stale>>

\* uniqueRowsMap: of the rows of a slot among those numbered a+1..b of f, the last
\* one, or the first one for CSAT ("if has ... else set").
RowsOf(f, a, b, s) == {n \in (a + 1)..b : f[n].key # None /\ SlotOf[f[n].key] = s}

\* Mutant: CSAT's rule everywhere.
KeptFirst(f, a, b, s) ==
  CHOOSE n \in RowsOf(f, a, b, s) : \A m \in RowsOf(f, a, b, s) : m >= n

Kept(f, a, b, s) ==
  CHOOSE n \in RowsOf(f, a, b, s) :
    \A m \in RowsOf(f, a, b, s) : IF f[n].key \in CsatKeys THEN m >= n ELSE m <= n

\* The batch stores k: one of its rows with that key is the one kept of its slot.
Stores(f, a, b, k) ==
  RowsOf(f, a, b, SlotOf[k]) # {} /\ f[Kept(f, a, b, SlotOf[k])].key = k

BatchEnd(i) ==
  IF saved[i] + BatchSize <= Len(file[i]) THEN saved[i] + BatchSize ELSE Len(file[i])

SaveBatch(i) ==
  /\ at[i] = "reading"
  /\ saved[i] < Len(file[i])
  /\ LET stored == {k \in Keys : Stores(file[i], saved[i], BatchEnd(i), k)} IN
       /\ table' = [k \in Keys |->
                      IF k \in stored
                      THEN file[i][Kept(file[i], saved[i], BatchEnd(i), SlotOf[k])].val
                      ELSE table[k]]
       /\ writer' = [k \in Keys |-> IF k \in stored THEN i ELSE writer[k]]
  /\ saved' = [saved EXCEPT ![i] = BatchEnd(i)]
  /\ UNCHANGED <<at, file, figures, stats, stale>>

EndOfFile(i) ==
  /\ at[i] = "reading"
  /\ saved[i] = Len(file[i])
  /\ at' = [at EXCEPT ![i] = IF IsCsat(file[i]) THEN "summing" ELSE "done"]
  /\ UNCHANGED <<file, saved, table, figures, stats, writer, stale>>

Surveys(d) == {k \in CsatKeys : DateOf[k] = d /\ table[k] # None}
Aggregate(d) ==
  [surveys |-> Cardinality(Surveys(d)),
   satisfied |-> Cardinality({k \in Surveys(d) : table[k] \in Satisfied})]

\* refreshDailyStats is one INSERT ... SELECT ... ON CONFLICT over the dates of the
\* file, in two steps: it reads RawCsat as of its start, and stores the figures when it
\* gets hold of the rows of DailyCsatStat, for which another refresh may make it wait.
\* A refresh that nothing overlaps makes good what was left of its dates.
Overlapping(i) ==
  UNION {DatesOf(file[j], Len(file[j])) : j \in {l \in Importers \ {i} : at[l] = "storing"}}

\* Mutant: only the date of the first row is read and stored.
ReadFirstDate(i) ==
  /\ at[i] = "summing"
  /\ figures' = [figures EXCEPT ![i] =
                   [d \in Dates |-> IF d \in DatesOf(file[i], 1) THEN Aggregate(d) ELSE stats[d]]]
  /\ stale' = (stale \ DatesOf(file[i], Len(file[i])))
                \union (DatesOf(file[i], Len(file[i])) \intersect Overlapping(i))
  /\ at' = [at EXCEPT ![i] = "storing"]
  /\ UNCHANGED <<file, saved, table, stats, writer>>

ReadAggregates(i) ==
  /\ at[i] = "summing"
  /\ figures' = [figures EXCEPT ![i] = [d \in Dates |-> Aggregate(d)]]
  /\ stale' = (stale \ DatesOf(file[i], Len(file[i])))
                \union (DatesOf(file[i], Len(file[i])) \intersect Overlapping(i))
  /\ at' = [at EXCEPT ![i] = "storing"]
  /\ UNCHANGED <<file, saved, table, stats, writer>>

StoreStats(i) ==
  /\ at[i] = "storing"
  /\ stats' = [d \in Dates |->
                 IF d \in DatesOf(file[i], Len(file[i])) THEN figures[i][d] ELSE stats[d]]
  /\ figures' = [figures EXCEPT ![i] = Nothing]
  /\ at' = [at EXCEPT ![i] = "done"]
  /\ UNCHANGED <<file, saved, table, writer, stale>>

\* A missing file, a lookup or a batch the database refuses, a row that cannot be
\* parsed, a deadlock, a crash: what was saved stays, DailyCsatStat is not recomputed.
ImportFails(i) ==
  /\ at[i] \in {"reading", "summing", "storing"}
  /\ at' = [at EXCEPT ![i] = "failed"]
  /\ stale' = stale \union DatesOf(file[i], saved[i])
  /\ figures' = [figures EXCEPT ![i] = Nothing]
  /\ UNCHANGED <<file, saved, table, stats, writer>>

Next ==
  \E i \in Importers :
    \/ \E f \in Files : Begin(i, f)
    \/ SaveBatch(i)
    \/ EndOfFile(i)
    \/ ReadAggregates(i)
    \/ StoreStats(i)
    \/ ImportFails(i)

Spec == Init /\ [][Next]_vars
-----------------------------------------------------------------------------
(* Properties.                                                             *)

Figures == [surveys : Nat, satisfied : Nat]

\* Every variable has its type.
TypeOK ==
  /\ at \in [Importers -> {"idle", "reading", "summing", "storing", "done", "failed"}]
  /\ file \in [Importers -> Files \union {<<>>}]
  /\ saved \in [Importers -> Nat]
  /\ \A i \in Importers : saved[i] <= Len(file[i])
  /\ table \in [Keys -> Values \union {None}]
  /\ figures \in [Importers -> [Dates -> Figures]]
  /\ stats \in [Dates -> Figures]
  /\ writer \in [Keys -> Importers \union {None}]
  /\ stale \subseteq Dates

\* Batches are cut after every BatchSize rows.
Cut(c) == \E q \in 0..c : c = q * BatchSize

\* Row n of f shares slot and batch with a later row of another key: only Avaya's rows,
\* when one day and vector comes with several times in a batch.
Superseded(f, n) ==
  \E p \in (n + 1)..Len(f) :
    /\ f[p].key \notin {None, f[n].key} /\ SlotOf[f[p].key] = SlotOf[f[n].key]
    /\ \A c \in n..(p - 1) : ~Cut(c)

\* n is the last of the first upTo rows of f with key k that is not superseded.
IsLastRow(f, upTo, k, n) ==
  /\ n \in 1..upTo /\ f[n].key = k /\ ~Superseded(f, n)
  /\ \A m \in (n + 1)..upTo : f[m].key = k => Superseded(f, m)

\* "Overwrite ensures the latest row in the file wins": when the import that last
\* stored a key is over, the key holds the last row the file has for it, wherever
\* the batches were cut and whatever other imports did meanwhile; and every key of a
\* file that was imported is stored.  A row superseded in its batch does not count.
LastRowWinsFor(S) ==
  \A k \in S : \A i \in Importers :
    at[i] \in {"summing", "storing", "done"} =>
      /\ writer[k] = i =>
           \E n \in DOMAIN file[i] :
             IsLastRow(file[i], Len(file[i]), k, n) /\ table[k] = file[i][n].val
      /\ \A n \in DOMAIN file[i] :
           file[i][n].key = k /\ ~Superseded(file[i], n) => table[k] # None

LastRowWins == LastRowWinsFor(Keys \ CsatKeys)

\* "the LAST one in the list wins", of the CSAT rows.
LastCsatRowWins == LastRowWinsFor(CsatKeys)

InFlight(i, d) ==
  at[i] \in {"reading", "summing", "storing"} /\ d \in DatesOf(file[i], saved[i])

\* DailyCsatStat agrees with RawCsat at every date, also when imports of a date overlap,
\* but for the dates of an import in flight, those of a failed one, and those two
\* refreshes stored at the same time, where the older figures may have come last.  Of the
\* last two kinds the next refresh of the date that overlaps no other makes good.
StatsAgree ==
  \A d \in Dates :
    \/ stats[d] = Aggregate(d)
    \/ d \in stale
    \/ \E i \in Importers : InFlight(i, d)
=============================================================================
