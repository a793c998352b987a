------------------------------- MODULE OcaSync -------------------------------
(***************************************************************************)
(* The daily OCA ticket synchronisation: OcaTicketSchedulerService (one    *)
(* process-wide run at a time, page loop over get-list, rate-limited CSV   *)
(* fallback), DailyOcaTicketProcessor and OcaUpsertService (what a chunk   *)
(* stores), OcaReportSchedulerService (request, poll, enqueue) and the     *)
(* BullMQ 'excel-queue' worker that imports the CSV through                *)
(* OcaUploadService.                                                       *)
(*                                                                         *)
(* Data abstraction: a ticket is its updated_at, a version number; 0 says  *)
(* that there is no such ticket (at OCA) or no such row (in RawOca).  A    *)
(* timestamp kept by the program (lastSync) is represented by the versions *)
(* OCA held when the run that wrote it started, which is what the          *)
(* dashboard reads into it.                                                *)
(***************************************************************************)
EXTENDS Integers, Sequences, FiniteSets

CONSTANTS
  Callers,          \* the possible concurrent invocations of handleCron
  Manual,           \* those made with { force: true } (POST sync-daily-oca)
  Operators,        \* clients of POST trigger-oca-sync
  Tickets,          \* the tickets of the day
  Jobs,             \* BullMQ job ids; their number bounds the report jobs
  None,             \* "no job"
  PageSize,         \* tickets in a get-list page (100 in the code)
  ChunkSize,        \* tickets in a call of processTickets (10 in the code)
  BatchSize,        \* CSV rows in a call of saveBatch (1000 in the code)
  MaxVersion,       \* bound on the changes of a ticket at OCA
  CronGap,          \* FALLBACK_MIN_INTERVAL_MS in clock ticks
  ManualGap,        \* FALLBACK_MANUAL_MIN_INTERVAL_MS in clock ticks
  JobTimeout,       \* FALLBACK_JOB_TIMEOUT_MS in clock ticks
  FallbackEnabled,  \* OCA_SYNC_FALLBACK_ENABLED # 'false'
  MaxRestarts       \* bound on the restarts of the server process

ASSUME OcaSyncAssumption ==
  /\ Manual \subseteq Callers
  /\ Callers \intersect Operators = {}
  /\ None \notin Jobs
  /\ {PageSize, ChunkSize, BatchSize, MaxVersion, JobTimeout} \subseteq Nat \ {0}
  /\ {ManualGap, CronGap, MaxRestarts} \subseteq Nat
  /\ ManualGap <= CronGap
  /\ FallbackEnabled \in BOOLEAN

VARIABLES
  born,          \* at OCA: creation rank of each ticket, 0 when not created yet
  created,       \* at OCA: number of tickets created
  ver,           \* at OCA: updated_at of each ticket
  raw,           \* table RawOca: last_update of each ticket's row
  lastSync,      \* table OcaDailySync: what the stamp vouches for
  isRunning,     \* memory: the scheduler's isRunning
  lastRun,       \* memory: the scheduler's lastRun
  sinceFallback, \* memory: Date.now() - lastFallbackAt, saturated at CronGap
  run,           \* memory: the locals of each invocation
  job,           \* Redis: the jobs of 'excel-queue'
  queue,         \* Redis: ids of the waiting jobs, first in first out
  restarts       \* number of restarts so far

ocaVars  == <<born, created, ver>>
dbVars   == <<raw, lastSync>>
memVars  == <<isRunning, lastRun, sinceFallback>>
jobVars  == <<job, queue>>
vars == <<ocaVars, dbVars, memVars, run, jobVars, restarts>>

-----------------------------------------------------------------------------
(* Locals of an invocation, and results.                                   *)

Procs    == Callers \union Operators
Versions == [Tickets -> 0..MaxVersion]
Nothing  == [t \in Tickets |-> 0]
AtLeast(v, w) == \A t \in Tickets : v[t] >= w[t]

Steps == {"idle", "list", "compare", "chunk", "settle", "report", "poll",
          "wait", "settled", "stamped"}
Statuses    == {"success", "fallback", "partial", "failed"}

\* base is the state of OCA when the run started: it is read by no action
\* except to describe what lastSync and lastRun claim.
IdleRun ==
  [pc |-> "idle", from |-> 0, total |-> 0, got |-> Nothing, todo |-> {},
   anyPage |-> FALSE, fetchError |-> FALSE, lost |-> FALSE,
   fallbackUsed |-> FALSE, fallbackError |-> FALSE,
   rows |-> Nothing, job |-> None, waited |-> 0, base |-> Nothing]

NeverRun == [status |-> "never-run", base |-> Nothing]
NoJob    == [state |-> "unused", file |-> Nothing, left |-> {}]

At(c, pc) == run[c].pc = pc

\* The final classification of a run.  lost stands for
\* chunksFailed > 0 or ticketsFailed > 0.
GetListFailedCompletely(r) == r.fetchError /\ ~r.anyPage
\* Mutant: lost tickets are forgiven.
StatusOfForgivesLost(r) ==
  IF ~r.fetchError THEN "success"
  ELSE IF r.fallbackUsed /\ ~r.fallbackError THEN "fallback" ELSE "failed"

StatusOf(r) ==
  IF ~r.fetchError /\ ~r.lost THEN "success"
  ELSE IF r.fallbackUsed /\ ~r.fallbackError THEN "fallback"
  ELSE IF GetListFailedCompletely(r) THEN "failed"
  ELSE "partial"
Clean(r) == StatusOf(r) \in {"success", "fallback"}

FallbackAllowed(c) ==
  /\ FallbackEnabled
  /\ sinceFallback >= IF c \in Manual THEN ManualGap ELSE CronGap

\* Mutant: only a failed run is shown as failed.
UiStatusHidesPartial ==
  IF isRunning THEN "active" ELSE IF lastRun.status = "failed" THEN "failed" ELSE "completed"

\* GET schedule/status: what the dashboard shows.
UiStatus ==
  IF isRunning THEN "active"
  ELSE IF lastRun.status \in {"success", "fallback"} THEN "completed"
  ELSE "failed"

-----------------------------------------------------------------------------
Init ==
  /\ born = [t \in Tickets |-> 0]
  /\ created = 0
  /\ ver = Nothing
  /\ raw = Nothing
  /\ lastSync = Nothing
  /\ isRunning = FALSE
  /\ lastRun = NeverRun
  /\ sinceFallback = CronGap
  /\ run = [x \in Procs |-> IdleRun]
  /\ job = [j \in Jobs |-> NoJob]
  /\ queue = <<>>
  /\ restarts = 0

-----------------------------------------------------------------------------
(* OCA itself: tickets appear and change at any time.                      *)

CreateTicket(t) ==
  /\ born[t] = 0
  /\ born' = [born EXCEPT ![t] = created + 1]
  /\ created' = created + 1
  /\ ver' = [ver EXCEPT ![t] = 1]
  /\ UNCHANGED <<dbVars, memVars, run, jobVars, restarts>>

UpdateTicket(t) ==
  /\ ver[t] \in 1..(MaxVersion - 1)
  /\ ver' = [ver EXCEPT ![t] = @ + 1]
  /\ UNCHANGED <<born, created, dbVars, memVars, run, jobVars, restarts>>

\* get-list sorts by creation time, newest first.
Position(t) == created - born[t] + 1
PageSlice(from) ==
  {t \in Tickets : born[t] > 0 /\ from < Position(t) /\ Position(t) <= from + PageSize}

-----------------------------------------------------------------------------
(* handleCron: entering.  A call made while isRunning is set returns        *)
(* 'skipped': buildResult keeps lastRun, so nothing changes.               *)

\* Mutant: the isRunning test is missing.
StartUnguarded(c) ==
  /\ At(c, "idle")
  /\ isRunning' = TRUE
  /\ run' = [run EXCEPT ![c] = [IdleRun EXCEPT !.pc = "list", !.base = ver]]
  /\ UNCHANGED <<ocaVars, dbVars, lastRun, sinceFallback, jobVars, restarts>>

Start(c) ==
  /\ At(c, "idle")
  /\ ~isRunning
  /\ isRunning' = TRUE
  /\ run' = [run EXCEPT ![c] = [IdleRun EXCEPT !.pc = "list", !.base = ver]]
  /\ UNCHANGED <<ocaVars, dbVars, lastRun, sinceFallback, jobVars, restarts>>

-----------------------------------------------------------------------------
(* handleCron: the page loop.                                              *)

\* Mutant: the last page is taken to be reached one ticket early.
ContinueEarly(r) ==
  IF r.todo # {} THEN [r EXCEPT !.pc = "chunk"]
  ELSE IF r.from + PageSize + 1 >= r.total
       THEN [r EXCEPT !.pc = "settle", !.got = Nothing]
       ELSE [r EXCEPT !.pc = "list", !.from = r.from + PageSize, !.got = Nothing]

\* Leave the page when nothing of it is left to process.  get-list is taken to say how many
\* pages there are: a body without them ends the code's loop as the last page does.
Continue(r) ==
  IF r.todo # {} THEN [r EXCEPT !.pc = "chunk"]
  ELSE IF r.from + PageSize >= r.total
       THEN [r EXCEPT !.pc = "settle", !.got = Nothing]
       ELSE [r EXCEPT !.pc = "list", !.from = r.from + PageSize, !.got = Nothing]

ListPage(c) ==
  /\ At(c, "list")
  /\ LET page == PageSlice(run[c].from) IN
     run' = [run EXCEPT ![c] =
       IF page = {}
       THEN [@ EXCEPT !.pc = "settle", !.anyPage = TRUE]
       ELSE [@ EXCEPT !.pc = "compare", !.anyPage = TRUE, !.total = created,
                      !.got = [t \in Tickets |-> IF t \in page THEN ver[t] ELSE 0]]]
  /\ UNCHANGED <<ocaVars, dbVars, memVars, jobVars, restarts>>

\* An HTTP error, the 30 s timeout, an unrecognised body, or, while comparing,
\* a failed read of RawOca: the loop stops.
ListFails(c) ==
  /\ run[c].pc \in {"list", "compare"}
  /\ run' = [run EXCEPT ![c].pc = "settle", ![c].fetchError = TRUE, ![c].got = Nothing]
  /\ UNCHANGED <<ocaVars, dbVars, memVars, jobVars, restarts>>

\* Mutant: rows that exist are never refreshed.
NeedsProcessingNewOnly(r) == {t \in Tickets : r.got[t] > 0 /\ raw[t] = 0}

NeedsProcessing(r) ==
  {t \in Tickets : r.got[t] > 0 /\ (raw[t] = 0 \/ r.got[t] > raw[t])}

Compare(c) ==
  /\ At(c, "compare")
  /\ run' = [run EXCEPT ![c] = Continue([run[c] EXCEPT !.todo = NeedsProcessing(run[c])])]
  /\ UNCHANGED <<ocaVars, dbVars, memVars, jobVars, restarts>>

\* saveBatch: one INSERT ... ON CONFLICT DO UPDATE, whatever version the row had.
SaveBatch(S, v) == raw' = [t \in Tickets |-> IF t \in S THEN v[t] ELSE raw[t]]

ChunksOf(S, size) ==
  {B \in SUBSET S : B # {} /\ Cardinality(B) <= size
                    /\ (B = S \/ Cardinality(B) = size)}

\* processTickets returns: the tickets of ok had their activity fetched and are
\* stored, the others of the chunk count as failed.
ProcessChunk(c, chunk, ok) ==
  /\ At(c, "chunk")
  /\ chunk \in ChunksOf(run[c].todo, ChunkSize)
  /\ ok \subseteq chunk
  /\ SaveBatch(ok, run[c].got)
  /\ run' = [run EXCEPT ![c] =
                Continue([run[c] EXCEPT !.todo = run[c].todo \ chunk,
                                        !.lost = run[c].lost \/ ok # chunk])]
  /\ UNCHANGED <<ocaVars, lastSync, memVars, jobVars, restarts>>

\* processTickets throws (a lookup table or saveBatch failed): nothing of the
\* chunk is stored, the loop goes on.
ChunkThrows(c) ==
  /\ At(c, "chunk")
  /\ \E chunk \in ChunksOf(run[c].todo, ChunkSize) :
       run' = [run EXCEPT ![c] =
                 Continue([run[c] EXCEPT !.todo = run[c].todo \ chunk, !.lost = TRUE])]
  /\ UNCHANGED <<ocaVars, dbVars, memVars, jobVars, restarts>>

-----------------------------------------------------------------------------
(* handleCron: the CSV fallback.                                           *)

StartFallback(c) ==
  /\ At(c, "settle")
  /\ GetListFailedCompletely(run[c])
  /\ FallbackAllowed(c)
  /\ sinceFallback' = 0
  /\ run' = [run EXCEPT ![c].pc = "report", ![c].fallbackUsed = TRUE]
  /\ UNCHANGED <<ocaVars, dbVars, isRunning, lastRun, jobVars, restarts>>

NoFallback(c) ==
  /\ At(c, "settle")
  /\ ~(GetListFailedCompletely(run[c]) /\ FallbackAllowed(c))
  /\ run' = [run EXCEPT ![c].pc = "settled"]
  /\ UNCHANGED <<ocaVars, dbVars, memVars, jobVars, restarts>>

\* processOcaReport: OCA accepts the request and generates the file from what it
\* holds now.  An operator may ask for any range of dates; the ranges that
\* contain today are the ones that meet the daily run.
RequestReport(x) ==
  /\ At(x, IF x \in Callers THEN "report" ELSE "idle")
  /\ run' = [run EXCEPT ![x].pc = "poll", ![x].rows = ver]
  /\ UNCHANGED <<ocaVars, dbVars, memVars, jobVars, restarts>>

\* The file is ready: download it and add the job.
ReportReady(x) ==
  /\ At(x, "poll")
  /\ \E j \in Jobs :
       /\ job[j].state = "unused"
       /\ job' = [job EXCEPT ![j] = [state |-> "waiting", file |-> run[x].rows,
                                     left |-> {t \in Tickets : run[x].rows[t] > 0}]]
       /\ queue' = Append(queue, j)
       /\ run' = [run EXCEPT ![x] =
            IF x \in Callers
            THEN [@ EXCEPT !.pc = "wait", !.job = j, !.rows = Nothing]
            ELSE IdleRun]
  /\ UNCHANGED <<ocaVars, dbVars, memVars, restarts>>

\* Any error of the request, of the poll (20 attempts) or of the download.
ReportFails(x) ==
  /\ run[x].pc \in {"report", "poll"}
  /\ run' = [run EXCEPT ![x] =
       IF x \in Callers
       THEN [@ EXCEPT !.pc = "settled", !.fallbackError = TRUE, !.rows = Nothing]
       ELSE IdleRun]
  /\ UNCHANGED <<ocaVars, dbVars, memVars, jobVars, restarts>>

\* Mutant: any job that has not failed counts as imported.
WaitSeesQueued(c) ==
  /\ At(c, "wait")
  /\ job[run[c].job].state # "failed"
  /\ run' = [run EXCEPT ![c].pc = "settled"]
  /\ UNCHANGED <<ocaVars, dbVars, memVars, jobVars, restarts>>

\* waitForExcelJob.
WaitSeesCompleted(c) ==
  /\ At(c, "wait")
  /\ run[c].waited < JobTimeout
  /\ job[run[c].job].state = "completed"
  /\ run' = [run EXCEPT ![c].pc = "settled"]
  /\ UNCHANGED <<ocaVars, dbVars, memVars, jobVars, restarts>>

WaitFails(c) ==
  /\ At(c, "wait")
  /\ \/ run[c].waited >= JobTimeout
     \/ job[run[c].job].state \in {"failed", "removed"}
  /\ run' = [run EXCEPT ![c].pc = "settled", ![c].fallbackError = TRUE]
  /\ UNCHANGED <<ocaVars, dbVars, memVars, jobVars, restarts>>

-----------------------------------------------------------------------------
(* handleCron: the outcome.                                                *)

\* Mutant: every run stamps.
StampAlways(c) ==
  /\ At(c, "settled")
  /\ lastSync' = run[c].base
  /\ run' = [run EXCEPT ![c].pc = "stamped"]
  /\ UNCHANGED <<ocaVars, raw, memVars, jobVars, restarts>>

Stamp(c) ==
  /\ At(c, "settled")
  /\ Clean(run[c])
  /\ lastSync' = run[c].base
  /\ run' = [run EXCEPT ![c].pc = "stamped"]
  /\ UNCHANGED <<ocaVars, raw, memVars, jobVars, restarts>>

\* The upsert of OcaDailySync failed: logged, the status stays.
StampFails(c) ==
  /\ At(c, "settled")
  /\ Clean(run[c])
  /\ run' = [run EXCEPT ![c].pc = "stamped"]
  /\ UNCHANGED <<ocaVars, dbVars, memVars, jobVars, restarts>>

\* Mutant: the flag is cleared at the end of the try block, not in a finally.
FinishWithoutFinally(c) ==
  /\ At(c, "stamped") \/ (At(c, "settled") /\ ~Clean(run[c]))
  /\ lastRun' = [status |-> StatusOf(run[c]), base |-> run[c].base]
  /\ isRunning' = ~Clean(run[c])
  /\ run' = [run EXCEPT ![c] = IdleRun]
  /\ UNCHANGED <<ocaVars, dbVars, sinceFallback, jobVars, restarts>>

Finish(c) ==
  /\ At(c, "stamped") \/ (At(c, "settled") /\ ~Clean(run[c]))
  /\ lastRun' = [status |-> StatusOf(run[c]), base |-> run[c].base]
  /\ isRunning' = FALSE
  /\ run' = [run EXCEPT ![c] = IdleRun]
  /\ UNCHANGED <<ocaVars, dbVars, sinceFallback, jobVars, restarts>>

-----------------------------------------------------------------------------
(* The BullMQ worker (concurrency 1): ExcelProcessor and OcaUploadService. *)

JobStart ==
  /\ queue # <<>>
  /\ \A j \in Jobs : job[j].state # "active"
  /\ job' = [job EXCEPT ![Head(queue)].state = "active"]
  /\ queue' = Tail(queue)
  /\ UNCHANGED <<ocaVars, dbVars, memVars, run, restarts>>

JobSave(j) ==
  /\ job[j].state = "active"
  /\ \E batch \in ChunksOf(job[j].left, BatchSize) :
       /\ SaveBatch(batch, job[j].file)
       /\ job' = [job EXCEPT ![j].left = @ \ batch]
  /\ UNCHANGED <<ocaVars, lastSync, memVars, run, queue, restarts>>

JobComplete(j) ==
  /\ job[j].state = "active"
  /\ job[j].left = {}
  /\ job' = [job EXCEPT ![j].state = "completed"]
  /\ UNCHANGED <<ocaVars, dbVars, memVars, run, queue, restarts>>

\* A row that cannot be parsed or a batch that cannot be saved; the batches
\* saved before it stay.
JobFails(j) ==
  /\ job[j].state = "active"
  /\ job' = [job EXCEPT ![j].state = "failed"]
  /\ UNCHANGED <<ocaVars, dbVars, memVars, run, queue, restarts>>

\* removeOnComplete / removeOnFail.
JobRemoved(j) ==
  /\ job[j].state \in {"completed", "failed"}
  /\ job' = [job EXCEPT ![j].state = "removed"]
  /\ UNCHANGED <<ocaVars, dbVars, memVars, run, queue, restarts>>

-----------------------------------------------------------------------------
(* Time and restarts.                                                      *)

Waiting(c) == At(c, "wait") /\ run[c].waited < JobTimeout

Older(since) == IF since < CronGap THEN since + 1 ELSE since

Tick ==
  /\ sinceFallback < CronGap \/ \E c \in Callers : Waiting(c)
  /\ sinceFallback' = Older(sinceFallback)
  /\ run' = [x \in Procs |-> IF x \in Callers /\ Waiting(x)
                             THEN [run[x] EXCEPT !.waited = run[x].waited + 1] ELSE run[x]]
  /\ UNCHANGED <<ocaVars, dbVars, isRunning, lastRun, jobVars, restarts>>

\* The server process stops and starts again: its memory is lost.  BullMQ puts
\* the job that was active back in the queue, from its first row, or fails it.
Restart ==
  /\ restarts < MaxRestarts
  /\ restarts' = restarts + 1
  /\ isRunning' = FALSE
  /\ lastRun' = NeverRun
  /\ sinceFallback' = CronGap
  /\ run' = [x \in Procs |-> IdleRun]
  /\ \/ /\ \A j \in Jobs : job[j].state # "active"
        /\ UNCHANGED jobVars
     \/ \E j \in Jobs :
          /\ job[j].state = "active"
          /\ \/ /\ job' = [job EXCEPT ![j].state = "waiting",
                                      ![j].left = {t \in Tickets : job[j].file[t] > 0}]
                /\ queue' = <<j>> \o queue
             \/ /\ job' = [job EXCEPT ![j].state = "failed"]
                /\ UNCHANGED queue
  /\ UNCHANGED <<ocaVars, dbVars>>

-----------------------------------------------------------------------------
ReportStep(x) == RequestReport(x) \/ ReportReady(x) \/ ReportFails(x)

ProcessSome(c) ==
  \E chunk \in SUBSET Tickets : \E ok \in SUBSET chunk : ProcessChunk(c, chunk, ok)

\* The steps of a run outside the calls of processOcaReport.
RunStep(c) ==
  \/ ListPage(c) \/ ListFails(c) \/ Compare(c)
  \/ ProcessSome(c) \/ ChunkThrows(c)
  \/ StartFallback(c) \/ NoFallback(c)
  \/ WaitSeesCompleted(c) \/ WaitFails(c)
  \/ Stamp(c) \/ StampFails(c) \/ Finish(c)

WorkerStep(j) == JobSave(j) \/ JobComplete(j) \/ JobFails(j)

Next ==
  \/ \E t \in Tickets : CreateTicket(t) \/ UpdateTicket(t)
  \/ \E c \in Callers : Start(c) \/ RunStep(c)
  \/ \E x \in Procs : ReportStep(x)
  \/ JobStart
  \/ \E j \in Jobs : WorkerStep(j) \/ JobRemoved(j)
  \/ Tick
  \/ Restart

Spec == Init /\ [][Next]_vars

\* Every await but those of processOcaReport ends (get-list and list-activity
\* time out after 30 s, the database answers or fails), the clock advances and
\* the worker works.
OwnFairness ==
  /\ \A c \in Callers : WF_vars(RunStep(c))
  /\ WF_vars(Tick)
  /\ WF_vars(JobStart)
  /\ \A j \in Jobs : WF_vars(WorkerStep(j))

\* The calls of processOcaReport have no timeout: that they end is an
\* assumption on OCA.
ReportFairness == \A c \in Callers : WF_vars(ReportStep(c))

FairSpec == Spec /\ OwnFairness /\ ReportFairness

\* The cron keeps firing, and OCA and the database are not broken for ever: each
\* request that is repeated for ever succeeds sometimes.
Healthy ==
  /\ \A c \in Callers \ Manual : WF_vars(Start(c))
  /\ \A from \in 0..(PageSize * Cardinality(Tickets)) :
       /\ SF_vars(\E c \in Callers : run[c].from = from /\ ListPage(c))
       /\ SF_vars(\E c \in Callers : run[c].from = from /\ Compare(c))
  /\ \A t \in Tickets :
       SF_vars(\E c \in Callers : \E chunk \in SUBSET Tickets :
                 t \in chunk /\ ProcessChunk(c, chunk, chunk))

-----------------------------------------------------------------------------
(* Properties.                                                             *)

RunRecord ==
  [pc : Steps, from : Nat, total : Nat, got : Versions, todo : SUBSET Tickets,
   anyPage : BOOLEAN, fetchError : BOOLEAN, lost : BOOLEAN,
   fallbackUsed : BOOLEAN, fallbackError : BOOLEAN,
   rows : Versions, job : Jobs \union {None}, waited : 0..JobTimeout, base : Versions]

JobRecord ==
  [state : {"unused", "waiting", "active", "completed", "failed", "removed"},
   file : Versions, left : SUBSET Tickets]

ResultRecord ==
  [status : Statuses \union {"never-run"}, base : Versions]

\* Every variable has its type.
TypeOK ==
  /\ born \in [Tickets -> Nat]
  /\ created \in Nat
  /\ ver \in Versions
  /\ raw \in Versions
  /\ lastSync \in Versions
  /\ isRunning \in BOOLEAN
  /\ lastRun \in ResultRecord
  /\ sinceFallback \in 0..CronGap
  /\ run \in [Procs -> RunRecord]
  /\ job \in [Jobs -> JobRecord]
  /\ queue \in Seq(Jobs)
  /\ restarts \in 0..MaxRestarts

\* A cron tick and a manual click never overlap ("Mencegah run cron dan trigger
\* manual saling tumpang tindih"): at most one invocation is past the isRunning
\* test, and the flag is set exactly while there is one, through every error path
\* and across restarts.
MutualExclusion ==
  /\ \A c, d \in Callers : ~At(c, "idle") /\ ~At(d, "idle") => c = d
  /\ isRunning <=> \E c \in Callers : ~At(c, "idle")

\* lastSync does not lie: whatever OCA held when the run that wrote it started is
\* in RawOca, at that version or a later one, although tickets were created and
\* pages shifted while the run was paging, and some tickets and chunks failed.
VouchedIsStored == AtLeast(raw, lastSync)

\* Without CSV jobs the synchronisation implements the ledger: RawOca never goes
\* back to an older version of a ticket and never runs ahead of OCA, and lastSync
\* only moves forward, to versions already stored.
Ledger == INSTANCE SyncLedger
            WITH Items <- Tickets, source <- ver, stored <- raw, vouched <- lastSync
ImplementsLedger == Ledger!LedgerSpec

\* The dashboard's green "Sync Complete" is earned: when GET schedule/status
\* answers 'completed', everything OCA held when that run started is stored.
ToastIsHonest == UiStatus = "completed" => AtLeast(raw, lastRun.base)

\* A run that ends as 'fallback' saw its own CSV job imported to the last row, and
\* the file was generated after the run started, whatever timeouts, failures and
\* removals the job met ("kalau hanya diantrekan, kita akan mengklaim sukses").
FallbackIsImported ==
  \A c \in Callers :
    run[c].pc \in {"settled", "stamped"} /\ StatusOf(run[c]) = "fallback" =>
      LET j == run[c].job IN
      /\ j \in Jobs
      /\ job[j].state \in {"completed", "removed"}
      /\ job[j].left = {}
      /\ AtLeast(job[j].file, run[c].base)

\* A run always ends and gives the flag back: a cron run that finds the flag set is
\* only late, the synchronisation never stops for good.
RunEnds == isRunning ~> ~isRunning

\* Tickets that failed, chunks that threw, runs that stopped half-way and rows that a
\* late CSV job overwrote with older ones are all repaired by later runs: once OCA
\* stops changing, and if it is healthy, RawOca becomes equal to it and stays so.
EventuallyFresh == Healthy => <>[](raw = ver)
=============================================================================
