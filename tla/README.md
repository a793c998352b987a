# A TLA+ model of the CES executive dashboard backend

This directory models the parts of the NestJS backend in `src/` where steps of
several actors meet: the OCA ticket synchronisation, the two queues of Excel jobs,
the imports they run and the rules they classify tickets by, the Mass Process tickets,
the QA tickets with their reconciliations, and the portal's form records, news and QA
settings. Each module is translated from the TypeScript source; `PROJECT.json` maps every
definition to the lines it stands for. TLC checks small instances, TLAPS proves the main results for every value of
the constants.

    tlc -workers 2 -config MCOcaSync_getlist.cfg MCOcaSync.tla     # one run
    tlapm OcaSyncProofs.tla                                        # one proof module

## 1. Inventory

| Component | State it keeps | Operations | What is hard |
|---|---|---|---|
| **OCA daily sync** (`worker/scheduler`, `worker/processor`, `worker/repository`, `scheduler/scheduler.controller.ts`) | `isRunning`, `lastRun`, `lastFallbackAt` in memory; tables `RawOca`, `OcaDailySync` | cron every 15 min, `POST sync-daily-oca`, `POST trigger-oca-sync`, `GET schedule/status` | two callers; pages that shift while they are read; tickets, chunks and pages that fail; a CSV fallback that is waited for and may come too late; restarts |
| **Excel job queues** (`upload/`, `worker/excel.processor.ts`, BullMQ) | a `Map` and an array in memory; jobs in Redis; files in `./uploads` | upload, processing loop, worker, `GET upload/status/:id`, expiry | an upload racing the end of the loop; stalled jobs run twice; a restart that forgets half of the state |
| **Excel imports** (`worker/services/*-upload.service.ts`) | the raw tables, `DailyCsatStat` | row loop, batches with deduplication, upserts, daily refresh | duplicates across and inside batches; failures between batches; two queues importing at once |
| **Mass Process** (`modules/mass-process`) | `MassTicket`, its two histories, daily activity | upload, recap, reassignment, recalculation, marking as worked | read, calculate, write without a transaction; requests that interleave or die between two writes |
| **QA tickets** (`modules/qa/qa.service.ts`) | `QaTicket`, `QaFormTapping` | upload, sync from OCA, tapping, commitments | check then insert with no unique key; commitments without a guard on their state |
| **QA reconciliation** (`modules/qa-reconciliation`) | `QaReconciliation`, scores of the tapping | propose, approve, reject, reply | two pending requests; verdicts that follow each other; lost replies |
| **QA settings** (`modules/qa/qa-productivity.service.ts`, `utils/agent-matcher.ts`) | `QaTargetSetting`, `LookupAgent`, a module-level flag | saveSettings, getSettings, bulk delete, retroactive update | delete and re-create without a transaction, from a plan made earlier; a page that is shown, edited and saved as a whole; a flag that must come down |
| **Forms** (`modules/forms`) | `FormDefinition`, `FormField`, `FormRecord` | submit, edit, generate, delete, rekap import and export, definition of fields | count then delete with cascade; read-modify-write of values; records older than their fields; an import that is repeated |
| **News** (`modules/news`) | `News`, comments, likes, bookmarks; a cache of lists and details, the set of its list keys | edit, list, read, toggle, comment | a cache filled after its invalidation; keys forgotten by a restart; toggles that check, then act |
| **Lookups** (`modules/lookup-management`) | `LookupAgent`, `AccountMapping`, `LookupKIP` | bulk import, edit, delete | rows renamed and removed under those who read them |
| **Classification rules** (`worker/utils`) | none | functions of a row | two paths to the same columns of the same row |
| **Dashboards, raw download** | none | SQL reads | none of their own: they show what the tables hold |
| **Auth, users, incident, notifications** | single rows | one database call each | little |

Interactions: the sync and the upload services write the same `RawOca` rows; the sync
adds a job to BullMQ and polls it; the upload endpoints use the in-memory queue and
the scheduled reports BullMQ, and both call `ExcelProcessor`; `GET upload/status`
answers for both. `QaTicket` rows are made from `RawOca`. Everything else shares only
the database, through Prisma, almost always without a transaction.

What makes each component correct:

- *sync*: one run at a time; `lastSync` and the dashboard's "completed" vouch only for
  what is stored; a fallback is reported only of a job that was imported; a run ends;
  what failed is repaired by later runs.
- *queues*: a job is carried out once, in order, and never stranded; "completed" means
  imported; a verdict is not taken back; files go away; no job is "active" for ever.
- *imports*: the last row of a file wins; the daily statistics agree with the rows.
- *Mass Process*: the derived columns follow the answers; a completed ticket is closed
  and stays so; the assignment counter agrees with the history; the history explains
  the ticket; the daily sheet has everyone who was given it.
- *QA*: a ticket is pending or tapped, once; a reconciliation has one verdict and the
  scores agree with it; no reply is lost.
- *forms*: no record goes with its form; no acknowledged edit is lost; "generated" is
  said only of a document that is up to date; an old record can still be edited; an
  import can be repeated.
- *news*: a reader sees an edit at the latest when the cache expires; an article is found
  by its words; what toggles answered adds up to what is stored.
- *QA settings*: a peak of an agent has one tapper; the page survives being saved as it is
  shown; the retroactive job can always start again.
- *rules*: a ticket is classified alike by the API and by the report.

## 2. Modules

### OcaSync
`OcaSync.tla` is `handleCron` with everything it calls. `run[c]` holds the locals of an
invocation, `pc` the await it is at: `list` (get-list), `compare` (reading `RawOca`),
`chunk` (processTickets), `settle` (is a fallback due?), `report`, `poll`, `wait`
(processOcaReport and waitForExcelJob), `settled`, `stamped` (the upsert of
`OcaDailySync`). `born`, `created`, `ver` are the tickets at OCA, which change at any
moment; `raw` is `RawOca`, `job` and `queue` are BullMQ's.

A ticket is its `updated_at`, a small number, 0 for "no such ticket". `lastSync` is a
date in the code. What a reader takes from it is "the table is as OCA was then", so
the model keeps the versions OCA held when the run started, which no action reads.
Two more abstractions: all the tickets are of one day, and `lost` stands for
`chunksFailed > 0 || ticketsFailed > 0`, the only question the code asks of the counts.

`SyncLedger.tla` is the abstract specification: a source that only gets newer, a
store that moves towards it, a stamp that vouches only for what is stored.
`OcaSyncInvariant.tla` has the inductive invariant.

### ExcelQueue
`ExcelQueue.tla` has both queues. A runner (`"memory"` or `"bull"`) takes a job through
`opening` (lookups, `existsSync`), `reading`, `closing` (the `finally` with the unlink)
and `settling`. `TakeFirst` is a synchronous stretch of JavaScript: `addJob` runs into
`processNext` and `processJob` up to their first await, which is why `Upload` may take
the job at once. The lock, the stalled check and the attempts of BullMQ are external.
A scheduled report is written to `./uploads` by one await (`Download`, after which it is in
`arriving`) and gets its job by another (`BullAdd`); what breaks off in between
(`ReportFails`), or is cut by a restart, leaves a file without a job (`orphans`), as does an
upload of which multer has not received all when the process ends.
`JobQueue.tla` is the abstract FIFO queue served by one; `ExcelQueueInvariant.tla` the
inductive invariant.

### BatchImport
`BatchImport.tla` is `process` of the five upload services: rows, `saveBatch` at every
`BatchSize` rows, for CSAT `refreshDailyStats`. A row is the key it is stored under and a
value. The deduplication of a batch keeps the last row of a *slot* (`SlotOf`), the first for
CSAT. Slot and key are the same but for Avaya, whose map goes by day and vector and whose
upsert goes by time and vector: there a row may take the place of one with another key
(`Superseded`). Each queue has at most one import in flight, and the two may overlap.
`refreshDailyStats` is one statement in two steps, since `INSERT ... SELECT ... ON CONFLICT`
under READ COMMITTED reads as of its start and stores when it gets hold of the rows of
`DailyCsatStat`: `ReadAggregates` puts what it read in `figures`, `StoreStats` writes it.

### MassWorkflow and MassProcess
`MassWorkflow.tla` is `calculate` as operators: stage, progress with JavaScript's
rounding, validation, bottleneck. `MassProcess.tla` puts it in the requests:
`at[r]` is the database call a request is at, `before` and `read` are the rows it holds
meanwhile. Every call may fail (`Fail`), which is also what a crash does to a request.
`daily` is the day's `MassDailyActivity`, one row per ticket and agent: who was assigned
(`Fetch` and `CreateDailyAssignment` of updateAgent, which reads the agent again after its
transaction) and who worked (`MarkWorked`). One day is modelled.

### QaReview
`QaReview.tla` is the ticket's way from `QaTicket` to `QaFormTapping` and the
reconciliations of a tapping. A table is a sequence of rows, so an id is the rank of
creation and is never used again, as with UUIDs; a deleted row stays in the sequence and
is no longer live. `req[r].at` is the database call a request is at; `Receive` is what upload and
OCA sync share. A stale page is a `CreateFormTapping` with the id of a row that is gone.
The scores of a tapping are the reconciliation that proposed them, or `None` for those of a
form, a file or an edit: `Rescore` is the one way to write them, used by an approval, by the
update of a history upload and by `UpdateFormTapping`. `raced` records what overlapping
requests were about: the properties hold but for those, and name them one by one (the
ticket, the proposal, the verdict, the discussion), since one kind of overlap must not
excuse the harm of another. Three more are history that no action reads: `left` has the
tickets whose pending row was not removed by their tapping, because the form did not name it
or the delete failed; `replaced` the reconciliations whose scores were overwritten;
`judged` those that were to be approved, since a rejection after that leaves the scores.

### InFlight, FieldRules, FormRecords, NewsCache, QaSettings
`InFlight.tla` is what the handlers of the portal have in common: `req[r]` is a request,
with the call it is `at` and the locals it keeps (`data`); `Fail` ends it anywhere.
`Clashes` names the pairs of kinds that the code does not order when they are about one
thing, and `raced` the pairs that did overlap; as in `QaReview` a property names the one
pair that breaks it.

`FieldRules.tla` is `coerce` and `validateValues`: what a field makes of a value, which
values it accepts, what becomes of those of inactive fields. `FormRecords.tla` is one form
key with the rows that had it one after the other. `story` is history that no action
reads: what was acknowledged, what the printed document showed, whether a client set the
status `generated` itself, the fields a record was validated against. The rekap reader is reduced to rows of (values, timestamp); the
idempotent key, the chunks and the export are the code's.

`NewsCache.tla` has the cache as a function of keys, from which anything may `Expire` at any
time, and `listKeys`, the field of the service. `Set` and `Track` are two steps, as are
`DropLists` and `ClearKeys`, since there is an await between them. An article is the
version of its title and of its content with the versions `searchText` was built from, and
its views, which the cached lists carry too. A toggle writes (`WriteMark`) and answers
(`AnswerMark`) in two steps; `told` adds up, for each mark, the answers given and those that
were never given because the request ended in between (`NewsFail`).

`QaSettings.tla` has `Plan`, the pure first half of `saveSettings`, and one action for each
of its database calls; `FindAgentMatch` is the agent matcher over names as sequences of
words; `Shown` is `getSettings`, so that a page may be saved as it is shown. The edits of
the agents by `LookupManagementService` run beside it. A query with no ORDER BY is taken to
answer in the order of the ids, an assumption (PostgreSQL gives no order, and in practice
moves a row that is updated). `Ordered` is the one sort: places in the order of a weight,
and as they come where it is the same; `RowsAt` filters a table by it, `ByName` is the
`localeCompare` of the page.

The three parts share no table. `Portal.tla` composes them over `InFlight` and a behaviour
is of one of them (`area`), which is why one run, of its instance `MCPortal.tla`, can check
all three.

### TicketRules, TicketPaths
`TicketRules.tla` is the classification of an OCA ticket: status, product, SLA, FCR,
escalation, channel, as lists of rules of which the first applies. `CsvFields` is a row of
the report, `ApiFields` the replay of a ticket's activities by
`extractLatestCustomFields` and `mapToDomainModel`. A text is the set of the patterns it
matches. A time is a month, a day and an hour of one year, and `SafeParse` makes hours of it
as `calculateSlaStatus` does, by how it is written: the ISO strings of the API; in the
report, year first (`Date.parse` reads it in the zone of the server) or day first, which
`Date.parse` reads month first when it can and leaves to `parseExcelDate` when it cannot.
`Cause` names the differences between what the two sources tell and between what the two
paths do with it, `Explains` the causes that each column can have.

`TicketPaths.tla` is a ticket at OCA, whose custom fields agents change (`Change`), and the
columns each path last stored of it (`ImportCsv`, `ImportApi`). Its log has the newest change
first, as list-activity answers; changes that are saved together have one timestamp, and
`Follows` is the order that the stable sort of the code gives them. A field is changed once
at a time (`IsLog`): of two changes of one field with one timestamp the code would keep the
older.

## 3. Runs

| Run | Instance | Shows |
|---|---|---|
| `oca_getlist` | 2 callers, 3 tickets of 2 versions, pages and chunks of 2, 1 restart, fallback off | `MutualExclusion`, `VouchedIsStored`, `ToastIsHonest`, refinement of `SyncLedger`, and the invariant `IInv` of the proofs |
| `oca_fallback` | cron and an operator, 2 tickets, 2 jobs, 1 restart | a run ends as `fallback` only if its own job was imported completely |
| `oca_live` | 2 callers, 1 ticket of 2 versions, 1 job, 1 restart, fair | a run ends; failures are repaired |
| `oca_late_csv` | 1 caller, 1 ticket, 1 job | **violated**: see finding 1 |
| `excel_queue` | 3 uploads, 1 report, 1 stall, 1 restart, fair; 1.2 million states | the invariant and its consequences, refinement of `JobQueue`; no job is "active" for ever |
| `batch_import` | 2 imports, 5 files, batches of 2, 2 keys of one slot | the last row wins, the statistics agree |
| `batch_csat` | the same | **violated**: see finding 2 |
| `mass_process` | 1 ticket, 4 requests, 2 at a time, 4 recaps; 4.8 million states | the derived columns, the closing, the counter, the daily sheet, the history |
| `qa_review` | 2 tickets in one file, 5 requests, deletions and edits among them, 2 at a time; 4.5 million states | a ticket is pending or tapped, once; one open reconciliation; scores follow the verdict; replies are kept |
| `portal` | one of forms, news, settings; 4 requests (3 for the settings), 2 at a time; 1.0 million states | records, edits, documents and imports; the caches, searchText, toggles; peaks, page and job of the settings |
| `rules` | one ticket of 6 beginnings and 108 bases, up to 2 changes, at one time or not; 1.1 million states | both paths classify a ticket alike, but for the causes named |
| `mass_nok` | that of `mass_process` | **violated**: see finding 3 |

**Why the bounds are enough.** Three tickets and pages of two give a full page, a
partial one, a ticket that crosses the boundary when another is created, and a page
that has become empty. Two versions give an update between get-list and the upsert.
Chunks of two give a chunk with one ticket lost and one stored. In the fallback run,
`BatchSize` 1 lets a job fail between two batches, the restart catches it active, and
two jobs let the operator's go first. `CronGap` 0 there lets every run try; the limiter
itself has a length in `oca_live`. One restart and one stall reach both
sides of their limits. The files of `batch_import` repeat a key inside a batch, across
batches and across files, on one date and on two, two keys share a slot, and one file is empty. One mass ticket is enough
because requests meet only on a ticket; four requests give an upload, a completion and
two that race it. In `qa_review` two tickets and `BatchSize` 1 let an upload die between
two batches and a sync fail between two updates; five requests are a tapping, a proposal, its approval and
two more that write the scores or race about them. A deletion or an edit counts as one. `excel_queue` needs three uploads: the order of the queue
shows only when two wait while one runs. In `portal` two requests overlap in every pair of
steps and four (or a prefix of `Once` steps, which count too) make a history before them:
a form that is deleted and created again, a record that is edited, printed and edited, an
import that fails in the middle of its chunks (`ChunkSize` 1) and is repeated. Two fields
are enough for an edit that writes the other back; the definitions cover required,
optional with default, and inactive. One list, and as many articles as requests create, are
enough for the cache because keys do not meet. The names of the settings are an agent, its
abbreviation, and so two ways to name one person; the pages have a repeated QC, a
conflict of peaks and a row without a tapper. `rules` starts from tickets with nothing or
one thing set at creation, puts them into their categories and changes two fields, which
lets a value be changed away from its beginning, back, and after another; its times are
within the limits of one product or of both, over midnight, on days that are months too and on
days that are not. `MaxVersion`, `MaxRestarts`, `MaxRequests`, `SettingsRequests`, `MaxChanges`, the sizes of `Jobs`,
`Uploads` and `Reports` are bounds of the model, the other numbers the code's.

`CHECK_DEADLOCK FALSE` stands where the bounded inputs run out: `ExcelQueue` when all
jobs are settled and removed, `MassProcess`, `QaReview` and `Portal` when `MaxRequests`
(`SettingsRequests` for the settings) were made.

**Fairness.** `OwnFairness` of the sync: `get-list` and `list-activity` have a 30 s
timeout, the database answers or fails, clocks advance, the worker works. It names no
success: every fair action has a failing sibling in the same disjunction.
`ReportFairness` is an assumption, not a fact of the code: the report calls go through
plain `axios` with no timeout, so a connection that hangs would hold `isRunning` for
ever. `Healthy`, which only `EventuallyFresh` needs, says that the cron keeps firing
and a request repeated for ever succeeds sometimes. In `ExcelQueue` the event loop, the
worker and the stalled check are fair; uploads, expiry, stalls of a job that is
running and restarts are not. In `Portal` only expiry is fair: a key with a time to live
goes in the end, whatever readers and writers do.

**Where overlaps are allowed to break something.** Handlers run without transactions, and
some overlaps do lose data; the code has no answer to them, and a property that ignored
them would be false. Each such property is stated with the one pair of requests that
breaks it: two edits of a record (`EditsKept`), an edit and a print
(`GeneratedIsCurrent`), a submission and the deletion of its form (`NoRecordLost`), two
imports of one form (`ImportOnce`), two updates of an article (`SearchTextFresh`), two
saves of the settings (`OnePeakOneTapper`, `SavingBackKeepsTargets`), two refreshes that
store the same date (`StatsAgree`), two requests about one ticket, proposal, verdict or
discussion (the properties of `QaReview`). TLC confirms that
each exception is needed: without it the property is violated. In the portal failures are no
exception. Elsewhere a failure is one only where the code gives up on what it began, and the
property names it: a failed CSAT import leaves the statistics of its dates until the next
(`StatsAgree`), a failed delete the pending row (`PendingOrTapped`), an approval that dies
between its two writes the scores (`ScoresFollowVerdict`), a failed download, add or unlink
its file (`FilesRemoved`).

Three more exceptions are no overlaps but what the code does, stated where they are excused: a
tapping that names no pending row leaves the one there is (`PendingOrTapped`), a rejection
after an approval keeps the scores, which nothing refuses (`ScoresFollowVerdict`), and a
client may set the status `generated` itself (`GeneratedIsCurrent`).

What two of the properties do *not* say: `ImportOnce` is about pairs of reference number and
timestamp. A record whose number is not its `ticketId`, and a row without a timestamp, come in
again under another pair (finding 8). `OnePeakOneTapper` takes two names for one agent when
the lookup table matches both to the same row: it says so of what every page would have a save
plan in every reachable table. Names that the table does not match are agents of their own,
also if one abbreviates the other, and what is stored keeps the name it was stored under when the
table later comes to match it.

## 4. Proofs

Every theorem is of the component's specification (`Spec`; `NewsSpec`, `FormsSpec` and
`SettingsSpec` are those of the portal's three parts) for all constants
that meet the module's `ASSUME` and the hypotheses the theorem names. Each inductive
invariant was checked by TLC on the instance of section 3 before it was proved.

- **OcaSyncProofs**: `TypeCorrect`, `MutualExclusionHolds`: the flag is set exactly
  while a caller is not idle, which is inductive with the type. `FallbackIsImportedHolds`,
  with the CSV path and for any number of callers, operators and jobs: a run that waits
  does so for a job of its own, whose file never changes once it is generated and is no
  older than the run; the queue has the waiting jobs, each once; a job is completed only
  with nothing left of its file; and OCA only gets newer. Then, under `NoCsv` (fallback
  disabled, no operator), `IInvHolds`, `VouchedIsStoredHolds`, `ToastIsHonestHolds`,
  `ImplementsLedgerHolds`, which is
  where they hold: with CSV jobs TLC refutes the second. `lastSync` is right only because
  a run that is still clean *owes* nothing it forgot, so `IInv` has `Owed`: each ticket
  of the run's base is stored, or in the page at hand, or still left in the chunk, or on
  a page yet to be read. The last is why `RanksAreDense` is needed: get-list is sorted
  newest first, so a new ticket only pushes older ones to later pages, never back to
  one already read, and an empty page means that none is left. A run also forgets
  none in the other direction: `AtLeast(ver, raw)` and `todo` holding only newer
  versions make every upsert a step forward, which the refinement needs.
- **ExcelQueueProofs**: `InvHolds`, then `TypeCorrect`, `CompletedMeansImportedHolds`,
  `FilesRemovedHolds`, `AnswersAdvanceHolds`, `ImplementsJobQueueHolds`. The heart is
  `QueueOK` with `LoopOK`: the jobs the `Map` has as waiting are those of the array,
  each once, and an array that is not empty has a loop that will come to it.
- **BatchImportProofs**: `TypeCorrect`, `LastRowWinsHolds`, `StatsAgreeHolds`, for
  files and batches of any size and slots of any keys but those of CSAT, where key and slot
  are the same. A key written by an import holds the last of its rows *saved so far* that no
  row of its slot superseded in its batch; at the end that is the last of the file. A refresh
  that is about to store has the figures of now for every date that no other import has
  in flight and no other refresh is storing.
- **QaReviewProofs**: `TypeCorrect`, `PendingOrTappedHolds`, `OnePendingRekonHolds`,
  `ScoresFollowVerdictHolds`, `RepliesKeptHolds`, for any finite files and any number of
  requests. No table has a unique key, so everything rests on what a request has read
  being still so when it writes: another that changes it is in flight with it, and `raced`
  recorded that when the later of the two started (`Exclusive`). Failures are not among the races: what they leave is in `left` and in the verdicts that
  died half-way. Hence `ProposalsOK` (no
  other request found the tapping without an open proposal), `VerdictsOK` (which half of
  the scores and the verdict is written), `RepliesOK` (the discussion it read is that of the
  row) and `TicketsOK` (which of the tickets of the file a receiving request has found
  missing, and which row a tapping is about to remove).
- **MassProofs**: `TypeCorrect`, `RecalculationIdempotent`, `RestIsFreshHolds`,
  `CompletedIsClosedHolds`, `AssignmentsAddUpHolds`, `DailySheetCompleteHolds`,
  `HistoryExplainsHolds`. `calculate` reads the status it stored, so that a row is fresh
  needs that a second calculation changes nothing; `FreshOK` then has each ticket fresh, or a
  request on its way to recalculate it, or named in the history of old and dead
  recalculations. `AssignmentsOK` counts in the row, not in what a request holds, which is
  why it needs no exception. The daily sheet and the history do: they hold for requests that
  come one after the other, and `Exclusive` says what a request that is alone knows. The
  one hypothesis of the module is that `None` is no status and no agent.
- **FormProofs**: `FormsTypeCorrect`, `NoRecordLostHolds`, `GeneratedIsCurrentHolds`,
  `ImportOnceHolds`, `CoerceIdempotent`, `OldRecordsRepairableHolds`, `EditsKeptHolds`.
  Their base is that a live record is of the one current form and that overlaps are
  recorded (`PairsRaced`; in the news `RewritesRaced`). A submission and a deletion know of
  each other by `CountsOK`. A print in flight holds the values stored, unless an edit
  overlapped it (`PrintInv`). An import that is to store rows (`ImportInv`) has rows of
  different keys, none of them that of a live record with its number unchanged, and times
  that the clock has passed; that the rows picked are of different keys is proved over the
  recursive function `Queue` by induction on its argument, as numbers and not by the library's
  induction theorem. A record validates again (`RepairInv`) because `coerce` is idempotent
  and because a field is only ever deactivated or relaxed. An edit stands (`EditInv`)
  because to write the other values back is to coerce them once more.

  `GeneratedIsCurrentHolds` is for any patches, also those by which a client sets the status
  `generated` itself, which `UpdateRecordDto` lets it do and which the property excuses until the
  status is next written. Two of the theorems have hypotheses, and each is needed.
  `OldRecordsRepairableHolds` is about
  values that say something or are blank in so many words (`WordsGiven`): see the smaller
  observations of section 5 for `[""]`. `EditsKeptHolds` is about behaviours in which a key
  keeps what its field stores (`Steady`): text, or a type with, for a table, its
  columns. Otherwise the next edit, of whatever other value, reads the stored ones as the new
  type. The instance of section 3 meets both.
- **PortalProofs**, the news: `TogglesAsAnsweredHolds` and `SearchTextFreshHolds`, from `NewsInv`, and
  `NewsTypeCorrect`.
  What a toggle in flight found may be gone when it deletes; but its ids still name rows
  of that mark (`TogglesOK`), so if they are all live, then by `UniqueMarks` there is no
  other, and after the delete none. So the writes of a mark take turns, on and off, and the
  sum of what was told, is about to be told (a finite set, since requests are) and was never
  told follows the row. A mark that was never set
  balances as well (`LedgerOK` is of every mark but those of comments that are gone),
  and the likes removed with a comment are only of comments that go. An update
  in flight holds what is stored, or was overlapped (`EditsOK`): to write is to change what
  the others have read, and that they were two was recorded when the later one started
  (`RewritesRaced`). The types are of three parts that rest on `NewsInv`: the keys that
  readers carry (`CacheInv`), the threads (`ThreadInv`) and the answered marks
  (`ToldMarked`). A reply that is there is of a comment that is there and is no reply
  itself, because a reply under way has found one that is none (`TopOf`), the foreign key
  refuses it once that one is gone, and a removal takes the replies along; the hypothesis
  is that null is no id.
- **PortalProofs**, the settings: `SettingsTypeCorrect`, `OnePeakOneTapperHolds`,
  `SavingBackKeepsTargetsHolds`, from `SettingsInv`, for pages, files and tables of any
  length; the assumption is that pages and files are lists. `PlanFacts` is about the pure
  half of a save: the targets it is to create are apart (no peak of an agent twice, no
  agent and tapper twice), and every row of the page has its target but those that repeat
  or conflict with one before them. A planned name is the one the lookup table gives it, and
  matched again it stays itself (`PlannedByTable`), so that targets of one agent have one name. `Plan` goes through the page by a recursive function, and the
  facts follow from the least place at which they would fail. They do not depend on the
  lookup table, since a row is compared under the name that is stored with it. Then
  `TargetsOK`: between its delete and its create a save finds the table empty, unless two
  saves overlapped. `JobOK` has the flag up exactly while the one job runs, whether it ends
  or fails. For a page that is saved back, `OrderedFacts` shows that sorting is a bijection
  whatever the weights, so no row is lost by it; `CanonicalFacts`, that a name which has a
  lookup row is matched to itself; and `PlainIsKept`, that of the rows shown none before
  that of a plain target takes its pair of name and tapper or one of its peaks.
- **PortalProofs**, the composition: `PortalIsForms`, `PortalIsNews` and `PortalIsSettings`: a
  behaviour of the portal is one of the part whose area it is, so that what is proved of
  the parts is proved of `Portal` (`PortalKeepsPromises` puts together the promises that need no
  further hypothesis). `PortalTypeCorrect` needs more, since it speaks of all tables at once:
  by `PortalInv` the parts that do not run stay as they began, and no request in flight is the
  retroactive job of another area. Null is no id, as in the news.
- **TicketProofs**: `ReplayLeavesLatest`, `ColumnsAgree`, `PathsAgreeHolds`, for every lookup
  table, ticket and log and any number of changes. The replay is a recursive function of the set of
  activities replayed. That it leaves in each field the newest change is shown by a closed form
  (`LatestIn`), which one more activity extends as the code does (`LatestStep`); that it is the
  function is shown by the size of a least set on which they would differ. The report shows
  the newest change by definition, so the two know the same of a field but for a `Cause`. Then each
  column is taken by itself: the fields it reads are named, and where none of its
  causes is there both paths read the same ones, whatever the rules make of
  them. The assumptions: the log is newest first and a field is changed once at a time (see
  `IsLog`); the assignee of the report may be empty but not missing; "-" is not undefined.

Only model-checked: liveness (`RunEnds`, `EventuallyFresh`, `EveryJobSettles`,
`OutdatedExpires`), which is out of the prover's reach. Every invariant and every action
property that a passing run checks is a theorem, for all constants, under the hypotheses named
above and the `ASSUME`s of the modules (among them that the requests of the portal and the keys of
CSAT are finitely many, since they are counted). Induction is done without the library's induction theorems, which take an operator: by
least counterexamples, over `WFMin` and the well-founded order of the numbers.

## 5. Findings

1. **A late CSV job undoes a newer sync** (`oca_late_csv`). The comment at
   `oca-ticket-scheduler.service.ts:320` says lastSync is updated only by clean runs so
   that the dashboard does not lie. A job the run stopped waiting for is still
   imported later, with an upsert that does not compare versions, over what a later
   clean run has stored.
2. **CSAT keeps the first duplicate** (`batch_csat`). `csat-upload.service.ts:106` says
   the last one wins; the code keeps the first inside a batch, and the last across
   batches.
3. **NOK is sticky** (`mass_nok`). `calculate` reads the `validationStatus` it wrote
   itself, so a ticket whose answers were corrected to OK never leaves NOK.
4. `recalculateAllOpen` skips rows whose `overallStatus` is NULL, those whose first
   calculation never ran (`mass-process.service.ts:274`).
5. The hourly limit of report requests does not survive a restart
   (`oca-ticket-scheduler.service.ts:111`).
6. The user is told that data "was just fetched" when the last fallback failed as well
   (`oca-ticket-scheduler.service.ts:407`).
7. The upsert of `RawCall` leaves `msisdn` out, so it is not kept fresh
   (`call-upload.service.ts:190`).
8. A rekap import recognises a record by `refNumber`, which is the projectId when there is
   no ticketId, and a row without a timestamp not at all: exported and imported, both are
   stored twice (`ebo-rekap.service.ts:184`).
9. Two tappers of an agent with one lookup row: the row is updated twice and none is
   created (`qa-productivity.service.ts:525`).
10. A target without a tapper is shown with a tapper of the lookup table, and may then be
    dropped as a duplicate when the page is saved (`qa-productivity.service.ts:419`).
11. An unresolved ticket is commented "Implies IN SLA" and stored and shown as outside
    (`rules.constant.ts:161`).
12. The replay of activities does not know the field IOT
    (`daily-oca-ticket-processor.ts:283`).
13. Account mappings uploaded twice are stored twice, since the unique key has the id in it
    (`lookup-management.service.ts:239`).
14. The sample KIP file has keys of another shape than the code looks up
    (`oca-upload.service.ts:113`).
15. Two rules for omnix tickets name columns that do not exist (`rules.constant.ts:127`).

Smaller observations: the retroactive update replaces a tapper that is there by the one of
the last lookup row of an agent with several; `calculateSlaStatus` tries `Date.parse` first,
which reads 03/04 as March 4, before the parser that reads it as April 3, so that a ticket of a
report with the day first, created and resolved within one night from the 12th to the 13th, is
outside its SLA (the cause "day first" of `PathsAgree`; `rules.constant.ts:172`); the Avaya import
deduplicates a batch by day and vector but stores by time and vector, so that of several
intervals of a day in one batch only the last is stored (`avaya-upload.service.ts:86` against
`:118`; `Superseded` of `BatchImport`); a report whose download breaks off, or whose job is
refused, leaves its file in `./uploads` for good (`csat-report-scheduler.service.ts:41`); two
refreshes of one day at once may leave the older figures until its next import
(`csat-upload.service.ts:185`); a rejection after an approval leaves the approved scores, and a
history upload overwrites them (`qa-reconciliation.service.ts:201`, `qa.service.ts:278`);
`GET schedule/status/:id` answers of the last run, whatever id is asked for
(`scheduler.controller.ts:38`); `submit` takes a
record of an inactive form, and `[""]` for a required text, which it stores as "" so that the
next edit of the record is refused; changing the type of a field, or the columns of a table,
changes what the next edit of a record stores of values it does not name; activities with one
timestamp are replayed as they are listed, newest first, so that of two changes of one field in
them the older would stay (`daily-oca-ticket-processor.ts:271`); the report calls have no timeout, so that a connection that
hangs keeps `isRunning` true for ever (`oca-report-scheduler.service.ts:69`).

## 6. What is not modelled, and the plan

Not modelled for good: the dashboards, the raw download and the exports (reads and
layout), authentication and single-row edits, the text of messages and logs.

Left out of modelled components: sections and order of a form's fields and `updateForm`;
notifications and the activity log; account mappings and KIP lookups (one `createMany`, then
single rows); commitments (single updates whose legal order no
document states); `msisdn` of `RawCall`; master data of Mass Process; the rules of Omnix,
Call and Avaya, and the dates of the imports but for those of the SLA; a get-list body without
its number of pages, which ends the loop as a last page does (`Continue` of `OcaSync`); stalls and
second executions of the very job a sync run waits for (`excel_queue` has those of any job).
In `TicketRules` the reporter of the report is
taken to be the creator of the last activity, which is what the API path takes it for.

Planned:

1. The Omnix and Call rules beside `TicketRules`, and the other uses of `parseExcelDate`.
