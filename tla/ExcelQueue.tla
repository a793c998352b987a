------------------------------ MODULE ExcelQueue ------------------------------
(***************************************************************************)
(* The two queues of Excel jobs and the processor they share.              *)
(*                                                                         *)
(* InMemoryQueueService: the upload endpoints put a job in a Map and an    *)
(* array; one loop, guarded by isProcessing, carries the jobs out.  All of *)
(* it is lost when the process restarts.                                   *)
(*                                                                         *)
(* BullMQ 'excel-queue' (external, in Redis): the scheduled reports add    *)
(* jobs, one worker takes them.  A job whose lock expires while it runs    *)
(* (or whose worker died) is stalled: it is put back, and fails for good   *)
(* when that happens more than MaxStalled times.                           *)
(*                                                                         *)
(* Both run ExcelProcessor.process, which fails if the file of the job is  *)
(* not there, imports it and removes it in a finally.  How rows become     *)
(* table contents is module BatchImport.                                   *)
(***************************************************************************)
EXTENDS Naturals, Sequences, FiniteSets

CONSTANTS
  Uploads,     \* ids addJob gives (random strings), none of them twice
  Reports,     \* ids BullMQ gives (numbers)
  None,        \* no job
  MaxStalled,  \* BullMQ's maxStalledCount (1 by default)
  MaxRestarts  \* bound: restarts of the process in a behaviour

ASSUME ExcelQueueAssumption ==
  /\ Uploads \intersect Reports = {}
  /\ None \notin Uploads \union Reports
  /\ MaxStalled \in Nat
  /\ MaxRestarts \in Nat

Jobs == Uploads \union Reports
Runners == {"memory", "bull"}

VARIABLES
  jobs,          \* the Map: the status of each job of the in-memory queue
  queue,         \* the array
  isProcessing,
  bull,          \* Redis: the state of each BullMQ job
  stalls,        \* Redis: how often each one stalled
  job,           \* the job each runner has at hand
  at,            \* where it is in process(job)
  outcome,       \* what process(job) is about to return
  files,         \* jobs whose file is in ./uploads
  arriving,      \* reports that are being downloaded: no job of BullMQ yet
  imported,      \* history: jobs some run of which imported the whole file
  orphans,       \* history: jobs whose file nobody will remove
  restarts       \* counts towards MaxRestarts

memoryVars == <<jobs, queue, isProcessing>>
bullVars == <<bull, stalls>>
runVars == <<job, at, outcome>>
vars == <<jobs, queue, isProcessing, bull, stalls, job, at, outcome, files, arriving,
          imported, orphans, restarts>>

States == {"none", "waiting", "active", "completed", "failed", "gone"}
Unsettled == {"waiting", "active"}
Verdicts == {"completed", "failed"}

Init ==
  /\ jobs = [j \in Uploads |-> "none"]
  /\ queue = <<>>
  /\ isProcessing = FALSE
  /\ bull = [j \in Reports |-> "none"]
  /\ stalls = [j \in Reports |-> 0]
  /\ job = [r \in Runners |-> None]
  /\ at = [r \in Runners |-> "idle"]
  /\ outcome = [r \in Runners |-> "none"]
  /\ files = {}
  /\ arriving = {}
  /\ imported = {}
  /\ orphans = {}
  /\ restarts = 0

-----------------------------------------------------------------------------
(* InMemoryQueueService.                                                   *)

\* One turn of the while loop: shift, and processJob up to its first await.
TakeFirst(q, m) ==
  /\ queue' = Tail(q)
  /\ jobs' = [m EXCEPT ![Head(q)] = "active"]
  /\ isProcessing' = TRUE
  /\ job' = [job EXCEPT !["memory"] = Head(q)]
  /\ at' = [at EXCEPT !["memory"] = "opening"]
  /\ UNCHANGED outcome

\* Mutant: processNext is not guarded by isProcessing.
UploadStartsAnyway(j) ==
  /\ j \notin files
  /\ jobs[j] = "none"
  /\ files' = files \union {j}
  /\ TakeFirst(Append(queue, j), [jobs EXCEPT ![j] = "waiting"])
  /\ UNCHANGED <<bullVars, arriving, imported, orphans, restarts>>

\* addJob: the queue then has a job, so only isProcessing keeps processNext from it.
Upload(j) ==
  /\ j \notin files
  /\ jobs[j] = "none"
  /\ files' = files \union {j}
  /\ LET q == Append(queue, j)
         m == [jobs EXCEPT ![j] = "waiting"]
     IN IF isProcessing
        THEN queue' = q /\ jobs' = m /\ UNCHANGED <<isProcessing, runVars>>
        ELSE TakeFirst(q, m)
  /\ UNCHANGED <<bullVars, arriving, imported, orphans, restarts>>

\* Mutant: the loop is left without resetting isProcessing.
NextTaskKeepsFlag ==
  /\ at["memory"] = "looping"
  /\ IF queue # <<>>
     THEN TakeFirst(queue, jobs)
     ELSE /\ at' = [at EXCEPT !["memory"] = "idle"]
          /\ UNCHANGED <<memoryVars, job, outcome>>
  /\ UNCHANGED <<bullVars, files, arriving, imported, orphans, restarts>>

\* Mutant: pop instead of shift.
NextTaskPops ==
  /\ at["memory"] = "looping"
  /\ IF queue # <<>>
     THEN TakeFirst(<<queue[Len(queue)]>> \o SubSeq(queue, 1, Len(queue) - 1), jobs)
     ELSE /\ isProcessing' = FALSE
          /\ at' = [at EXCEPT !["memory"] = "idle"]
          /\ UNCHANGED <<queue, jobs, job, outcome>>
  /\ UNCHANGED <<bullVars, files, arriving, imported, orphans, restarts>>

\* The test of the loop, after processJob's promise.
NextTask ==
  /\ at["memory"] = "looping"
  /\ IF queue # <<>>
     THEN TakeFirst(queue, jobs)
     ELSE /\ isProcessing' = FALSE
          /\ at' = [at EXCEPT !["memory"] = "idle"]
          /\ UNCHANGED <<queue, jobs, job, outcome>>
  /\ UNCHANGED <<bullVars, files, arriving, imported, orphans, restarts>>

\* processJob after process(fakeJob).
Settle ==
  /\ at["memory"] = "settling"
  /\ jobs' = [jobs EXCEPT ![job["memory"]] = outcome["memory"]]
  /\ at' = [at EXCEPT !["memory"] = "looping"]
  /\ job' = [job EXCEPT !["memory"] = None]
  /\ outcome' = [outcome EXCEPT !["memory"] = "none"]
  /\ UNCHANGED <<queue, isProcessing, bullVars, files, arriving, imported, orphans, restarts>>

\* The setTimeout of an hour, or of a day for a failed job.
Expire(j) ==
  /\ jobs[j] \in Verdicts
  /\ jobs' = [jobs EXCEPT ![j] = "gone"]
  /\ UNCHANGED <<queue, isProcessing, bullVars, runVars, files, arriving, imported, orphans, restarts>>

-----------------------------------------------------------------------------
(* ExcelProcessor.process(job), for either runner.                         *)

\* Mutant: a missing file ends the import without an error.
OpenQuietly(r) ==
  /\ at[r] = "opening"
  /\ \/ /\ job[r] \in files
        /\ at' = [at EXCEPT ![r] = "reading"]
        /\ UNCHANGED outcome
     \/ /\ at' = [at EXCEPT ![r] = "closing"]
        /\ outcome' = [outcome EXCEPT ![r] = IF job[r] \in files THEN "failed" ELSE "completed"]
  /\ UNCHANGED <<memoryVars, bullVars, job, files, arriving, imported, orphans, restarts>>

\* The lookups and fs.existsSync, in the order of the service: either fails the job.
Open(r) ==
  /\ at[r] = "opening"
  /\ \/ /\ job[r] \in files
        /\ at' = [at EXCEPT ![r] = "reading"]
        /\ UNCHANGED outcome
     \/ /\ at' = [at EXCEPT ![r] = "closing"]
        /\ outcome' = [outcome EXCEPT ![r] = "failed"]
  /\ UNCHANGED <<memoryVars, bullVars, job, files, arriving, imported, orphans, restarts>>

\* The rest of the service: all of the file, or some of it and an error.
Import(r) ==
  /\ at[r] = "reading"
  /\ at' = [at EXCEPT ![r] = "closing"]
  /\ \/ outcome' = [outcome EXCEPT ![r] = "completed"] /\ imported' = imported \union {job[r]}
     \/ outcome' = [outcome EXCEPT ![r] = "failed"] /\ UNCHANGED imported
  /\ UNCHANGED <<memoryVars, bullVars, job, files, arriving, orphans, restarts>>

\* Mutant: the file is removed on success, not in the finally.
RemoveFileOnSuccess(r) ==
  /\ at[r] = "closing"
  /\ at' = [at EXCEPT ![r] = "settling"]
  /\ files' = IF outcome[r] = "completed" THEN files \ {job[r]} ELSE files
  /\ UNCHANGED <<memoryVars, bullVars, job, outcome, arriving, imported, orphans, restarts>>

\* removeFile, in the finally: an unlink that fails is only logged.
RemoveFile(r) ==
  /\ at[r] = "closing"
  /\ at' = [at EXCEPT ![r] = "settling"]
  /\ \/ files' = files \ {job[r]} /\ UNCHANGED orphans
     \/ job[r] \in files /\ orphans' = orphans \union {job[r]} /\ UNCHANGED files
  /\ UNCHANGED <<memoryVars, bullVars, job, outcome, arriving, imported, restarts>>

-----------------------------------------------------------------------------
(* BullMQ and its worker.                                                  *)

\* processOcaReport and processCsatReport write the file as they download it, and add its
\* job when it is complete.
Download(j) ==
  /\ bull[j] = "none"
  /\ j \notin files
  /\ files' = files \union {j}
  /\ arriving' = arriving \union {j}
  /\ UNCHANGED <<memoryVars, bullVars, runVars, imported, orphans, restarts>>

BullAdd(j) ==
  /\ j \in arriving
  /\ bull[j] = "none"
  /\ bull' = [bull EXCEPT ![j] = "waiting"]
  /\ arriving' = arriving \ {j}
  /\ UNCHANGED <<memoryVars, stalls, runVars, files, imported, orphans, restarts>>

\* The download breaks off, or excelQueue.add is refused: nothing removes the file.
ReportFails(j) ==
  /\ j \in arriving
  /\ arriving' = arriving \ {j}
  /\ orphans' = orphans \union {j}
  /\ UNCHANGED <<memoryVars, bullVars, runVars, files, imported, restarts>>

BullTake(j) ==
  /\ at["bull"] = "idle"
  /\ bull[j] = "waiting"
  /\ bull' = [bull EXCEPT ![j] = "active"]
  /\ job' = [job EXCEPT !["bull"] = j]
  /\ at' = [at EXCEPT !["bull"] = "opening"]
  /\ UNCHANGED <<memoryVars, stalls, outcome, files, arriving, imported, orphans, restarts>>

\* Mutant: the verdict is taken whether or not the worker still holds the lock.
BullSettleUnlocked ==
  /\ at["bull"] = "settling"
  /\ bull' = [bull EXCEPT ![job["bull"]] = outcome["bull"]]
  /\ at' = [at EXCEPT !["bull"] = "idle"]
  /\ job' = [job EXCEPT !["bull"] = None]
  /\ outcome' = [outcome EXCEPT !["bull"] = "none"]
  /\ UNCHANGED <<memoryVars, stalls, files, arriving, imported, orphans, restarts>>

\* The verdict is refused if the job's lock expired, noticed (the job is no longer
\* active) or not.
BullSettle ==
  /\ at["bull"] = "settling"
  /\ \/ /\ bull[job["bull"]] = "active"
        /\ bull' = [bull EXCEPT ![job["bull"]] = outcome["bull"]]
     \/ UNCHANGED bull
  /\ at' = [at EXCEPT !["bull"] = "idle"]
  /\ job' = [job EXCEPT !["bull"] = None]
  /\ outcome' = [outcome EXCEPT !["bull"] = "none"]
  /\ UNCHANGED <<memoryVars, stalls, files, arriving, imported, orphans, restarts>>

\* The stalled check: while the worker has the job (its lock expired) or not.
BullStall(j) ==
  /\ bull[j] = "active"
  /\ LET again == stalls[j] < MaxStalled IN
       /\ bull' = [bull EXCEPT ![j] = IF again THEN "waiting" ELSE "failed"]
       /\ stalls' = [stalls EXCEPT ![j] = IF again THEN @ + 1 ELSE @]
       /\ orphans' = IF ~again /\ job["bull"] # j THEN orphans \union {j} ELSE orphans
  /\ UNCHANGED <<memoryVars, runVars, files, arriving, imported, restarts>>

\* removeOnComplete and removeOnFail.
BullRemove(j) ==
  /\ bull[j] \in Verdicts
  /\ bull' = [bull EXCEPT ![j] = "gone"]
  /\ UNCHANGED <<memoryVars, stalls, runVars, files, arriving, imported, orphans, restarts>>

-----------------------------------------------------------------------------
\* The process dies and comes back: Redis and ./uploads are as they were.  A file that
\* multer was receiving, for which addJob was not called yet, is one of them.
Restart ==
  /\ restarts < MaxRestarts
  /\ restarts' = restarts + 1
  /\ jobs' = [j \in Uploads |-> IF jobs[j] = "none" THEN "none" ELSE "gone"]
  /\ queue' = <<>>
  /\ isProcessing' = FALSE
  /\ job' = [r \in Runners |-> None]
  /\ at' = [r \in Runners |-> "idle"]
  /\ outcome' = [r \in Runners |-> "none"]
  /\ \E half \in SUBSET {j \in Uploads : jobs[j] = "none"} : files' = files \union half
  /\ arriving' = {}
  /\ orphans' = orphans \union (files' \ {j \in Reports : bull[j] \in Unsettled})
  /\ UNCHANGED <<bullVars, imported>>

Run(r) == Open(r) \/ Import(r) \/ RemoveFile(r)

Next ==
  \/ \E j \in Uploads : Upload(j) \/ Expire(j)
  \/ \E j \in Reports :
       \/ Download(j) \/ BullAdd(j) \/ ReportFails(j)
       \/ BullTake(j) \/ BullStall(j) \/ BullRemove(j)
  \/ \E r \in Runners : Run(r)
  \/ NextTask
  \/ Settle
  \/ BullSettle
  \/ Restart

Spec == Init /\ [][Next]_vars

\* The event loop runs what is ready and every import ends; a worker with nothing at
\* hand takes a waiting job; the stalled check finds a job nobody is running.  No
\* download, upload, expiry, stall of a running job or restart has to happen.
Fairness ==
  /\ \A r \in Runners : WF_vars(Run(r))
  /\ WF_vars(NextTask)
  /\ WF_vars(Settle)
  /\ WF_vars(BullSettle)
  /\ WF_vars(\E j \in Reports : BullTake(j))
  /\ \A j \in Reports : WF_vars(job["bull"] # j /\ BullStall(j))

FairSpec == Spec /\ Fairness

-----------------------------------------------------------------------------
(* Properties.                                                             *)

\* Every variable has its type.
TypeOK ==
  /\ jobs \in [Uploads -> States]
  /\ queue \in Seq(Uploads)
  /\ isProcessing \in BOOLEAN
  /\ bull \in [Reports -> States]
  /\ stalls \in [Reports -> 0..MaxStalled]
  /\ job \in [Runners -> Jobs \union {None}]
  /\ at \in [Runners -> {"idle", "opening", "reading", "closing", "settling", "looping"}]
  /\ outcome \in [Runners -> {"none"} \union Verdicts]
  /\ files \subseteq Jobs
  /\ arriving \subseteq Reports
  /\ imported \subseteq Jobs
  /\ orphans \subseteq Jobs
  /\ restarts \in 0..MaxRestarts

StatusOf(s) ==
  IF s \in Unsettled THEN "active" ELSE IF s \in Verdicts THEN s ELSE "404"

\* GET upload/status/:jobId: getJobStatus, and getBullJobStatus when the Map has no such job.
Answer(j) == IF j \in Uploads THEN StatusOf(jobs[j]) ELSE StatusOf(bull[j])

\* A client told "completed" has its file in the tables, also when the job stalled, was
\* re-run after its file was gone, or the process restarted in between.
CompletedMeansImported == \A j \in Jobs : Answer(j) = "completed" => j \in imported

\* A file in ./uploads is still being downloaded, or that of a job to be carried out or at hand,
\* unless its download or the add of its job failed, its unlink failed, a restart forgot
\* it, or its job stalled too often.
FilesRemoved ==
  \A j \in files \ orphans :
    \/ j \in arriving
    \/ j \in Uploads /\ jobs[j] \in Unsettled
    \/ j \in Reports /\ bull[j] \in Unsettled
    \/ \E r \in Runners : job[r] = j

\* What a client was told is never taken back: a verdict stays until it is forgotten.
AnswersAdvance ==
  [][\A j \in Jobs :
       Answer(j) \in Verdicts => Answer(j)' \in {Answer(j), "404"}]_vars

\* No job is reported 'active' for ever, whichever queue has it.
EveryJobSettles == \A j \in Jobs : []<>(Answer(j) # "active")

VerdictOf(s) ==
  CASE s = "none" -> "none"
    [] s \in Unsettled -> "accepted"
    [] s \in Verdicts -> s
    [] s = "gone" -> "forgotten"

\* The in-memory queue carries out what it accepts one job at a time in the order of
\* the uploads, and does not strand any when an upload races the end of the loop.
Abstract ==
  INSTANCE JobQueue WITH
    Jobs <- Uploads,
    pending <- queue,
    current <- job["memory"],
    verdict <- [j \in Uploads |-> VerdictOf(jobs[j])]
ImplementsJobQueue == Abstract!Spec
=============================================================================
