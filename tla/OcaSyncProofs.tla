---------------------------- MODULE OcaSyncProofs ----------------------------
(***************************************************************************)
(* Proofs about OcaSync, for every value of its constants: the types, the  *)
(* flag, what a fallback has seen; and, for a deployment without CSV jobs, *)
(* that lastSync never lies, since IInv of OcaSyncInvariant is inductive   *)
(* for every number of callers and tickets, every page size and every      *)
(* interleaving, failure and restart.                                      *)
(***************************************************************************)
EXTENDS OcaSyncInvariant, SequenceTheorems, TLAPS

\* What the typing of the locals rests on: the assumptions in the form used.
LEMMA ConstantTypes ==
  /\ Manual \subseteq Callers
  /\ Callers \subseteq Procs /\ Operators \subseteq Procs
  /\ None \notin Jobs
  /\ PageSize \in Nat /\ PageSize > 0
  /\ MaxVersion \in Nat /\ MaxVersion > 0
  /\ JobTimeout \in Nat /\ JobTimeout > 0
  /\ CronGap \in Nat /\ ManualGap \in Nat /\ MaxRestarts \in Nat
  /\ Nothing \in Versions
BY OcaSyncAssumption DEF OcaSyncAssumption, Procs, Nothing, Versions

LEMMA IdleRunType == IdleRun \in RunRecord
BY ConstantTypes DEF IdleRun, RunRecord, Steps

\* Continue only moves the program counter and the page offset.
LEMMA ContinueType ==
  ASSUME NEW r \in RunRecord
  PROVE  Continue(r) \in RunRecord
<1>1. [r EXCEPT !.pc = "chunk"] \in RunRecord
  BY DEF RunRecord, Steps
<1>2. [r EXCEPT !.pc = "settle", !.got = Nothing] \in RunRecord
  BY ConstantTypes DEF RunRecord, Steps
<1>3. [r EXCEPT !.pc = "list", !.from = r.from + PageSize, !.got = Nothing] \in RunRecord
  <2>1. r.from + PageSize \in Nat
    BY ConstantTypes DEF RunRecord
  <2>2. QED
    BY <2>1, ConstantTypes DEF RunRecord, Steps
<1>4. QED
  BY <1>1, <1>2, <1>3 DEF Continue

\* What saveBatch writes are versions.
LEMMA SaveBatchType ==
  ASSUME raw \in Versions, NEW S, NEW v \in Versions, SaveBatch(S, v)
  PROVE  raw' \in Versions
BY DEF SaveBatch, Versions

LEMMA InitType == Init => TypeOK
<1> SUFFICES ASSUME Init PROVE TypeOK
  OBVIOUS
<1>1. run \in [Procs -> RunRecord]
  BY IdleRunType DEF Init
<1>2. job \in [Jobs -> JobRecord]
  BY ConstantTypes DEF Init, NoJob, JobRecord
<1>3. lastRun \in ResultRecord
  BY ConstantTypes DEF Init, NeverRun, ResultRecord
<1>4. ver \in Versions /\ raw \in Versions /\ lastSync \in Versions
  BY ConstantTypes DEF Init
<1>5. born \in [Tickets -> Nat] /\ created \in Nat /\ isRunning \in BOOLEAN
  BY DEF Init
<1>6. /\ sinceFallback \in 0..CronGap
      /\ restarts \in 0..MaxRestarts
  BY ConstantTypes DEF Init
<1>7. queue \in Seq(Jobs)
  BY DEF Init
<1>8. QED
  BY <1>1, <1>2, <1>3, <1>4, <1>5, <1>6, <1>7 DEF TypeOK


-----------------------------------------------------------------------------
(* Type correctness, action by action.                                     *)

\* Actions that touch nothing but the locals of one process.
LEMMA OneRunType ==
  ASSUME TypeOK, NEW x \in Procs, NEW r \in RunRecord,
         run' = [run EXCEPT ![x] = r],
         UNCHANGED <<ocaVars, dbVars, memVars, jobVars, restarts>>
  PROVE  TypeOK'
BY DEF TypeOK, ocaVars, dbVars, memVars, jobVars

LEMMA OcaType ==
  ASSUME TypeOK, NEW t \in Tickets, CreateTicket(t) \/ UpdateTicket(t)
  PROVE  TypeOK'
<1>1. CASE CreateTicket(t)
  <2>1. born' \in [Tickets -> Nat] /\ created' \in Nat /\ ver' \in Versions
    BY <1>1, ConstantTypes DEF CreateTicket, TypeOK, Versions
  <2>2. QED
    BY <1>1, <2>1 DEF CreateTicket, TypeOK, dbVars, memVars, jobVars
<1>2. CASE UpdateTicket(t)
  <2>1. ver' \in Versions
    BY <1>2, ConstantTypes DEF UpdateTicket, TypeOK, Versions
  <2>2. QED
    BY <1>2, <2>1 DEF UpdateTicket, TypeOK, dbVars, memVars, jobVars
<1>3. QED
  BY <1>1, <1>2

LEMMA PageType ==
  ASSUME TypeOK, NEW c \in Callers, ListPage(c) \/ ListFails(c) \/ Compare(c) \/ ChunkThrows(c)
  PROVE  TypeOK'
<1> c \in Procs
  BY ConstantTypes
<1>0. run[c] \in RunRecord
  BY DEF TypeOK
<1>1. CASE ListPage(c)
  <2> DEFINE page == PageSlice(run[c].from)
             got  == [t \in Tickets |-> IF t \in page THEN ver[t] ELSE 0]
  <2>1. got \in Versions /\ created \in Nat
    BY ConstantTypes DEF TypeOK, Versions
  <2> HIDE DEF page, got
  <2>2. [run[c] EXCEPT !.pc = "settle", !.anyPage = TRUE] \in RunRecord
    BY <1>0 DEF RunRecord, Steps
  <2>3. [run[c] EXCEPT !.pc = "compare", !.anyPage = TRUE, !.total = created, !.got = got]
          \in RunRecord
    BY <1>0, <2>1 DEF RunRecord, Steps
  <2>4. QED
    BY <1>1, <2>2, <2>3, OneRunType DEF ListPage, TypeOK, page, got
<1>2. CASE ListFails(c)
  <2>1. [run[c] EXCEPT !.pc = "settle", !.fetchError = TRUE, !.got = Nothing] \in RunRecord
    BY <1>0, ConstantTypes DEF RunRecord, Steps
  <2>2. run' = [run EXCEPT ![c] = [run[c] EXCEPT !.pc = "settle", !.fetchError = TRUE,
                                                 !.got = Nothing]]
    BY <1>2 DEF ListFails, TypeOK
  <2>3. QED
    BY <1>2, <2>1, <2>2, OneRunType DEF ListFails
<1>3. CASE Compare(c)
  <2>1. [run[c] EXCEPT !.todo = NeedsProcessing(run[c])] \in RunRecord
    BY <1>0 DEF RunRecord, NeedsProcessing
  <2>2. QED
    BY <1>3, <2>1, ContinueType, OneRunType DEF Compare, TypeOK
<1>4. CASE ChunkThrows(c)
  <2>1. PICK chunk \in ChunksOf(run[c].todo, ChunkSize) :
          run' = [run EXCEPT ![c] =
                    Continue([run[c] EXCEPT !.todo = run[c].todo \ chunk, !.lost = TRUE])]
    BY <1>4 DEF ChunkThrows
  <2>2. [run[c] EXCEPT !.todo = run[c].todo \ chunk, !.lost = TRUE] \in RunRecord
    BY <1>0 DEF RunRecord
  <2>3. QED
    BY <1>4, <2>1, <2>2, ContinueType, OneRunType DEF ChunkThrows, TypeOK
<1>5. QED
  BY <1>1, <1>2, <1>3, <1>4

LEMMA ProcessType ==
  ASSUME TypeOK, NEW c \in Callers, NEW chunk, NEW ok, ProcessChunk(c, chunk, ok)
  PROVE  TypeOK'
<1> c \in Procs
  BY ConstantTypes
<1>0. run[c] \in RunRecord
  BY DEF TypeOK
<1>1. [run[c] EXCEPT !.todo = run[c].todo \ chunk, !.lost = run[c].lost \/ ok # chunk] \in RunRecord
  BY <1>0 DEF RunRecord
<1>2. run' \in [Procs -> RunRecord]
  BY <1>1, ContinueType DEF ProcessChunk, TypeOK
<1>3. raw' \in Versions
  BY <1>0, SaveBatchType DEF ProcessChunk, TypeOK, RunRecord
<1>4. QED
  BY <1>2, <1>3 DEF ProcessChunk, TypeOK, ocaVars, memVars, jobVars

LEMMA FallbackType ==
  ASSUME TypeOK, NEW c \in Callers,
         Start(c) \/ StartFallback(c) \/ NoFallback(c) \/ WaitSeesCompleted(c) \/ WaitFails(c)
  PROVE  TypeOK'
<1> c \in Procs
  BY ConstantTypes
<1>0. run[c] \in RunRecord
  BY DEF TypeOK
<1>1. CASE Start(c)
  <2>1. [IdleRun EXCEPT !.pc = "list", !.base = ver] \in RunRecord
    BY IdleRunType DEF RunRecord, Steps, TypeOK
  <2>2. run' \in [Procs -> RunRecord]
    BY <1>1, <2>1 DEF Start, TypeOK
  <2>3. QED
    BY <1>1, <2>2 DEF Start, TypeOK, ocaVars, dbVars, jobVars
<1>2. CASE StartFallback(c)
  <2>1. [run[c] EXCEPT !.pc = "report", !.fallbackUsed = TRUE] \in RunRecord
    BY <1>0 DEF RunRecord, Steps
  <2>2. run' = [run EXCEPT ![c] = [run[c] EXCEPT !.pc = "report", !.fallbackUsed = TRUE]]
    BY <1>2 DEF StartFallback, TypeOK
  <2>3. QED
    BY <1>2, <2>1, <2>2, ConstantTypes
    DEF StartFallback, TypeOK, ocaVars, dbVars, jobVars
<1>3. CASE NoFallback(c)
  <2>1. [run[c] EXCEPT !.pc = "settled"] \in RunRecord
    BY <1>0 DEF RunRecord, Steps
  <2>2. run' = [run EXCEPT ![c] = [run[c] EXCEPT !.pc = "settled"]]
    BY <1>3 DEF NoFallback, TypeOK
  <2>3. QED
    BY <1>3, <2>1, <2>2, OneRunType DEF NoFallback
<1>4. CASE WaitSeesCompleted(c)
  <2>1. [run[c] EXCEPT !.pc = "settled"] \in RunRecord
    BY <1>0 DEF RunRecord, Steps
  <2>2. run' = [run EXCEPT ![c] = [run[c] EXCEPT !.pc = "settled"]]
    BY <1>4 DEF WaitSeesCompleted, TypeOK
  <2>3. QED
    BY <1>4, <2>1, <2>2, OneRunType DEF WaitSeesCompleted
<1>5. CASE WaitFails(c)
  <2>1. [run[c] EXCEPT !.pc = "settled", !.fallbackError = TRUE] \in RunRecord
    BY <1>0 DEF RunRecord, Steps
  <2>2. run' = [run EXCEPT ![c] = [run[c] EXCEPT !.pc = "settled", !.fallbackError = TRUE]]
    BY <1>5 DEF WaitFails, TypeOK
  <2>3. QED
    BY <1>5, <2>1, <2>2, OneRunType DEF WaitFails
<1>6. QED
  BY <1>1, <1>2, <1>3, <1>4, <1>5

LEMMA ReportType ==
  ASSUME TypeOK, NEW x \in Procs, ReportStep(x)
  PROVE  TypeOK'
<1>0. run[x] \in RunRecord
  BY DEF TypeOK
<1>1. CASE RequestReport(x)
  <2>1. [run[x] EXCEPT !.pc = "poll", !.rows = ver] \in RunRecord
    BY <1>0 DEF RunRecord, Steps, TypeOK
  <2>2. run' = [run EXCEPT ![x] = [run[x] EXCEPT !.pc = "poll", !.rows = ver]]
    BY <1>1 DEF RequestReport, TypeOK
  <2>3. QED
    BY <1>1, <2>1, <2>2, OneRunType DEF RequestReport
<1>2. CASE ReportReady(x)
  <2>1. PICK j \in Jobs :
          /\ job' = [job EXCEPT ![j] = [state |-> "waiting", file |-> run[x].rows,
                                        left |-> {t \in Tickets : run[x].rows[t] > 0}]]
          /\ queue' = Append(queue, j)
          /\ run' = [run EXCEPT ![x] =
               IF x \in Callers
               THEN [run[x] EXCEPT !.pc = "wait", !.job = j, !.rows = Nothing]
               ELSE IdleRun]
    BY <1>2 DEF ReportReady
  <2>2. [run[x] EXCEPT !.pc = "wait", !.job = j, !.rows = Nothing] \in RunRecord
    BY <1>0, ConstantTypes DEF RunRecord, Steps
  <2>3. run' \in [Procs -> RunRecord]
    BY <2>1, <2>2, IdleRunType DEF TypeOK
  <2>4. [state |-> "waiting", file |-> run[x].rows,
         left |-> {t \in Tickets : run[x].rows[t] > 0}] \in JobRecord
    BY <1>0 DEF RunRecord, JobRecord
  <2>5. job' \in [Jobs -> JobRecord] /\ queue' \in Seq(Jobs)
    BY <2>1, <2>4 DEF TypeOK
  <2>6. QED
    BY <1>2, <2>3, <2>5 DEF ReportReady, TypeOK, ocaVars, dbVars, memVars
<1>3. CASE ReportFails(x)
  <2>1. [run[x] EXCEPT !.pc = "settled", !.fallbackError = TRUE, !.rows = Nothing]
          \in RunRecord
    BY <1>0, ConstantTypes DEF RunRecord, Steps
  <2>2. QED
    BY <1>3, <2>1, IdleRunType, OneRunType DEF ReportFails, TypeOK
<1>4. QED
  BY <1>1, <1>2, <1>3 DEF ReportStep

LEMMA OutcomeType ==
  ASSUME TypeOK, NEW c \in Callers, Stamp(c) \/ StampFails(c) \/ Finish(c)
  PROVE  TypeOK'
<1> c \in Procs
  BY ConstantTypes
<1>0. run[c] \in RunRecord
  BY DEF TypeOK
<1>1. [run[c] EXCEPT !.pc = "stamped"] \in RunRecord
  BY <1>0 DEF RunRecord, Steps
<1>2. CASE Stamp(c)
  <2>1. run' = [run EXCEPT ![c] = [run[c] EXCEPT !.pc = "stamped"]]
    BY <1>2 DEF Stamp, TypeOK
  <2>2. run' \in [Procs -> RunRecord] /\ lastSync' \in Versions
    BY <1>0, <1>1, <1>2, <2>1 DEF Stamp, TypeOK, RunRecord
  <2>3. QED
    BY <1>2, <2>2 DEF Stamp, TypeOK, ocaVars, memVars, jobVars
<1>3. CASE StampFails(c)
  <2>1. run' = [run EXCEPT ![c] = [run[c] EXCEPT !.pc = "stamped"]]
    BY <1>3 DEF StampFails, TypeOK
  <2>2. QED
    BY <1>1, <1>3, <2>1, OneRunType DEF StampFails
<1>4. CASE Finish(c)
  <2>1. run' \in [Procs -> RunRecord]
    BY <1>4, IdleRunType DEF Finish, TypeOK
  <2>2. StatusOf(run[c]) \in Statuses
    BY DEF StatusOf, Statuses
  <2>3. lastRun' \in ResultRecord
    BY <1>0, <1>4, <2>2 DEF Finish, ResultRecord, RunRecord
  <2>4. QED
    BY <1>4, <2>1, <2>3 DEF Finish, TypeOK, ocaVars, dbVars, jobVars
<1>5. QED
  BY <1>2, <1>3, <1>4

LEMMA WorkerType ==
  ASSUME TypeOK, JobStart \/ \E j \in Jobs : WorkerStep(j) \/ JobRemoved(j)
  PROVE  TypeOK'
<1>1. CASE JobStart
  <2>1. Head(queue) \in Jobs /\ Tail(queue) \in Seq(Jobs)
    BY <1>1 DEF JobStart, TypeOK
  <2>2. [job[Head(queue)] EXCEPT !.state = "active"] \in JobRecord
    BY <2>1 DEF TypeOK, JobRecord
  <2>3. job' = [job EXCEPT ![Head(queue)] = [job[Head(queue)] EXCEPT !.state = "active"]]
    BY <1>1, <2>1 DEF JobStart, TypeOK
  <2>4. job' \in [Jobs -> JobRecord] /\ queue' \in Seq(Jobs)
    BY <1>1, <2>1, <2>2, <2>3 DEF JobStart, TypeOK
  <2>5. QED
    BY <1>1, <2>4 DEF JobStart, TypeOK, ocaVars, dbVars, memVars
<1>2. ASSUME NEW j \in Jobs, WorkerStep(j) \/ JobRemoved(j)
      PROVE  TypeOK'
  <2>0. job[j] \in JobRecord
    BY DEF TypeOK
  <2>1. CASE JobSave(j)
    <3>1. PICK batch \in ChunksOf(job[j].left, BatchSize) :
            /\ SaveBatch(batch, job[j].file)
            /\ job' = [job EXCEPT ![j].left = job[j].left \ batch]
      BY <2>1 DEF JobSave
    <3>2. [job[j] EXCEPT !.left = job[j].left \ batch] \in JobRecord
      BY <2>0 DEF JobRecord
    <3>3. job' = [job EXCEPT ![j] = [job[j] EXCEPT !.left = job[j].left \ batch]]
      BY <3>1 DEF TypeOK
    <3>4. job' \in [Jobs -> JobRecord]
      BY <3>2, <3>3 DEF TypeOK
    <3>5. raw' \in Versions
      BY <2>0, <3>1, SaveBatchType DEF TypeOK, JobRecord
    <3>6. QED
      BY <2>1, <3>4, <3>5 DEF JobSave, TypeOK, ocaVars, memVars
  <2>2. ASSUME NEW st \in {"completed", "failed", "removed"},
               job' = [job EXCEPT ![j].state = st],
               UNCHANGED <<ocaVars, dbVars, memVars, run, queue, restarts>>
        PROVE  TypeOK'
    <3>1. [job[j] EXCEPT !.state = st] \in JobRecord
      BY <2>0 DEF JobRecord
    <3>2. job' = [job EXCEPT ![j] = [job[j] EXCEPT !.state = st]]
      BY <2>2 DEF TypeOK
    <3>3. job' \in [Jobs -> JobRecord]
      BY <3>1, <3>2 DEF TypeOK
    <3>4. QED
      BY <2>2, <3>3 DEF TypeOK, ocaVars, dbVars, memVars
  <2>3. CASE JobComplete(j)
    BY <2>2, <2>3 DEF JobComplete
  <2>4. CASE JobFails(j)
    BY <2>2, <2>4 DEF JobFails
  <2>5. CASE JobRemoved(j)
    BY <2>2, <2>5 DEF JobRemoved
  <2>6. QED
    BY <1>2, <2>1, <2>3, <2>4, <2>5 DEF WorkerStep
<1>3. QED
  BY <1>1, <1>2

LEMMA ClockType ==
  ASSUME TypeOK, Tick
  PROVE  TypeOK'
<1>1. ASSUME NEW x \in Procs
      PROVE  (IF x \in Callers /\ Waiting(x)
              THEN [run[x] EXCEPT !.waited = run[x].waited + 1] ELSE run[x]) \in RunRecord
  <2>1. run[x] \in RunRecord
    BY DEF TypeOK
  <2>2. CASE Waiting(x)
    <3>1. run[x].waited + 1 \in 0..JobTimeout
      BY <2>1, <2>2, ConstantTypes DEF Waiting, RunRecord
    <3>2. QED
      BY <2>1, <3>1 DEF RunRecord
  <2>3. QED
    BY <2>1, <2>2
<1>2. run' \in [Procs -> RunRecord]
  BY <1>1 DEF Tick
<1>3. sinceFallback' \in 0..CronGap
  BY ConstantTypes DEF Tick, Older, TypeOK
<1>4. QED
  BY <1>2, <1>3 DEF Tick, TypeOK, ocaVars, dbVars, jobVars

LEMMA RestartType ==
  ASSUME TypeOK, Restart
  PROVE  TypeOK'
<1>1. run' \in [Procs -> RunRecord]
  BY IdleRunType DEF Restart
<1>2. lastRun' \in ResultRecord
  BY ConstantTypes DEF Restart, NeverRun, ResultRecord
<1>3. restarts' \in 0..MaxRestarts /\ sinceFallback' \in 0..CronGap
  BY ConstantTypes DEF Restart, TypeOK
<1>4. job' \in [Jobs -> JobRecord] /\ queue' \in Seq(Jobs)
  <2>1. CASE UNCHANGED jobVars
    BY <2>1 DEF TypeOK, jobVars
  <2>2. ASSUME NEW j \in Jobs,
               job' = [job EXCEPT ![j].state = "waiting",
                                  ![j].left = {t \in Tickets : job[j].file[t] > 0}],
               queue' = <<j>> \o queue
        PROVE  job' \in [Jobs -> JobRecord] /\ queue' \in Seq(Jobs)
    <3>1. [job[j] EXCEPT !.state = "waiting", !.left = {t \in Tickets : job[j].file[t] > 0}]
            \in JobRecord
      BY DEF TypeOK, JobRecord
    <3>2. job' = [job EXCEPT ![j] = [job[j] EXCEPT !.state = "waiting",
                                      !.left = {t \in Tickets : job[j].file[t] > 0}]]
      BY <2>2 DEF TypeOK
    <3>3. <<j>> \in Seq(Jobs)
      OBVIOUS
    <3>4. queue' \in Seq(Jobs)
      BY <2>2, <3>3, ConcatProperties DEF TypeOK
    <3>5. job' \in [Jobs -> JobRecord]
      BY <3>1, <3>2 DEF TypeOK
    <3>6. QED
      BY <3>4, <3>5
  <2>3. ASSUME NEW j \in Jobs, job' = [job EXCEPT ![j].state = "failed"], UNCHANGED queue
        PROVE  job' \in [Jobs -> JobRecord] /\ queue' \in Seq(Jobs)
    <3>1. [job[j] EXCEPT !.state = "failed"] \in JobRecord
      BY DEF TypeOK, JobRecord
    <3>2. job' = [job EXCEPT ![j] = [job[j] EXCEPT !.state = "failed"]]
      BY <2>3 DEF TypeOK
    <3>3. QED
      BY <2>3, <3>1, <3>2 DEF TypeOK
  <2>4. QED
    BY <2>1, <2>2, <2>3 DEF Restart
<1>5. QED
  BY <1>1, <1>2, <1>3, <1>4 DEF Restart, TypeOK, ocaVars, dbVars

LEMMA StepType == TypeOK /\ [Next]_vars => TypeOK'
<1> SUFFICES ASSUME TypeOK, [Next]_vars PROVE TypeOK'
  OBVIOUS
<1>1. CASE UNCHANGED vars
  BY <1>1 DEF TypeOK, vars, ocaVars, dbVars, memVars, jobVars
<1>2. ASSUME NEW t \in Tickets, CreateTicket(t) \/ UpdateTicket(t)
      PROVE  TypeOK'
  BY <1>2, OcaType
<1>3. ASSUME NEW c \in Callers, Start(c) \/ RunStep(c)
      PROVE  TypeOK'
  BY <1>3, PageType, ProcessType, FallbackType, OutcomeType DEF RunStep, ProcessSome
<1>4. ASSUME NEW x \in Procs, ReportStep(x)
      PROVE  TypeOK'
  BY <1>4, ReportType
<1>5. QED
  BY <1>1, <1>2, <1>3, <1>4, WorkerType, ClockType, RestartType DEF Next

\* Every variable always has its type.
THEOREM TypeCorrect == Spec => []TypeOK
BY InitType, StepType, PTL DEF Spec

-----------------------------------------------------------------------------
(* Mutual exclusion: the flag follows the control point of the invocations. *)

\* A step that moves no invocation into or out of "idle" and leaves the flag alone.
KeepsIdle ==
  /\ isRunning' = isRunning
  /\ \A c \in Callers : run'[c].pc = "idle" <=> run[c].pc = "idle"

LEMMA KeepsIdleSuffices ==
  ASSUME MutualExclusion, KeepsIdle
  PROVE  MutualExclusion'
BY DEF MutualExclusion, KeepsIdle, At

LEMMA ContinueMoves ==
  ASSUME NEW r \in RunRecord
  PROVE  Continue(r).pc \in {"list", "chunk", "settle"}
BY DEF Continue, RunRecord

LEMMA PageKeepsIdle ==
  ASSUME TypeOK, NEW c \in Callers,
         ListPage(c) \/ ListFails(c) \/ Compare(c) \/ ProcessSome(c) \/ ChunkThrows(c)
  PROVE  KeepsIdle
<1>0. run \in [Procs -> RunRecord] /\ c \in Procs /\ run[c] \in RunRecord
  BY DEF TypeOK, Procs
<1>1. CASE ListPage(c)
  BY <1>0, <1>1 DEF ListPage, At, KeepsIdle, memVars, RunRecord, Procs
<1>2. CASE ListFails(c)
  BY <1>0, <1>2 DEF ListFails, At, KeepsIdle, memVars, RunRecord, Procs
<1>3. CASE Compare(c)
  <2>1. [run[c] EXCEPT !.todo = NeedsProcessing(run[c])] \in RunRecord
    BY <1>0 DEF RunRecord, NeedsProcessing
  <2>2. Continue([run[c] EXCEPT !.todo = NeedsProcessing(run[c])]).pc # "idle"
    BY <2>1, ContinueMoves
  <2>3. QED
    BY <1>0, <1>3, <2>2 DEF Compare, At, KeepsIdle, memVars, Procs
<1>4. ASSUME NEW chunk, NEW ok, ProcessChunk(c, chunk, ok)
      PROVE  KeepsIdle
  <2>1. [run[c] EXCEPT !.todo = run[c].todo \ chunk,
                       !.lost = run[c].lost \/ ok # chunk] \in RunRecord
    BY <1>0 DEF RunRecord
  <2>2. Continue([run[c] EXCEPT !.todo = run[c].todo \ chunk,
                                !.lost = run[c].lost \/ ok # chunk]).pc # "idle"
    BY <2>1, ContinueMoves
  <2>3. QED
    BY <1>0, <1>4, <2>2 DEF ProcessChunk, At, KeepsIdle, memVars, Procs
<1>5. CASE ChunkThrows(c)
  <2>1. PICK chunk \in ChunksOf(run[c].todo, ChunkSize) :
          run' = [run EXCEPT ![c] =
            Continue([run[c] EXCEPT !.todo = run[c].todo \ chunk, !.lost = TRUE])]
    BY <1>5 DEF ChunkThrows
  <2>2. [run[c] EXCEPT !.todo = run[c].todo \ chunk, !.lost = TRUE] \in RunRecord
    BY <1>0 DEF RunRecord
  <2>3. Continue([run[c] EXCEPT !.todo = run[c].todo \ chunk, !.lost = TRUE]).pc # "idle"
    BY <2>2, ContinueMoves
  <2>4. QED
    BY <1>0, <1>5, <2>1, <2>3 DEF ChunkThrows, At, KeepsIdle, memVars, Procs
<1>6. QED
  BY <1>1, <1>2, <1>3, <1>4, <1>5 DEF ProcessSome

LEMMA SettleKeepsIdle ==
  ASSUME TypeOK, NEW c \in Callers,
         StartFallback(c) \/ NoFallback(c) \/ WaitSeesCompleted(c) \/ WaitFails(c)
           \/ Stamp(c) \/ StampFails(c)
  PROVE  KeepsIdle
<1>0. run \in [Procs -> RunRecord] /\ c \in Procs /\ run[c] \in RunRecord
  BY DEF TypeOK, Procs
<1>1. CASE StartFallback(c)
  BY <1>0, <1>1 DEF StartFallback, At, KeepsIdle, RunRecord, Procs
<1>2. CASE NoFallback(c)
  BY <1>0, <1>2 DEF NoFallback, At, KeepsIdle, memVars, RunRecord, Procs
<1>3. CASE WaitSeesCompleted(c)
  BY <1>0, <1>3 DEF WaitSeesCompleted, At, KeepsIdle, memVars, RunRecord, Procs
<1>4. CASE WaitFails(c)
  BY <1>0, <1>4 DEF WaitFails, At, KeepsIdle, memVars, RunRecord, Procs
<1>5. CASE Stamp(c) \/ StampFails(c)
  BY <1>0, <1>5 DEF Stamp, StampFails, At, KeepsIdle, memVars, RunRecord, Procs
<1>6. QED
  BY <1>1, <1>2, <1>3, <1>4, <1>5

LEMMA ReportKeepsIdle ==
  ASSUME TypeOK, NEW x \in Procs, ReportStep(x)
  PROVE  KeepsIdle
<1>0. run \in [Procs -> RunRecord] /\ run[x] \in RunRecord
  BY DEF TypeOK
<1>1. CASE RequestReport(x)
  BY <1>0, <1>1 DEF RequestReport, At, KeepsIdle, memVars, RunRecord, Procs
<1>2. CASE ReportReady(x)
  BY <1>0, <1>2 DEF ReportReady, At, KeepsIdle, memVars, RunRecord, Procs
<1>3. CASE ReportFails(x)
  BY <1>0, <1>3 DEF ReportFails, At, KeepsIdle, memVars, RunRecord, Procs
<1>4. QED
  BY <1>1, <1>2, <1>3 DEF ReportStep

LEMMA OthersKeepIdle ==
  ASSUME TypeOK,
         \/ UNCHANGED vars \/ Tick \/ JobStart
         \/ \E t \in Tickets : CreateTicket(t) \/ UpdateTicket(t)
         \/ \E j \in Jobs : WorkerStep(j) \/ JobRemoved(j)
  PROVE  KeepsIdle
<1>1. CASE UNCHANGED vars
  BY <1>1 DEF vars, memVars, KeepsIdle
<1>2. CASE Tick
  <2>1. \A c \in Callers : run'[c].pc = run[c].pc
    BY <1>2 DEF Tick, TypeOK, RunRecord, Procs
  <2>2. QED
    BY <1>2, <2>1 DEF Tick, KeepsIdle
<1>3. CASE JobStart
  BY <1>3 DEF JobStart, memVars, KeepsIdle
<1>4. CASE \E t \in Tickets : CreateTicket(t) \/ UpdateTicket(t)
  BY <1>4 DEF CreateTicket, UpdateTicket, memVars, KeepsIdle
<1>5. CASE \E j \in Jobs : WorkerStep(j) \/ JobRemoved(j)
  BY <1>5 DEF WorkerStep, JobSave, JobComplete, JobFails, JobRemoved, memVars, KeepsIdle
<1>6. QED
  BY <1>1, <1>2, <1>3, <1>4, <1>5

LEMMA MutexStep == TypeOK /\ MutualExclusion /\ [Next]_vars => MutualExclusion'
<1> SUFFICES ASSUME TypeOK, MutualExclusion, [Next]_vars PROVE MutualExclusion'
  OBVIOUS
<1>1. ASSUME NEW c \in Callers, Start(c)
      PROVE  MutualExclusion'
  <2>1. run' = [run EXCEPT ![c] = [IdleRun EXCEPT !.pc = "list", !.base = ver]]
        /\ ~isRunning /\ isRunning' = TRUE
    BY <1>1 DEF Start
  <2>2. \A d \in Callers : run'[d].pc # "idle" <=> d = c
    BY <2>1 DEF MutualExclusion, At, IdleRun, TypeOK, Procs
  <2>3. QED
    BY <2>1, <2>2 DEF MutualExclusion, At
<1>2. ASSUME NEW c \in Callers, Finish(c)
      PROVE  MutualExclusion'
  <2>1. run' = [run EXCEPT ![c] = IdleRun] /\ run[c].pc # "idle" /\ isRunning' = FALSE
    BY <1>2 DEF Finish, At
  <2>2. \A d \in Callers : run'[d].pc = "idle"
    BY <2>1 DEF MutualExclusion, At, IdleRun, TypeOK, Procs
  <2>3. QED
    BY <2>1, <2>2 DEF MutualExclusion, At
<1>3. CASE Restart
  BY <1>3 DEF Restart, MutualExclusion, At, IdleRun, Procs
<1>4. ASSUME NEW c \in Callers, RunStep(c)
      PROVE  MutualExclusion'
  BY <1>2, <1>4, PageKeepsIdle, SettleKeepsIdle, KeepsIdleSuffices DEF RunStep
<1>5. QED
  BY <1>1, <1>3, <1>4, ReportKeepsIdle, OthersKeepIdle, KeepsIdleSuffices DEF Next

\* A cron tick and a manual click never overlap, however many callers there are and
\* whatever fails, is removed or restarts: Spec implies MutualExclusion.
THEOREM MutualExclusionHolds == Spec => []MutualExclusion
<1>1. Init => MutualExclusion
  BY DEF Init, MutualExclusion, At, IdleRun, Procs
<1>2. QED
  BY <1>1, TypeCorrect, MutexStep, PTL DEF Spec

-----------------------------------------------------------------------------
(* The fallback.  A run that waits for a job waits for its own: the file   *)
(* of a job never changes, and a job that was imported stays so.  The      *)
(* queue holds waiting jobs, each once, so that what JobStart takes up was *)
(* not imported before.                                                    *)

WaitingAreQueued ==
  /\ \A i \in DOMAIN queue : job[queue[i]].state = "waiting"
  /\ \A i, k \in DOMAIN queue : queue[i] = queue[k] => i = k

CompletedIsWhole == \A j \in Jobs : job[j].state = "completed" => job[j].left = {}

Imported(j) == job[j].state \in {"completed", "removed"} /\ job[j].left = {}

\* The file of the job a run has added is no older than the run.
OwnJob(r) == r.job \in Jobs /\ job[r.job].state # "unused" /\ AtLeast(job[r.job].file, r.base)

RunFallbackOK(r) ==
  /\ AtLeast(ver, r.base)
  /\ r.pc \in {"list", "compare", "chunk", "settle"} => ~r.fallbackUsed
  /\ r.pc = "poll" => AtLeast(r.rows, r.base)
  /\ r.pc = "wait" => OwnJob(r)
  /\ r.pc \in {"settled", "stamped"} /\ r.fallbackUsed /\ ~r.fallbackError =>
       OwnJob(r) /\ Imported(r.job)

RunsFallbackOK == \A c \in Callers : RunFallbackOK(run[c])

FallbackInv == WaitingAreQueued /\ CompletedIsWhole /\ RunsFallbackOK

\* What no step takes back: jobs keep their files, imported jobs stay imported, OCA only
\* gets newer.
MovesForward ==
  /\ AtLeast(ver', ver)
  /\ \A j \in Jobs : job[j].state # "unused" =>
       /\ job'[j].file = job[j].file
       /\ job'[j].state # "unused"
       /\ Imported(j) => Imported(j)'

\* The locals the fallback rests on.
Same(r, s) ==
  /\ s.base = r.base /\ s.pc = r.pc /\ s.rows = r.rows /\ s.job = r.job
  /\ s.fallbackUsed = r.fallbackUsed /\ s.fallbackError = r.fallbackError

LEMMA VersionsAreNumbers ==
  ASSUME NEW v \in Versions, NEW t \in Tickets
  PROVE  v[t] \in Nat
BY ConstantTypes DEF Versions

LEMMA StaysBehind ==
  ASSUME NEW u \in Versions, NEW v \in Versions, NEW w \in Versions, AtLeast(u, v), AtLeast(v, w)
  PROVE  AtLeast(u, w)
BY VersionsAreNumbers DEF AtLeast

LEMMA Reflexive == ASSUME NEW v \in Versions PROVE AtLeast(v, v)
BY VersionsAreNumbers DEF AtLeast

LEMMA RunKept ==
  ASSUME TypeOK, TypeOK', MovesForward, NEW c \in Callers,
         RunFallbackOK(run[c]), Same(run[c], run'[c])
  PROVE  RunFallbackOK(run[c])'
<1> DEFINE r == run[c]
           s == run'[c]
<1>1. r \in RunRecord /\ ver \in Versions /\ ver' \in Versions
  BY ConstantTypes DEF TypeOK
<1>2. r.base \in Versions
  BY <1>1 DEF RunRecord
<1>3. AtLeast(ver', r.base)
  BY <1>1, <1>2, StaysBehind DEF RunFallbackOK, MovesForward
<1>4. OwnJob(r) => OwnJob(r)'
  <2> SUFFICES ASSUME OwnJob(r) PROVE OwnJob(r)'
    OBVIOUS
  <2>1. r.job \in Jobs /\ job[r.job].state # "unused" /\ AtLeast(job[r.job].file, r.base)
    BY DEF OwnJob
  <2>2. job'[r.job].file = job[r.job].file /\ job'[r.job].state # "unused"
    BY <2>1 DEF MovesForward
  <2>3. s.job = r.job /\ s.base = r.base
    BY DEF Same
  <2>4. QED
    BY <2>1, <2>2, <2>3 DEF OwnJob
<1>5. OwnJob(r) /\ Imported(r.job) => Imported(r.job)'
  BY DEF OwnJob, MovesForward, Same, Imported
<1>6. QED
  BY <1>3, <1>4, <1>5 DEF RunFallbackOK, Same

\* One run moves, or none.
LEMMA RunsKept ==
  ASSUME TypeOK, TypeOK', MovesForward, RunsFallbackOK, NEW S,
         \A c \in Callers \ S : Same(run[c], run'[c]),
         \A c \in Callers \intersect S : RunFallbackOK(run[c])'
  PROVE  RunsFallbackOK'
<1>1. SUFFICES ASSUME NEW c \in Callers PROVE RunFallbackOK(run[c])'
  BY DEF RunsFallbackOK
<1>2. CASE c \in S
  BY <1>2
<1>3. CASE c \notin S
  BY <1>3, RunKept DEF RunsFallbackOK
<1>4. QED
  BY <1>2, <1>3

\* A step that leaves the tables of OCA and of BullMQ alone.
Aside == UNCHANGED <<ocaVars, jobVars>>

LEMMA AsideKeeps ==
  ASSUME TypeOK, TypeOK', FallbackInv, Aside, NEW x \in Procs,
         \A c \in Callers \ {x} : Same(run[c], run'[c]),
         x \in Callers => RunFallbackOK(run[x])'
  PROVE  FallbackInv'
<1>1. UNCHANGED <<ver, job, queue>>
  BY DEF Aside, ocaVars, jobVars
<1>2. MovesForward
  BY <1>1, Reflexive DEF MovesForward, Imported, TypeOK
<1>3. RunsFallbackOK'
  <2>1. \A c \in Callers \intersect {x} : RunFallbackOK(run[c])'
    OBVIOUS
  <2>2. RunsFallbackOK
    BY DEF FallbackInv
  <2>3. QED
    BY <1>2, <2>1, <2>2, RunsKept, Zenon
<1>4. WaitingAreQueued' /\ CompletedIsWhole'
  BY <1>1 DEF FallbackInv, WaitingAreQueued, CompletedIsWhole
<1>5. QED
  BY <1>3, <1>4 DEF FallbackInv

LEMMA OthersSame ==
  ASSUME TypeOK, NEW x \in Procs, NEW r, run' = [run EXCEPT ![x] = r]
  PROVE  /\ run'[x] = r
         /\ \A c \in Callers \ {x} : Same(run[c], run'[c])
BY DEF TypeOK, Same, Procs

LEMMA ContinueKeeps ==
  ASSUME NEW r \in RunRecord
  PROVE  /\ Continue(r).base = r.base
         /\ Continue(r).fallbackUsed = r.fallbackUsed
         /\ Continue(r).pc \in {"list", "chunk", "settle"}
BY DEF Continue, RunRecord

\* Before the fallback only the base matters.
LEMMA EarlyRunOK ==
  ASSUME NEW c \in Callers, AtLeast(ver', run'[c].base),
         run'[c].pc \in {"list", "compare", "chunk", "settle"}, ~run'[c].fallbackUsed
  PROVE  RunFallbackOK(run[c])'
BY DEF RunFallbackOK

LEMMA PageKeepsFallback ==
  ASSUME TypeOK, TypeOK', FallbackInv, NEW c \in Callers,
         ListPage(c) \/ ListFails(c) \/ Compare(c) \/ ProcessSome(c) \/ ChunkThrows(c)
  PROVE  FallbackInv'
<1>0. c \in Procs /\ run[c] \in RunRecord /\ run \in [Procs -> RunRecord]
  BY DEF TypeOK, Procs
<1>1. /\ Aside /\ ver' = ver
      /\ run[c].pc \in {"list", "compare", "chunk"}
  BY DEF ListPage, ListFails, Compare, ProcessSome, ProcessChunk, ChunkThrows, At, Aside,
         ocaVars, jobVars
<1>2. ~run[c].fallbackUsed /\ AtLeast(ver, run[c].base)
  BY <1>1 DEF FallbackInv, RunsFallbackOK, RunFallbackOK
<1>3. PICK r : /\ run' = [run EXCEPT ![c] = r]
               /\ r.base = run[c].base /\ r.fallbackUsed = run[c].fallbackUsed
               /\ r.pc \in {"list", "compare", "chunk", "settle"}
  <2>1. CASE ListPage(c)
    <3> DEFINE page == PageSlice(run[c].from)
               r == IF page = {}
                    THEN [run[c] EXCEPT !.pc = "settle", !.anyPage = TRUE]
                    ELSE [run[c] EXCEPT !.pc = "compare", !.anyPage = TRUE, !.total = created,
                               !.got = [t \in Tickets |-> IF t \in page THEN ver[t] ELSE 0]]
    <3>1. run' = [run EXCEPT ![c] = r]
      BY <2>1, <1>0 DEF ListPage
    <3>2. r.base = run[c].base /\ r.fallbackUsed = run[c].fallbackUsed
          /\ r.pc \in {"settle", "compare"}
      BY <1>0 DEF RunRecord
    <3>3. QED
      BY <3>1, <3>2
  <2>2. CASE ListFails(c)
    <3> DEFINE r == [run[c] EXCEPT !.pc = "settle", !.fetchError = TRUE, !.got = Nothing]
    <3>1. run' = [run EXCEPT ![c] = r]
      BY <2>2, <1>0 DEF ListFails
    <3>2. r.base = run[c].base /\ r.fallbackUsed = run[c].fallbackUsed /\ r.pc = "settle"
      BY <1>0 DEF RunRecord
    <3>3. QED
      BY <3>1, <3>2
  <2>3. ASSUME NEW q \in RunRecord, run' = [run EXCEPT ![c] = Continue(q)],
               q.base = run[c].base, q.fallbackUsed = run[c].fallbackUsed
        PROVE  \E r : /\ run' = [run EXCEPT ![c] = r]
                      /\ r.base = run[c].base /\ r.fallbackUsed = run[c].fallbackUsed
                      /\ r.pc \in {"list", "compare", "chunk", "settle"}
    BY <2>3, ContinueKeeps
  <2>4. CASE Compare(c)
    <3> DEFINE q == [run[c] EXCEPT !.todo = NeedsProcessing(run[c])]
    <3>1. q \in RunRecord /\ q.base = run[c].base /\ q.fallbackUsed = run[c].fallbackUsed
      BY <1>0 DEF RunRecord, NeedsProcessing
    <3>2. run' = [run EXCEPT ![c] = Continue(q)]
      BY <2>4 DEF Compare
    <3> HIDE DEF q
    <3>3. QED
      BY <2>3, <3>1, <3>2
  <2>5. ASSUME NEW chunk, NEW lost \in BOOLEAN,
               run' = [run EXCEPT ![c] =
                         Continue([run[c] EXCEPT !.todo = run[c].todo \ chunk, !.lost = lost])]
        PROVE  \E r : /\ run' = [run EXCEPT ![c] = r]
                      /\ r.base = run[c].base /\ r.fallbackUsed = run[c].fallbackUsed
                      /\ r.pc \in {"list", "compare", "chunk", "settle"}
    <3> DEFINE q == [run[c] EXCEPT !.todo = run[c].todo \ chunk, !.lost = lost]
    <3>1. q \in RunRecord /\ q.base = run[c].base /\ q.fallbackUsed = run[c].fallbackUsed
      BY <1>0 DEF RunRecord
    <3>2. run' = [run EXCEPT ![c] = Continue(q)]
      BY <2>5
    <3> HIDE DEF q
    <3>3. QED
      BY <2>3, <3>1, <3>2
  <2>6. CASE ProcessSome(c)
    <3>1. PICK chunk, ok : ProcessChunk(c, chunk, ok)
      BY <2>6 DEF ProcessSome
    <3>2. (run[c].lost \/ ok # chunk) \in BOOLEAN
      BY <1>0 DEF RunRecord
    <3>3. run' = [run EXCEPT ![c] = Continue([run[c] EXCEPT !.todo = run[c].todo \ chunk,
                                                          !.lost = run[c].lost \/ ok # chunk])]
      BY <3>1 DEF ProcessChunk
    <3>4. QED
      BY <2>5, <3>2, <3>3
  <2>7. CASE ChunkThrows(c)
    <3>1. PICK chunk \in ChunksOf(run[c].todo, ChunkSize) :
            run' = [run EXCEPT ![c] =
                      Continue([run[c] EXCEPT !.todo = run[c].todo \ chunk, !.lost = TRUE])]
      BY <2>7 DEF ChunkThrows
    <3>2. QED
      BY <2>5, <3>1
  <2>8. QED
    BY <2>1, <2>2, <2>4, <2>6, <2>7
<1>4. run'[c] = r /\ \A d \in Callers \ {c} : Same(run[d], run'[d])
  BY <1>0, <1>3, OthersSame
<1>5. RunFallbackOK(run[c])'
  BY <1>1, <1>2, <1>3, <1>4, EarlyRunOK
<1>6. QED
  BY <1>0, <1>1, <1>4, <1>5, AsideKeeps

LEMMA RunKeepsFallback ==
  ASSUME TypeOK, TypeOK', FallbackInv, NEW c \in Callers, Start(c) \/ RunStep(c)
  PROVE  FallbackInv'
<1>0. c \in Procs /\ run[c] \in RunRecord /\ run \in [Procs -> RunRecord] /\ ver \in Versions
  BY DEF TypeOK, Procs
<1>1. RunFallbackOK(run[c])
  BY DEF FallbackInv, RunsFallbackOK
<1>2. ASSUME NEW r, run' = [run EXCEPT ![c] = r], Aside,
             RunFallbackOK(r)
      PROVE  FallbackInv'
  <2>1. run'[c] = r /\ \A d \in Callers \ {c} : Same(run[d], run'[d])
    BY <1>0, <1>2, OthersSame
  <2>2. UNCHANGED <<ver, job>>
    BY <1>2 DEF Aside, ocaVars, jobVars
  <2>3. RunFallbackOK(run[c])'
    BY <1>2, <2>1, <2>2 DEF RunFallbackOK, OwnJob, Imported
  <2>4. QED
    BY <1>0, <1>2, <2>1, <2>3, AsideKeeps
<1>3. CASE Start(c)
  <2> DEFINE r == [IdleRun EXCEPT !.pc = "list", !.base = ver]
  <2>1. run' = [run EXCEPT ![c] = r] /\ Aside
    BY <1>3 DEF Start, Aside, ocaVars
  <2>2. RunFallbackOK(r)
    BY <1>0, Reflexive DEF RunFallbackOK, IdleRun
  <2> HIDE DEF r
  <2>3. QED
    BY <1>2, <2>1, <2>2
<1>4. CASE StartFallback(c)
  <2> DEFINE r == [run[c] EXCEPT !.pc = "report", !.fallbackUsed = TRUE]
  <2>1. run' = [run EXCEPT ![c] = r] /\ Aside
    BY <1>0, <1>4 DEF StartFallback, Aside, ocaVars
  <2>2. RunFallbackOK(r)
    BY <1>0, <1>1 DEF RunFallbackOK, RunRecord
  <2> HIDE DEF r
  <2>3. QED
    BY <1>2, <2>1, <2>2
<1>5. CASE NoFallback(c)
  <2> DEFINE r == [run[c] EXCEPT !.pc = "settled"]
  <2>1. run' = [run EXCEPT ![c] = r] /\ Aside /\ run[c].pc = "settle"
    BY <1>0, <1>5 DEF NoFallback, Aside, ocaVars, At
  <2>2. RunFallbackOK(r)
    BY <1>0, <1>1, <2>1 DEF RunFallbackOK, RunRecord
  <2> HIDE DEF r
  <2>3. QED
    BY <1>2, <2>1, <2>2
<1>6. CASE WaitSeesCompleted(c)
  <2> DEFINE r == [run[c] EXCEPT !.pc = "settled"]
  <2>1. run' = [run EXCEPT ![c] = r] /\ Aside /\ run[c].pc = "wait"
        /\ job[run[c].job].state = "completed"
    BY <1>0, <1>6 DEF WaitSeesCompleted, Aside, ocaVars, At
  <2>2. OwnJob(run[c])
    BY <1>1, <2>1 DEF RunFallbackOK
  <2>3. Imported(run[c].job)
    BY <2>1, <2>2 DEF FallbackInv, CompletedIsWhole, Imported, OwnJob
  <2>4. /\ r.pc = "settled" /\ r.base = run[c].base /\ r.job = run[c].job
        /\ AtLeast(ver, run[c].base)
    BY <1>0, <1>1 DEF RunRecord, RunFallbackOK
  <2> HIDE DEF r
  <2>5. RunFallbackOK(r)
    BY <2>2, <2>3, <2>4 DEF RunFallbackOK, OwnJob
  <2>6. QED
    BY <1>2, <2>1, <2>5
<1>7. CASE WaitFails(c)
  <2> DEFINE r == [run[c] EXCEPT !.pc = "settled", !.fallbackError = TRUE]
  <2>1. run' = [run EXCEPT ![c] = r] /\ Aside
    BY <1>0, <1>7 DEF WaitFails, Aside, ocaVars
  <2>2. RunFallbackOK(r)
    BY <1>0, <1>1 DEF RunFallbackOK, RunRecord
  <2> HIDE DEF r
  <2>3. QED
    BY <1>2, <2>1, <2>2
<1>8. CASE Stamp(c) \/ StampFails(c)
  <2> DEFINE r == [run[c] EXCEPT !.pc = "stamped"]
  <2>1. run' = [run EXCEPT ![c] = r] /\ Aside /\ run[c].pc = "settled"
    BY <1>0, <1>8 DEF Stamp, StampFails, Aside, ocaVars, At
  <2>2. /\ r.pc = "stamped" /\ r.base = run[c].base /\ r.job = run[c].job
        /\ r.fallbackUsed = run[c].fallbackUsed /\ r.fallbackError = run[c].fallbackError
    BY <1>0 DEF RunRecord
  <2> HIDE DEF r
  <2>3. RunFallbackOK(r)
    BY <1>1, <2>1, <2>2 DEF RunFallbackOK, OwnJob
  <2>4. QED
    BY <1>2, <2>1, <2>3
<1>9. CASE Finish(c)
  <2>1. run' = [run EXCEPT ![c] = IdleRun] /\ Aside
    BY <1>9 DEF Finish, Aside, ocaVars
  <2>2. RunFallbackOK(IdleRun)
    BY <1>0, VersionsAreNumbers DEF RunFallbackOK, IdleRun, Nothing, AtLeast
  <2>3. QED
    BY <1>2, <2>1, <2>2
<1>10. QED
  BY <1>3, <1>4, <1>5, <1>6, <1>7, <1>8, <1>9, PageKeepsFallback DEF RunStep

\* Adding a job to either end of the queue, and taking one.
LEMMA Enqueued ==
  ASSUME TypeOK, WaitingAreQueued, NEW j \in Jobs, job[j].state # "waiting",
         queue' = Append(queue, j) \/ queue' = <<j>> \o queue,
         job'[j].state = "waiting", \A i \in Jobs \ {j} : job'[i].state = job[i].state
  PROVE  WaitingAreQueued'
<1>1. queue \in Seq(Jobs) /\ DOMAIN queue = 1..Len(queue) /\ Len(queue) \in Nat
  BY DEF TypeOK
<1>2. \A i \in 1..Len(queue) : queue[i] \in Jobs \ {j} /\ job[queue[i]].state = "waiting"
  BY <1>1 DEF WaitingAreQueued
<1>3. \A i, k \in 1..Len(queue) : queue[i] = queue[k] => i = k
  BY <1>1 DEF WaitingAreQueued
<1>4. CASE queue' = Append(queue, j)
  <2>1. /\ DOMAIN queue' = 1..(Len(queue) + 1)
        /\ \A i \in 1..Len(queue) : queue'[i] = queue[i]
        /\ queue'[Len(queue) + 1] = j
    BY <1>1, <1>4
  <2>2. \A i \in DOMAIN queue' : i \in 1..Len(queue) \/ i = Len(queue) + 1
    BY <1>1, <2>1
  <2>3. QED
    BY <1>2, <1>3, <2>1, <2>2 DEF WaitingAreQueued
<1>5. CASE queue' = <<j>> \o queue
  <2>1. /\ DOMAIN queue' = 1..(Len(queue) + 1)
        /\ queue'[1] = j
        /\ \A i \in 2..(Len(queue) + 1) : queue'[i] = queue[i - 1]
    BY <1>1, <1>5
  <2>2. \A i \in DOMAIN queue' : i = 1 \/ (i \in 2..(Len(queue) + 1) /\ i - 1 \in 1..Len(queue))
    BY <1>1, <2>1
  <2>3. \A i \in DOMAIN queue' : job'[queue'[i]].state = "waiting"
    BY <1>2, <2>1, <2>2
  <2>4. ASSUME NEW i \in DOMAIN queue', NEW k \in DOMAIN queue', queue'[i] = queue'[k]
        PROVE  i = k
    <3>1. i \in Nat /\ k \in Nat
      BY <1>1, <2>1
    <3>2. CASE i = 1
      BY <1>2, <2>1, <2>2, <2>4, <3>2
    <3>3. CASE k = 1
      BY <1>2, <2>1, <2>2, <2>4, <3>3
    <3>4. CASE i # 1 /\ k # 1
      <4>1. i - 1 = k - 1
        BY <1>3, <2>1, <2>2, <2>4, <3>4
      <4>2. QED
        BY <3>1, <4>1
    <3>5. QED
      BY <3>2, <3>3, <3>4
  <2>5. QED
    BY <2>3, <2>4 DEF WaitingAreQueued
<1>6. QED
  BY <1>4, <1>5

LEMMA ReportKeepsFallback ==
  ASSUME TypeOK, TypeOK', FallbackInv, NEW x \in Procs, ReportStep(x)
  PROVE  FallbackInv'
<1>0. run[x] \in RunRecord /\ run \in [Procs -> RunRecord] /\ ver \in Versions
  BY DEF TypeOK
<1>1. x \in Callers => RunFallbackOK(run[x])
  BY DEF FallbackInv, RunsFallbackOK
<1>2. CASE RequestReport(x)
  <2> DEFINE r == [run[x] EXCEPT !.pc = "poll", !.rows = ver]
  <2>1. run' = [run EXCEPT ![x] = r] /\ Aside /\ ver' = ver
    BY <1>0, <1>2 DEF RequestReport, Aside, ocaVars
  <2>2. r.pc = "poll" /\ r.rows = ver /\ r.base = run[x].base
    BY <1>0 DEF RunRecord
  <2> HIDE DEF r
  <2>3. run'[x] = r /\ \A d \in Callers \ {x} : Same(run[d], run'[d])
    BY <1>0, <2>1, OthersSame
  <2>4. x \in Callers => RunFallbackOK(run[x])'
    BY <1>1, <2>1, <2>2, <2>3 DEF RunFallbackOK
  <2>5. QED
    BY <2>1, <2>3, <2>4, AsideKeeps
<1>3. CASE ReportFails(x)
  <2> DEFINE r == IF x \in Callers
                  THEN [run[x] EXCEPT !.pc = "settled", !.fallbackError = TRUE, !.rows = Nothing]
                  ELSE IdleRun
  <2>1. run' = [run EXCEPT ![x] = r] /\ Aside /\ ver' = ver
    BY <1>0, <1>3 DEF ReportFails, Aside, ocaVars
  <2>2. x \in Callers => r.pc = "settled" /\ r.fallbackError /\ r.base = run[x].base
    BY <1>0 DEF RunRecord
  <2> HIDE DEF r
  <2>3. run'[x] = r /\ \A d \in Callers \ {x} : Same(run[d], run'[d])
    BY <1>0, <2>1, OthersSame
  <2>4. x \in Callers => RunFallbackOK(run[x])'
    BY <1>1, <2>1, <2>2, <2>3 DEF RunFallbackOK
  <2>5. QED
    BY <2>1, <2>3, <2>4, AsideKeeps
<1>4. CASE ReportReady(x)
  <2> DEFINE r(j) == IF x \in Callers
                     THEN [run[x] EXCEPT !.pc = "wait", !.job = j, !.rows = Nothing]
                     ELSE IdleRun
  <2>1. PICK j \in Jobs :
          /\ job[j].state = "unused"
          /\ job' = [job EXCEPT ![j] = [state |-> "waiting", file |-> run[x].rows,
                                        left |-> {t \in Tickets : run[x].rows[t] > 0}]]
          /\ queue' = Append(queue, j)
          /\ run' = [run EXCEPT ![x] = r(j)]
    BY <1>4 DEF ReportReady
  <2>2. /\ x \in Callers => run[x].pc = "poll"
        /\ ver' = ver
    BY <1>4 DEF ReportReady, At, ocaVars
  <2>3. x \in Callers => r(j).pc = "wait" /\ r(j).job = j /\ r(j).base = run[x].base
    BY <1>0 DEF RunRecord
  <2> HIDE DEF r
  <2>4. run'[x] = r(j) /\ \A d \in Callers \ {x} : Same(run[d], run'[d])
    BY <1>0, <2>1, OthersSame
  <2>5. /\ job'[j].state = "waiting" /\ job'[j].file = run[x].rows
        /\ \A i \in Jobs \ {j} : job'[i] = job[i]
    BY <2>1 DEF TypeOK
  <2>6. x \in Callers => RunFallbackOK(run[x])'
    BY <1>1, <2>2, <2>3, <2>4, <2>5 DEF RunFallbackOK, OwnJob
  <2>7. MovesForward
    BY <1>0, <2>1, <2>2, <2>5, Reflexive DEF MovesForward, Imported
  <2>8. RunsFallbackOK'
    <3>1. \A d \in Callers \intersect {x} : RunFallbackOK(run[d])'
      BY <2>6
    <3>2. RunsFallbackOK
      BY DEF FallbackInv
    <3>3. QED
      BY <2>4, <2>7, <3>1, <3>2, RunsKept, Zenon
  <2>9. WaitingAreQueued'
    BY <2>1, <2>5, Enqueued DEF FallbackInv
  <2>10. CompletedIsWhole'
    BY <2>5 DEF FallbackInv, CompletedIsWhole
  <2>11. QED
    BY <2>8, <2>9, <2>10 DEF FallbackInv
<1>5. QED
  BY <1>2, <1>3, <1>4 DEF ReportStep

\* Steps of others that leave the locals the fallback rests on alone.
LEMMA ElsewhereKeeps ==
  ASSUME TypeOK, TypeOK', FallbackInv, MovesForward, \A c \in Callers : Same(run[c], run'[c]),
         WaitingAreQueued', CompletedIsWhole'
  PROVE  FallbackInv'
<1>1. RunsFallbackOK
  BY DEF FallbackInv
<1>2. (\A c \in Callers \ {} : Same(run[c], run'[c]))
      /\ \A c \in Callers \intersect {} : RunFallbackOK(run[c])'
  OBVIOUS
<1>3. RunsFallbackOK'
  BY <1>1, <1>2, RunsKept, Zenon
<1>4. QED
  BY <1>3 DEF FallbackInv

LEMMA WorkerKeepsFallback ==
  ASSUME TypeOK, TypeOK', FallbackInv, JobStart \/ \E j \in Jobs : WorkerStep(j) \/ JobRemoved(j)
  PROVE  FallbackInv'
<1>0. /\ ver \in Versions /\ job \in [Jobs -> JobRecord] /\ queue \in Seq(Jobs)
      /\ WaitingAreQueued /\ CompletedIsWhole
  BY DEF TypeOK, FallbackInv
<1>1. run' = run /\ ver' = ver
  BY DEF JobStart, WorkerStep, JobSave, JobComplete, JobFails, JobRemoved, ocaVars
<1>2. \A c \in Callers : Same(run[c], run'[c])
  BY <1>1 DEF Same
<1>3. CASE JobStart
  <2>1. /\ Head(queue) \in Jobs /\ job[Head(queue)].state = "waiting"
        /\ Len(queue) \in Nat /\ Len(queue) > 0 /\ Head(queue) = queue[1]
        /\ DOMAIN queue = 1..Len(queue)
    BY <1>0, <1>3 DEF JobStart, WaitingAreQueued
  <2>2. job' = [job EXCEPT ![Head(queue)].state = "active"] /\ queue' = Tail(queue)
    BY <1>3 DEF JobStart
  <2>3. /\ job'[Head(queue)].state = "active" /\ job'[Head(queue)].file = job[Head(queue)].file
        /\ \A i \in Jobs \ {Head(queue)} : job'[i] = job[i]
    BY <1>0, <2>1, <2>2 DEF JobRecord
  <2>4. MovesForward
    BY <1>0, <1>1, <2>1, <2>3, Reflexive DEF MovesForward, Imported
  <2>5. CompletedIsWhole'
    BY <1>0, <2>3 DEF CompletedIsWhole
  <2>6. /\ DOMAIN queue' = 1..(Len(queue) - 1)
        /\ \A i \in 1..(Len(queue) - 1) : queue'[i] = queue[i + 1]
    BY <1>0, <2>1, <2>2
  <2>7. \A i \in 1..(Len(queue) - 1) : i \in Nat /\ i + 1 \in 1..Len(queue) /\ i + 1 # 1
    BY <2>1
  <2>8. \A i \in DOMAIN queue' : job'[queue'[i]].state = "waiting"
    <3>1. SUFFICES ASSUME NEW i \in 1..(Len(queue) - 1) PROVE job'[queue[i + 1]].state = "waiting"
      BY <2>6
    <3>2. i + 1 \in DOMAIN queue /\ 1 \in DOMAIN queue /\ i + 1 # 1
      BY <2>1, <2>7
    <3>3. queue[i + 1] # queue[1] /\ job[queue[i + 1]].state = "waiting" /\ queue[i + 1] \in Jobs
      BY <1>0, <3>2 DEF WaitingAreQueued
    <3>4. QED
      BY <2>1, <2>3, <3>3
  <2>9. ASSUME NEW i \in DOMAIN queue', NEW k \in DOMAIN queue', queue'[i] = queue'[k]
        PROVE  i = k
    <3>1. i + 1 \in DOMAIN queue /\ k + 1 \in DOMAIN queue /\ i \in Nat /\ k \in Nat
      BY <2>1, <2>6, <2>7
    <3>2. queue[i + 1] = queue[k + 1]
      BY <2>6, <2>9
    <3>3. i + 1 = k + 1
      BY <1>0, <3>1, <3>2 DEF WaitingAreQueued
    <3>4. QED
      BY <3>1, <3>3
  <2>10. WaitingAreQueued'
    BY <2>8, <2>9 DEF WaitingAreQueued
  <2>11. QED
    BY <1>2, <2>4, <2>5, <2>10, ElsewhereKeeps
<1>4. ASSUME NEW j \in Jobs, WorkerStep(j) \/ JobRemoved(j)
      PROVE  FallbackInv'
  <2>1. /\ job[j].state # "waiting" /\ job[j].state # "unused" /\ queue' = queue
        /\ job'[j].file = job[j].file /\ job'[j].state \notin {"unused", "waiting"}
        /\ \A i \in Jobs \ {j} : job'[i] = job[i]
    BY <1>0, <1>4 DEF WorkerStep, JobSave, JobComplete, JobFails, JobRemoved, JobRecord
  <2>2. Imported(j) => Imported(j)'
    BY <1>0, <1>4 DEF WorkerStep, JobSave, JobComplete, JobFails, JobRemoved, JobRecord, Imported
  <2>3. job'[j].state = "completed" => job'[j].left = {}
    BY <1>0, <1>4 DEF WorkerStep, JobSave, JobComplete, JobFails, JobRemoved, JobRecord,
                      CompletedIsWhole
  <2>4. MovesForward
    BY <1>0, <1>1, <2>1, <2>2, Reflexive DEF MovesForward, Imported
  <2>5. CompletedIsWhole'
    BY <1>0, <2>1, <2>3 DEF CompletedIsWhole
  <2>6. WaitingAreQueued'
    BY <1>0, <2>1 DEF WaitingAreQueued
  <2>7. QED
    BY <1>2, <2>4, <2>5, <2>6, ElsewhereKeeps
<1>5. QED
  BY <1>3, <1>4

\* What was not created yet has no version.
UnbornIsNothing == \A t \in Tickets : born[t] = 0 => ver[t] = 0

LEMMA UnbornStep == TypeOK /\ UnbornIsNothing /\ [Next]_vars => UnbornIsNothing'
<1> SUFFICES ASSUME TypeOK, UnbornIsNothing, [Next]_vars PROVE UnbornIsNothing'
  OBVIOUS
<1>0. ver \in [Tickets -> 0..MaxVersion] /\ born \in [Tickets -> Nat] /\ created \in Nat
      /\ 0 \notin 1..(MaxVersion - 1) /\ created + 1 # 0
  BY ConstantTypes DEF TypeOK, Versions
<1>1. CASE UNCHANGED <<born, ver>>
  BY <1>1 DEF UnbornIsNothing
<1>2. ASSUME NEW t \in Tickets, CreateTicket(t)
      PROVE  UnbornIsNothing'
  BY <1>0, <1>2 DEF CreateTicket, UnbornIsNothing
<1>3. ASSUME NEW t \in Tickets, UpdateTicket(t)
      PROVE  UnbornIsNothing'
  BY <1>0, <1>3 DEF UpdateTicket, UnbornIsNothing
<1>4. ASSUME NEW c \in Callers, Start(c) \/ RunStep(c)
      PROVE  UNCHANGED <<born, ver>>
  BY <1>4 DEF RunStep, Start, ListPage, ListFails, Compare, ProcessSome, ProcessChunk,
       ChunkThrows, StartFallback, NoFallback, WaitSeesCompleted, WaitFails, Stamp, StampFails,
       Finish, ocaVars
<1>5. ASSUME NEW x \in Procs, ReportStep(x)
      PROVE  UNCHANGED <<born, ver>>
  BY <1>5 DEF ReportStep, RequestReport, ReportReady, ReportFails, ocaVars
<1>6. ASSUME JobStart \/ (\E j \in Jobs : WorkerStep(j) \/ JobRemoved(j)) \/ Tick \/ Restart
             \/ UNCHANGED vars
      PROVE  UNCHANGED <<born, ver>>
  BY <1>6 DEF JobStart, WorkerStep, JobSave, JobComplete, JobFails, JobRemoved, Tick, Restart,
              vars, ocaVars
<1>7. QED
  BY <1>1, <1>2, <1>3, <1>4, <1>5, <1>6 DEF Next

LEMMA OcaAndClockKeepFallback ==
  ASSUME TypeOK, TypeOK', FallbackInv, UnbornIsNothing,
         UNCHANGED vars \/ Tick \/ \E t \in Tickets : CreateTicket(t) \/ UpdateTicket(t)
  PROVE  FallbackInv'
<1>0. ver \in Versions /\ born \in [Tickets -> Nat] /\ run \in [Procs -> RunRecord]
  BY DEF TypeOK
<1>1. UNCHANGED <<job, queue>>
  BY DEF vars, Tick, CreateTicket, UpdateTicket, jobVars
<1>2. \A c \in Callers : Same(run[c], run'[c])
  <2>1. CASE Tick
    <3>1. SUFFICES ASSUME NEW c \in Callers PROVE Same(run[c], run'[c])
      OBVIOUS
    <3>2. c \in Procs /\ run[c] \in RunRecord
      BY <1>0 DEF Procs
    <3>3. run'[c] \in {run[c], [run[c] EXCEPT !.waited = run[c].waited + 1]}
      BY <2>1, <3>2 DEF Tick
    <3>4. QED
      BY <3>2, <3>3 DEF Same, RunRecord
  <2>2. CASE run' = run
    BY <2>2 DEF Same
  <2>3. QED
    BY <2>1, <2>2 DEF vars, CreateTicket, UpdateTicket
<1>3. AtLeast(ver', ver)
  <2>1. CASE ver' = ver
    BY <1>0, <2>1, Reflexive
  <2>2. ASSUME NEW t \in Tickets, UpdateTicket(t)
        PROVE  AtLeast(ver', ver)
    BY <1>0, <2>2, VersionsAreNumbers DEF UpdateTicket, AtLeast, Versions
  <2>3. ASSUME NEW t \in Tickets, CreateTicket(t)
        PROVE  AtLeast(ver', ver)
    <3>1. ver' = [ver EXCEPT ![t] = 1]
      BY <2>3 DEF CreateTicket
    <3>2. ver[t] = 0
      BY <2>3 DEF CreateTicket, UnbornIsNothing
    <3>3. QED
      BY <1>0, <3>1, <3>2, VersionsAreNumbers DEF AtLeast, Versions
  <2>4. QED
    BY <2>1, <2>2, <2>3 DEF Tick, vars, ocaVars
<1>4. MovesForward
  BY <1>1, <1>3 DEF MovesForward, Imported
<1>5. WaitingAreQueued' /\ CompletedIsWhole'
  BY <1>1 DEF FallbackInv, WaitingAreQueued, CompletedIsWhole
<1>6. QED
  BY <1>2, <1>4, <1>5, ElsewhereKeeps

LEMMA RestartKeepsFallback ==
  ASSUME TypeOK, TypeOK', FallbackInv, Restart
  PROVE  FallbackInv'
<1>0. ver \in Versions /\ job \in [Jobs -> JobRecord] /\ ver' = ver
  BY DEF TypeOK, Restart, ocaVars
<1>1. RunsFallbackOK'
  <2>1. SUFFICES ASSUME NEW c \in Callers PROVE RunFallbackOK(run[c])'
    BY DEF RunsFallbackOK
  <2>2. run'[c] = IdleRun
    BY DEF Restart, Procs
  <2>3. QED
    BY <1>0, <2>2, VersionsAreNumbers DEF RunFallbackOK, IdleRun, Nothing, AtLeast
<1>2. WaitingAreQueued /\ CompletedIsWhole
  BY DEF FallbackInv
<1>3. CASE UNCHANGED jobVars
  BY <1>1, <1>2, <1>3 DEF FallbackInv, WaitingAreQueued, CompletedIsWhole, jobVars
<1>4. ASSUME NEW j \in Jobs, job[j].state = "active",
             job' = [job EXCEPT ![j].state = "waiting",
                                ![j].left = {t \in Tickets : job[j].file[t] > 0}],
             queue' = <<j>> \o queue
      PROVE  FallbackInv'
  <2>1. job'[j].state = "waiting" /\ \A i \in Jobs \ {j} : job'[i] = job[i]
    BY <1>0, <1>4 DEF JobRecord
  <2>2. WaitingAreQueued'
    BY <1>2, <1>4, <2>1, Enqueued
  <2>3. CompletedIsWhole'
    BY <1>2, <2>1 DEF CompletedIsWhole
  <2>4. QED
    BY <1>1, <2>2, <2>3 DEF FallbackInv
<1>5. ASSUME NEW j \in Jobs, job[j].state = "active", job' = [job EXCEPT ![j].state = "failed"],
             UNCHANGED queue
      PROVE  FallbackInv'
  <2>1. job'[j].state = "failed" /\ \A i \in Jobs \ {j} : job'[i] = job[i]
    BY <1>0, <1>5 DEF JobRecord
  <2>2. WaitingAreQueued'
    BY <1>2, <1>5, <2>1 DEF WaitingAreQueued, TypeOK
  <2>3. CompletedIsWhole'
    BY <1>2, <2>1 DEF CompletedIsWhole
  <2>4. QED
    BY <1>1, <2>2, <2>3 DEF FallbackInv
<1>6. QED
  BY <1>3, <1>4, <1>5 DEF Restart

LEMMA FallbackStep ==
  TypeOK /\ TypeOK' /\ UnbornIsNothing /\ FallbackInv /\ [Next]_vars => FallbackInv'
BY RunKeepsFallback, ReportKeepsFallback, WorkerKeepsFallback, OcaAndClockKeepFallback,
   RestartKeepsFallback DEF Next

LEMMA FallbackInit == Init => FallbackInv /\ UnbornIsNothing
<1> SUFFICES ASSUME Init PROVE FallbackInv /\ UnbornIsNothing
  OBVIOUS
<1>1. WaitingAreQueued /\ CompletedIsWhole
  BY DEF Init, WaitingAreQueued, CompletedIsWhole, NoJob
<1>2. RunsFallbackOK
  BY ConstantTypes, Reflexive DEF Init, RunsFallbackOK, RunFallbackOK, IdleRun, Procs
<1>3. UnbornIsNothing
  BY DEF Init, UnbornIsNothing, Nothing
<1>4. QED
  BY <1>1, <1>2, <1>3 DEF FallbackInv

\* A run that ends as 'fallback' saw its own CSV job imported to the last row, of a file
\* generated after the run started: however many callers, operators and jobs there are,
\* and whatever times out, fails, is removed or restarts.
THEOREM FallbackIsImportedHolds == Spec => []FallbackIsImported
<1>1. FallbackInv => FallbackIsImported
  <2>1. SUFFICES ASSUME FallbackInv, NEW c \in Callers,
                        run[c].pc \in {"settled", "stamped"}, StatusOf(run[c]) = "fallback"
                 PROVE  OwnJob(run[c]) /\ Imported(run[c].job)
    BY DEF FallbackIsImported, OwnJob, Imported
  <2>2. run[c].fallbackUsed /\ ~run[c].fallbackError
    BY <2>1 DEF StatusOf
  <2>3. QED
    BY <2>1, <2>2 DEF FallbackInv, RunsFallbackOK, RunFallbackOK
<1>2. QED
  BY <1>1, FallbackInit, FallbackStep, UnbornStep, TypeCorrect, PTL DEF Spec

-----------------------------------------------------------------------------
(* Without CSV jobs lastSync never lies.                                   *)


LEMMA OnlyCallers == ASSUME NoCsv PROVE Procs = Callers
BY DEF NoCsv, Procs

\* The arithmetic facts the provers need of the types.
LEMMA Numbers ==
  ASSUME TypeOK
  PROVE  /\ created \in Nat
         /\ \A t \in Tickets : born[t] \in Nat /\ ver[t] \in Nat /\ raw[t] \in Nat
                               /\ lastSync[t] \in Nat /\ lastRun.base[t] \in Nat
BY ConstantTypes DEF TypeOK, Versions, ResultRecord

LEMMA RecordNumbers ==
  ASSUME NEW r \in RunRecord
  PROVE  /\ r.from \in Nat /\ r.total \in Nat
         /\ \A t \in Tickets : r.got[t] \in Nat /\ r.base[t] \in Nat
BY ConstantTypes DEF RunRecord, Versions

LEMMA AtLeastTransitive ==
  ASSUME NEW u, NEW v, NEW w, AtLeast(u, v), AtLeast(v, w),
         \A t \in Tickets : u[t] \in Nat /\ v[t] \in Nat /\ w[t] \in Nat
  PROVE  AtLeast(u, w)
BY DEF AtLeast

-----------------------------------------------------------------------------
\* The initial states satisfy the invariant.
LEMMA IdleOK ==
  ASSUME NEW store, NEW stamp, created \in Nat,
         \A t \in Tickets : ver[t] \in Nat /\ store[t] \in Nat
  PROVE  RunOK(IdleRun, store, stamp)
BY DEF RunOK, IdleRun, Owed, AtLeast, Nothing

LEMMA InitInv == ASSUME NoCsv PROVE Init => IInv
<1> SUFFICES ASSUME Init PROVE IInv
  OBVIOUS
<1>1. TypeOK
  BY InitType
<1>2. MutualExclusion
  BY DEF Init, MutualExclusion, At, IdleRun, Procs
<1>3. NoJobYet /\ RanksAreDense
  BY DEF Init, NoJobYet, RanksAreDense, NoJob, Nothing
<1>4. AtLeast(ver, raw) /\ ClaimsHold
  BY DEF Init, ClaimsHold, AtLeast, Nothing, NeverRun
<1>5. RunsOK
  BY <1>1, IdleOK, Numbers DEF Init, RunsOK, Procs
<1>6. QED
  BY <1>1, <1>2, <1>3, <1>4, <1>5 DEF IInv

-----------------------------------------------------------------------------
(* Steps of the run in flight.                                             *)

\* Leaving or keeping the page: nothing that is owed is skipped.
LEMMA ContinueOK ==
  ASSUME TypeOK, RanksAreDense, NEW r \in RunRecord, NEW store, NEW stamp,
         r.pc \in {"compare", "chunk"}, ~r.fallbackUsed,
         AtLeast(ver, r.base), AtLeast(ver, r.got), r.total <= created,
         AtLeast(r.base, stamp),
         \A t \in Tickets : store[t] \in Nat,
         \A t \in r.todo : r.got[t] > store[t],
         \A t \in Tickets :
           \/ r.fetchError \/ r.lost
           \/ store[t] >= r.base[t]
           \/ t \in r.todo /\ r.got[t] >= r.base[t]
           \/ r.total - born[t] + 1 > r.from + PageSize
  PROVE  RunOK(Continue(r), store, stamp)
<1>1. CASE r.todo # {}
  <2>1. Continue(r) = [r EXCEPT !.pc = "chunk"]
    BY <1>1 DEF Continue
  <2>2. QED
    BY <2>1 DEF RunOK, Owed, RunRecord
<1>2. CASE r.todo = {} /\ r.from + PageSize >= r.total
  <2>1. Continue(r) = [r EXCEPT !.pc = "settle", !.got = Nothing]
    BY <1>2 DEF Continue
  <2>2. \A t \in Tickets : r.fetchError \/ r.lost \/ store[t] >= r.base[t]
    <3>1. \A t \in Tickets : born[t] = 0 => ver[t] = 0 /\ r.base[t] = 0
      BY Numbers, RecordNumbers DEF RanksAreDense, AtLeast
    <3>2. QED
      BY <1>2, <3>1, Numbers, RecordNumbers, ConstantTypes
  <2>3. AtLeast(ver, Nothing)
    BY Numbers DEF AtLeast, Nothing
  <2>4. QED
    BY <2>1, <2>2, <2>3 DEF RunOK, Owed, RunRecord
<1>3. CASE r.todo = {} /\ ~(r.from + PageSize >= r.total)
  <2>1. Continue(r) = [r EXCEPT !.pc = "list", !.from = r.from + PageSize, !.got = Nothing]
    BY <1>3 DEF Continue
  <2>2. \A t \in Tickets : \/ r.fetchError \/ r.lost \/ store[t] >= r.base[t]
                           \/ Position(t) > r.from + PageSize
    BY <1>3, Numbers, RecordNumbers, ConstantTypes DEF Position
  <2>3. AtLeast(ver, Nothing)
    BY Numbers DEF AtLeast, Nothing
  <2>4. QED
    BY <2>1, <2>2, <2>3 DEF RunOK, Owed, RunRecord
<1>4. QED
  BY <1>1, <1>2, <1>3

\* A run in flight is alone: whatever it does to its locals, to the table (forwards)
\* and to the stamp, the other invocations are idle and stay as they are.
LEMMA AloneOK ==
  ASSUME IInv, NEW c \in Callers, ~At(c, "idle"), NEW r,
         run' = [run EXCEPT ![c] = r],
         \A t \in Tickets : raw'[t] \in Nat,
         AtLeast(raw', raw), AtLeast(ver, raw'), RunOK(r, raw', lastSync'),
         UNCHANGED <<ocaVars, jobVars>>
  PROVE  NoJobYet' /\ RanksAreDense' /\ AtLeast(ver, raw)' /\ RunsOK'
<1>1. NoJobYet' /\ RanksAreDense' /\ AtLeast(ver, raw)'
  BY DEF IInv, NoJobYet, RanksAreDense, AtLeast, ocaVars, jobVars
<1>2. ASSUME NEW d \in Callers, d # c
      PROVE  RunOK(run[d], raw', lastSync')
  <2>1. run[d].pc = "idle"
    BY <1>2 DEF IInv, MutualExclusion, At
  <2>2. run[d] \in RunRecord
    BY DEF IInv, TypeOK, Procs
  <2>3. RunOK(run[d], raw, lastSync)
    BY DEF IInv, RunsOK
  <2>4. \A t \in Tickets : Owed(run[d], t, raw')
    <3>1. SUFFICES ASSUME NEW t \in Tickets PROVE Owed(run[d], t, raw')
      OBVIOUS
    <3>2. raw[t] \in Nat /\ raw'[t] \in Nat /\ raw'[t] >= raw[t] /\ run[d].base[t] \in Nat
      BY <2>2, Numbers, RecordNumbers DEF IInv, AtLeast
    <3>3. Owed(run[d], t, raw)
      BY <2>3 DEF RunOK
    <3>4. QED
      BY <2>1, <3>2, <3>3 DEF Owed
  <2>5. QED
    BY <2>1, <2>3, <2>4 DEF RunOK
<1>3. \A d \in Callers : RunOK(run'[d], raw', lastSync')
  <2>1. \A d \in Callers : run'[d] = IF d = c THEN r ELSE run[d]
    BY DEF IInv, TypeOK, Procs
  <2>2. QED
    BY <1>2, <2>1
<1>4. RunsOK'
  BY <1>3 DEF RunsOK, RunOK, Owed, Position, ocaVars, AtLeast
<1>5. QED
  BY <1>1, <1>4

-----------------------------------------------------------------------------
\* The conclusion of the steps below, for a step that leaves OCA and the jobs alone.
RunPart == NoJobYet /\ RanksAreDense /\ AtLeast(ver, raw) /\ RunsOK

\* A run only uses Start when no other is in flight.
LEMMA StartInv ==
  ASSUME IInv, NEW c \in Callers, Start(c)
  PROVE  RunPart' /\ ClaimsHold'
<1> DEFINE r == [IdleRun EXCEPT !.pc = "list", !.base = ver]
<1>1. run' = [run EXCEPT ![c] = r]
  BY DEF Start
<1>2. RunOK(r, raw, lastSync)
  <2>1. /\ r.pc = "list" /\ r.base = ver /\ r.got = Nothing /\ r.total = 0 /\ r.from = 0
        /\ ~r.fallbackUsed
    BY DEF IdleRun
  <2>2. AtLeast(ver, ver) /\ AtLeast(ver, Nothing) /\ 0 <= created
    BY Numbers DEF AtLeast, Nothing, IInv
  <2>3. AtLeast(ver, lastSync)
    BY Numbers, AtLeastTransitive DEF IInv, ClaimsHold
  <2>4. \A t \in Tickets : Position(t) > 0
    BY Numbers DEF IInv, RanksAreDense, Position
  <2>5. QED
    BY <2>1, <2>2, <2>3, <2>4 DEF RunOK, Owed
<1>3. \A d \in Callers : run'[d] = IF d = c THEN r ELSE run[d]
  BY <1>1 DEF IInv, TypeOK, Procs
<1>4. \A d \in Callers : RunOK(run'[d], raw, lastSync)
  BY <1>2, <1>3 DEF IInv, RunsOK
<1>5. RunsOK'
  BY <1>4 DEF RunsOK, RunOK, Owed, Position, ocaVars, dbVars, AtLeast, Start
<1>6. QED
  BY <1>5 DEF Start, IInv, RunPart, NoJobYet, RanksAreDense, ClaimsHold, AtLeast, ocaVars, dbVars, jobVars

\* Steps that touch nothing but the locals of the run in flight.
LEMMA LocalInv ==
  ASSUME IInv, NEW c \in Callers, ~At(c, "idle"), NEW r,
         run' = [run EXCEPT ![c] = r],
         RunOK(r, raw, lastSync), UNCHANGED <<ocaVars, dbVars, memVars, jobVars>>
  PROVE  RunPart' /\ ClaimsHold'
<1>1. raw' = raw /\ lastSync' = lastSync /\ lastRun' = lastRun
  BY DEF dbVars, memVars
<1>2. AtLeast(raw', raw) /\ \A t \in Tickets : raw'[t] \in Nat
  BY <1>1, Numbers DEF IInv, AtLeast
<1>3. AtLeast(ver, raw') /\ RunOK(r, raw', lastSync')
  BY <1>1 DEF IInv
<1>4. RunPart'
  BY <1>2, <1>3, AloneOK DEF RunPart
<1>5. ClaimsHold'
  BY <1>1 DEF IInv, ClaimsHold, AtLeast
<1>6. QED
  BY <1>4, <1>5

LEMMA ListPageInv ==
  ASSUME IInv, NEW c \in Callers, ListPage(c)
  PROVE  RunPart' /\ ClaimsHold'
<1> DEFINE old == run[c]
           page == PageSlice(old.from)
<1>0. /\ old \in RunRecord /\ old.pc = "list" /\ RunOK(old, raw, lastSync)
      /\ run \in [Procs -> RunRecord] /\ c \in Procs
  BY DEF ListPage, At, IInv, TypeOK, RunsOK, Procs
<1>1. CASE page = {}
  <2> DEFINE r == [old EXCEPT !.pc = "settle", !.anyPage = TRUE]
  <2>1. run' = [run EXCEPT ![c] = r]
    BY <1>0, <1>1 DEF ListPage
  <2>2. \A t \in Tickets : old.fetchError \/ old.lost \/ raw[t] >= old.base[t]
    <3>1. SUFFICES ASSUME NEW t \in Tickets, ~(raw[t] >= old.base[t]),
                          Position(t) > old.from
                   PROVE  FALSE
      BY <1>0 DEF RunOK, Owed
    <3>2. ver[t] > 0
      BY <1>0, <3>1, Numbers, RecordNumbers DEF IInv, RunOK, AtLeast
    <3>3. born[t] > 0 /\ born[t] <= created
      BY <3>2 DEF IInv, RanksAreDense
    <3>4. created - old.from \in 1..created
      BY <1>0, <3>1, <3>3, Numbers, RecordNumbers DEF IInv, Position
    <3>5. PICK u \in Tickets : born[u] = created - old.from
      BY <3>4 DEF IInv, RanksAreDense
    <3>6. u \in page
      BY <1>0, <3>4, <3>5, Numbers, RecordNumbers, ConstantTypes DEF IInv, PageSlice, Position
    <3>7. QED
      BY <1>1, <3>6
  <2>3. RunOK(r, raw, lastSync)
    BY <1>0, <2>2 DEF RunOK, Owed, RunRecord
  <2>4. QED
    BY <1>0, <2>1, <2>3, LocalInv DEF ListPage, At
<1>2. CASE page # {}
  <2> DEFINE got == [t \in Tickets |-> IF t \in page THEN ver[t] ELSE 0]
             r == [old EXCEPT !.pc = "compare", !.anyPage = TRUE, !.total = created, !.got = got]
  <2>1. run' = [run EXCEPT ![c] = r]
    BY <1>0, <1>2 DEF ListPage
  <2>2. AtLeast(ver, got)
    BY Numbers DEF IInv, AtLeast
  <2>3. \A t \in Tickets : \/ old.fetchError \/ old.lost \/ raw[t] >= old.base[t]
                           \/ got[t] >= old.base[t]
                           \/ created - born[t] + 1 > old.from + PageSize
    <3>1. SUFFICES ASSUME NEW t \in Tickets, ~(raw[t] >= old.base[t]),
                          Position(t) > old.from,
                          ~(created - born[t] + 1 > old.from + PageSize)
                   PROVE  got[t] >= old.base[t]
      BY <1>0 DEF RunOK, Owed
    <3>2. ver[t] > 0 /\ ver[t] >= old.base[t]
      BY <1>0, <3>1, Numbers, RecordNumbers DEF IInv, RunOK, AtLeast
    <3>3. born[t] > 0
      BY <3>2 DEF IInv, RanksAreDense
    <3>4. t \in page
      BY <1>0, <3>1, <3>3, Numbers, RecordNumbers, ConstantTypes DEF IInv, PageSlice, Position
    <3>5. QED
      BY <3>2, <3>4
  <2>4. RunOK(r, raw, lastSync)
    <3>1. /\ r.pc = "compare" /\ r.got = got /\ r.total = created /\ r.base = old.base
          /\ r.from = old.from /\ r.fetchError = old.fetchError /\ r.lost = old.lost
          /\ r.fallbackUsed = old.fallbackUsed
      BY <1>0 DEF RunRecord
    <3>2. created <= created
      BY Numbers DEF IInv
    <3>3. QED
      BY <1>0, <2>2, <2>3, <3>1, <3>2 DEF RunOK, Owed
  <2>5. QED
    BY <1>0, <2>1, <2>4, LocalInv DEF ListPage, At
<1>3. QED
  BY <1>1, <1>2

LEMMA ListFailsInv ==
  ASSUME IInv, NEW c \in Callers, ListFails(c)
  PROVE  RunPart' /\ ClaimsHold'
<1> DEFINE r == [run[c] EXCEPT !.pc = "settle", !.fetchError = TRUE, !.got = Nothing]
<1>0. run[c] \in RunRecord /\ RunOK(run[c], raw, lastSync) /\ run[c].pc # "idle"
  BY DEF ListFails, IInv, TypeOK, RunsOK, Procs
<1>1. run' = [run EXCEPT ![c] = r]
  BY DEF ListFails, IInv, TypeOK, Procs
<1>2. AtLeast(ver, Nothing)
  BY Numbers DEF AtLeast, Nothing, IInv
<1>3. RunOK(r, raw, lastSync)
  BY <1>0, <1>2 DEF RunOK, Owed, RunRecord
<1>4. QED
  BY <1>0, <1>1, <1>3, LocalInv DEF ListFails, At

LEMMA CompareInv ==
  ASSUME IInv, NEW c \in Callers, Compare(c)
  PROVE  RunPart' /\ ClaimsHold'
<1> DEFINE old == run[c]
           todo == NeedsProcessing(old)
           r == [old EXCEPT !.todo = todo]
<1>0. old \in RunRecord /\ RunOK(old, raw, lastSync) /\ old.pc = "compare"
  BY DEF Compare, At, IInv, TypeOK, RunsOK, Procs
<1>1. /\ r \in RunRecord /\ r.pc = "compare" /\ r.todo = todo /\ r.got = old.got
      /\ r.base = old.base /\ r.total = old.total /\ r.from = old.from
      /\ r.fetchError = old.fetchError /\ r.lost = old.lost
      /\ r.fallbackUsed = old.fallbackUsed
  BY <1>0 DEF RunRecord, NeedsProcessing
<1>2. \A t \in todo : old.got[t] > raw[t]
  BY <1>0, Numbers, RecordNumbers DEF IInv, NeedsProcessing
<1>3. \A t \in Tickets : \/ old.fetchError \/ old.lost \/ raw[t] >= old.base[t]
                         \/ t \in todo /\ old.got[t] >= old.base[t]
                         \/ old.total - born[t] + 1 > old.from + PageSize
  <2>1. SUFFICES ASSUME NEW t \in Tickets, ~(raw[t] >= old.base[t]), old.got[t] >= old.base[t]
                 PROVE  t \in todo
    BY <1>0 DEF RunOK, Owed
  <2>2. QED
    BY <1>0, <2>1, Numbers, RecordNumbers DEF IInv, NeedsProcessing
<1>4. RunOK(Continue(r), raw, lastSync)
  <2>1. /\ AtLeast(ver, r.base) /\ AtLeast(ver, r.got) /\ r.total <= created
        /\ AtLeast(r.base, lastSync) /\ ~r.fallbackUsed
    BY <1>0, <1>1 DEF RunOK
  <2>2. \A t \in r.todo : r.got[t] > raw[t]
    BY <1>1, <1>2
  <2>3. \A t \in Tickets : \/ r.fetchError \/ r.lost \/ raw[t] >= r.base[t]
                           \/ t \in r.todo /\ r.got[t] >= r.base[t]
                           \/ r.total - born[t] + 1 > r.from + PageSize
    BY <1>1, <1>3
  <2>4. TypeOK /\ RanksAreDense /\ \A t \in Tickets : raw[t] \in Nat
    BY Numbers DEF IInv
  <2>5. r \in RunRecord /\ r.pc \in {"compare", "chunk"}
    BY <1>1
  <2> HIDE DEF r
  <2>6. QED
    BY <2>1, <2>2, <2>3, <2>4, <2>5, ContinueOK
<1>5. run' = [run EXCEPT ![c] = Continue(r)]
  BY DEF Compare
<1>6. QED
  BY <1>0, <1>4, <1>5, LocalInv DEF Compare, At

\* The tickets of ok are stored, the others of the chunk are lost.
LEMMA ProcessChunkInv ==
  ASSUME IInv, NEW c \in Callers, NEW chunk, NEW ok, ProcessChunk(c, chunk, ok)
  PROVE  RunPart' /\ ClaimsHold'
<1> DEFINE old == run[c]
           r == [old EXCEPT !.todo = old.todo \ chunk, !.lost = old.lost \/ ok # chunk]
<1>0. old \in RunRecord /\ RunOK(old, raw, lastSync) /\ old.pc = "chunk"
  BY DEF ProcessChunk, At, IInv, TypeOK, RunsOK, Procs
<1>1. /\ r \in RunRecord /\ r.pc = "chunk" /\ r.todo = old.todo \ chunk /\ r.got = old.got
      /\ r.base = old.base /\ r.total = old.total /\ r.from = old.from
      /\ r.fetchError = old.fetchError /\ r.lost = (old.lost \/ ok # chunk)
      /\ r.fallbackUsed = old.fallbackUsed
  BY <1>0 DEF RunRecord
<1>r. run' = [run EXCEPT ![c] = Continue(r)]
  BY DEF ProcessChunk
<1> HIDE DEF r
<1>2. ok \subseteq chunk /\ chunk \subseteq old.todo
  BY DEF ProcessChunk, ChunksOf
<1>3. \A t \in Tickets : raw'[t] = IF t \in ok THEN old.got[t] ELSE raw[t]
  BY DEF ProcessChunk, SaveBatch
<1>4. \A t \in Tickets : raw'[t] \in Nat /\ raw'[t] >= raw[t] /\ ver[t] >= raw'[t]
  BY <1>0, <1>2, <1>3, Numbers, RecordNumbers DEF IInv, RunOK, AtLeast
<1>5. \A t \in r.todo : r.got[t] > raw'[t]
  BY <1>0, <1>1, <1>2, <1>3 DEF RunOK, RunRecord
<1>6. \A t \in Tickets : \/ r.fetchError \/ r.lost \/ raw'[t] >= r.base[t]
                         \/ t \in r.todo /\ r.got[t] >= r.base[t]
                         \/ r.total - born[t] + 1 > r.from + PageSize
  <2>1. SUFFICES ASSUME NEW t \in Tickets, ~r.fetchError, ~r.lost,
                        ~(r.total - born[t] + 1 > r.from + PageSize)
                 PROVE  raw'[t] >= r.base[t] \/ (t \in r.todo /\ r.got[t] >= r.base[t])
    OBVIOUS
  <2>2. ok = chunk /\ ~old.lost
    BY <1>1, <2>1
  <2>3. raw[t] >= old.base[t] \/ (t \in old.todo /\ old.got[t] >= old.base[t])
    <3>1. Owed(old, t, raw)
      BY <1>0 DEF RunOK
    <3>2. ~old.fetchError /\ ~(old.total - born[t] + 1 > old.from + PageSize)
      BY <1>1, <2>1
    <3>3. QED
      BY <1>0, <2>2, <3>1, <3>2 DEF Owed
  <2>4. CASE raw[t] >= old.base[t]
    <3>1. raw'[t] \in Nat /\ raw'[t] >= raw[t] /\ raw[t] \in Nat /\ old.base[t] \in Nat
      BY <1>0, <1>4, Numbers, RecordNumbers DEF IInv
    <3>2. raw'[t] >= old.base[t]
      BY <2>4, <3>1
    <3>3. QED
      BY <1>1, <3>2
  <2>5. CASE t \in old.todo /\ old.got[t] >= old.base[t]
    BY <1>1, <1>3, <2>2, <2>5
  <2>6. QED
    BY <2>3, <2>4, <2>5
<1>7. lastSync' = lastSync /\ lastRun' = lastRun /\ UNCHANGED <<ocaVars, jobVars>>
  BY DEF ProcessChunk, memVars
<1>8. RunOK(Continue(r), raw', lastSync')
  <2>1. /\ AtLeast(ver, r.base) /\ AtLeast(ver, r.got) /\ r.total <= created
        /\ AtLeast(r.base, lastSync') /\ ~r.fallbackUsed
    BY <1>0, <1>1, <1>7 DEF RunOK
  <2>2. TypeOK /\ RanksAreDense
    BY DEF IInv
  <2>3. r \in RunRecord /\ r.pc \in {"compare", "chunk"}
    BY <1>1
  <2>4. \A t \in Tickets : raw'[t] \in Nat
    BY <1>4
  <2>5. QED
    BY <1>5, <1>6, <2>1, <2>2, <2>3, <2>4, ContinueOK
<1>9. RunPart'
  <2>1. AtLeast(raw', raw) /\ AtLeast(ver, raw')
    BY <1>4 DEF AtLeast
  <2>2. QED
    BY <1>0, <1>r, <1>4, <1>7, <1>8, <2>1, AloneOK DEF RunPart, At
<1>10. ClaimsHold'
  <2>1. \A t \in Tickets : raw'[t] >= lastSync[t]
    BY <1>4, Numbers DEF IInv, ClaimsHold, AtLeast
  <2>2. lastRun.status \in {"success", "fallback"} =>
          \A t \in Tickets : raw'[t] >= lastRun.base[t]
    BY <1>4, Numbers DEF IInv, ClaimsHold, AtLeast
  <2>3. QED
    BY <1>7, <2>1, <2>2 DEF ClaimsHold, AtLeast
<1>11. QED
  BY <1>9, <1>10

LEMMA ChunkThrowsInv ==
  ASSUME IInv, NEW c \in Callers, ChunkThrows(c)
  PROVE  RunPart' /\ ClaimsHold'
<1> DEFINE old == run[c]
<1>0. old \in RunRecord /\ RunOK(old, raw, lastSync) /\ old.pc = "chunk"
  BY DEF ChunkThrows, At, IInv, TypeOK, RunsOK, Procs
<1>1. PICK chunk : run' = [run EXCEPT ![c] =
                      Continue([old EXCEPT !.todo = old.todo \ chunk, !.lost = TRUE])]
  BY DEF ChunkThrows
<1> DEFINE r == [old EXCEPT !.todo = old.todo \ chunk, !.lost = TRUE]
<1>2. /\ r \in RunRecord /\ r.pc = "chunk" /\ r.todo = old.todo \ chunk /\ r.got = old.got
      /\ r.base = old.base /\ r.total = old.total /\ r.lost
      /\ r.fallbackUsed = old.fallbackUsed
  BY <1>0 DEF RunRecord
<1>3. RunOK(Continue(r), raw, lastSync)
  <2>1. /\ AtLeast(ver, r.base) /\ AtLeast(ver, r.got) /\ r.total <= created
        /\ AtLeast(r.base, lastSync) /\ ~r.fallbackUsed
    BY <1>0, <1>2 DEF RunOK
  <2>2. \A t \in r.todo : r.got[t] > raw[t]
    BY <1>0, <1>2 DEF RunOK
  <2>3. TypeOK /\ RanksAreDense /\ \A t \in Tickets : raw[t] \in Nat
    BY Numbers DEF IInv
  <2>4. r \in RunRecord /\ r.pc \in {"compare", "chunk"} /\ r.lost
    BY <1>2
  <2> HIDE DEF r
  <2>5. QED
    BY <2>1, <2>2, <2>3, <2>4, ContinueOK
<1>4. QED
  BY <1>0, <1>1, <1>3, LocalInv DEF ChunkThrows, At

-----------------------------------------------------------------------------
\* The outcome of a run.
LEMMA SettledOwesNothing ==
  ASSUME NEW r, NEW store, NEW stamp, RunOK(r, store, stamp), Clean(r),
         r.pc \in {"settled", "stamped"}
  PROVE  AtLeast(store, r.base)
<1>1. ~r.fetchError /\ ~r.lost
  BY DEF RunOK, Clean, StatusOf
<1>2. QED
  BY <1>1 DEF RunOK, Owed, AtLeast

LEMMA NoFallbackInv ==
  ASSUME IInv, NEW c \in Callers, NoFallback(c)
  PROVE  RunPart' /\ ClaimsHold'
<1>0. run[c] \in RunRecord /\ RunOK(run[c], raw, lastSync) /\ run[c].pc = "settle"
  BY DEF NoFallback, At, IInv, TypeOK, RunsOK, Procs
<1>1. run' = [run EXCEPT ![c] = [run[c] EXCEPT !.pc = "settled"]]
  BY DEF NoFallback, IInv, TypeOK, Procs
<1>2. RunOK([run[c] EXCEPT !.pc = "settled"], raw, lastSync)
  BY <1>0 DEF RunOK, Owed, RunRecord
<1>3. QED
  BY <1>0, <1>1, <1>2, LocalInv DEF NoFallback, At

LEMMA StampInv ==
  ASSUME IInv, NEW c \in Callers, Stamp(c)
  PROVE  RunPart' /\ ClaimsHold' /\ AtLeast(lastSync', lastSync)
<1> DEFINE r == [run[c] EXCEPT !.pc = "stamped"]
<1>0. run[c] \in RunRecord /\ RunOK(run[c], raw, lastSync) /\ run[c].pc = "settled"
  BY DEF Stamp, At, IInv, TypeOK, RunsOK, Procs
<1>1. run' = [run EXCEPT ![c] = r] /\ lastSync' = run[c].base /\ raw' = raw
      /\ lastRun' = lastRun /\ UNCHANGED <<ocaVars, jobVars>>
  BY DEF Stamp, IInv, TypeOK, Procs, memVars
<1>2. AtLeast(raw, run[c].base)
  BY <1>0, SettledOwesNothing DEF Stamp
<1>3. AtLeast(run[c].base, run[c].base)
  BY <1>0, RecordNumbers DEF AtLeast
<1>4. RunOK(r, raw, lastSync')
  BY <1>0, <1>1, <1>3 DEF RunOK, Owed, RunRecord
<1>5. AtLeast(raw', raw) /\ AtLeast(ver, raw') /\ \A t \in Tickets : raw'[t] \in Nat
  BY <1>1, Numbers DEF IInv, AtLeast
<1>6. RunPart'
  BY <1>0, <1>1, <1>4, <1>5, AloneOK DEF RunPart, At
<1>7. ClaimsHold'
  BY <1>1, <1>2 DEF IInv, ClaimsHold, AtLeast
<1>8. QED
  BY <1>0, <1>1, <1>6, <1>7 DEF RunOK

LEMMA StampFailsInv ==
  ASSUME IInv, NEW c \in Callers, StampFails(c)
  PROVE  RunPart' /\ ClaimsHold'
<1>0. run[c] \in RunRecord /\ RunOK(run[c], raw, lastSync) /\ run[c].pc = "settled"
  BY DEF StampFails, At, IInv, TypeOK, RunsOK, Procs
<1>1. run' = [run EXCEPT ![c] = [run[c] EXCEPT !.pc = "stamped"]]
  BY DEF StampFails, IInv, TypeOK, Procs
<1>2. RunOK([run[c] EXCEPT !.pc = "stamped"], raw, lastSync)
  BY <1>0 DEF RunOK, Owed, RunRecord
<1>3. QED
  BY <1>0, <1>1, <1>2, LocalInv DEF StampFails, At

LEMMA FinishInv ==
  ASSUME IInv, NEW c \in Callers, Finish(c)
  PROVE  RunPart' /\ ClaimsHold'
<1>0. run[c] \in RunRecord /\ RunOK(run[c], raw, lastSync)
      /\ run[c].pc \in {"settled", "stamped"}
  BY DEF Finish, At, IInv, TypeOK, RunsOK, Procs
<1>1. run' = [run EXCEPT ![c] = IdleRun] /\ lastSync' = lastSync /\ raw' = raw
      /\ UNCHANGED <<ocaVars, jobVars>>
  BY DEF Finish, dbVars
<1>2. RunOK(IdleRun, raw', lastSync')
  BY <1>1, Numbers, IdleOK DEF IInv
<1>3. AtLeast(raw', raw) /\ AtLeast(ver, raw') /\ \A t \in Tickets : raw'[t] \in Nat
  BY <1>1, Numbers DEF IInv, AtLeast
<1>4. RunPart'
  BY <1>0, <1>1, <1>2, <1>3, AloneOK DEF RunPart, At
<1>5. lastRun'.status \in {"success", "fallback"} => AtLeast(raw, lastRun'.base)
  BY <1>0, SettledOwesNothing DEF Finish, Clean
<1>6. QED
  BY <1>1, <1>4, <1>5 DEF IInv, ClaimsHold, AtLeast

-----------------------------------------------------------------------------
(* The other steps: a restart, the clock, OCA, and the steps that the       *)
(* absence of CSV jobs rules out.                                          *)

LEMMA RestartInv ==
  ASSUME NoCsv, IInv, Restart
  PROVE  RunPart' /\ ClaimsHold'
<1>1. UNCHANGED <<ocaVars, dbVars, jobVars>>
  BY DEF Restart, IInv, NoJobYet
<1>2. \A c \in Callers : run'[c] = IdleRun
  BY DEF Restart, Procs
<1>3. \A c \in Callers : RunOK(IdleRun, raw, lastSync)
  BY IdleOK, Numbers DEF IInv
<1>4. RunsOK'
  BY <1>1, <1>2, <1>3 DEF RunsOK, RunOK, Owed, Position, ocaVars, dbVars, AtLeast
<1>5. ClaimsHold'
  BY <1>1 DEF Restart, IInv, ClaimsHold, AtLeast, NeverRun, dbVars
<1>6. QED
  BY <1>1, <1>4, <1>5
     DEF IInv, RunPart, NoJobYet, RanksAreDense, AtLeast, ocaVars, dbVars, jobVars

LEMMA TickInv ==
  ASSUME NoCsv, IInv, Tick
  PROVE  RunPart' /\ ClaimsHold'
<1>1. \A c \in Callers : ~Waiting(c)
  BY DEF IInv, RunsOK, RunOK, Waiting, At
<1>2. UNCHANGED <<ocaVars, dbVars, lastRun, jobVars>>
  BY DEF Tick
<1>3. \A c \in Callers : run'[c] = run[c]
  BY <1>1, OnlyCallers DEF Tick
<1>4. RunsOK'
  BY <1>2, <1>3 DEF IInv, RunsOK, RunOK, Owed, Position, ocaVars, dbVars, AtLeast
<1>5. QED
  BY <1>2, <1>4
     DEF IInv, RunPart, NoJobYet, RanksAreDense, ClaimsHold, AtLeast, ocaVars, dbVars, jobVars

LEMMA OcaMovesForward ==
  ASSUME IInv, NEW t \in Tickets, CreateTicket(t) \/ UpdateTicket(t)
  PROVE  /\ created' \in Nat /\ created' >= created
         /\ \A u \in Tickets : ver'[u] \in Nat /\ ver'[u] >= ver[u]
         /\ \A u \in Tickets : born[u] > 0 => born'[u] = born[u]
<1>1. born \in [Tickets -> Nat] /\ ver \in [Tickets -> 0..MaxVersion] /\ created \in Nat
  BY DEF IInv, TypeOK, Versions
<1>2. CASE CreateTicket(t)
  <2>1. \A u \in Tickets : ver'[u] = IF u = t THEN 1 ELSE ver[u]
    BY <1>1, <1>2 DEF CreateTicket
  <2>2. \A u \in Tickets : born'[u] = IF u = t THEN created + 1 ELSE born[u]
    BY <1>1, <1>2 DEF CreateTicket
  <2>3. born[t] = 0 /\ ver[t] = 0 /\ created' = created + 1
    BY <1>1, <1>2, Numbers DEF CreateTicket, IInv, RanksAreDense
  <2>4. QED
    BY <1>1, <2>1, <2>2, <2>3, ConstantTypes
<1>3. CASE UpdateTicket(t)
  <2>1. \A u \in Tickets : ver'[u] = IF u = t THEN ver[u] + 1 ELSE ver[u]
    BY <1>1, <1>3 DEF UpdateTicket
  <2>2. born' = born /\ created' = created
    BY <1>3 DEF UpdateTicket
  <2>3. QED
    BY <1>1, <2>1, <2>2, ConstantTypes
<1>4. QED
  BY <1>2, <1>3

\* A newer OCA: nothing the program holds becomes wrong, and no page already read is
\* needed again.
LEMMA NewerOcaOK ==
  ASSUME IInv, NEW t \in Tickets, CreateTicket(t) \/ UpdateTicket(t), NEW c \in Callers
  PROVE  RunOK(run[c], raw, lastSync)'
<1> DEFINE r == run[c]
<1>0. r \in RunRecord /\ RunOK(r, raw, lastSync)
  BY DEF IInv, RunsOK, TypeOK, Procs
<1>1. UNCHANGED <<raw, lastSync, run>>
  BY DEF CreateTicket, UpdateTicket, dbVars
<1>2. /\ created' \in Nat /\ created' >= created
      /\ \A u \in Tickets : ver'[u] \in Nat /\ ver'[u] >= ver[u]
      /\ \A u \in Tickets : born[u] > 0 => born'[u] = born[u]
  BY OcaMovesForward
<1>3. AtLeast(ver', r.base) /\ AtLeast(ver', r.got) /\ r.total <= created'
  BY <1>0, <1>2, Numbers, RecordNumbers DEF IInv, RunOK, AtLeast
<1>4. \A u \in Tickets : Owed(r, u, raw)'
  <2>1. SUFFICES ASSUME NEW u \in Tickets, ~(raw[u] >= r.base[u]) PROVE Owed(r, u, raw)'
    BY <1>1 DEF Owed
  <2>2. born[u] > 0 /\ born'[u] = born[u]
    BY <1>0, <1>2, <2>1, Numbers, RecordNumbers DEF IInv, RunOK, AtLeast, RanksAreDense
  <2>3. Position(u)' >= Position(u) /\ Position(u) \in Int /\ Position(u)' \in Int
    BY <1>2, <2>2, Numbers DEF IInv, Position
  <2>4. Owed(r, u, raw)
    BY <1>0 DEF RunOK
  <2>5. QED
    BY <1>0, <1>1, <2>1, <2>2, <2>3, <2>4, RecordNumbers DEF Owed
<1>5. QED
  BY <1>0, <1>1, <1>3, <1>4 DEF RunOK, AtLeast

LEMMA NewerOcaInv ==
  ASSUME IInv, NEW t \in Tickets, CreateTicket(t) \/ UpdateTicket(t)
  PROVE  RunPart' /\ ClaimsHold' /\ AtLeast(ver', ver)
<1>1. RunsOK'
  <2>1. ASSUME NEW c \in Callers PROVE RunOK(run[c], raw, lastSync)'
    BY NewerOcaOK
  <2>2. QED
    BY <2>1 DEF RunsOK
<1>2. UNCHANGED <<raw, lastSync, lastRun, job, queue>>
  BY DEF CreateTicket, UpdateTicket, dbVars, memVars, jobVars
<1>3. \A u \in Tickets : ver'[u] \in Nat /\ ver'[u] >= ver[u]
  BY OcaMovesForward
<1>4. AtLeast(ver, raw)' /\ AtLeast(ver', ver)
  BY <1>2, <1>3, Numbers DEF IInv, AtLeast
<1>5. RanksAreDense'
  <2>1. CASE CreateTicket(t)
    <3>1. /\ \A u \in Tickets : born'[u] = IF u = t THEN created + 1 ELSE born[u]
          /\ \A u \in Tickets : ver'[u] = IF u = t THEN 1 ELSE ver[u]
          /\ created' = created + 1 /\ born[t] = 0
      BY <2>1 DEF CreateTicket, IInv, TypeOK, Versions
    <3>2. \A u \in Tickets : born'[u] <= created' /\ (ver'[u] > 0 <=> born'[u] > 0)
      BY <3>1, Numbers DEF IInv, RanksAreDense
    <3>3. ASSUME NEW k \in 1..created' PROVE \E u \in Tickets : born'[u] = k
      <4>1. CASE k = created'
        BY <3>1, <4>1
      <4>2. CASE k # created'
        <5>1. k \in 1..created
          BY <3>1, <4>2, Numbers DEF IInv
        <5>2. PICK u \in Tickets : born[u] = k
          BY <5>1 DEF IInv, RanksAreDense
        <5>3. u # t
          BY <3>1, <5>1, <5>2
        <5>4. QED
          BY <3>1, <5>2, <5>3
      <4>3. QED
        BY <4>1, <4>2
    <3>4. QED
      BY <3>2, <3>3 DEF RanksAreDense
  <2>2. CASE UpdateTicket(t)
    <3>1. born' = born /\ created' = created
      BY <2>2 DEF UpdateTicket
    <3>2. \A u \in Tickets : ver'[u] > 0 <=> ver[u] > 0
      BY <2>2, Numbers DEF UpdateTicket, IInv, TypeOK, Versions
    <3>3. QED
      BY <3>1, <3>2 DEF IInv, RanksAreDense
  <2>3. QED
    BY <2>1, <2>2
<1>6. QED
  BY <1>1, <1>2, <1>4, <1>5 DEF IInv, RunPart, NoJobYet, ClaimsHold, AtLeast

LEMMA NoCsvStep ==
  ASSUME NoCsv, IInv
  PROVE  /\ \A x \in Procs : ~ReportStep(x)
         /\ \A c \in Callers : ~StartFallback(c) /\ ~WaitSeesCompleted(c) /\ ~WaitFails(c)
         /\ ~JobStart
         /\ \A j \in Jobs : ~WorkerStep(j) /\ ~JobRemoved(j)
<1>1. \A c \in Callers : run[c].pc \notin {"report", "poll", "wait"}
  BY DEF IInv, RunsOK, RunOK
<1>2. \A x \in Procs : ~ReportStep(x)
  BY <1>1, OnlyCallers DEF ReportStep, RequestReport, ReportReady, ReportFails, At
<1>3. \A c \in Callers : ~StartFallback(c) /\ ~WaitSeesCompleted(c) /\ ~WaitFails(c)
  BY <1>1 DEF NoCsv, StartFallback, FallbackAllowed, WaitSeesCompleted, WaitFails, At
<1>4. ~JobStart /\ \A j \in Jobs : ~WorkerStep(j) /\ ~JobRemoved(j)
  BY DEF IInv, NoJobYet, JobStart, WorkerStep, JobSave, JobComplete, JobFails, JobRemoved
<1>5. QED
  BY <1>2, <1>3, <1>4

-----------------------------------------------------------------------------
LEMMA StepInv == ASSUME NoCsv PROVE IInv /\ [Next]_vars => IInv'
<1> SUFFICES ASSUME IInv, [Next]_vars PROVE IInv'
  OBVIOUS
<1>1. TypeOK' /\ MutualExclusion'
  BY StepType, MutexStep DEF IInv
<1>2. RunPart' /\ ClaimsHold'
  <2>1. CASE UNCHANGED vars
    BY <2>1 DEF IInv, RunPart, NoJobYet, RanksAreDense, RunsOK, RunOK, Owed, Position,
                ClaimsHold, AtLeast, vars, ocaVars, dbVars, memVars, jobVars
  <2>2. ASSUME NEW c \in Callers, RunStep(c) PROVE RunPart' /\ ClaimsHold'
    BY <2>2, NoCsvStep, ListPageInv, ListFailsInv, CompareInv, ProcessChunkInv,
       ChunkThrowsInv, NoFallbackInv, StampInv, StampFailsInv, FinishInv
       DEF RunStep, ProcessSome
  <2>3. QED
    BY <2>1, <2>2, NoCsvStep, StartInv, TickInv, RestartInv, NewerOcaInv DEF Next
<1>3. QED
  BY <1>1, <1>2 DEF IInv, RunPart

\* The invariant itself: every run owes no ticket it has forgotten, at every step of every
\* interleaving.
THEOREM IInvHolds == ASSUME NoCsv PROVE Spec => []IInv
<1>1. Init => IInv
  BY InitInv
<1>2. IInv /\ [Next]_vars => IInv'
  BY StepInv
<1>3. QED
  BY <1>1, <1>2, PTL DEF Spec

\* Without CSV jobs lastSync does not lie: whatever OCA held when the run that wrote it
\* started is stored, for all interleavings of callers, page shifts, lost tickets,
\* failures and restarts.
THEOREM VouchedIsStoredHolds == ASSUME NoCsv PROVE Spec => []VouchedIsStored
<1>1. IInv => VouchedIsStored
  BY DEF IInv, ClaimsHold, VouchedIsStored
<1>2. QED
  BY <1>1, IInvHolds, PTL

\* Without CSV jobs the dashboard answers 'completed' only when everything OCA held when
\* the last run started is stored.
THEOREM ToastIsHonestHolds == ASSUME NoCsv PROVE Spec => []ToastIsHonest
<1>1. IInv => ToastIsHonest
  BY DEF IInv, ClaimsHold, ToastIsHonest, UiStatus
<1>2. QED
  BY <1>1, IInvHolds, PTL

-----------------------------------------------------------------------------
(* Every step maps to a step of the ledger or to a stutter.                *)

LEMMA LedgerStep ==
  ASSUME NoCsv, IInv, IInv', [Next]_vars
  PROVE  [Ledger!LedgerNext]_<<ver, raw, lastSync>>
<1>0. /\ ver' \in [Tickets -> 0..MaxVersion] /\ raw' \in [Tickets -> 0..MaxVersion]
      /\ lastSync' \in [Tickets -> 0..MaxVersion]
  BY DEF IInv, TypeOK, Versions
<1>1. ASSUME NEW t \in Tickets, CreateTicket(t) \/ UpdateTicket(t)
      PROVE  Ledger!Change
  BY <1>0, <1>1, NewerOcaInv
     DEF Ledger!Change, Ledger!NotOlder, AtLeast, CreateTicket, UpdateTicket, dbVars
<1>2. ASSUME NEW c \in Callers, NEW chunk, NEW ok, ProcessChunk(c, chunk, ok)
      PROVE  Ledger!Store
  <2>1. \A t \in Tickets : raw'[t] >= raw[t]
    <3>1. run[c] \in RunRecord /\ RunOK(run[c], raw, lastSync) /\ run[c].pc = "chunk"
      BY <1>2 DEF ProcessChunk, At, IInv, TypeOK, RunsOK, Procs
    <3>2. ok \subseteq run[c].todo
      BY <1>2 DEF ProcessChunk, ChunksOf
    <3>3. \A t \in Tickets : raw'[t] = IF t \in ok THEN run[c].got[t] ELSE raw[t]
      BY <1>2 DEF ProcessChunk, SaveBatch
    <3>4. QED
      BY <3>1, <3>2, <3>3, Numbers, RecordNumbers DEF IInv, RunOK
  <2>2. ver' = ver /\ lastSync' = lastSync
    BY <1>2 DEF ProcessChunk, ocaVars
  <2>3. \A t \in Tickets : ver[t] >= raw'[t]
    BY <2>2 DEF IInv, AtLeast
  <2>4. QED
    BY <1>0, <2>1, <2>2, <2>3 DEF Ledger!Store, Ledger!NotOlder
<1>3. ASSUME NEW c \in Callers, Stamp(c)
      PROVE  Ledger!Vouch
  <2>1. raw' = raw /\ ver' = ver
    BY <1>3 DEF Stamp, ocaVars
  <2>2. AtLeast(lastSync', lastSync) /\ AtLeast(raw, lastSync')
    BY <1>3, <2>1, StampInv DEF IInv, ClaimsHold, AtLeast
  <2>3. QED
    BY <1>0, <2>1, <2>2 DEF Ledger!Vouch, Ledger!NotOlder, AtLeast
<1>4. ASSUME NEW c \in Callers, RunStep(c)
      PROVE  Ledger!Store \/ Ledger!Vouch \/ UNCHANGED <<ver, raw, lastSync>>
  BY <1>2, <1>3, <1>4, NoCsvStep
     DEF RunStep, ProcessSome, ListPage, ListFails, Compare, ChunkThrows, NoFallback,
         StampFails, Finish, ocaVars, dbVars
<1>5. CASE UNCHANGED vars \/ Tick \/ Restart \/ \E c \in Callers : Start(c)
  BY <1>5 DEF vars, Tick, Restart, Start, ocaVars, dbVars
<1>6. QED
  BY <1>1, <1>4, <1>5, NoCsvStep DEF Next, Ledger!LedgerNext

\* Without CSV jobs the synchronisation implements SyncLedger: the table never goes back
\* to an older version and never ahead of OCA, and the stamp only moves forward, to
\* versions already stored.
THEOREM ImplementsLedgerHolds == ASSUME NoCsv PROVE Spec => ImplementsLedger
<1>1. Init => Ledger!LedgerInit
  BY DEF Init, Nothing, Ledger!LedgerInit
<1>2. IInv /\ IInv' /\ [Next]_vars => [Ledger!LedgerNext]_<<ver, raw, lastSync>>
  BY LedgerStep
<1>3. QED
  BY <1>1, <1>2, IInvHolds, PTL DEF Spec, ImplementsLedger, Ledger!LedgerSpec, Ledger!ledgerVars
=============================================================================
