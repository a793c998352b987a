--------------------------- MODULE ExcelQueueProofs ---------------------------
(***************************************************************************)
(* Proofs about ExcelQueue, for any number of uploads, reports, stalls and *)
(* restarts.                                                               *)
(***************************************************************************)
EXTENDS ExcelQueueInvariant, TLAPS

Ats == AtHand \union {"idle", "looping"}

LEMMA ConstantFacts ==
  /\ Uploads \intersect Reports = {}
  /\ None \notin Uploads /\ None \notin Reports /\ None \notin Jobs
  /\ Uploads \subseteq Jobs /\ Reports \subseteq Jobs
  /\ MaxStalled \in Nat /\ MaxRestarts \in Nat
  /\ "memory" \in Runners /\ "bull" \in Runners /\ Runners = {"memory", "bull"}
BY ExcelQueueAssumption DEF ExcelQueueAssumption, Jobs, Runners

LEMMA QueueFacts ==
  ASSUME NEW q \in Seq(Uploads), q # <<>>
  PROVE  /\ Head(q) \in Uploads /\ Tail(q) \in Seq(Uploads)
         /\ Len(q) \in Nat /\ Len(q) > 0
         /\ Len(Tail(q)) = Len(q) - 1
         /\ Head(q) = q[1]
         /\ \A n \in 1..Len(Tail(q)) : Tail(q)[n] = q[n + 1]
OBVIOUS

\* shift: the rest of the queue fits the Map once its head is active.
LEMMA TailFits ==
  ASSUME NEW q \in Seq(Uploads), q # <<>>, NEW m \in [Uploads -> States], QueueFits(q, m)
  PROVE  QueueFits(Tail(q), [m EXCEPT ![Head(q)] = "active"])
<1> DEFINE t == Tail(q)
           e == [m EXCEPT ![Head(q)] = "active"]
<1>0. /\ Head(q) \in Uploads /\ Len(q) \in Nat /\ Len(q) > 0 /\ Len(t) = Len(q) - 1
      /\ Head(q) = q[1] /\ \A n \in 1..Len(t) : t[n] = q[n + 1] /\ n + 1 \in 1..Len(q)
  BY QueueFacts
<1>1. \A n \in 1..Len(q) : q[n] \in Uploads
  OBVIOUS
<1>2. \A j \in Uploads : e[j] = IF j = Head(q) THEN "active" ELSE m[j]
  BY <1>0
<1> HIDE DEF t, e
<1>3. ASSUME NEW n \in 1..Len(t) PROVE e[t[n]] = "waiting"
  <2>1. n + 1 \in 1..Len(q) /\ t[n] = q[n + 1] /\ 1 \in 1..Len(q) /\ n + 1 # 1
    BY <1>0
  <2>2. q[n + 1] # Head(q)
    BY <1>0, <2>1 DEF QueueFits
  <2>3. QED
    BY <1>1, <1>2, <2>1, <2>2 DEF QueueFits
<1>4. ASSUME NEW n1 \in 1..Len(t), NEW n2 \in 1..Len(t), t[n1] = t[n2] PROVE n1 = n2
  <2>1. q[n1 + 1] = q[n2 + 1] /\ n1 + 1 \in 1..Len(q) /\ n2 + 1 \in 1..Len(q)
    BY <1>0, <1>4
  <2>2. n1 + 1 = n2 + 1
    BY <2>1 DEF QueueFits
  <2>3. QED
    BY <1>0, <2>2
<1>5. ASSUME NEW j \in Uploads, e[j] = "waiting" PROVE \E n \in 1..Len(t) : t[n] = j
  <2>1. j # Head(q) /\ m[j] = "waiting"
    BY <1>2, <1>5
  <2>2. PICK n \in 1..Len(q) : q[n] = j
    BY <2>1 DEF QueueFits
  <2>3. n # 1
    BY <1>0, <2>1, <2>2
  <2>4. n - 1 \in 1..Len(t) /\ t[n - 1] = q[n - 1 + 1]
    BY <1>0, <2>3
  <2>5. QED
    BY <2>2, <2>4
<1>6. QED
  BY <1>3, <1>4, <1>5 DEF QueueFits, t, e

\* push: the queue fits the Map with the new job in both.
LEMMA AppendFits ==
  ASSUME NEW q \in Seq(Uploads), NEW m \in [Uploads -> States], QueueFits(q, m),
         NEW j \in Uploads, m[j] = "none"
  PROVE  QueueFits(Append(q, j), [m EXCEPT ![j] = "waiting"])
<1> DEFINE t == Append(q, j)
           e == [m EXCEPT ![j] = "waiting"]
<1>0. /\ Len(q) \in Nat /\ Len(t) = Len(q) + 1 /\ t[Len(q) + 1] = j
      /\ \A n \in 1..Len(q) : t[n] = q[n] /\ q[n] \in Uploads /\ n \in 1..Len(t)
  OBVIOUS
<1>1. \A k \in Uploads : e[k] = IF k = j THEN "waiting" ELSE m[k]
  OBVIOUS
<1>2. \A n \in 1..Len(q) : q[n] # j
  BY DEF QueueFits
<1>3. \A n \in 1..Len(t) : n \in 1..Len(q) \/ n = Len(q) + 1
  BY <1>0
<1> HIDE DEF t, e
<1>4. \A n \in 1..Len(t) : e[t[n]] = "waiting"
  BY <1>0, <1>1, <1>2, <1>3 DEF QueueFits
<1>5. ASSUME NEW n1 \in 1..Len(t), NEW n2 \in 1..Len(t), t[n1] = t[n2] PROVE n1 = n2
  <2>1. CASE n1 \in 1..Len(q) /\ n2 \in 1..Len(q)
    BY <1>0, <1>5, <2>1 DEF QueueFits
  <2>2. CASE n1 = Len(q) + 1 \/ n2 = Len(q) + 1
    BY <1>0, <1>2, <1>3, <1>5, <2>2
  <2>3. QED
    BY <1>3, <2>1, <2>2
<1>6. ASSUME NEW k \in Uploads, e[k] = "waiting" PROVE \E n \in 1..Len(t) : t[n] = k
  <2>1. CASE k = j
    <3>1. Len(q) + 1 \in 1..Len(t)
      BY <1>0
    <3>2. QED
      BY <1>0, <2>1, <3>1
  <2>2. CASE k # j
    <3>1. PICK n \in 1..Len(q) : q[n] = k
      BY <1>1, <1>6, <2>2 DEF QueueFits
    <3>2. QED
      BY <1>0, <3>1
  <2>3. QED
    BY <2>1, <2>2
<1>7. QED
  BY <1>4, <1>5, <1>6 DEF QueueFits, t, e

-----------------------------------------------------------------------------
LEMMA InitInv == Init => IInv
<1> SUFFICES ASSUME Init PROVE IInv
  OBVIOUS
<1>1. TypeOK
  <2>1. stalls \in [Reports -> 0..MaxStalled] /\ restarts \in 0..MaxRestarts
    BY ConstantFacts DEF Init
  <2>2. queue \in Seq(Uploads)
    BY DEF Init
  <2>3. isProcessing \in BOOLEAN
    BY Zenon DEF Init
  <2>4. QED
    BY <2>1, <2>2, <2>3 DEF Init, TypeOK, States
<1>2. HandOK /\ LoopOK
  BY ConstantFacts DEF Init, HandOK, LoopOK, AtHand
<1>3. QueueOK
  BY DEF Init, QueueOK, QueueFits
<1>4. HistoryOK /\ FilesOK
  BY ConstantFacts DEF Init, HistoryOK, FilesOK, FilesRemoved
<1>5. QED
  BY <1>1, <1>2, <1>3, <1>4 DEF IInv

\* One turn of the loop, from a queue and a Map that fit.
LEMMA TakeFirstInv ==
  ASSUME IInv, NEW q \in Seq(Uploads), q # <<>>, NEW m \in [Uploads -> States],
         QueueFits(q, m), \A j \in Uploads : m[j] # "active",
         job["memory"] = None, TakeFirst(q, m), bull' = bull
  PROVE  /\ jobs' \in [Uploads -> States] /\ queue' \in Seq(Uploads)
         /\ isProcessing' \in BOOLEAN
         /\ job' = [job EXCEPT !["memory"] = Head(q)] /\ Head(q) \in Uploads
         /\ job' \in [Runners -> Jobs \union {None}]
         /\ at' \in [Runners -> Ats] /\ at' = [at EXCEPT !["memory"] = "opening"]
         /\ outcome' = outcome
         /\ HandOK' /\ LoopOK' /\ QueueOK'
<1>0. Head(q) \in Uploads /\ Tail(q) \in Seq(Uploads)
  BY QueueFacts
<1>1. /\ jobs' \in [Uploads -> States] /\ queue' \in Seq(Uploads) /\ isProcessing' = TRUE
      /\ job' = [job EXCEPT !["memory"] = Head(q)]
      /\ job' \in [Runners -> Jobs \union {None}]
      /\ at' = [at EXCEPT !["memory"] = "opening"] /\ at' \in [Runners -> Ats]
      /\ outcome' = outcome
  BY <1>0, ConstantFacts DEF TakeFirst, IInv, TypeOK, States, Ats, AtHand
<1>2. /\ job'["memory"] = Head(q) /\ job'["bull"] = job["bull"]
      /\ at'["memory"] = "opening" /\ at'["bull"] = at["bull"]
      /\ jobs'[Head(q)] = "active"
  BY <1>0, <1>1, ConstantFacts DEF TakeFirst, IInv, TypeOK
<1>3. HandOK'
  BY <1>0, <1>1, <1>2, ConstantFacts DEF IInv, HandOK, AtHand
<1>4. LoopOK'
  BY <1>1, <1>2 DEF LoopOK
<1>5. QueueFits(queue', jobs')
  BY TailFits DEF TakeFirst
<1>6. \A j \in Uploads : jobs'[j] = "active" => job'["memory"] = j
  BY <1>0, <1>2 DEF TakeFirst
<1>7. QED
  BY <1>0, <1>1, <1>3, <1>4, <1>5, <1>6 DEF QueueOK, QueueFits

LEMMA UploadInv == ASSUME IInv, NEW j \in Uploads, Upload(j) PROVE IInv'
<1> DEFINE q == Append(queue, j)
           m == [jobs EXCEPT ![j] = "waiting"]
<1>a. q \in Seq(Uploads) /\ q # <<>>
  <2>1. queue \in Seq(Uploads)
    BY DEF IInv, TypeOK
  <2>2. q \in Seq(Uploads) /\ Len(q) = Len(queue) + 1 /\ Len(queue) \in Nat
    BY <2>1
  <2>3. q # <<>>
    BY <2>2
  <2>4. QED
    BY <2>2, <2>3
<1>0. /\ m \in [Uploads -> States]
      /\ jobs[j] = "none" /\ j \in Jobs
      /\ files' = files \union {j}
      /\ UNCHANGED <<bull, stalls, imported, orphans, restarts, arriving>>
  BY ConstantFacts DEF Upload, IInv, TypeOK, States, bullVars
<1>1. QueueFits(q, m)
  BY <1>0, AppendFits DEF IInv, TypeOK, QueueOK
<1>2. /\ jobs' \in [Uploads -> States] /\ queue' \in Seq(Uploads) /\ isProcessing' \in BOOLEAN
      /\ job' \in [Runners -> Jobs \union {None}]
      /\ at' \in [Runners -> Ats]
      /\ outcome' = outcome
      /\ HandOK' /\ LoopOK' /\ QueueOK'
      /\ \A k \in Uploads : jobs'[k] = jobs[k] \/ jobs'[k] \in Unsettled
      /\ jobs'[j] \in Unsettled
      /\ \A r \in Runners : job[r] # None => job'[r] = job[r] /\ at'[r] = at[r]
      /\ \A r \in Runners : at'[r] = "settling" => job[r] # None
      /\ \A r \in Runners : outcome[r] = "completed" => job'[r] = job[r]
  <2>1. CASE isProcessing
    <3>1. jobs' = m /\ queue' = q /\ UNCHANGED <<isProcessing, job, at, outcome>>
      BY <2>1 DEF Upload, runVars
    <3>2. QueueOK'
      BY <1>0, <1>1, <3>1 DEF IInv, QueueOK, QueueFits, TypeOK
    <3>3. LoopOK'
      BY <2>1, <3>1 DEF IInv, LoopOK
    <3>4. HandOK'
      BY <1>0, <3>1 DEF IInv, HandOK, TypeOK
    <3>5. \A r \in Runners : at'[r] = "settling" => job[r] # None
      BY <3>1 DEF IInv, HandOK, AtHand
    <3>6. QED
      BY <1>a, <1>0, <3>1, <3>2, <3>3, <3>4, <3>5 DEF IInv, TypeOK, Ats, AtHand, Unsettled
  <2>2. CASE ~isProcessing
    <3>1. TakeFirst(q, m)
      BY <2>2 DEF Upload
    <3>2. queue = <<>> /\ at["memory"] = "idle" /\ job["memory"] = None
      BY <2>2, ConstantFacts DEF IInv, LoopOK, HandOK, AtHand
    <3>3. \A k \in Uploads : m[k] # "active"
      BY <3>2, ConstantFacts DEF IInv, QueueOK, TypeOK
    <3>4. /\ jobs' \in [Uploads -> States] /\ queue' \in Seq(Uploads)
          /\ isProcessing' \in BOOLEAN
          /\ job' = [job EXCEPT !["memory"] = Head(q)] /\ Head(q) \in Uploads
          /\ job' \in [Runners -> Jobs \union {None}]
          /\ at' \in [Runners -> Ats] /\ at' = [at EXCEPT !["memory"] = "opening"]
          /\ outcome' = outcome
          /\ HandOK' /\ LoopOK' /\ QueueOK'
      BY <1>a, <1>0, <1>1, <3>1, <3>2, <3>3, TakeFirstInv
    <3>5. jobs' = [m EXCEPT ![Head(q)] = "active"] /\ Head(q) = j
      BY <3>1, <3>2 DEF TakeFirst
    <3>6. /\ \A k \in Uploads : jobs'[k] = jobs[k] \/ jobs'[k] \in Unsettled
          /\ jobs'[j] \in Unsettled
      BY <1>0, <3>5 DEF IInv, TypeOK, Unsettled
    <3>7. \A r \in Runners : job[r] # None => job'[r] = job[r] /\ at'[r] = at[r]
      BY <3>2, <3>4, ConstantFacts DEF IInv, TypeOK
    <3>8. \A r \in Runners : at'[r] = "settling" => job[r] # None
      BY <3>2, <3>4, ConstantFacts DEF IInv, TypeOK, HandOK, AtHand
    <3>9. outcome["memory"] # "completed"
      BY <3>2, ConstantFacts DEF IInv, TypeOK, HistoryOK
    <3>10. \A r \in Runners : outcome[r] = "completed" => job'[r] = job[r]
      BY <3>4, <3>9, ConstantFacts DEF IInv, TypeOK
    <3>11. QED
      BY <3>4, <3>6, <3>7, <3>8, <3>10
  <2>3. QED
    BY <2>1, <2>2
<1>3. TypeOK'
  BY <1>0, <1>2 DEF IInv, TypeOK, Ats, AtHand
<1>4. HistoryOK'
  BY <1>0, <1>2 DEF IInv, HistoryOK, Unsettled
<1>5. FilesOK'
  <2>1. ASSUME NEW f \in (files \ orphans)' PROVE
          \/ f \in arriving'
          \/ f \in Uploads /\ jobs'[f] \in Unsettled
          \/ f \in Reports /\ bull'[f] \in Unsettled
          \/ \E r \in Runners : job'[r] = f
    <3>1. CASE f = j
      BY <1>2, <3>1
    <3>2. CASE f # j
      <4>1. f \in files \ orphans
        BY <1>0, <2>1, <3>2
      <4>2. \/ f \in arriving
            \/ f \in Uploads /\ jobs[f] \in Unsettled
            \/ f \in Reports /\ bull[f] \in Unsettled
            \/ \E r \in Runners : job[r] = f
        BY <4>1 DEF IInv, FilesOK, FilesRemoved
      <4>3. f # None
        BY <4>1, ConstantFacts DEF IInv, TypeOK
      <4>4. f \in Uploads /\ jobs[f] \in Unsettled => jobs'[f] \in Unsettled
        BY <1>2
      <4>5. QED
        BY <1>0, <1>2, <4>2, <4>3, <4>4
    <3>3. QED
      BY <3>1, <3>2
  <2>2. ASSUME NEW r \in Runners, at'[r] = "settling" PROVE job'[r] \notin (files \ orphans)'
    <3>1. job[r] # None /\ job'[r] = job[r] /\ at[r] = "settling"
      BY <1>2, <2>2
    <3>2. job[r] # j
      BY <1>0, <3>1, ConstantFacts DEF IInv, HandOK
    <3>3. QED
      BY <1>0, <3>1, <3>2 DEF IInv, FilesOK
  <2>3. QED
    BY <2>1, <2>2 DEF FilesOK, FilesRemoved
<1>6. QED
  BY <1>2, <1>3, <1>4, <1>5 DEF IInv

LEMMA NextTaskInv == IInv /\ NextTask => IInv'
<1> SUFFICES ASSUME IInv, NextTask PROVE IInv'
  OBVIOUS
<1>0. /\ at["memory"] = "looping" /\ job["memory"] = None
      /\ UNCHANGED <<bull, stalls, files, imported, orphans, restarts, arriving>>
  BY ConstantFacts DEF NextTask, IInv, HandOK, AtHand, bullVars
<1>1. outcome["memory"] # "completed"
  BY <1>0, ConstantFacts DEF IInv, TypeOK, HistoryOK
<1>2. CASE queue # <<>>
  <2>1. TakeFirst(queue, jobs)
    BY <1>2 DEF NextTask
  <2>2. \A k \in Uploads : jobs[k] # "active"
    BY <1>0, ConstantFacts DEF IInv, QueueOK
  <2>3. queue \in Seq(Uploads) /\ jobs \in [Uploads -> States] /\ QueueFits(queue, jobs)
    BY DEF IInv, TypeOK, QueueOK
  <2>4. /\ jobs' \in [Uploads -> States] /\ queue' \in Seq(Uploads)
        /\ isProcessing' \in BOOLEAN
        /\ job' = [job EXCEPT !["memory"] = Head(queue)] /\ Head(queue) \in Uploads
        /\ job' \in [Runners -> Jobs \union {None}]
        /\ at' \in [Runners -> Ats] /\ at' = [at EXCEPT !["memory"] = "opening"]
        /\ outcome' = outcome
        /\ HandOK' /\ LoopOK' /\ QueueOK'
    BY <1>0, <1>2, <2>1, <2>2, <2>3, TakeFirstInv
  <2>5. jobs' = [jobs EXCEPT ![Head(queue)] = "active"]
    BY <2>1 DEF TakeFirst
  <2>6. TypeOK'
    BY <1>0, <2>4 DEF IInv, TypeOK, Ats, AtHand
  <2>7. HistoryOK'
    BY <1>0, <1>1, <2>3, <2>4, <2>5, ConstantFacts DEF IInv, TypeOK, HistoryOK
  <2>8. FilesOK'
    <3>1. ASSUME NEW f \in (files \ orphans)' PROVE
            \/ f \in arriving'
            \/ f \in Uploads /\ jobs'[f] \in Unsettled
            \/ f \in Reports /\ bull'[f] \in Unsettled
            \/ \E r \in Runners : job'[r] = f
      <4>1. f \in files \ orphans
        BY <1>0, <3>1
      <4>2. \/ f \in arriving
            \/ f \in Uploads /\ jobs[f] \in Unsettled
            \/ f \in Reports /\ bull[f] \in Unsettled
            \/ \E r \in Runners : job[r] = f
        BY <4>1 DEF IInv, FilesOK, FilesRemoved
      <4>3. f # None
        BY <4>1, ConstantFacts DEF IInv, TypeOK
      <4>4. f \in Uploads /\ jobs[f] \in Unsettled => jobs'[f] \in Unsettled
        BY <2>3, <2>5 DEF Unsettled
      <4>5. job["bull"] = f => job'["bull"] = f
        BY <2>4, ConstantFacts DEF IInv, TypeOK
      <4>6. QED
        BY <1>0, <4>2, <4>3, <4>4, <4>5, ConstantFacts
    <3>2. ASSUME NEW r \in Runners, at'[r] = "settling" PROVE job'[r] \notin (files \ orphans)'
      <4>1. r = "bull" /\ at[r] = "settling" /\ job'[r] = job[r]
        BY <2>4, <3>2, ConstantFacts DEF IInv, TypeOK
      <4>2. QED
        BY <1>0, <4>1 DEF IInv, FilesOK
    <3>3. QED
      BY <3>1, <3>2 DEF FilesOK, FilesRemoved
  <2>9. QED
    BY <2>4, <2>6, <2>7, <2>8 DEF IInv
<1>3. CASE queue = <<>>
  <2>1. /\ at' = [at EXCEPT !["memory"] = "idle"] /\ UNCHANGED <<queue, jobs, job, outcome>>
    BY <1>3 DEF NextTask
  <2>2. isProcessing' = FALSE
    BY <1>3 DEF NextTask
  <2>3. at'["memory"] = "idle" /\ at'["bull"] = at["bull"] /\ at' \in [Runners -> Ats]
    BY <2>1, ConstantFacts DEF IInv, TypeOK, Ats, AtHand
  <2>4. TypeOK'
    BY <1>0, <2>1, <2>2, <2>3 DEF IInv, TypeOK, Ats, AtHand
  <2>5. HandOK'
    BY <1>0, <2>1, <2>3, ConstantFacts DEF IInv, HandOK, AtHand
  <2>6. LoopOK'
    BY <1>3, <2>1, <2>2, <2>3 DEF LoopOK
  <2>7. QueueOK' /\ HistoryOK'
    BY <1>0, <2>1 DEF IInv, QueueOK, QueueFits, HistoryOK
  <2>8. FilesOK'
    BY <1>0, <2>1, <2>3, ConstantFacts DEF IInv, FilesOK, FilesRemoved
  <2>9. QED
    BY <2>4, <2>5, <2>6, <2>7, <2>8 DEF IInv
<1>4. QED
  BY <1>2, <1>3

LEMMA SettleInv == IInv /\ Settle => IInv'
<1> SUFFICES ASSUME IInv, Settle PROVE IInv'
  OBVIOUS
<1> DEFINE j == job["memory"]
           v == outcome["memory"]
<1>0. /\ j \in Uploads /\ v \in Verdicts /\ jobs[j] = "active" /\ j # job["bull"]
      /\ at["memory"] = "settling" /\ j \notin files \ orphans
      /\ v = "completed" => j \in imported
  BY ConstantFacts DEF Settle, IInv, HandOK, AtHand, HistoryOK, FilesOK
<1>1. /\ jobs' = [jobs EXCEPT ![j] = v]
      /\ at' = [at EXCEPT !["memory"] = "looping"]
      /\ job' = [job EXCEPT !["memory"] = None]
      /\ outcome' = [outcome EXCEPT !["memory"] = "none"]
      /\ UNCHANGED <<queue, bull, stalls, files, imported, orphans, restarts, arriving>>
  BY DEF Settle, bullVars
<1>2. isProcessing' = isProcessing
  BY DEF Settle
<1>3. /\ at'["memory"] = "looping" /\ at'["bull"] = at["bull"] /\ at' \in [Runners -> Ats]
      /\ job'["memory"] = None /\ job'["bull"] = job["bull"]
      /\ job' \in [Runners -> Jobs \union {None}]
      /\ outcome'["memory"] = "none" /\ outcome'["bull"] = outcome["bull"]
      /\ outcome' \in [Runners -> {"none"} \union Verdicts]
  BY <1>1, ConstantFacts DEF IInv, TypeOK, Ats, AtHand
<1>4. /\ jobs' \in [Uploads -> States] /\ jobs'[j] = v
      /\ \A k \in Uploads \ {j} : jobs'[k] = jobs[k]
  BY <1>0, <1>1 DEF IInv, TypeOK, States, Verdicts
<1> HIDE DEF j, v
<1>5. TypeOK'
  BY <1>1, <1>2, <1>3, <1>4 DEF IInv, TypeOK, Ats, AtHand
<1>6. HandOK'
  BY <1>1, <1>3, ConstantFacts DEF IInv, HandOK, AtHand
<1>7. LoopOK'
  BY <1>0, <1>1, <1>2, <1>3 DEF IInv, LoopOK
<1>8. QueueOK'
  <2>1. queue \in Seq(Uploads)
    BY DEF IInv, TypeOK
  <2>2. \A n \in 1..Len(queue) : queue[n] \in Uploads \ {j}
    BY <1>0, <2>1 DEF IInv, QueueOK, QueueFits
  <2>3. \A k \in Uploads : jobs'[k] \in {"waiting", "active"} => k # j /\ jobs'[k] = jobs[k]
    BY <1>0, <1>4 DEF Verdicts
  <2>4. \A k \in Uploads : jobs'[k] # "active"
    BY <2>3 DEF IInv, QueueOK, j
  <2>5. QED
    BY <1>1, <1>4, <2>2, <2>3, <2>4 DEF IInv, QueueOK, QueueFits
<1>9. HistoryOK'
  BY <1>0, <1>1, <1>3, <1>4, ConstantFacts DEF IInv, HistoryOK
<1>10. FilesOK'
  <2>1. ASSUME NEW f \in (files \ orphans)' PROVE
          \/ f \in arriving'
          \/ f \in Uploads /\ jobs'[f] \in Unsettled
          \/ f \in Reports /\ bull'[f] \in Unsettled
          \/ \E r \in Runners : job'[r] = f
    BY <1>0, <1>1, <1>3, <1>4, <2>1, ConstantFacts DEF IInv, FilesOK, FilesRemoved, j
  <2>2. \A r \in Runners : at'[r] = "settling" => job'[r] \notin (files \ orphans)'
    BY <1>1, <1>3, ConstantFacts DEF IInv, FilesOK
  <2>3. QED
    BY <2>1, <2>2 DEF FilesOK, FilesRemoved
<1>11. QED
  BY <1>5, <1>6, <1>7, <1>8, <1>9, <1>10 DEF IInv

LEMMA ExpireInv == ASSUME IInv, NEW j \in Uploads, Expire(j) PROVE IInv'
<1>0. /\ jobs[j] \in Verdicts /\ jobs' = [jobs EXCEPT ![j] = "gone"]
      /\ UNCHANGED <<queue, bull, stalls, job, at, outcome, files, imported, orphans, restarts, arriving>>
  BY DEF Expire, bullVars, runVars
<1>1. isProcessing' = isProcessing
  BY DEF Expire
<1>2. /\ jobs' \in [Uploads -> States] /\ jobs'[j] = "gone"
      /\ \A k \in Uploads \ {j} : jobs'[k] = jobs[k]
      /\ jobs[j] \notin {"waiting", "active"}
  BY <1>0 DEF IInv, TypeOK, States, Verdicts
<1>3. TypeOK'
  BY <1>0, <1>1, <1>2 DEF IInv, TypeOK
<1>4. HandOK'
  BY <1>0, <1>2, ConstantFacts DEF IInv, HandOK
<1>5. LoopOK'
  BY <1>0, <1>1 DEF IInv, LoopOK
<1>6. QueueOK'
  <2>1. queue \in Seq(Uploads)
    BY DEF IInv, TypeOK
  <2>2. \A n \in 1..Len(queue) : queue[n] \in Uploads \ {j}
    BY <1>2, <2>1 DEF IInv, QueueOK, QueueFits
  <2>3. QED
    BY <1>0, <1>2, <2>2 DEF IInv, QueueOK, QueueFits
<1>7. HistoryOK'
  BY <1>0, <1>2 DEF IInv, HistoryOK
<1>8. FilesOK'
  BY <1>0, <1>2, ConstantFacts DEF IInv, FilesOK, FilesRemoved, Unsettled
<1>9. QED
  BY <1>3, <1>4, <1>5, <1>6, <1>7, <1>8 DEF IInv

\* Whatever leaves jobs, queue, isProcessing and the memory runner's job and liveness
\* alone keeps the loop and the queue as they were.
LEMMA LoopKept ==
  ASSUME IInv, UNCHANGED <<jobs, queue, job>>, isProcessing' = isProcessing,
         at'["memory"] = "idle" <=> at["memory"] = "idle"
  PROVE  LoopOK' /\ QueueOK'
<1>1. LoopOK'
  BY DEF IInv, LoopOK
<1>2. QueueOK'
  BY DEF IInv, QueueOK, QueueFits
<1>3. QED
  BY <1>1, <1>2

LEMMA OpenInv == ASSUME IInv, NEW r \in Runners, Open(r) PROVE IInv'
<1>0. /\ at[r] = "opening"
      /\ UNCHANGED <<jobs, queue, bull, stalls, job, files, imported, orphans, restarts, arriving>>
  BY DEF Open, memoryVars, bullVars
<1>1. isProcessing' = isProcessing
  BY DEF Open, memoryVars
<1>2. /\ at'[r] \in {"reading", "closing"} /\ at' \in [Runners -> Ats]
      /\ \A x \in Runners \ {r} : at'[x] = at[x] /\ outcome'[x] = outcome[x]
      /\ outcome' \in [Runners -> {"none"} \union Verdicts]
      /\ at'[r] = "closing" => outcome'[r] = "failed"
      /\ outcome'[r] = "failed" \/ outcome'[r] = outcome[r]
  BY DEF Open, IInv, TypeOK, Ats, AtHand, Verdicts
<1>3. TypeOK'
  BY <1>0, <1>1, <1>2 DEF IInv, TypeOK, Ats, AtHand
<1>4. HandOK'
  BY <1>0, <1>2, ConstantFacts DEF IInv, HandOK, AtHand, Verdicts
<1>5. LoopOK' /\ QueueOK'
  BY <1>0, <1>1, <1>2, ConstantFacts, LoopKept
<1>6. HistoryOK'
  BY <1>0, <1>2 DEF IInv, HistoryOK
<1>7. FilesOK'
  BY <1>0, <1>2 DEF IInv, FilesOK, FilesRemoved
<1>8. QED
  BY <1>3, <1>4, <1>5, <1>6, <1>7 DEF IInv

LEMMA ImportInv == ASSUME IInv, NEW r \in Runners, Import(r) PROVE IInv'
<1>0. /\ at[r] = "reading"
      /\ UNCHANGED <<jobs, queue, bull, stalls, job, files, orphans, restarts, arriving>>
  BY DEF Import, memoryVars, bullVars
<1>1. isProcessing' = isProcessing
  BY DEF Import, memoryVars
<1>2. job[r] \in Jobs
  BY <1>0 DEF IInv, TypeOK, HandOK, AtHand
<1>3. /\ at'[r] = "closing" /\ at' \in [Runners -> Ats]
      /\ \A x \in Runners \ {r} : at'[x] = at[x] /\ outcome'[x] = outcome[x]
      /\ outcome' \in [Runners -> {"none"} \union Verdicts]
      /\ outcome'[r] \in Verdicts
      /\ outcome'[r] = "completed" => job[r] \in imported'
      /\ imported \subseteq imported' /\ imported' \subseteq Jobs
  BY <1>2 DEF Import, IInv, TypeOK, Ats, AtHand, Verdicts
<1>4. TypeOK'
  BY <1>0, <1>1, <1>3 DEF IInv, TypeOK, Ats, AtHand
<1>5. HandOK'
  BY <1>0, <1>3, ConstantFacts DEF IInv, HandOK, AtHand
<1>6. LoopOK' /\ QueueOK'
  BY <1>0, <1>1, <1>3, ConstantFacts, LoopKept
<1>7. HistoryOK'
  BY <1>0, <1>3 DEF IInv, HistoryOK
<1>8. FilesOK'
  BY <1>0, <1>3 DEF IInv, FilesOK, FilesRemoved
<1>9. QED
  BY <1>4, <1>5, <1>6, <1>7, <1>8 DEF IInv

LEMMA RemoveFileInv == ASSUME IInv, NEW r \in Runners, RemoveFile(r) PROVE IInv'
<1>0. /\ at[r] = "closing"
      /\ UNCHANGED <<jobs, queue, bull, stalls, job, outcome, imported, restarts, arriving>>
  BY DEF RemoveFile, memoryVars, bullVars
<1>1. isProcessing' = isProcessing
  BY DEF RemoveFile, memoryVars
<1>2. /\ at'[r] = "settling" /\ at' \in [Runners -> Ats]
      /\ \A x \in Runners \ {r} : at'[x] = at[x]
      /\ files' \subseteq Jobs /\ orphans' \subseteq Jobs
      /\ (files \ orphans)' = (files \ orphans) \ {job[r]}
  <2>1. at'[r] = "settling" /\ at' \in [Runners -> Ats]
    BY DEF RemoveFile, IInv, TypeOK, Ats, AtHand
  <2>2. \A x \in Runners \ {r} : at'[x] = at[x]
    BY DEF RemoveFile, IInv, TypeOK
  <2>3. /\ files' \subseteq Jobs /\ orphans' \subseteq Jobs
        /\ files' \ orphans' = (files \ orphans) \ {job[r]}
    BY DEF RemoveFile, IInv, TypeOK
  <2>4. QED
    BY <2>1, <2>2, <2>3
<1>3. TypeOK'
  BY <1>0, <1>1, <1>2 DEF IInv, TypeOK, Ats, AtHand
<1>4. HandOK'
  BY <1>0, <1>2, ConstantFacts DEF IInv, HandOK, AtHand
<1>5. LoopOK' /\ QueueOK'
  BY <1>0, <1>1, <1>2, ConstantFacts, LoopKept
<1>6. HistoryOK'
  BY <1>0 DEF IInv, HistoryOK
<1>7. FilesOK'
  BY <1>0, <1>2 DEF IInv, FilesOK, FilesRemoved
<1>8. QED
  BY <1>3, <1>4, <1>5, <1>6, <1>7 DEF IInv

-----------------------------------------------------------------------------
LEMMA DownloadInv == ASSUME IInv, NEW j \in Reports, Download(j) PROVE IInv'
<1>0. /\ bull[j] = "none" /\ files' = files \union {j} /\ arriving' = arriving \union {j}
      /\ UNCHANGED <<jobs, queue, bull, stalls, job, at, outcome, imported, orphans, restarts>>
  BY DEF Download, memoryVars, bullVars, runVars
<1>1. isProcessing' = isProcessing
  BY DEF Download, memoryVars
<1>2. \A r \in Runners : job[r] # j
  BY <1>0, ConstantFacts DEF IInv, HandOK
<1>3. TypeOK'
  BY <1>0, <1>1, ConstantFacts DEF IInv, TypeOK
<1>4. HandOK' /\ HistoryOK'
  BY <1>0 DEF IInv, HandOK, HistoryOK
<1>5. LoopOK' /\ QueueOK'
  BY <1>0, <1>1, LoopKept
<1>6. FilesOK'
  BY <1>0, <1>2 DEF IInv, FilesOK, FilesRemoved
<1>7. QED
  BY <1>3, <1>4, <1>5, <1>6 DEF IInv

LEMMA BullAddInv == ASSUME IInv, NEW j \in Reports, BullAdd(j) PROVE IInv'
<1>0. /\ bull[j] = "none" /\ bull' = [bull EXCEPT ![j] = "waiting"]
      /\ arriving' = arriving \ {j}
      /\ UNCHANGED <<jobs, queue, stalls, job, at, outcome, files, imported, orphans, restarts>>
  BY DEF BullAdd, memoryVars, runVars
<1>1. isProcessing' = isProcessing
  BY DEF BullAdd, memoryVars
<1>2. /\ bull' \in [Reports -> States] /\ bull'[j] = "waiting"
      /\ \A k \in Reports \ {j} : bull'[k] = bull[k]
  BY <1>0 DEF IInv, TypeOK, States
<1>3. TypeOK'
  BY <1>0, <1>1, <1>2, ConstantFacts DEF IInv, TypeOK
<1>4. HandOK'
  BY <1>0, <1>2, ConstantFacts DEF IInv, HandOK
<1>5. LoopOK' /\ QueueOK'
  BY <1>0, <1>1, LoopKept
<1>6. HistoryOK'
  BY <1>0, <1>2 DEF IInv, HistoryOK
<1>7. FilesOK'
  BY <1>0, <1>2 DEF IInv, FilesOK, FilesRemoved, Unsettled
<1>8. QED
  BY <1>3, <1>4, <1>5, <1>6, <1>7 DEF IInv

LEMMA ReportFailsInv == ASSUME IInv, NEW j \in Reports, ReportFails(j) PROVE IInv'
<1>0. /\ arriving' = arriving \ {j} /\ orphans' = orphans \union {j}
      /\ UNCHANGED <<jobs, queue, bull, stalls, job, at, outcome, files, imported, restarts>>
  BY DEF ReportFails, memoryVars, bullVars, runVars
<1>1. isProcessing' = isProcessing
  BY DEF ReportFails, memoryVars
<1>2. TypeOK'
  BY <1>0, <1>1, ConstantFacts DEF IInv, TypeOK
<1>3. HandOK' /\ HistoryOK'
  BY <1>0 DEF IInv, HandOK, HistoryOK
<1>4. LoopOK' /\ QueueOK'
  BY <1>0, <1>1, LoopKept
<1>5. FilesOK'
  BY <1>0 DEF IInv, FilesOK, FilesRemoved
<1>6. QED
  BY <1>2, <1>3, <1>4, <1>5 DEF IInv

LEMMA BullTakeInv == ASSUME IInv, NEW j \in Reports, BullTake(j) PROVE IInv'
<1>0. /\ at["bull"] = "idle" /\ job["bull"] = None /\ bull[j] = "waiting"
      /\ bull' = [bull EXCEPT ![j] = "active"]
      /\ job' = [job EXCEPT !["bull"] = j]
      /\ at' = [at EXCEPT !["bull"] = "opening"]
      /\ UNCHANGED <<jobs, queue, stalls, outcome, files, imported, orphans, restarts, arriving>>
  BY ConstantFacts DEF BullTake, memoryVars, IInv, HandOK, AtHand
<1>1. isProcessing' = isProcessing
  BY DEF BullTake, memoryVars
<1>2. /\ bull' \in [Reports -> States] /\ bull'[j] = "active"
      /\ \A k \in Reports \ {j} : bull'[k] = bull[k]
  BY <1>0 DEF IInv, TypeOK, States
<1>3. /\ job'["bull"] = j /\ job'["memory"] = job["memory"]
      /\ job' \in [Runners -> Jobs \union {None}]
      /\ at'["bull"] = "opening" /\ at'["memory"] = at["memory"] /\ at' \in [Runners -> Ats]
  BY <1>0, ConstantFacts DEF IInv, TypeOK, Ats, AtHand
<1>4. TypeOK'
  BY <1>0, <1>1, <1>2, <1>3 DEF IInv, TypeOK, Ats, AtHand
<1>5. HandOK'
  BY <1>0, <1>2, <1>3, ConstantFacts DEF IInv, HandOK, AtHand
<1>6. LoopOK' /\ QueueOK'
  <2>1. LoopOK'
    BY <1>0, <1>1, <1>3 DEF IInv, LoopOK
  <2>2. QueueOK'
    BY <1>0, <1>3 DEF IInv, QueueOK, QueueFits
  <2>3. QED
    BY <2>1, <2>2
<1>7. HistoryOK'
  <2>1. outcome["bull"] # "completed"
    BY <1>0, ConstantFacts DEF IInv, TypeOK, HistoryOK
  <2>2. QED
    BY <1>0, <1>2, <1>3, <2>1, ConstantFacts DEF IInv, HistoryOK
<1>8. FilesOK'
  <2>1. ASSUME NEW f \in files \ orphans PROVE
          \/ f \in arriving
          \/ f \in Uploads /\ jobs[f] \in Unsettled
          \/ f \in Reports /\ bull'[f] \in Unsettled
          \/ \E r \in Runners : job'[r] = f
    <3>1. f # None
      BY ConstantFacts DEF IInv, TypeOK
    <3>2. QED
      BY <1>0, <1>2, <1>3, <3>1, ConstantFacts DEF IInv, FilesOK, FilesRemoved
  <2>2. QED
    BY <1>0, <1>3, <2>1, ConstantFacts DEF IInv, FilesOK, FilesRemoved
<1>9. QED
  BY <1>4, <1>5, <1>6, <1>7, <1>8 DEF IInv

LEMMA BullSettleInv == IInv /\ BullSettle => IInv'
<1> SUFFICES ASSUME IInv, BullSettle PROVE IInv'
  OBVIOUS
<1> DEFINE j == job["bull"]
           v == outcome["bull"]
<1>0. /\ j \in Reports /\ v \in Verdicts /\ at["bull"] = "settling"
      /\ j \notin files \ orphans
      /\ v = "completed" => j \in imported
  BY ConstantFacts DEF BullSettle, IInv, HandOK, AtHand, HistoryOK, FilesOK
<1>1. /\ bull' = bull \/ bull' = [bull EXCEPT ![j] = v]
      /\ at' = [at EXCEPT !["bull"] = "idle"]
      /\ job' = [job EXCEPT !["bull"] = None]
      /\ outcome' = [outcome EXCEPT !["bull"] = "none"]
      /\ UNCHANGED <<jobs, queue, stalls, files, imported, orphans, restarts, arriving>>
  BY DEF BullSettle, memoryVars
<1>2. isProcessing' = isProcessing
  BY DEF BullSettle, memoryVars
<1>3. /\ at'["bull"] = "idle" /\ at'["memory"] = at["memory"] /\ at' \in [Runners -> Ats]
      /\ job'["bull"] = None /\ job'["memory"] = job["memory"]
      /\ job' \in [Runners -> Jobs \union {None}]
      /\ outcome'["bull"] = "none" /\ outcome'["memory"] = outcome["memory"]
      /\ outcome' \in [Runners -> {"none"} \union Verdicts]
  BY <1>1, ConstantFacts DEF IInv, TypeOK, Ats, AtHand
<1>4. /\ bull' \in [Reports -> States]
      /\ bull'[j] = bull[j] \/ bull'[j] = v
      /\ \A k \in Reports \ {j} : bull'[k] = bull[k]
  BY <1>0, <1>1 DEF IInv, TypeOK, States, Verdicts
<1> HIDE DEF v
<1>5. TypeOK'
  BY <1>1, <1>2, <1>3, <1>4 DEF IInv, TypeOK, Ats, AtHand
<1>6. HandOK'
  BY <1>1, <1>3, ConstantFacts DEF IInv, HandOK, AtHand
<1>7. LoopOK' /\ QueueOK'
  <2>1. LoopOK'
    BY <1>1, <1>2, <1>3 DEF IInv, LoopOK
  <2>2. QueueOK'
    BY <1>1, <1>3 DEF IInv, QueueOK, QueueFits
  <2>3. QED
    BY <2>1, <2>2
<1>8. HistoryOK'
  BY <1>0, <1>1, <1>3, <1>4, ConstantFacts DEF IInv, HistoryOK
<1>9. FilesOK'
  <2>1. ASSUME NEW f \in files \ orphans PROVE
          \/ f \in arriving
          \/ f \in Uploads /\ jobs[f] \in Unsettled
          \/ f \in Reports /\ bull'[f] \in Unsettled
          \/ \E r \in Runners : job'[r] = f
    BY <1>0, <1>3, <1>4, ConstantFacts DEF IInv, FilesOK, FilesRemoved
  <2>2. QED
    BY <1>1, <1>3, <2>1, ConstantFacts DEF IInv, FilesOK, FilesRemoved
<1>10. QED
  BY <1>5, <1>6, <1>7, <1>8, <1>9 DEF IInv

LEMMA BullStallInv == ASSUME IInv, NEW j \in Reports, BullStall(j) PROVE IInv'
<1>0. /\ bull[j] = "active"
      /\ UNCHANGED <<jobs, queue, job, at, outcome, files, imported, restarts, arriving>>
  BY DEF BullStall, memoryVars, runVars
<1>1. isProcessing' = isProcessing
  BY DEF BullStall, memoryVars
<1>2. /\ bull' \in [Reports -> States] /\ bull'[j] \in {"waiting", "failed"}
      /\ \A k \in Reports \ {j} : bull'[k] = bull[k]
  BY DEF BullStall, IInv, TypeOK, States
<1>3. stalls' \in [Reports -> 0..MaxStalled]
  <2>1. stalls[j] \in 0..MaxStalled
    BY DEF IInv, TypeOK
  <2>2. stalls[j] < MaxStalled => stalls[j] + 1 \in 0..MaxStalled
    BY <2>1, ConstantFacts
  <2>3. CASE stalls[j] < MaxStalled
    BY <2>2, <2>3 DEF BullStall, IInv, TypeOK
  <2>4. CASE ~(stalls[j] < MaxStalled)
    BY <2>1, <2>4 DEF BullStall, IInv, TypeOK
  <2>5. QED
    BY <2>3, <2>4
<1>4. /\ orphans \subseteq orphans' /\ orphans' \subseteq Jobs
      /\ bull'[j] = "waiting" \/ job["bull"] = j \/ j \in orphans'
  BY ConstantFacts DEF BullStall, IInv, TypeOK
<1>5. TypeOK'
  BY <1>0, <1>1, <1>2, <1>3, <1>4 DEF IInv, TypeOK
<1>6. HandOK'
  BY <1>0, <1>2, ConstantFacts DEF IInv, HandOK
<1>7. LoopOK' /\ QueueOK'
  BY <1>0, <1>1, LoopKept
<1>8. HistoryOK'
  BY <1>0, <1>2 DEF IInv, HistoryOK
<1>9. FilesOK'
  BY <1>0, <1>2, <1>4, ConstantFacts DEF IInv, FilesOK, FilesRemoved, Unsettled
<1>10. QED
  BY <1>5, <1>6, <1>7, <1>8, <1>9 DEF IInv

LEMMA BullRemoveInv == ASSUME IInv, NEW j \in Reports, BullRemove(j) PROVE IInv'
<1>0. /\ bull[j] \in Verdicts /\ bull' = [bull EXCEPT ![j] = "gone"]
      /\ UNCHANGED <<jobs, queue, stalls, job, at, outcome, files, imported, orphans, restarts, arriving>>
  BY DEF BullRemove, memoryVars, runVars
<1>1. isProcessing' = isProcessing
  BY DEF BullRemove, memoryVars
<1>2. /\ bull' \in [Reports -> States] /\ bull'[j] = "gone"
      /\ \A k \in Reports \ {j} : bull'[k] = bull[k]
      /\ bull[j] \notin Unsettled
  BY <1>0 DEF IInv, TypeOK, States, Verdicts, Unsettled
<1>3. TypeOK'
  BY <1>0, <1>1, <1>2 DEF IInv, TypeOK
<1>4. HandOK'
  BY <1>0, <1>2, ConstantFacts DEF IInv, HandOK
<1>5. LoopOK' /\ QueueOK'
  BY <1>0, <1>1, LoopKept
<1>6. HistoryOK'
  BY <1>0, <1>2 DEF IInv, HistoryOK
<1>7. FilesOK'
  BY <1>0, <1>2 DEF IInv, FilesOK, FilesRemoved
<1>8. QED
  BY <1>3, <1>4, <1>5, <1>6, <1>7 DEF IInv

LEMMA RestartInv == IInv /\ Restart => IInv'
<1> SUFFICES ASSUME IInv, Restart PROVE IInv'
  OBVIOUS
<1>1. /\ jobs' \in [Uploads -> States] /\ \A j \in Uploads : jobs'[j] \in {"none", "gone"}
      /\ bull' = bull /\ stalls' = stalls /\ imported' = imported /\ arriving' = {}
      /\ queue' = <<>> /\ queue' \in Seq(Uploads)
      /\ job' \in [Runners -> Jobs \union {None}] /\ \A r \in Runners : job'[r] = None
      /\ at' \in [Runners -> Ats] /\ \A r \in Runners : at'[r] = "idle"
      /\ outcome' \in [Runners -> {"none"} \union Verdicts]
      /\ \A r \in Runners : outcome'[r] = "none"
  BY DEF Restart, bullVars, States, Ats, AtHand
<1>2. isProcessing' = FALSE /\ isProcessing' \in BOOLEAN
  BY Zenon DEF Restart
<1>3. /\ files' \subseteq Jobs /\ orphans' \subseteq Jobs /\ restarts' \in 0..MaxRestarts
      /\ \A f \in files' \ orphans' : f \in Reports /\ bull[f] \in Unsettled
  <2>1. restarts' \in 0..MaxRestarts
    BY ConstantFacts DEF Restart, IInv, TypeOK
  <2>2. files' \subseteq Jobs
    BY ConstantFacts DEF Restart, IInv, TypeOK
  <2>3. QED
    BY <2>1, <2>2 DEF Restart, IInv, TypeOK
<1>4. TypeOK'
  BY <1>1, <1>2, <1>3 DEF IInv, TypeOK, Ats, AtHand
<1>5. HandOK'
  BY <1>1, ConstantFacts DEF HandOK, AtHand
<1>6. LoopOK' /\ QueueOK'
  BY <1>1, <1>2, ConstantFacts DEF LoopOK, QueueOK, QueueFits
<1>7. HistoryOK'
  BY <1>1 DEF IInv, HistoryOK
<1>8. FilesOK'
  BY <1>1, <1>3 DEF FilesOK, FilesRemoved
<1>9. QED
  BY <1>4, <1>5, <1>6, <1>7, <1>8 DEF IInv

LEMMA StutterInv == IInv /\ UNCHANGED vars => IInv'
<1> SUFFICES ASSUME IInv, UNCHANGED vars PROVE IInv'
  OBVIOUS
<1>1. TypeOK' /\ HandOK' /\ LoopOK'
  BY DEF IInv, TypeOK, HandOK, LoopOK, vars
<1>2. QueueOK' /\ HistoryOK' /\ FilesOK'
  BY DEF IInv, QueueOK, QueueFits, HistoryOK, FilesOK, FilesRemoved, vars
<1>3. QED
  BY <1>1, <1>2 DEF IInv

\* In every reachable state the Map, the array, the flag and the runners agree: no
\* upload is stranded.
THEOREM InvHolds == Spec => []IInv
<1>1. IInv /\ [Next]_vars => IInv'
  <2> SUFFICES ASSUME IInv, [Next]_vars PROVE IInv'
    OBVIOUS
  <2>1. CASE UNCHANGED vars
    BY <2>1, StutterInv
  <2>2. ASSUME NEW j \in Uploads, Upload(j) \/ Expire(j) PROVE IInv'
    BY <2>2, UploadInv, ExpireInv
  <2>3. ASSUME NEW j \in Reports,
               \/ Download(j) \/ BullAdd(j) \/ ReportFails(j)
               \/ BullTake(j) \/ BullStall(j) \/ BullRemove(j)
        PROVE  IInv'
    BY <2>3, DownloadInv, BullAddInv, ReportFailsInv, BullTakeInv, BullStallInv, BullRemoveInv
  <2>4. ASSUME NEW r \in Runners, Run(r) PROVE IInv'
    BY <2>4, OpenInv, ImportInv, RemoveFileInv DEF Run
  <2>5. CASE NextTask \/ Settle \/ BullSettle \/ Restart
    BY <2>5, NextTaskInv, SettleInv, BullSettleInv, RestartInv
  <2>6. QED
    BY <2>1, <2>2, <2>3, <2>4, <2>5 DEF Next
<1>2. QED
  BY <1>1, InitInv, PTL DEF Spec

\* Every variable always has its type.
THEOREM TypeCorrect == Spec => []TypeOK
<1>1. IInv => TypeOK
  BY DEF IInv
<1>2. QED
  BY <1>1, InvHolds, PTL

\* A client told "completed" has its whole file in the tables, whatever stalled,
\* was re-run or restarted in between.
THEOREM CompletedMeansImportedHolds == Spec => []CompletedMeansImported
<1>1. IInv => CompletedMeansImported
  BY DEF IInv, HistoryOK, CompletedMeansImported, Answer, StatusOf, Jobs, Unsettled, Verdicts
<1>2. QED
  BY <1>1, InvHolds, PTL

\* No file that has no job to come or at hand is left in ./uploads but for the reasons it
\* names.
THEOREM FilesRemovedHolds == Spec => []FilesRemoved
<1>1. IInv => FilesRemoved
  BY DEF IInv, FilesOK
<1>2. QED
  BY <1>1, InvHolds, PTL

-----------------------------------------------------------------------------
(* What a client was told.                                                 *)

\* A status in the Map or in Redis never leaves a verdict but to be forgotten.
LEMMA VerdictsStay ==
  ASSUME IInv, [Next]_vars
  PROVE  /\ \A j \in Uploads : jobs[j] \in Verdicts => jobs'[j] \in {jobs[j], "gone"}
         /\ \A j \in Reports : bull[j] \in Verdicts => bull'[j] \in {bull[j], "gone"}
<1> DEFINE P == /\ \A j \in Uploads : jobs[j] \in Verdicts => jobs'[j] \in {jobs[j], "gone"}
                /\ \A j \in Reports : bull[j] \in Verdicts => bull'[j] \in {bull[j], "gone"}
<1>0. /\ jobs \in [Uploads -> States] /\ bull \in [Reports -> States]
      /\ \A n \in 1..Len(queue) : jobs[queue[n]] = "waiting"
      /\ queue \in Seq(Uploads)
  BY DEF IInv, TypeOK, QueueOK, QueueFits
<1>1. CASE jobs' = jobs /\ bull' = bull
  BY <1>1
<1>2. ASSUME NEW j \in Uploads, Upload(j) PROVE P
  <2>1. bull' = bull /\ jobs[j] = "none"
    BY <1>2 DEF Upload, bullVars
  <2>2. CASE isProcessing
    BY <1>0, <1>2, <2>1, <2>2 DEF Upload, Verdicts
  <2>3. CASE ~isProcessing
    <3>1. queue = <<>>
      BY <2>3 DEF IInv, LoopOK
    <3>2. jobs' = [[jobs EXCEPT ![j] = "waiting"] EXCEPT ![j] = "active"]
      BY <1>2, <2>3, <3>1 DEF Upload, TakeFirst
    <3>3. QED
      BY <1>0, <2>1, <3>2 DEF Verdicts
  <2>4. QED
    BY <2>2, <2>3
<1>3. CASE NextTask
  <2>1. bull' = bull
    BY <1>3 DEF NextTask, bullVars
  <2>2. CASE queue # <<>>
    <3>1. Head(queue) \in Uploads /\ jobs[Head(queue)] = "waiting"
      BY <1>0, <2>2, QueueFacts
    <3>2. jobs' = [jobs EXCEPT ![Head(queue)] = "active"]
      BY <1>3, <2>2 DEF NextTask, TakeFirst
    <3>3. QED
      BY <1>0, <2>1, <3>1, <3>2 DEF Verdicts
  <2>3. CASE queue = <<>>
    BY <1>3, <2>1, <2>3 DEF NextTask
  <2>4. QED
    BY <2>2, <2>3
<1>4. CASE Settle
  <2>1. bull' = bull /\ jobs' = [jobs EXCEPT ![job["memory"]] = outcome["memory"]]
    BY <1>4 DEF Settle, bullVars
  <2>2. job["memory"] # None /\ jobs[job["memory"]] = "active"
    BY <1>4, ConstantFacts DEF Settle, IInv, HandOK, AtHand
  <2>3. QED
    BY <1>0, <2>1, <2>2 DEF Verdicts
<1>5. ASSUME NEW j \in Uploads, Expire(j) PROVE P
  BY <1>0, <1>5 DEF Expire, bullVars
<1>6. ASSUME NEW j \in Reports, BullAdd(j) \/ BullTake(j) \/ BullStall(j) \/ BullRemove(j) PROVE P
  BY <1>0, <1>6 DEF BullAdd, BullTake, BullStall, BullRemove, memoryVars, Verdicts
<1>12. ASSUME NEW j \in Reports, Download(j) \/ ReportFails(j) PROVE P
  BY <1>1, <1>12 DEF Download, ReportFails, memoryVars, bullVars
<1>7. CASE BullSettle
  BY <1>0, <1>7 DEF BullSettle, memoryVars, Verdicts
<1>8. CASE Restart
  BY <1>0, <1>8 DEF Restart, bullVars, Verdicts
<1>9. ASSUME NEW r \in Runners, Run(r) PROVE P
  BY <1>1, <1>9 DEF Run, Open, Import, RemoveFile, memoryVars, bullVars
<1>10. CASE UNCHANGED vars
  BY <1>1, <1>10 DEF vars
<1>11. QED
  BY <1>2, <1>3, <1>4, <1>5, <1>6, <1>7, <1>8, <1>9, <1>10, <1>12 DEF Next

\* A verdict a client was given is never taken back, only forgotten.
THEOREM AnswersAdvanceHolds == Spec => AnswersAdvance
<1> DEFINE Advance ==
      \A j \in Jobs : Answer(j) \in Verdicts => Answer(j)' \in {Answer(j), "404"}
<1>1. IInv /\ [Next]_vars => [Advance]_vars
  <2> SUFFICES ASSUME IInv, [Next]_vars, NEW j \in Jobs, Answer(j) \in Verdicts
               PROVE  Answer(j)' \in {Answer(j), "404"}
    OBVIOUS
  <2>1. CASE j \in Uploads
    <3>1. jobs[j] \in Verdicts /\ Answer(j) = jobs[j]
      BY <2>1 DEF Answer, StatusOf, Verdicts, Unsettled
    <3>2. jobs'[j] \in {jobs[j], "gone"}
      BY <2>1, <3>1, VerdictsStay
    <3>3. QED
      BY <2>1, <3>1, <3>2 DEF Answer, StatusOf, Verdicts, Unsettled
  <2>2. CASE j \notin Uploads
    <3>0. j \in Reports
      BY <2>2 DEF Jobs
    <3>1. bull[j] \in Verdicts /\ Answer(j) = bull[j]
      BY <2>2 DEF Answer, StatusOf, Verdicts, Unsettled
    <3>2. bull'[j] \in {bull[j], "gone"}
      BY <3>0, <3>1, VerdictsStay
    <3>3. QED
      BY <2>2, <3>1, <3>2 DEF Answer, StatusOf, Verdicts, Unsettled
  <2>3. QED
    BY <2>1, <2>2
<1>2. QED
  BY <1>1, InvHolds, PTL DEF Spec, AnswersAdvance

-----------------------------------------------------------------------------
(* Refinement.                                                             *)

LEMMA VerdictFacts ==
  /\ VerdictOf("none") = "none"
  /\ VerdictOf("waiting") = "accepted" /\ VerdictOf("active") = "accepted"
  /\ VerdictOf("completed") = "completed" /\ VerdictOf("failed") = "failed"
  /\ VerdictOf("gone") = "forgotten"
BY DEF VerdictOf, Unsettled, Verdicts

V(m) == [j \in Uploads |-> VerdictOf(m[j])]

LEMMA StepRefines ==
  ASSUME IInv, [Next]_vars
  PROVE  Abstract!Next \/ UNCHANGED Abstract!vars
<1>0. /\ jobs \in [Uploads -> States] /\ queue \in Seq(Uploads)
      /\ \A n \in 1..Len(queue) : jobs[queue[n]] = "waiting"
  BY DEF IInv, TypeOK, QueueOK, QueueFits
<1>1. CASE jobs' = jobs /\ queue' = queue /\ job'["memory"] = job["memory"]
  BY <1>1 DEF Abstract!vars
<1>2. ASSUME NEW j \in Uploads, Upload(j) PROVE Abstract!Accept(j)
  <2>1. jobs[j] = "none" /\ V(jobs)[j] = "none"
    BY <1>2, VerdictFacts DEF Upload, V
  <2>2. CASE isProcessing
    <3>1. jobs' = [jobs EXCEPT ![j] = "waiting"] /\ queue' = Append(queue, j) /\ job' = job
      BY <1>2, <2>2 DEF Upload, runVars
    <3>2. V(jobs') = [V(jobs) EXCEPT ![j] = "accepted"]
      BY <1>0, <3>1, VerdictFacts DEF V
    <3>3. QED
      BY <2>1, <3>1, <3>2 DEF Abstract!Accept, V
  <2>3. CASE ~isProcessing
    <3>1. queue = <<>> /\ job["memory"] = None
      BY <2>3, ConstantFacts DEF IInv, LoopOK, HandOK, AtHand
    <3>2. TakeFirst(Append(queue, j), [jobs EXCEPT ![j] = "waiting"])
      BY <1>2, <2>3 DEF Upload
    <3>3. Append(queue, j) = <<j>> /\ Head(<<j>>) = j /\ Tail(<<j>>) = <<>>
      BY <3>1
    <3>4. /\ queue' = <<>>
          /\ jobs' = [[jobs EXCEPT ![j] = "waiting"] EXCEPT ![j] = "active"]
          /\ job' = [job EXCEPT !["memory"] = j]
      BY <3>2, <3>3 DEF TakeFirst
    <3>5. jobs' = [jobs EXCEPT ![j] = "active"] /\ job'["memory"] = j
      BY <1>0, <3>4, ConstantFacts DEF IInv, TypeOK
    <3>6. V(jobs') = [V(jobs) EXCEPT ![j] = "accepted"]
      BY <1>0, <3>5, VerdictFacts DEF V
    <3>7. QED
      BY <2>1, <3>1, <3>4, <3>5, <3>6 DEF Abstract!Accept, V
  <2>4. QED
    BY <2>2, <2>3
<1>3. CASE NextTask
  <2>1. CASE queue # <<>>
    <3>0. job["memory"] = None
      BY <1>3, ConstantFacts DEF NextTask, IInv, HandOK, AtHand
    <3>1. Head(queue) \in Uploads /\ jobs[Head(queue)] = "waiting"
      BY <1>0, <2>1, QueueFacts
    <3>2. /\ queue' = Tail(queue) /\ jobs' = [jobs EXCEPT ![Head(queue)] = "active"]
          /\ job' = [job EXCEPT !["memory"] = Head(queue)]
      BY <1>3, <2>1 DEF NextTask, TakeFirst
    <3>3. V(jobs') = [V(jobs) EXCEPT ![Head(queue)] = "accepted"]
      BY <1>0, <3>1, <3>2, VerdictFacts DEF V
    <3>4. V(jobs)[Head(queue)] = "accepted"
      BY <3>1, VerdictFacts DEF V
    <3>5. V(jobs') = V(jobs)
      BY <3>3, <3>4 DEF V
    <3>6. job'["memory"] = Head(queue)
      BY <3>2, ConstantFacts DEF IInv, TypeOK
    <3>7. Abstract!Take
      BY <2>1, <3>0, <3>2, <3>5, <3>6 DEF Abstract!Take, V
    <3>8. QED
      BY <3>7 DEF Abstract!Next
  <2>2. CASE queue = <<>>
    BY <1>1, <1>3, <2>2 DEF NextTask
  <2>3. QED
    BY <2>1, <2>2
<1>4. CASE Settle
  <2> DEFINE j == job["memory"]
             v == outcome["memory"]
  <2>1. j \in Uploads /\ j # None /\ v \in Verdicts
    BY <1>4, ConstantFacts DEF Settle, IInv, HandOK, AtHand
  <2>2. jobs' = [jobs EXCEPT ![j] = v] /\ job' = [job EXCEPT !["memory"] = None] /\ queue' = queue
    BY <1>4 DEF Settle
  <2>3. job'["memory"] = None
    BY <2>2, ConstantFacts DEF IInv, TypeOK
  <2>4. VerdictOf(v) = v
    BY <2>1, VerdictFacts DEF Verdicts
  <2> HIDE DEF v
  <2>5. V(jobs') = [V(jobs) EXCEPT ![j] = v]
    BY <1>0, <2>1, <2>2, <2>4 DEF V
  <2>6. Abstract!Settle
    BY <2>1, <2>2, <2>3, <2>5 DEF Abstract!Settle, Abstract!Verdicts, Verdicts, V
  <2>7. QED
    BY <2>6 DEF Abstract!Next
<1>5. ASSUME NEW j \in Uploads, Expire(j) PROVE Abstract!Forget(j)
  <2>1. /\ jobs[j] \in Verdicts /\ jobs' = [jobs EXCEPT ![j] = "gone"]
        /\ queue' = queue /\ job' = job
    BY <1>5 DEF Expire, runVars
  <2>2. V(jobs') = [V(jobs) EXCEPT ![j] = "forgotten"]
    BY <1>0, <2>1, VerdictFacts DEF V
  <2>3. V(jobs)[j] \in Verdicts
    BY <2>1, VerdictFacts DEF V, Verdicts
  <2>4. QED
    BY <2>1, <2>2, <2>3 DEF Abstract!Forget, Abstract!Verdicts, Verdicts, V
<1>6. CASE Restart
  <2>1. /\ queue' = <<>> /\ job'["memory"] = None
        /\ jobs' = [j \in Uploads |-> IF jobs[j] = "none" THEN "none" ELSE "gone"]
    BY <1>6, ConstantFacts DEF Restart
  <2>2. \A j \in Uploads : VerdictOf(jobs[j]) = "none" <=> jobs[j] = "none"
    BY <1>0, VerdictFacts DEF States
  <2>3. V(jobs') = [j \in Uploads |-> IF V(jobs)[j] = "none" THEN "none" ELSE "forgotten"]
    BY <2>1, <2>2, VerdictFacts DEF V
  <2>4. Abstract!Restart
    BY <2>1, <2>3 DEF Abstract!Restart, V
  <2>5. QED
    BY <2>4 DEF Abstract!Next
<1>7. CASE \E j \in Reports :
             \/ Download(j) \/ BullAdd(j) \/ ReportFails(j)
             \/ BullStall(j) \/ BullRemove(j)
  BY <1>1, <1>7 DEF Download, BullAdd, ReportFails, BullStall, BullRemove, memoryVars, runVars
<1>8. CASE BullSettle \/ \E j \in Reports : BullTake(j)
  BY <1>1, <1>8, ConstantFacts DEF BullSettle, BullTake, memoryVars, IInv, TypeOK, Runners
<1>9. CASE \E r \in Runners : Run(r)
  BY <1>1, <1>9 DEF Run, Open, Import, RemoveFile, memoryVars
<1>10. CASE UNCHANGED vars
  BY <1>1, <1>10 DEF vars
<1>11. QED
  BY <1>2, <1>3, <1>4, <1>5, <1>6, <1>7, <1>8, <1>9, <1>10 DEF Next, Abstract!Next

\* The in-memory queue carries out what it accepts one job at a time, in the order of
\* the uploads.
THEOREM ImplementsJobQueueHolds == Spec => ImplementsJobQueue
<1>1. Init => Abstract!Init
  BY ConstantFacts, VerdictFacts DEF Init, Abstract!Init
<1>2. IInv /\ [Next]_vars => [Abstract!Next]_(Abstract!vars)
  BY StepRefines
<1>3. QED
  BY <1>1, <1>2, InvHolds, PTL DEF Spec, ImplementsJobQueue, Abstract!Spec
=============================================================================
