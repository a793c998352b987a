------------------------- MODULE ExcelQueueInvariant -------------------------
(***************************************************************************)
(* The inductive invariant of ExcelQueue.                                  *)
(***************************************************************************)
EXTENDS ExcelQueue

AtHand == {"opening", "reading", "closing", "settling"}

\* A runner past its first step and before its last has a job, one of its own queue.
HandOK ==
  /\ job["memory"] \in Uploads \union {None}
  /\ job["bull"] \in Reports \union {None}
  /\ at["bull"] # "looping"
  /\ \A r \in Runners :
       /\ at[r] \in AtHand <=> job[r] # None
       /\ at[r] \in {"closing", "settling"} => outcome[r] \in Verdicts
  /\ job["memory"] # None => jobs[job["memory"]] = "active"
  /\ job["bull"] # None => bull[job["bull"]] # "none"

\* The flag is up exactly while the loop runs, and it leaves only an empty queue.
LoopOK ==
  /\ isProcessing <=> at["memory"] # "idle"
  /\ ~isProcessing => queue = <<>>

\* The jobs the Map m has as waiting are those of the array q, each once.
QueueFits(q, m) ==
  /\ \A n \in 1..Len(q) : m[q[n]] = "waiting"
  /\ \A n1, n2 \in 1..Len(q) : q[n1] = q[n2] => n1 = n2
  /\ \A j \in Uploads : m[j] = "waiting" => \E n \in 1..Len(q) : q[n] = j

QueueOK ==
  /\ QueueFits(queue, jobs)
  /\ \A j \in Uploads : jobs[j] = "active" => job["memory"] = j

HistoryOK ==
  /\ \A r \in Runners : outcome[r] = "completed" => job[r] \in imported
  /\ \A j \in Uploads : jobs[j] = "completed" => j \in imported
  /\ \A j \in Reports : bull[j] = "completed" => j \in imported

FilesOK ==
  /\ FilesRemoved
  /\ \A r \in Runners : at[r] = "settling" => job[r] \notin files \ orphans

\* No upload is stranded: one the Map has as waiting is in the array, one it has as
\* active is at hand, and an array with jobs in it has a loop that will come to it; the
\* rest is what the other properties need to be inductive.
IInv == TypeOK /\ HandOK /\ LoopOK /\ QueueOK /\ HistoryOK /\ FilesOK
=============================================================================
