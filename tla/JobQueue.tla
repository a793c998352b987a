------------------------------- MODULE JobQueue -------------------------------
(***************************************************************************)
(* What an upload endpoint promises of the in-memory queue: the jobs it    *)
(* accepts are carried out one at a time, in the order they came, each to  *)
(* a verdict a client can ask for until it is forgotten.  A restart        *)
(* forgets everything.                                                     *)
(***************************************************************************)
EXTENDS Sequences

CONSTANTS Jobs, None

VARIABLES
  pending,  \* accepted jobs, in order
  current,  \* the job being carried out
  verdict   \* of each job

vars == <<pending, current, verdict>>

Verdicts == {"completed", "failed"}

Init ==
  /\ pending = <<>>
  /\ current = None
  /\ verdict = [j \in Jobs |-> "none"]

Accept(j) ==
  /\ verdict[j] = "none"
  /\ verdict' = [verdict EXCEPT ![j] = "accepted"]
  /\ \/ pending' = Append(pending, j) /\ UNCHANGED current
     \/ pending = <<>> /\ current = None /\ current' = j /\ UNCHANGED pending

Take ==
  /\ current = None
  /\ pending # <<>>
  /\ current' = Head(pending)
  /\ pending' = Tail(pending)
  /\ UNCHANGED verdict

Settle ==
  /\ current # None
  /\ \E v \in Verdicts : verdict' = [verdict EXCEPT ![current] = v]
  /\ current' = None
  /\ UNCHANGED pending

Forget(j) ==
  /\ verdict[j] \in Verdicts
  /\ verdict' = [verdict EXCEPT ![j] = "forgotten"]
  /\ UNCHANGED <<pending, current>>

Restart ==
  /\ pending' = <<>>
  /\ current' = None
  /\ verdict' = [j \in Jobs |-> IF verdict[j] = "none" THEN "none" ELSE "forgotten"]

Next ==
  \/ \E j \in Jobs : Accept(j) \/ Forget(j)
  \/ Take
  \/ Settle
  \/ Restart

Spec == Init /\ [][Next]_vars
=============================================================================
