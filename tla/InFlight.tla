------------------------------- MODULE InFlight -------------------------------
(***************************************************************************)
(* What the requests of FormRecords, NewsCache and QaSettings have in      *)
(* common.  NestJS serves each as an async function: what runs between two *)
(* awaits is one step, and the steps of the requests in flight interleave. *)
(* A request keeps what it read in locals (data), and ends when it is      *)
(* answered or when a call fails.                                          *)
(***************************************************************************)
EXTENDS Naturals, Sequences, FiniteSets, TLC

CONSTANTS
  Requests,    \* requests in flight at once
  MaxRequests, \* bound: requests started in a behaviour
  None         \* null, or undefined

ASSUME InFlightAssumption == IsFiniteSet(Requests) /\ MaxRequests \in Nat

VARIABLES
  req,      \* what each request is doing
  started,  \* counts towards MaxRequests
  raced     \* history: the pairs of topics of requests that overlapped

flight == <<req, started, raced>>

\* topic is the set of things the request is about, pairs <<kind, thing>>.
Idle == [op |-> "none", at |-> "idle", topic |-> {}, id |-> None, data |-> None]

\* The kinds of requests that, overlapping about one thing, the code does not order.
Clashes ==
  {{"edit"}, {"edit", "print"}, {"add", "drop"}, {"import"}, {"rewrite"}, {"save"}}

Overlaps(topic) ==
  {{p[1], p[2]} : p \in {p \in topic \X UNION {req[r].topic : r \in Requests} :
                         {p[1][1], p[2][1]} \in Clashes /\ p[1][2] = p[2][2]}}

FlightInit ==
  /\ req = [r \in Requests |-> Idle]
  /\ started = 0
  /\ raced = {}

Is(r, op, at) == req[r].op = op /\ req[r].at = at

Start(r, q) ==
  /\ req[r] = Idle
  /\ started < MaxRequests
  /\ started' = started + 1
  /\ req' = [req EXCEPT ![r] = q]
  /\ raced' = raced \union Overlaps(q.topic)

Goto(r, at, data) ==
  /\ req' = [req EXCEPT ![r].at = at, ![r].data = data]
  /\ UNCHANGED <<started, raced>>

Leave(r) ==
  /\ req' = [req EXCEPT ![r] = Idle]
  /\ UNCHANGED <<started, raced>>

\* A request whose only step that matters is one call.
Once ==
  /\ started < MaxRequests
  /\ started' = started + 1
  /\ UNCHANGED <<req, raced>>

\* A call fails, or the process ends: what was written stays.
Fail(r) == req[r] # Idle /\ Leave(r)

FlightTypeOK ==
  /\ \A r \in Requests : DOMAIN req[r] = DOMAIN Idle
  /\ started \in 0..MaxRequests
=============================================================================
