----------------------------- MODULE SyncLedger ------------------------------
(***************************************************************************)
(* What a synchronisation with a stamp promises, without saying how: a     *)
(* source whose items only get newer, a store that only moves towards the  *)
(* source, and a stamp that vouches for versions the store already holds.  *)
(***************************************************************************)
EXTENDS Integers

CONSTANTS Items, MaxVersion

VARIABLES
  source,   \* version of each item at the source, 0 when there is none
  stored,   \* version held by the store
  vouched   \* version the stamp tells its readers to expect in the store

ledgerVars == <<source, stored, vouched>>

NotOlder(v, w) == \A i \in Items : v[i] >= w[i]

LedgerInit ==
  /\ source = [i \in Items |-> 0]
  /\ stored = [i \in Items |-> 0]
  /\ vouched = [i \in Items |-> 0]

Change ==
  /\ source' \in [Items -> 0..MaxVersion]
  /\ NotOlder(source', source)
  /\ UNCHANGED <<stored, vouched>>

Store ==
  /\ stored' \in [Items -> 0..MaxVersion]
  /\ NotOlder(stored', stored)
  /\ NotOlder(source, stored')
  /\ UNCHANGED <<source, vouched>>

Vouch ==
  /\ vouched' \in [Items -> 0..MaxVersion]
  /\ NotOlder(vouched', vouched)
  /\ NotOlder(stored, vouched')
  /\ UNCHANGED <<source, stored>>

LedgerNext == Change \/ Store \/ Vouch

LedgerSpec == LedgerInit /\ [][LedgerNext]_ledgerVars
=============================================================================
