------------------------------ MODULE MCOcaSync ------------------------------
(* OcaSync with small sets for TLC. *)
EXTENDS OcaSyncInvariant, TLC

CONSTANTS cron, click, op, t1, t2, t3, j1, j2

Symmetry == Permutations(Tickets) \union Permutations(Jobs)
=============================================================================
