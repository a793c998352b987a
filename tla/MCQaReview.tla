------------------------------ MODULE MCQaReview ------------------------------
(* QaReview with a few tickets and requests for TLC.                        *)
EXTENDS QaReview, TLC

Symmetry == Permutations(Requests)
=============================================================================
