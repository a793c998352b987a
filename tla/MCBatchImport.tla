---------------------------- MODULE MCBatchImport ----------------------------
(* BatchImport with a few files for TLC: two of Avaya rows (v1 and v2 are   *)
(* two times of a day and vector; k1, alone in its slot, is like a ticket)  *)
(* and two of survey answers over two dates, with duplicates inside and     *)
(* across batches.                                                          *)
EXTENDS BatchImport, TLC

CONSTANTS upload, report, k1, v1, v2, s1, s2, s3, d1, d2

Row(k, v) == [key |-> k, val |-> v]

MCSlotOf == [k \in Keys |-> IF k \in {v1, v2} THEN "day and vector" ELSE k]

MCDateOf == (s1 :> d1 @@ s2 :> d1 @@ s3 :> d2)

MCFiles ==
  {<<Row(k1, 1), Row(k1, 2), Row(v1, 3), Row(v2, 1), Row(None, 1), Row(k1, 4)>>,
   <<Row(v1, 1), Row(v2, 2), Row(v1, 3)>>,
   <<Row(s1, 1), Row(s2, 4), Row(s3, 4)>>,
   <<Row(s3, 2), Row(s3, 3), Row(s1, 4)>>,
   <<>>}
=============================================================================
