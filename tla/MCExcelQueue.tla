----------------------------- MODULE MCExcelQueue -----------------------------
(* ExcelQueue with a few jobs for TLC.  The uploads are interchangeable,    *)
(* but symmetry is not sound for liveness, so none is declared.             *)
EXTENDS ExcelQueueInvariant, TLC
=============================================================================
