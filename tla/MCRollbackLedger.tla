--------------------------- MODULE MCRollbackLedger ---------------------------
(* The instances of RollbackLedger that TLC checks. *)
EXTENDS RollbackLedgerProps, TLC

CONSTANTS a1, a2, before, patched, edited

MCAdmin == {a1, a2}
MCBlob == {before, patched, edited}

(* Both requests run the same code; the blobs play different parts. *)
AdminSymmetry == Permutations(MCAdmin)
=============================================================================
