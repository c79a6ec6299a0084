--------------------------- MODULE MCScanLifecycle ---------------------------
(* ScanLifecycle for TLC: scan threads as interchangeable model values.       *)
EXTENDS ScanLifecycle, TLC

Symmetry == Permutations(Threads)
=============================================================================
