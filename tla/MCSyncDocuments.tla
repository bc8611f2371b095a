--------------------------- MODULE MCSyncDocuments ---------------------------
EXTENDS SyncDocuments, TLC

(* Users are alike (for runs without liveness). *)
Symmetry == Permutations(Users)

=============================================================================
