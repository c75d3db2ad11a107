------------------------- MODULE MCSkipPagedImport -------------------------
(* Small instances of SkipPagedImport. *)
EXTENDS SkipPagedImport, TLC

\* The fetch workers run the same code.
AlikeWorkers == Permutations(FetchWorkers)
============================================================================
