--------------------------- MODULE MCLogIngestor ---------------------------
(***************************************************************************)
(* Instances of LogIngestor for TLC.  Entries and workers are              *)
(* interchangeable: nothing in the pipeline looks inside an entry.         *)
(***************************************************************************)
EXTENDS LogIngestor, TLC

Symmetry == Permutations(Entry) \cup Permutations(Worker)
=============================================================================
