--------------------------- MODULE DataImportMC ---------------------------
(* Small instances of DataImport for TLC. *)
EXTENDS DataImport, TLC

Symmetry == Permutations(Page) \cup Permutations(Operation) \cup Permutations(Key)
===========================================================================
