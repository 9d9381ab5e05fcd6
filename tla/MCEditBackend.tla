---------------------------- MODULE MCEditBackend -----------------------------
(***************************************************************************)
(* Calls, files and texts are interchangeable: no command prefers one.     *)
(***************************************************************************)
EXTENDS EditBackend

Symmetry == Permutations(Proc) \cup Permutations(File) \cup Permutations(Hash)
===============================================================================
