------------------------------ MODULE MCTopoSort ------------------------------
(***************************************************************************)
(* All images of up to four files, with all imports between them, and the  *)
(* imports of files that are missing in the smaller ones.                  *)
(***************************************************************************)
EXTENDS TopoSort

M == INSTANCE SequencesExt

MCNames == 1..4

MCSort(S) == M!SetToSortSeq(S, <)

=============================================================================
