---------------------------- MODULE MCJsonlStore ----------------------------
(* The JSONL storage for TLC: ids are only compared. *)
EXTENDS JsonlStore

Symmetry == Permutations(Ids)
=============================================================================
