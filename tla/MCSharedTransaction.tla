------------------------- MODULE MCSharedTransaction -------------------------
(***************************************************************************)
(* Small instances of SharedTransaction: lists of two connections.         *)
(***************************************************************************)
EXTENDS SharedTransaction, TLC

NodeSymmetry == Permutations(Nodes)
=============================================================================
