------------------------------ MODULE MCSessions ------------------------------
(***************************************************************************)
(* Small instances of Sessions: two or three clients on two descriptors.   *)
(***************************************************************************)
EXTENDS Sessions, TLC

ClientSymmetry == Permutations(Clients)
=============================================================================
