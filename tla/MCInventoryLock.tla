---------------------------- MODULE MCInventoryLock ----------------------------
(***************************************************************************)
(* Small instances of InventoryLock: one program alone on its machine, or  *)
(* two that share the key.                                                 *)
(***************************************************************************)
EXTENDS InventoryLock, TLC

ProgramSymmetry == Permutations(Programs)
=============================================================================
