------------------------------ MODULE MCHubClient ------------------------------
(***************************************************************************)
(* One hub and what the server sends it.                                   *)
(***************************************************************************)
EXTENDS HubClient
=============================================================================
