------------------------------- MODULE MCConnect -------------------------------
(***************************************************************************)
(* Instances of Connect.                                                   *)
(***************************************************************************)
EXTENDS Connect

CONSTANTS alice, bob
===============================================================================
