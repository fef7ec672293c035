---------------------------- MODULE MCSessionClient ----------------------------
(***************************************************************************)
(* Instances of SessionClient: one account, or two that take turns.        *)
(***************************************************************************)
EXTENDS SessionClient

CONSTANTS alice, bob
===============================================================================
