------------------------------ MODULE MCPayments ------------------------------
(***************************************************************************)
(* An instance of Payments: two accounts that use the browser in turn.     *)
(***************************************************************************)
EXTENDS Payments

CONSTANTS alice, bob
===============================================================================
