------------------------------ MODULE MCCreation ------------------------------
(***************************************************************************)
(* Instances of Creation: two pages that may want the same name.           *)
(***************************************************************************)
EXTENDS Creation

CONSTANTS p1, p2, k1, k2, root, sub

MCReq == Attempt \X {"create", "deploy"}
===============================================================================
