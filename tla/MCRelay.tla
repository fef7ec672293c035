-------------------------------- MODULE MCRelay --------------------------------
(***************************************************************************)
(* Instances of Relay: every pair of operations, one or two accounts.      *)
(***************************************************************************)
EXTENDS Relay, TLC

CONSTANTS a1, a2, k1, k2, r1, r2, r3

MCSymmetry == Permutations(Req) \union Permutations(Key)
===============================================================================
