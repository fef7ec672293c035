-------------------------------- MODULE MCCodec --------------------------------
(***************************************************************************)
(* Instances of Codec, with strings about the limits of RLP.               *)
(***************************************************************************)
EXTENDS Codec

Repeat(n) == [i \in 1..n |-> 200]
MCElement == {<<>>, <<0>>, <<127>>, <<128>>, Repeat(55), Repeat(56), Repeat(256)}
===============================================================================
