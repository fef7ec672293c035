------------------------------- MODULE MCBunker -------------------------------
(***************************************************************************)
(* Instances of Bunker: an agent that the settings let through or shut     *)
(* out, a free request with two receivers, and one of every other kind.    *)
(***************************************************************************)
EXTENDS Bunker, TLC

CONSTANTS free, pay, sign, ping, a1

MCKind == free :> "zero" @@ pay :> "value" @@ sign :> "other" @@ ping :> "safe"

KindOf == [e \in Event |-> MCKind[e]]
SenderOf == [e \in Event |-> a1]
ReceiversOf == [e \in Event |-> IF e = free THEN 2 ELSE 1]
===============================================================================
