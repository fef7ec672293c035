---------------------------------- MODULE Codec ----------------------------------
(***************************************************************************)
(* Inputs for Borsh and Encodings.  Messages, lists and bytes grow by one   *)
(* element in a step, integers by one.                                     *)
(***************************************************************************)
EXTENDS Borsh, Encodings

CONSTANTS
  Element,  \* bound: the strings of an RLP list
  Byte,     \* bound: the bytes of a base58 text
  MaxLen    \* bound: the elements of an input

\* Strings of an RLP list are bytes, and their lengths fit in the eight bytes a prefix has room
\* for.
ASSUME CodecAssumption ==
  /\ \A x \in Element : x \in Seq(0..255) /\ Len(Digits(256, Len(x))) <= 8
  /\ Byte \subseteq 0..255

VARIABLE input

Kind(kinds) == input.kind \in kinds
MaxU16 == 65535
Growing == {"actions", "ops", "rlp", "base58", "accepts"}

Accept == [currency : {"USDC"}, chain : {"base", "sol"}, depositAddress : {"0x1"}]

InputInit == input \in
  {[kind |-> kind, seq |-> <<>>] : kind \in Growing}
  \union {[kind |-> "compact", n |-> 0], [kind |-> "der", r |-> 1, s |-> 1]}
  \union [kind : {"sign"}, args : Text]
  \union [kind : {"eth"}, nonce : {0, 1, 128}, value : {0, 127, 256}]

Grows(kind, S) ==
  /\ Kind({kind}) /\ Len(input.seq) < MaxLen
  /\ \E x \in S : input' = [input EXCEPT !.seq = Append(@, x)]

Counts ==
  \/ Kind({"compact"}) /\ input.n < MaxU16 /\ input' = [input EXCEPT !.n = @ + 1]
  \/ Kind({"der"}) /\ input.r < Order - 1 /\ input' = [input EXCEPT !.r = @ + 1]
  \/ Kind({"der"}) /\ input.s < Order - 1 /\ input' = [input EXCEPT !.s = @ + 1]

InputNext ==
  \/ Grows("actions", DappAction) \/ Grows("ops", WalletOp) \/ Grows("accepts", Accept)
  \/ Grows("rlp", Element) \/ Grows("base58", Byte)
  \/ Counts

InputSpec == InputInit /\ [][InputNext]_input

-------------------------------------------------------------------------------
\* The contract reads, in whatever the wallet and the executor send, what they have signed:
\* transactions of a dApp or the user, operations on sessions and the backup key, requests to
\* the MPC contract.  (It never parses the executor's transfers.)
RequestsVerify ==
  /\ Kind({"actions"}) =>
       BorshActions("app", input.seq) = ContractMessage(TransactionJson("app", input.seq))
  /\ Kind({"ops"}) => BorshOps(input.seq) = ContractMessage(OpsJson(input.seq))
  /\ Kind({"sign"}) => BorshSign(input.args) = ContractMessage(SignJson(input.args))
  /\ Kind({"actions"}) /\ (\A i \in DOMAIN input.seq : input.seq[i].type = "FunctionCall") =>
       BorshLocal("app", input.seq) = ContractMessage(LocalJson("app", input.seq))

\* What a payment says: no currencies and an empty list of them are the same, and it is on Base
\* when it names no chain.
Meaning(q) ==
  LET keys == IF Len(q.accepts) > 0 THEN DOMAIN q ELSE DOMAIN q \ {"accepts"}
  IN  [k \in keys \union {"chain"} |-> IF k \in keys THEN q[k] ELSE "base"]

\* What is encoded is read back: RLP strings in a list, short or long; every compact integer of
\* a Solana message; base58 bytes, the zeros that a key begins with included; and a payment that
\* names no asset, with each currency that it accepts, if any, and the chain that it is on.
EncodingsRoundTrip ==
  /\ Kind({"rlp"}) =>
       RlpDecode(RlpList([i \in DOMAIN input.seq |-> RlpBytes(input.seq[i])])) = input.seq
  /\ Kind({"compact"}) => FromCompact(CompactU16(input.n)) = input.n
  /\ Kind({"base58"}) => FromBase58(Base58(input.seq)) = input.seq
  /\ Kind({"accepts"}) =>
       \A q \in {[amount |-> 1, accepts |-> input.seq, logo |-> "l"],
                 [amount |-> 1, accepts |-> input.seq, chain |-> "sol"]} :
         ParsePaymentQr(CreatePaymentQr(q)) = Meaning(q)

\* A DER signature that is converted is the same signature: r is kept and s is s or, when that
\* is above half the order, Order - s.
DerKeepsSignature == Kind({"der"}) =>
  LET raw == DerToRaw(DerInt(input.r), DerInt(input.s)) IN
  raw # <<>> => /\ Len(raw) = 2 * Width
                /\ Number(Base, SubSeq(raw, 1, Width)) = input.r
                /\ Number(Base, SubSeq(raw, Width + 1, 2 * Width)) =
                     IF input.s <= Order \div 2 THEN input.s ELSE Order - input.s

\* "Assemble a signed EIP-1559 tx from the unsigned tx + MPC signature" (lib/ethereum.ts:248):
\* the signed transaction is a list of the fields of the unsigned one and of the signature.
SignedTxIsReadable == Kind({"eth"}) =>
  LET unsigned == UnsignedEthTx([nonce |-> input.nonce, fee |-> 2, to |-> [i \in 1..20 |-> i],
                                 value |-> input.value])
      sig == [recovery_id |-> 1, r |-> [i \in 1..33 |-> 2], s |-> [i \in 1..32 |-> 3]]
  IN  RlpDecode(SignedEthTx(unsigned, sig)) =
        RlpDecode(unsigned) \o <<Digits(256, 27 + sig.recovery_id), sig.r, sig.s>>
===============================================================================
