-------------------------------- MODULE Encodings --------------------------------
(***************************************************************************)
(* The encodings of bytes: RLP and the signed transaction of               *)
(* lib/ethereum.ts, the DER signatures of lib/borsh.ts, the compact        *)
(* integers of lib/utils.ts, the base58 of the relay and of the dApp's     *)
(* executor, and the payment URI of the SDK.                               *)
(*                                                                         *)
(* Bytes are sequences of numbers.  DER signatures are scaled down: Width  *)
(* bytes of Base values stand for 32 bytes of 256.                         *)
(***************************************************************************)
EXTENDS Integers, FiniteSets, SequencesExt

CONSTANTS
  Base, Width, Order  \* P-256, scaled down

(***************************************************************************)
(* Numbers.                                                                *)
(***************************************************************************)
\* The digits of n, the highest first, and the number that digits stand for.
Digits(base, n) ==
  LET digits[k \in Nat] == IF k = 0 THEN <<>> ELSE Append(digits[k \div base], k % base)
  IN  digits[n]

Number(base, b) == FoldLeft(LAMBDA v, d : v * base + d, 0, b)

ZeroBytes(n) == [i \in 1..n |-> 0]

ASSUME EncodingsAssumption ==
  /\ Width \in Nat
  /\ Base \in {2 * b : b \in 1..128}
  /\ Order \in Nat \ {0, 1}
  /\ Len(Digits(Base, Order)) <= Width

-------------------------------------------------------------------------------
(***************************************************************************)
(* RLP.                                                                    *)
(***************************************************************************)
\* mutant: the longest short string is one too long
RlpPrefix_Long(base, n) ==
  IF n <= 56 THEN <<base + n>> ELSE <<base + 55 + Len(Digits(256, n))>> \o Digits(256, n)

RlpPrefix(base, n) ==
  IF n < 56 THEN <<base + n>> ELSE <<base + 55 + Len(Digits(256, n))>> \o Digits(256, n)

RlpBytes(b) == IF Len(b) = 1 /\ b[1] < 128 THEN b ELSE RlpPrefix(128, Len(b)) \o b

RlpInt(n) == RlpBytes(Digits(256, n))

RlpList(items) == RlpPrefix(192, Len(FlattenSeq(items))) \o FlattenSeq(items)

\* readBeInt and the bounds of the string or list at i: its first byte and the byte after it.
\* Past the end of data it reads NaN: a number that nothing has room for.
ReadInt(data, i, n) ==
  IF i + n > Len(data) + 1 THEN Len(data) + 1 ELSE Number(256, SubSeq(data, i, i + n - 1))

Bounds(data, i, base) ==
  LET b == data[i]
      n == b - base - 55
  IN  IF b <= base + 55 THEN [from |-> i + 1, to |-> i + 1 + b - base]
      ELSE [from |-> i + 1 + n, to |-> i + 1 + n + ReadInt(data, i + 1, n)]

Extent(data, i) ==
  IF data[i] < 128 THEN [from |-> i, to |-> i + 1] ELSE Bounds(data, i, 128)

\* rlpDecodeAt of a list of strings.  It does not check that the items and the list end where
\* they should, and reads on; the wallet gives it only lists that it has built.  Here what a node
\* refuses is <<<<-1>>>>.
RlpDecode(data) ==
  LET h == Bounds(data, 1, 192)
      items[i \in 1..Len(data) + 1] ==
        IF i = h.to THEN <<>>
        ELSE IF i > Len(data) \/ data[i] >= 192 THEN <<<<-1>>>>
        ELSE LET e == Extent(data, i) IN
             IF e.to > h.to THEN <<<<-1>>>>
             ELSE <<SubSeq(data, e.from, e.to - 1)>> \o items[e.to]
  IN  IF data = <<>> \/ data[1] < 192 \/ h.to # Len(data) + 1 THEN <<<<-1>>>> ELSE items[h.from]

\* the fields of buildEthTx: the data and the access list are empty strings
EthFields(tx) ==
  <<RlpInt(1), RlpInt(tx.nonce), RlpInt(tx.fee), RlpInt(tx.fee), RlpInt(21000), RlpBytes(tx.to),
    RlpInt(tx.value), RlpBytes(<<>>), RlpBytes(<<>>)>>

\* without the type byte
UnsignedEthTx(tx) == RlpList(EthFields(tx))

\* assembleSignedEthTx: the decoded fields are put into the list as they are
SignedEthTx(unsigned, sig) ==
  RlpList(RlpDecode(unsigned) \o <<RlpInt(27 + sig.recovery_id), RlpBytes(sig.r), RlpBytes(sig.s)>>)

-------------------------------------------------------------------------------
(***************************************************************************)
(* DER.                                                                    *)
(***************************************************************************)
\* External: the authenticator encodes r and s in as few bytes as keep them positive.
DerInt(n) ==
  LET digits == Digits(Base, n) IN IF digits[1] >= Base \div 2 THEN <<0>> \o digits ELSE digits

Strip(b) == IF b[1] = 0 /\ Len(b) = Width + 1 THEN Tail(b) ELSE b

Padded(n) == ZeroBytes(Width - Len(Digits(Base, n))) \o Digits(Base, n)

\* mutant: a high s is kept
LowS_Kept(s) == s

LowS(s) ==
  IF Number(Base, s) > Order \div 2 THEN Padded(Order - Number(Base, s)) ELSE s

\* derToRawP256; it throws unless both integers have the full width
DerToRaw(r, s) ==
  IF Len(Strip(r)) # Width \/ Len(Strip(s)) # Width THEN <<>> ELSE Strip(r) \o LowS(Strip(s))

-------------------------------------------------------------------------------
(***************************************************************************)
(* Compact integers and base58.                                            *)
(***************************************************************************)
CompactU16(n) ==
  IF n < 128 THEN <<n>>
  ELSE IF n < 16384 THEN <<(n % 128) + 128, (n \div 128) % 128>>
  ELSE <<(n % 128) + 128, ((n \div 128) % 128) + 128, (n \div 16384) % 4>>

\* External: how Solana reads one
FromCompact(b) == Number(128, Reverse([k \in DOMAIN b |-> b[k] % 128]))

\* how many zeros a sequence starts with
Zeros(b) == Cardinality({i \in DOMAIN b : \A j \in 1..i : b[j] = 0})

\* base58Encode, of the relay and of the executor
Base58(b) == ZeroBytes(Zeros(b)) \o Digits(58, Number(256, b))

\* base58Decode of the relay
FromBase58(s) == ZeroBytes(Zeros(s)) \o Digits(256, Number(58, s))

-------------------------------------------------------------------------------
(***************************************************************************)
(* The payment URI.  A payment is a record with the parameters that it     *)
(* has; a currency that it accepts is a sequence of text and separators.   *)
(***************************************************************************)
Accepted(a) ==
  <<a.currency, ":", a.chain, ":", a.depositAddress>>
  \o IF "assetId" \in DOMAIN a THEN <<"@">> \o a.assetId ELSE <<>>

\* join: the texts with a separator between them
Joined(texts, c) ==
  FlattenSeq([i \in DOMAIN texts |-> IF i = 1 THEN texts[i] ELSE <<c>> \o texts[i]])

\* createPaymentQr, of a payment with all that is required; an empty list is left out
CreatePaymentQr(q) ==
  [k \in {k \in DOMAIN q : k = "accepts" => Len(q.accepts) > 0} |->
     IF k = "accepts" THEN Joined([i \in DOMAIN q.accepts |-> Accepted(q.accepts[i])], ",")
     ELSE q[k]]

\* split: the texts between the separators
SplitAt(s, c) ==
  FoldLeft(LAMBDA parts, x : IF x = c THEN Append(parts, <<>>)
                             ELSE [parts EXCEPT ![Len(parts)] = Append(@, x)], <<<<>>>>, s)

\* the first three parts between ":", and the first two of the third between "@"
ReadAccepted(s) ==
  LET parts == SplitAt(s, ":")
      last == SplitAt(parts[3], "@")
      a == [currency |-> parts[1][1], chain |-> parts[2][1], depositAddress |-> last[1][1]]
  IN  IF Len(last) > 1 THEN a @@ [assetId |-> last[2]] ELSE a

\* parsePaymentQr; what is not in the URI is undefined, but for the chain
ParsePaymentQr(uri) ==
  LET texts == SplitAt(uri.accepts, ",")
  IN  [k \in DOMAIN uri \union {"chain"} |->
         IF k = "chain" THEN (IF "chain" \in DOMAIN uri THEN uri.chain ELSE "base")
         ELSE IF k = "accepts" THEN [i \in DOMAIN texts |-> ReadAccepted(texts[i])]
         ELSE uri[k]]
===============================================================================
