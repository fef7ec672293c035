---------------------------------- MODULE Borsh ----------------------------------
(***************************************************************************)
(* The message that is signed and the message that is sent.                *)
(*                                                                         *)
(* A wallet signs the borsh encoding of a request and sends the request as *)
(* JSON.  The contract parses the JSON, encodes what it has parsed and     *)
(* verifies the signature on that.  A request that the two sides encode    *)
(* differently can never be executed.                                      *)
(*                                                                         *)
(* An encoding is a nested sequence of tokens, one for each value of a     *)
(* primitive type; JSON is a record with the fields that are there.        *)
(***************************************************************************)
EXTENDS Integers, Sequences

CONSTANTS
  Text,   \* names, keys and payloads; the empty one is ""
  Amount  \* deposits and gas

ASSUME BorshAssumption == "" \in Text /\ 0 \in Amount /\ Amount \subseteq Nat

U8(n) == <<"u8", n>>
U32(n) == <<"u32", n>>
U64(n) == <<"u64", n>>
U128(n) == <<"u128", n>>
Str(s) == <<"string", s>>
Data(b) == <<"bytes", b>>
Vec(s) == <<U32(Len(s)), s>>

\* A field of JSON, and `field || default`: an amount is a decimal string, so "0" is not falsy
Field(json, name, default) == IF name \in DOMAIN json THEN json[name] ELSE default

Base64(s) == [base64 |-> s]
FromBase64(b) == b.base64

DefaultGas == 3

-------------------------------------------------------------------------------
(***************************************************************************)
(* What a user or a dApp asks for.                                         *)
(***************************************************************************)
DappAction ==
  [type : {"Transfer"}, amount : Amount]
  \union [type : {"FunctionCall"}, methodName : Text, args : Text, deposit : Amount, gas : Amount]
  \union [type : {"FunctionCall"}, methodName : Text]
  \union [type : {"Stake"}]

WalletOp ==
  [type : {"CreateSession"}, session_key_id : Text, public_key : Text, ttl_secs : Amount]
  \union [type : {"RevokeSession"}, session_key_id : Text]
  \union [type : {"SetBackupKey"}, public_key : Text]
  \union [type : {"RevokeAllSessions", "RemoveBackupKey"}]

-------------------------------------------------------------------------------
(***************************************************************************)
(* The web wallet: handleSendNearTransaction, buildSessionOpArgs and       *)
(* buildExecuteSignedArgs for the JSON, lib/borsh.ts for the bytes.        *)
(***************************************************************************)
\* a deposit that the dApp asks for is dropped
DagAction(a) ==
  IF a.type = "Transfer" THEN [action |-> "transfer", amount |-> Field(a, "amount", 0)]
  ELSE IF a.type = "FunctionCall"
  THEN [action |-> "function_call", function_name |-> Field(a, "methodName", ""),
        args |-> Base64(Field(a, "args", "")), deposit |-> 0,
        min_gas |-> Field(a, "gas", DefaultGas), gas_weight |-> 0]
  ELSE [action |-> "transfer", amount |-> 0]

\* the argument of borshRequestMessageWithSessionActions
Flat(j) ==
  [action |-> j.action, function_name |-> Field(j, "function_name", ""),
   args |-> Field(j, "args", Base64("")), deposit |-> Field(j, "deposit", Field(j, "amount", 0)),
   min_gas |-> Field(j, "min_gas", DefaultGas), gas_weight |-> Field(j, "gas_weight", 0)]

\* mutant: the discriminant that the executor uses
BorshAction_Executor(x) ==
  IF x.action = "function_call"
  THEN <<U8(2), Str(Field(x, "function_name", "")), Data(FromBase64(x.args)),
         U128(Field(x, "deposit", 0)), U64(Field(x, "min_gas", DefaultGas)),
         U64(Field(x, "gas_weight", 0))>>
  ELSE <<U8(0), U128(Field(x, "deposit", Field(x, "amount", 0)))>>

BorshAction(x) ==
  IF x.action = "function_call"
  THEN <<U8(2), Str(Field(x, "function_name", "")), Data(FromBase64(x.args)),
         U128(Field(x, "deposit", 0)), U64(Field(x, "min_gas", DefaultGas)),
         U64(Field(x, "gas_weight", 0))>>
  ELSE <<U8(3), U128(Field(x, "deposit", Field(x, "amount", 0)))>>

\* chain_id, signer_id, nonce, created_at and timeout
Header(timeout) == <<Str("mainnet"), Str("signer"), U32(1), U32(2), U32(timeout)>>

\* refund_to is None
BorshPromise(receiver, actions) == <<Str(receiver), U8(0), Vec(actions)>>

BorshActions(receiver, actions) ==
  <<Header(600), Vec(<<>>), Vec(<<>>),
    Vec(<<BorshPromise(receiver,
            [i \in DOMAIN actions |-> BorshAction(Flat(DagAction(actions[i])))])>>)>>

\* the message of handleSendNearTransaction
TransactionJson(receiver, actions) ==
  [timeout_secs |-> 600, ops |-> <<>>, receiver_id |-> <<receiver>>,
   actions |-> [i \in DOMAIN actions |-> DagAction(actions[i])]]

\* the action of buildExecuteSignedArgs
SignActionJson(args) ==
  [action |-> "function_call", function_name |-> "sign", args |-> Base64(args), deposit |-> 1,
   min_gas |-> 2, gas_weight |-> 0]

SignJson(args) ==
  [timeout_secs |-> 600, ops |-> <<>>, receiver_id |-> <<"mpc">>,
   actions |-> <<SignActionJson(args)>>]

\* borshRequestMessageWithDAG
BorshSign(args) ==
  <<Header(600), Vec(<<>>), Vec(<<>>),
    Vec(<<BorshPromise("mpc", <<<<U8(2), Str("sign"), Data(args), U128(1), U64(2), U64(0)>>>>)>>)>>

\* whatever is not tested for ends as revoke_session
OpJson(op) ==
  CASE op.type = "CreateSession" ->
         [op |-> "create_session", session_key_id |-> op.session_key_id,
          public_key |-> op.public_key, ttl_secs |-> op.ttl_secs]
    [] op.type = "RevokeAllSessions" -> [op |-> "revoke_all_sessions"]
    [] op.type = "SetBackupKey" -> [op |-> "set_backup_key", public_key |-> op.public_key]
    [] op.type = "RemoveBackupKey" -> [op |-> "remove_backup_key"]
    [] OTHER -> [op |-> "revoke_session", session_key_id |-> op.session_key_id]

OpsJson(ops) ==
  [timeout_secs |-> 600, ops |-> [i \in DOMAIN ops |-> OpJson(ops[i])],
   receiver_id |-> <<>>, actions |-> <<>>]

BorshOp(op) ==
  CASE op.type = "CreateSession" ->
         <<U8(3), Str(op.session_key_id), Str(op.public_key), U32(op.ttl_secs)>>
    [] op.type = "RevokeSession" -> <<U8(4), Str(op.session_key_id)>>
    [] op.type = "RevokeAllSessions" -> <<U8(5)>>
    [] op.type = "SetBackupKey" -> <<U8(6), Str(op.public_key)>>
    [] op.type = "RemoveBackupKey" -> <<U8(7)>>

\* borshRequestMessageWithOps
BorshOps(ops) ==
  <<Header(600), Vec([i \in DOMAIN ops |-> BorshOp(ops[i])]), Vec(<<>>), Vec(<<>>)>>

-------------------------------------------------------------------------------
(***************************************************************************)
(* The dApp's executor (public/executor.js), which signs with a session    *)
(* key of its own.                                                         *)
(***************************************************************************)
LocalAction(a) ==
  IF a.type = "Transfer" THEN [action |-> "transfer", deposit |-> Field(a, "amount", 0)]
  ELSE IF a.type = "FunctionCall"
  THEN [action |-> "function_call", function_name |-> Field(a, "methodName", ""),
        args |-> Base64(Field(a, "args", "")), deposit |-> Field(a, "deposit", 0),
        min_gas |-> Field(a, "gas", DefaultGas), gas_weight |-> 0]
  ELSE [action |-> "transfer", deposit |-> 0]

LocalJson(receiver, actions) ==
  [timeout_secs |-> 300, ops |-> <<>>, receiver_id |-> <<receiver>>,
   actions |-> [i \in DOMAIN actions |-> LocalAction(actions[i])]]

BorshLocalAction(x) ==
  IF x.action = "function_call"
  THEN <<U8(2), Str(x.function_name), Data(FromBase64(x.args)), U128(x.deposit),
         U64(x.min_gas), U64(x.gas_weight)>>
  ELSE <<U8(0), U128(x.deposit)>>

BorshLocal(receiver, actions) ==
  <<Header(300), Vec(<<>>), Vec(<<>>),
    Vec(<<BorshPromise(receiver,
            [i \in DOMAIN actions |-> BorshLocalAction(LocalAction(actions[i]))])>>)>>

-------------------------------------------------------------------------------
(***************************************************************************)
(* The contract: what serde takes from the JSON and what borsh writes.     *)
(***************************************************************************)
\* PromiseAction; a transfer without its amount is not parsed
ContractAction(j) ==
  IF j.action = "function_call"
  THEN <<U8(2), Str(j.function_name), Data(FromBase64(Field(j, "args", Base64("")))),
         U128(Field(j, "deposit", 0)), U64(Field(j, "min_gas", 0)),
         U64(Field(j, "gas_weight", 1))>>
  ELSE IF "amount" \in DOMAIN j THEN <<U8(3), U128(j.amount)>> ELSE <<"unparsed">>

\* WalletOp
ContractOp(j) ==
  CASE j.op = "create_session" ->
         <<U8(3), Str(j.session_key_id), Str(j.public_key), U32(j.ttl_secs)>>
    [] j.op = "revoke_session" -> <<U8(4), Str(j.session_key_id)>>
    [] j.op = "revoke_all_sessions" -> <<U8(5)>>
    [] j.op = "set_backup_key" -> <<U8(6), Str(j.public_key)>>
    [] j.op = "remove_backup_key" -> <<U8(7)>>

\* PromiseSingle
ContractPromise(receiver, actions) ==
  <<Str(receiver), U8(0), Vec([i \in DOMAIN actions |-> ContractAction(actions[i])])>>

\* RequestMessage
ContractMessage(json) ==
  <<Header(json.timeout_secs), Vec([i \in DOMAIN json.ops |-> ContractOp(json.ops[i])]), Vec(<<>>),
    Vec([i \in DOMAIN json.receiver_id |-> ContractPromise(json.receiver_id[i], json.actions)])>>
===============================================================================
