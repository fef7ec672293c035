--------------------------------- MODULE Relay ---------------------------------
(***************************************************************************)
(* The relay worker (relay-cf/src/index.js) and the accounts it creates.   *)
(*                                                                         *)
(* A request runs the steps of its endpoint one after the other.  A step   *)
(* that sends a transaction reads the nonce of the relay's access key and  *)
(* broadcasts a transaction with the next one.  Requests share access      *)
(* keys, and hold no lock: their steps interleave, and the chain refuses   *)
(* a nonce that is not above the last one.  A transaction that was sent    *)
(* lives on when its request has failed, timed out or been dropped.        *)
(*                                                                         *)
(* The relay signs with one key pair.  It is a key of the relay's own      *)
(* account, and of every account that the testnet helper or the factory    *)
(* has made for it.                                                        *)
(***************************************************************************)
EXTENDS Integers, Sequences

CONSTANTS
  Account,  \* the accounts that may become wallets
  Own,      \* the relay's own account
  Key,      \* the public keys of passkeys
  NoKey,    \* of a contract that was not initialised
  Req       \* the requests

ASSUME RelayAssumption ==
  Own \notin Account /\ NoKey \notin Key /\ Account # {} /\ Key # {}

VARIABLES
  exists,    \* chain: the accounts
  code,      \* chain: those with the wallet contract
  key,       \* chain: the public key of an account's contract
  nonce,     \* chain: the nonce of the relay's access key on an account
  req,       \* the requests
  tx,        \* what became of the last transaction of a request
  answer,    \* what a request was answered
  overtaken  \* history: requests whose nonce another one's transaction has used

accounts == <<exists, code, key, nonce>>
relayVars == <<accounts, req, tx, answer, overtaken>>

-------------------------------------------------------------------------------
(***************************************************************************)
(* The endpoints.  A transaction is signed by the relay's own account or   *)
(* by the wallet account; strict says which of its failures end the        *)
(* request: those of the broadcast ("rpc"), also those of the execution    *)
(* ("status"), or none.  An endpoint that needs the contract's code        *)
(* fetches it first, and fails before it has sent anything (ReadFails).    *)
(***************************************************************************)
\* view_account says that the account is not there; a soft check takes any error for that
Absent(mode) == [do |-> "absent", mode |-> mode]
Helper == [do |-> "helper"]
\* Who signs a transaction, what it does, and whether its outcome is looked at: its bytes are not
\* modelled
Send(by, action, strict) == [do |-> "send", by |-> by, action |-> action, strict |-> strict]

CreateRoot == <<Absent("strict"), Helper>>

CreateWalletGlobal ==
  <<Absent("soft"), Helper,
    Send("own", "install", "rpc"), Send("own", "init", "rpc"), Send("own", "add_key", "rpc")>>

\* mutant: an error of w_init is ignored, as that of the access key is
DeployWallet_InitIgnored ==
  <<Send("wallet", "deploy", "status"), Send("wallet", "init", "none"),
    Send("wallet", "add_key", "none")>>

DeployWallet ==
  <<Send("wallet", "deploy", "status"), Send("wallet", "init", "status"),
    Send("wallet", "add_key", "none")>>

UpgradeWallet == <<Send("wallet", "deploy", "status")>>

DebugTx == <<Send("wallet", "deploy", "none")>>

DeployGlobalContract == <<Send("own", "publish", "rpc")>>

CreateSubaccount == <<Send("own", "factory", "rpc")>>

MpcSign == <<Send("wallet", "placeholder", "status")>>

RelaySession == <<Send("own", "execute", "rpc")>>

RelaySigned == <<Send("wallet", "execute", "rpc")>>

Program ==
  [create_root |-> CreateRoot,
   create_wallet_global |-> CreateWalletGlobal,
   deploy_wallet |-> DeployWallet,
   upgrade_wallet |-> UpgradeWallet,
   debug_tx |-> DebugTx,
   deploy_global_contract |-> DeployGlobalContract,
   create_subaccount |-> CreateSubaccount,
   mpc_sign |-> MpcSign,
   relay_session |-> RelaySession,
   relay_signed |-> RelaySigned]

Op == DOMAIN Program

\* the endpoints that answer with the status of their transaction
Reports == {"create_subaccount", "relay_session", "relay_signed"}

-------------------------------------------------------------------------------
(***************************************************************************)
(* A request.  at: what its step does next.                                *)
(***************************************************************************)
Request == [op : Op \union {"none"}, account : Account, key : Key,
            pc : 1..5, at : {"step", "read", "sent", "over"}, nonce : Nat]

Unsent == CHOOSE q \in [op : {"none"}, account : Account, key : Key,
                        pc : {1}, at : {"over"}, nonce : {0}] : TRUE

RelayInit ==
  /\ exists = {} /\ code = {}
  /\ key = [a \in Account |-> NoKey]
  /\ nonce = [a \in Account \union {Own} |-> 0]
  /\ req = [r \in Req |-> Unsent]
  /\ tx = [r \in Req |-> "none"]
  /\ answer = [r \in Req |-> "none"]
  /\ overtaken = {}

Submit(r, op, a, k) ==
  /\ req[r].op = "none"
  /\ req' = [req EXCEPT ![r] =
       [op |-> op, account |-> a, key |-> k, pc |-> 1, at |-> "step", nonce |-> 0]]
  /\ UNCHANGED <<accounts, tx, answer, overtaken>>

Step(r) == Program[req[r].op][req[r].pc]

Does(r, what) == req[r].at = "step" /\ Step(r).do = what

Ends(r, how) ==
  /\ req' = [req EXCEPT ![r].at = "over"]
  /\ answer' = [answer EXCEPT ![r] = how]

\* jsonRes
Succeeds(r) ==
  IF req[r].pc < Len(Program[req[r].op])
  THEN req' = [req EXCEPT ![r].pc = @ + 1, ![r].at = "step"] /\ UNCHANGED answer
  ELSE Ends(r, IF req[r].op \in Reports /\ tx[r] = "failed" THEN "failure" ELSE "ok")

CheckAbsent(r) ==
  /\ Does(r, "absent")
  /\ IF req[r].account \in exists THEN Ends(r, "error") ELSE Succeeds(r)
  /\ UNCHANGED <<accounts, tx, overtaken>>

CheckFails(r) ==
  /\ Does(r, "absent")
  /\ IF Step(r).mode = "soft" THEN Succeeds(r) ELSE Ends(r, "error")
  /\ UNCHANGED <<accounts, tx, overtaken>>

\* mutant: the status of the helper's answer is not looked at
CallHelper_StatusIgnored(r) ==
  /\ Does(r, "helper")
  /\ exists' = exists \union {req[r].account}
  /\ Succeeds(r)
  /\ UNCHANGED <<code, key, nonce, tx, overtaken>>

\* The helper creates an account once, with a full access key of the relay.
CallHelper(r) ==
  /\ Does(r, "helper")
  /\ exists' = exists \union {req[r].account}
  /\ IF req[r].account \in exists THEN Ends(r, "error") ELSE Succeeds(r)
  /\ UNCHANGED <<code, key, nonce, tx, overtaken>>

\* its answer is lost, with or without effect
HelperFails(r) ==
  /\ Does(r, "helper")
  /\ exists' \in {exists, exists \union {req[r].account}}
  /\ Ends(r, "error")
  /\ UNCHANGED <<code, key, nonce, tx, overtaken>>

Signer(r) == IF Step(r).by = "own" THEN Own ELSE req[r].account

\* mutant: the nonce that was read is used as it is
NextNonce_AsRead(r) == nonce[Signer(r)]

NextNonce(r) == nonce[Signer(r)] + 1

\* view_access_key.  The code reads at finality 'final', which may lag behind what has executed
\* by a few blocks; here a read sees every transaction that has executed.
ReadNonce(r) ==
  /\ Does(r, "send")
  /\ Signer(r) \in exists \union {Own}
  /\ req' = [req EXCEPT ![r].nonce = NextNonce(r), ![r].at = "read"]
  /\ overtaken' = overtaken \ {r}
  /\ UNCHANGED <<accounts, tx, answer>>

\* an error, no such account, or no code to deploy: only what runs in a try block of its own goes on
ReadFails(r) ==
  /\ Does(r, "send")
  /\ IF req[r].op = "deploy_wallet" /\ Step(r).strict = "none" THEN Succeeds(r)
     ELSE Ends(r, "error")
  /\ UNCHANGED <<accounts, tx, overtaken>>

Broadcast(r) ==
  /\ req[r].at = "read"
  /\ tx' = [tx EXCEPT ![r] = "pending"]
  /\ req' = [req EXCEPT ![r].at = "sent"]
  /\ UNCHANGED <<accounts, answer, overtaken>>

\* broadcast_tx_commit answers once the transaction was executed
Result(r) ==
  /\ req[r].at = "sent"
  /\ \/ tx[r] = "done" /\ Succeeds(r)
     \/ /\ tx[r] = "failed"
        /\ IF Step(r).strict = "status" THEN Ends(r, "error") ELSE Succeeds(r)
  /\ UNCHANGED <<accounts, tx, overtaken>>

\* the transaction was refused, or the RPC node has lost sight of it
NoResult(r) ==
  /\ req[r].at = "sent"
  /\ IF Step(r).strict = "none" THEN Succeeds(r) ELSE Ends(r, "error")
  /\ UNCHANGED <<accounts, tx, overtaken>>

\* the worker is dropped: an error, and no answer at all, are one to whoever asked
Dies(r) ==
  /\ req[r].at # "over"
  /\ Ends(r, "error")
  /\ UNCHANGED <<accounts, tx, overtaken>>

-------------------------------------------------------------------------------
(***************************************************************************)
(* The chain.                                                              *)
(***************************************************************************)
\* #[init]
InitAllowed(a) == a \in code /\ key[a] = NoKey

\* The action of r is executed, and succeeds.
Effect(r) ==
  LET a == req[r].account IN
    \/ /\ Step(r).action = "deploy"
       /\ code' = code \union {a}
       /\ UNCHANGED <<exists, key>>
    \/ /\ Step(r).action = "init" /\ InitAllowed(a)
       /\ key' = [key EXCEPT ![a] = req[r].key]
       /\ UNCHANGED <<exists, code>>
    \/ /\ Step(r).action = "factory" /\ a \notin exists
       /\ exists' = exists \union {a}
       /\ code' = code \union {a}
       /\ key' = [key EXCEPT ![a] = req[r].key]
    \/ /\ Step(r).action \in {"publish", "execute"}
       /\ UNCHANGED <<exists, code, key>>

\* It fails: what a try of it would do, an access key that is there already, a proof that is
\* none, and an account of which the signer is no owner
EffectFails(r) ==
  /\ \/ Step(r).action \in {"execute", "add_key", "placeholder", "install"}
     \/ Step(r).action = "init" /\ ~InitAllowed(req[r].account)
     \/ Step(r).action = "factory" /\ req[r].account \in exists
  /\ UNCHANGED <<exists, code, key>>

\* The step of a request is over once its transaction is; one that its request no longer waits
\* for is still that of its last step.
Executed(r) ==
  /\ tx[r] = "pending" /\ req[r].nonce > nonce[Signer(r)]
  /\ \/ Effect(r) /\ tx' = [tx EXCEPT ![r] = "done"]
     \/ EffectFails(r) /\ tx' = [tx EXCEPT ![r] = "failed"]
  /\ nonce' = [nonce EXCEPT ![Signer(r)] = req[r].nonce]
  /\ overtaken' = overtaken \union
       {q \in Req \ {r} : /\ req[q].op # "none" /\ Step(q).do = "send"
                          /\ Signer(q) = Signer(r) /\ req[q].nonce <= req[r].nonce}
  /\ UNCHANGED <<req, answer>>

Refused(r) ==
  /\ tx[r] = "pending" /\ req[r].nonce <= nonce[Signer(r)]
  /\ tx' = [tx EXCEPT ![r] = "refused"]
  /\ UNCHANGED <<accounts, req, answer, overtaken>>

Works(r) ==
  \/ CheckAbsent(r) \/ CheckFails(r) \/ CallHelper(r) \/ HelperFails(r)
  \/ ReadNonce(r) \/ ReadFails(r) \/ Broadcast(r) \/ Result(r) \/ NoResult(r)

Chain(r) == Executed(r) \/ Refused(r)

RelayNext ==
  \E r \in Req :
    \/ \E op \in Op, a \in Account, k \in Key : Submit(r, op, a, k)
    \/ Works(r) \/ Dies(r) \/ Chain(r)

RelaySpec == RelayInit /\ [][RelayNext]_relayVars

-------------------------------------------------------------------------------
\* Every variable stays in its type.
RelayTypeOK ==
  /\ exists \subseteq Account /\ code \subseteq exists
  /\ key \in [Account -> Key \union {NoKey}]
  /\ nonce \in [Account \union {Own} -> Nat]
  /\ req \in [Req -> Request]
  /\ tx \in [Req -> {"none", "pending", "done", "failed", "refused"}]
  /\ answer \in [Req -> {"none", "ok", "failure", "error"}]
  /\ overtaken \subseteq Req

\* A transaction is refused for its nonce only when another request, with the same access key,
\* got in between reading the nonce and the broadcast (signAndBroadcast), if reads see all that
\* has executed: the calls of one request do not take each other's nonces.
RefusedWasOvertaken ==
  \A r \in Req : tx[r] = "refused" => r \in overtaken

\* "wallet_ready" (relay-cf/src/index.js:520) is answered only about an account whose contract
\* has the key of the request, whoever else deploys to that account at the same time.
ReadyHasKey ==
  \A r \in Req :
    req[r].op = "deploy_wallet" /\ answer[r] = "ok" =>
      req[r].account \in code /\ key[req[r].account] = req[r].key

\* Two requests for one name: create-root tells at most one of them that the account is new,
\* although its check and the creation are two calls.
CreatedOnce ==
  \A r, q \in Req :
    /\ req[r].op = "create_root" /\ req[q].op = "create_root"
    /\ answer[r] = "ok" /\ answer[q] = "ok"
    /\ req[r].account = req[q].account
    => r = q
===============================================================================
