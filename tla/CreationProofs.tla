----------------------------- MODULE CreationProofs -----------------------------
(***************************************************************************)
(* The relay with any number of requests, accounts and keys, alone and     *)
(* below the creation of wallets.                                          *)
(*                                                                         *)
(* A property of an answer looks back at steps that are over.  The         *)
(* invariant RequestOK says of a request at each of its stages what its    *)
(* steps have left on chain, where nothing is undone, and of a transaction *)
(* under way that its nonce is still good or was overtaken.  An attempt to *)
(* create a wallet relies on the answers to its own two requests           *)
(* (AttemptOK).                                                            *)
(***************************************************************************)
EXTENDS Creation, TLAPS

Actions == {"deploy", "init", "add_key", "install", "publish", "factory", "placeholder", "execute"}

\* what a request to /deploy-wallet has left behind, step by step
Deploys(r) ==
  LET a == req[r].account
      done == req[r].at = "sent" /\ tx[r] = "done"
  IN  /\ req[r].pc \in 2..3 \/ done => a \in code
      /\ req[r].pc = 3 \/ (req[r].pc = 2 /\ done) => key[a] = req[r].key
      /\ answer[r] = "ok" => req[r].pc = 3

RequestOK(r) ==
  IF req[r].op = "none"
  THEN req[r].at = "over" /\ tx[r] = "none" /\ answer[r] = "none"
  ELSE /\ req[r].op \in Op /\ req[r].pc \in 1..Len(Program[req[r].op])
       /\ req[r].at \in {"step", "read"} => tx[r] \notin {"pending", "refused"}
       /\ req[r].at \in {"read", "sent"} \/ tx[r] = "pending" =>
            Step(r).do = "send" /\ Signer(r) \in exists \union {Own}
       /\ req[r].at = "read" \/ tx[r] = "pending" =>
            req[r].nonce > nonce[Signer(r)] \/ r \in overtaken
       /\ tx[r] = "refused" => r \in overtaken
       /\ answer[r] # "none" => req[r].at = "over"
       /\ req[r].op = "deploy_wallet" => Deploys(r)
       /\ req[r].op = "create_root" /\ answer[r] = "ok" => req[r].account \in exists

KeysHaveCode == \A a \in Account : key[a] # NoKey => a \in code

RInv == /\ RelayTypeOK /\ KeysHaveCode /\ \A r \in Req : RequestOK(r)
        /\ CreatedOnce

-------------------------------------------------------------------------------
(***************************************************************************)
(* The endpoints.                                                          *)
(***************************************************************************)
LEMMA Endpoints ==
  /\ Op = {"create_root", "create_wallet_global", "deploy_wallet", "upgrade_wallet", "debug_tx",
           "deploy_global_contract", "create_subaccount", "mpc_sign", "relay_session",
           "relay_signed"}
  /\ Program["create_root"] = CreateRoot
  /\ Program["create_wallet_global"] = CreateWalletGlobal
  /\ Program["deploy_wallet"] = DeployWallet
  /\ \A op \in Op \ {"create_root", "create_wallet_global", "deploy_wallet"} :
       Program[op] \in {UpgradeWallet, DebugTx, DeployGlobalContract, CreateSubaccount, MpcSign,
                        RelaySession, RelaySigned}
BY DEF Op, Program

\* What holds of a step of any endpoint
ProperStep(s, last) ==
  /\ s.do \in {"absent", "helper", "send"}
  /\ s.do = "send" => /\ s.by \in {"own", "wallet"} /\ s.action \in Actions
                      /\ s.strict \in {"rpc", "status", "none"}
                      /\ s.action = "deploy" => s.by = "wallet"
                      /\ s.strict = "none" => last

LEMMA ProperSteps ==
  ASSUME NEW op \in Op
  PROVE  /\ Len(Program[op]) \in 1..5
         /\ \A pc \in 1..Len(Program[op]) : ProperStep(Program[op][pc], pc = Len(Program[op]))
<1>1. CASE op = "create_root"
  BY <1>1, Endpoints DEF CreateRoot, ProperStep, Absent, Helper
<1>2. CASE op = "create_wallet_global"
  BY <1>2, Endpoints DEF CreateWalletGlobal, ProperStep, Absent, Helper, Send, Actions
<1>3. CASE op = "deploy_wallet"
  BY <1>3, Endpoints DEF DeployWallet, ProperStep, Send, Actions
<1>4. CASE op \notin {"create_root", "create_wallet_global", "deploy_wallet"}
  <2>1. Program[op] \in {UpgradeWallet, DebugTx, DeployGlobalContract, CreateSubaccount, MpcSign,
                         RelaySession, RelaySigned}
    BY <1>4, Endpoints
  <2>2. PICK by \in {"own", "wallet"}, action \in Actions, strict \in {"rpc", "status", "none"} :
          Program[op] = <<Send(by, action, strict)>> /\ (action = "deploy" => by = "wallet")
    BY <2>1 DEF UpgradeWallet, DebugTx, DeployGlobalContract, CreateSubaccount, MpcSign,
         RelaySession, RelaySigned, Actions
  <2>3. QED
    BY <2>2 DEF ProperStep, Send
<1>5. QED
  BY <1>1, <1>2, <1>3, <1>4

\* the step of a request
LEMMA StepFacts ==
  ASSUME RelayTypeOK, NEW r \in Req, RequestOK(r), req[r].op # "none"
  PROVE  /\ ProperStep(Step(r), req[r].pc = Len(Program[req[r].op]))
         /\ Len(Program[req[r].op]) \in 1..5
         /\ Signer(r) \in Account \union {Own}
         /\ req[r] \in Request /\ req[r].account \in Account
         /\ req[r].op = "deploy_wallet" =>
              /\ Len(Program[req[r].op]) = 3
              /\ Step(r).do = "send" /\ (req[r].pc < 3 => Step(r).strict = "status")
              /\ req[r].pc = 1 => Step(r).action = "deploy"
              /\ req[r].pc = 2 => Step(r).action = "init"
              /\ req[r].pc = 3 => Step(r).action = "add_key"
         /\ req[r].op = "create_root" =>
              /\ Len(Program[req[r].op]) = 2
              /\ req[r].pc = 1 => Step(r).do = "absent"
              /\ req[r].pc = 2 => Step(r).do = "helper"
<1>1. req[r] \in Request /\ req[r].op \in Op /\ req[r].pc \in 1..Len(Program[req[r].op])
  BY DEF RelayTypeOK, RequestOK
<1>2. req[r].account \in Account
  BY <1>1 DEF Request
<1>3. Signer(r) \in Account \union {Own}
  BY <1>2 DEF Signer
<1>4. /\ ProperStep(Step(r), req[r].pc = Len(Program[req[r].op]))
      /\ Len(Program[req[r].op]) \in 1..5
  BY <1>1, ProperSteps DEF Step
<1>5. CASE req[r].op = "deploy_wallet"
  <2>1. /\ Len(DeployWallet) = 3 /\ DeployWallet[1] = Send("wallet", "deploy", "status")
        /\ DeployWallet[2] = Send("wallet", "init", "status")
        /\ DeployWallet[3] = Send("wallet", "add_key", "none")
    BY DEF DeployWallet
  <2>2. Program[req[r].op] = DeployWallet /\ req[r].op # "create_root"
    BY <1>5, Endpoints
  <2>3. /\ req[r].pc = 1 => Step(r) = Send("wallet", "deploy", "status")
        /\ req[r].pc = 2 => Step(r) = Send("wallet", "init", "status")
        /\ req[r].pc = 3 => Step(r) = Send("wallet", "add_key", "none")
    BY <2>1, <2>2 DEF Step
  <2>4. req[r].pc \in {1, 2, 3} /\ Len(Program[req[r].op]) = 3
    <3>1. Len(Program[req[r].op]) = 3
      BY <2>1, <2>2
    <3>2. req[r].pc \in 1..3
      BY <1>1, <3>1
    <3>3. QED
      BY <3>1, <3>2
  <2>5. /\ Step(r).do = "send" /\ (req[r].pc < 3 => Step(r).strict = "status")
        /\ req[r].pc = 1 => Step(r).action = "deploy"
        /\ req[r].pc = 2 => Step(r).action = "init"
        /\ req[r].pc = 3 => Step(r).action = "add_key"
    BY <2>3, <2>4 DEF Send
  <2>6. QED
    BY <1>1, <1>2, <1>3, <1>4, <2>2, <2>4, <2>5
<1>6. CASE req[r].op = "create_root"
  <2>1. Len(CreateRoot) = 2 /\ CreateRoot[1] = Absent("strict") /\ CreateRoot[2] = Helper
    BY DEF CreateRoot
  <2>2. Program[req[r].op] = CreateRoot /\ req[r].op # "deploy_wallet"
    BY <1>6, Endpoints
  <2>3. /\ req[r].pc = 1 => Step(r) = Absent("strict")
        /\ req[r].pc = 2 => Step(r) = Helper
    BY <2>1, <2>2 DEF Step
  <2>4. QED
    BY <1>1, <1>2, <1>3, <1>4, <2>1, <2>2, <2>3 DEF Absent, Helper
<1>7. QED
  BY <1>1, <1>2, <1>3, <1>4, <1>5, <1>6

-------------------------------------------------------------------------------
(***************************************************************************)
(* A step of one request, and the others.                                  *)
(***************************************************************************)
\* On chain nothing is undone, and no key is replaced.
ChainGrows ==
  /\ exists \subseteq exists' /\ code \subseteq code'
  /\ \A a \in Account : key[a] # NoKey => key'[a] = key[a]

\* Request q has no part in a step: a nonce of its own access key is used past it only to its
\* knowledge.
Stays(q) ==
  /\ req'[q] = req[q] /\ tx'[q] = tx[q] /\ answer'[q] = answer[q]
  /\ q \in overtaken => q \in overtaken'
  /\ \/ nonce'[Signer(q)] = nonce[Signer(q)]
     \/ req[q].op # "none" /\ Step(q).do = "send" =>
          req[q].nonce > nonce'[Signer(q)] \/ q \in overtaken'

\* r is told that its account is new.
ToldNew(r) == req[r].op = "create_root" /\ answer[r] = "ok"

StepOf(r) ==
  /\ RelayTypeOK' /\ KeysHaveCode' /\ ChainGrows /\ RequestOK(r)'
  /\ \A q \in Req \ {r} : Stays(q)
  /\ ToldNew(r)' => \/ ToldNew(r) /\ req'[r].account = req[r].account
                    \/ req'[r].account \notin exists

LEMMA OthersStay ==
  ASSUME RelayTypeOK, NEW q \in Req, RequestOK(q), ChainGrows, Stays(q)
  PROVE  RequestOK(q)'
<1>1. CASE req[q].op = "none"
  BY <1>1 DEF RequestOK, Stays
<1>2. CASE req[q].op # "none"
  <2>1. Step(q)' = Step(q) /\ Signer(q)' = Signer(q)
    BY DEF Step, Signer, Stays
  <2>2. /\ req[q].account \in Account /\ req[q].key # NoKey
    BY RelayAssumption DEF RelayTypeOK, Request
  <2>3. req[q].op = "deploy_wallet" => Deploys(q)'
    BY <1>2, <2>2 DEF RequestOK, Deploys, Stays, ChainGrows
  <2>4. QED
    BY <1>2, <2>1, <2>3 DEF RequestOK, Stays, ChainGrows
<1>3. QED
  BY <1>1, <1>2

LEMMA RelayStep ==
  ASSUME RInv, NEW r \in Req, StepOf(r)
  PROVE  RInv'
<1>1. \A q \in Req : RequestOK(q)'
  BY OthersStay DEF RInv, StepOf
<1>2. CreatedOnce'
  <2> SUFFICES ASSUME NEW p \in Req, NEW q \in Req, ToldNew(p)', ToldNew(q)',
                      req'[p].account = req'[q].account, p # q
               PROVE  FALSE
    BY DEF CreatedOnce, ToldNew
  <2>1. \A x \in Req \ {r} : ToldNew(x)' => ToldNew(x) /\ req'[x].account = req[x].account
    BY DEF StepOf, Stays, ToldNew
  <2>2. \A x \in Req : ToldNew(x) => req[x].account \in exists
    BY DEF RInv, RequestOK, ToldNew
  <2>3. QED
    BY <2>1, <2>2 DEF StepOf, RInv, CreatedOnce, ToldNew
<1>3. QED
  BY <1>1, <1>2 DEF RInv, StepOf

\* What becomes of a request that goes on or ends
Becomes(r, next, ans) ==
  /\ req' = [req EXCEPT ![r] = next] /\ answer' = [answer EXCEPT ![r] = ans]
  /\ next \in Request /\ next.op = req[r].op /\ next.account = req[r].account
  /\ next.key = req[r].key /\ next.nonce = req[r].nonce

LEMMA EndsStep ==
  ASSUME RelayTypeOK, NEW r \in Req, RequestOK(r), req[r].op # "none", NEW how, Ends(r, how)
  PROVE  \E next : Becomes(r, next, how) /\ next.pc = req[r].pc /\ next.at = "over"
<1> DEFINE next == [req[r] EXCEPT !.at = "over"]
<1>1. req[r] \in Request
  BY DEF RelayTypeOK
<1>2. /\ next \in Request /\ next.op = req[r].op /\ next.account = req[r].account
      /\ next.key = req[r].key /\ next.nonce = req[r].nonce /\ next.pc = req[r].pc
      /\ next.at = "over"
  BY <1>1 DEF Request
<1>3. req' = [req EXCEPT ![r] = next]
  BY DEF Ends
<1>4. QED
  BY <1>2, <1>3 DEF Becomes, Ends

\* The last step of an endpoint answers.
LEMMA SucceedsStep ==
  ASSUME RelayTypeOK, NEW r \in Req, RequestOK(r), req[r].op # "none", req[r].at # "over",
         Succeeds(r)
  PROVE  \E next \in Request, ans \in {"none", "ok", "failure"} :
           /\ Becomes(r, next, ans)
           /\ next.pc \in 1..Len(Program[req[r].op])
           /\ \/ /\ req[r].pc # Len(Program[req[r].op]) /\ next.pc = req[r].pc + 1
                 /\ next.at = "step" /\ ans = "none"
              \/ /\ req[r].pc = Len(Program[req[r].op]) /\ next.pc = req[r].pc
                 /\ next.at = "over" /\ ans # "none"
<1>1. /\ req[r] \in Request /\ Len(Program[req[r].op]) \in 1..5
      /\ req[r].pc \in 1..Len(Program[req[r].op]) /\ answer[r] = "none"
      /\ req \in [Req -> Request] /\ answer \in [Req -> {"none", "ok", "failure", "error"}]
  BY StepFacts DEF RelayTypeOK, RequestOK
<1>2. CASE req[r].pc < Len(Program[req[r].op])
  <2> DEFINE next == [req[r] EXCEPT !.pc = @ + 1, !.at = "step"]
  <2>1. req[r].pc + 1 \in 1..5 /\ req[r].pc + 1 \in 1..Len(Program[req[r].op])
    <3> DEFINE pc == req[r].pc
               last == Len(Program[req[r].op])
    <3>1. last \in 1..5 /\ pc \in 1..last /\ pc < last
      BY <1>1, <1>2
    <3> HIDE DEF pc, last
    <3>2. pc + 1 \in 1..5 /\ pc + 1 \in 1..last
      BY <3>1
    <3>3. QED
      BY <3>2 DEF pc, last
  <2>2. /\ next \in Request /\ next.op = req[r].op /\ next.account = req[r].account
        /\ next.key = req[r].key /\ next.nonce = req[r].nonce /\ next.pc = req[r].pc + 1
        /\ next.at = "step"
    BY <1>1, <2>1 DEF Request
  <2>3. req' = [req EXCEPT ![r] = next]
    <3>1. req' = [[req EXCEPT ![r].pc = req[r].pc + 1] EXCEPT ![r].at = "step"]
      BY <1>2 DEF Succeeds
    <3>2. [req EXCEPT ![r].pc = req[r].pc + 1][r] = [req[r] EXCEPT !.pc = req[r].pc + 1]
      BY <1>1
    <3>3. QED
      BY <1>1, <3>1, <3>2
  <2>4. answer' = [answer EXCEPT ![r] = "none"]
    BY <1>1, <1>2 DEF Succeeds
  <2>5. req[r].pc # Len(Program[req[r].op])
    BY <1>1, <1>2
  <2>6. QED
    BY <2>1, <2>2, <2>3, <2>4, <2>5 DEF Becomes
<1>3. CASE ~(req[r].pc < Len(Program[req[r].op]))
  <2>1. req[r].pc = Len(Program[req[r].op])
    BY <1>1, <1>3
  <2>2. PICK how \in {"ok", "failure"} : Ends(r, how)
    BY <1>3 DEF Succeeds
  <2>3. PICK next : Becomes(r, next, how) /\ next.pc = req[r].pc /\ next.at = "over"
    BY <2>2, EndsStep
  <2>4. next \in Request
    BY <2>3 DEF Becomes
  <2>5. QED
    BY <1>1, <2>1, <2>3, <2>4
<1>4. QED
  BY <1>2, <1>3

-------------------------------------------------------------------------------
(***************************************************************************)
(* The steps.                                                              *)
(***************************************************************************)
\* A step that leaves all of the chain but the existence of the account alone
Mild(r) ==
  /\ req[r].op # "none" /\ UNCHANGED <<code, key, nonce, tx, overtaken>>
  /\ exists' \in {exists, exists \union {req[r].account}}

LEMMA MildStep ==
  ASSUME RInv, NEW r \in Req, Mild(r), NEW next, NEW ans \in {"none", "ok", "failure", "error"},
         Becomes(r, next, ans)
  PROVE  /\ RelayTypeOK' /\ KeysHaveCode' /\ ChainGrows
         /\ \A q \in Req \ {r} : Stays(q)
         /\ req'[r] = next /\ answer'[r] = ans
<1>1. RelayTypeOK /\ req[r].account \in Account
  BY StepFacts DEF RInv, Mild
<1>2. req'[r] = next /\ answer'[r] = ans
  BY <1>1 DEF Becomes, RelayTypeOK
<1>3. RelayTypeOK'
  BY <1>1 DEF Becomes, Mild, RelayTypeOK
<1>4. \A q \in Req \ {r} : Stays(q)
  BY <1>1 DEF Becomes, Mild, Stays, RelayTypeOK
<1>5. KeysHaveCode' /\ ChainGrows
  BY DEF Mild, KeysHaveCode, ChainGrows, RInv
<1>6. QED
  BY <1>1, <1>2, <1>3, <1>4, <1>5

LEMMA ErrorStep ==
  ASSUME RInv, NEW r \in Req, Mild(r), Ends(r, "error")
  PROVE  StepOf(r)
<1>1. RelayTypeOK /\ RequestOK(r) /\ req[r].op # "none"
  BY DEF RInv, Mild
<1>2. PICK next : Becomes(r, next, "error") /\ next.pc = req[r].pc /\ next.at = "over"
  BY <1>1, EndsStep
<1>3. /\ RelayTypeOK' /\ KeysHaveCode' /\ ChainGrows
      /\ \A q \in Req \ {r} : Stays(q)
      /\ req'[r] = next /\ answer'[r] = "error"
  BY <1>2, MildStep
<1>4. Step(r)' = Step(r) /\ Signer(r)' = Signer(r)
  BY <1>2, <1>3 DEF Step, Signer, Becomes
<1>5. req[r].op = "deploy_wallet" => Deploys(r)'
  BY <1>1, <1>2, <1>3 DEF RequestOK, Deploys, Becomes, Mild
<1>6. RequestOK(r)'
  BY <1>1, <1>2, <1>3, <1>4, <1>5 DEF RequestOK, Becomes, Mild
<1>7. QED
  BY <1>3, <1>6 DEF StepOf, ToldNew

LEMMA SuccessStep ==
  ASSUME RInv, NEW r \in Req, Mild(r), req[r].at # "over", Succeeds(r),
         req[r].pc # Len(Program[req[r].op]) =>
           /\ tx[r] \notin {"pending", "refused"}
           /\ req[r].op = "deploy_wallet" => req[r].at = "sent" /\ tx[r] = "done",
         req[r].op = "create_root" /\ req[r].pc = 2 =>
           req[r].account \notin exists /\ req[r].account \in exists'
  PROVE  StepOf(r)
<1>1. RelayTypeOK /\ RequestOK(r) /\ req[r].op # "none"
  BY DEF RInv, Mild
<1>2. PICK next \in Request, ans \in {"none", "ok", "failure"} :
        /\ Becomes(r, next, ans)
        /\ next.pc \in 1..Len(Program[req[r].op])
        /\ \/ /\ req[r].pc # Len(Program[req[r].op]) /\ next.pc = req[r].pc + 1
              /\ next.at = "step" /\ ans = "none"
           \/ /\ req[r].pc = Len(Program[req[r].op]) /\ next.pc = req[r].pc
              /\ next.at = "over" /\ ans # "none"
  BY <1>1, SucceedsStep
<1>3. /\ RelayTypeOK' /\ KeysHaveCode' /\ ChainGrows
      /\ \A q \in Req \ {r} : Stays(q)
      /\ req'[r] = next /\ answer'[r] = ans
  BY <1>2, MildStep
<1>4. /\ req[r].pc \in Nat /\ Len(Program[req[r].op]) \in 1..5
      /\ req[r].op = "deploy_wallet" => Len(Program[req[r].op]) = 3
      /\ req[r].op = "create_root" => Len(Program[req[r].op]) = 2
  BY <1>1, StepFacts DEF Request
<1>5. CASE req[r].pc = Len(Program[req[r].op])
  <2>1. next.pc = req[r].pc /\ next.at = "over" /\ ans # "none"
    BY <1>2, <1>5
  <2>2. Step(r)' = Step(r) /\ Signer(r)' = Signer(r)
    BY <1>2, <1>3, <2>1 DEF Step, Signer, Becomes
  <2>3. ASSUME req[r].op = "deploy_wallet"
        PROVE  Deploys(r)'
    <3>1. req[r].pc = 3
      BY <1>4, <1>5, <2>3
    <3>2. req[r].account \in code /\ key[req[r].account] = req[r].key
      BY <1>1, <2>3, <3>1 DEF RequestOK, Deploys
    <3>3. QED
      BY <1>2, <1>3, <2>1, <3>1, <3>2 DEF Deploys, Becomes, Mild
  <2>4. RequestOK(r)'
    BY <1>1, <1>2, <1>3, <1>4, <1>5, <2>1, <2>2, <2>3 DEF RequestOK, Becomes, Mild
  <2>5. ToldNew(r)' => req'[r].account \notin exists
    BY <1>2, <1>3, <1>4, <1>5 DEF ToldNew, Becomes
  <2>6. QED
    BY <1>3, <2>4, <2>5 DEF StepOf
<1>6. CASE req[r].pc # Len(Program[req[r].op])
  <2>1. next.pc = req[r].pc + 1 /\ next.at = "step" /\ ans = "none"
    BY <1>2, <1>6
  <2>2. /\ tx[r] \notin {"pending", "refused"}
        /\ req[r].op = "deploy_wallet" => req[r].at = "sent" /\ tx[r] = "done"
    BY <1>6
  <2>3. req[r].op = "deploy_wallet" => Deploys(r)'
    <3>1. CASE req[r].pc = 1
      BY <1>1, <1>2, <1>3, <2>1, <2>2, <3>1 DEF RequestOK, Deploys, Becomes, Mild
    <3>2. CASE req[r].pc = 2
      BY <1>1, <1>2, <1>3, <2>1, <2>2, <3>2 DEF RequestOK, Deploys, Becomes, Mild
    <3>3. req[r].op = "deploy_wallet" => req[r].pc \in {1, 2}
      <4>1. req[r].op = "deploy_wallet" => req[r].pc \in 1..3 /\ req[r].pc # 3
        BY <1>1, <1>4, <1>6 DEF RequestOK
      <4>2. QED
        BY <4>1
    <3>4. QED
      BY <3>1, <3>2, <3>3
  <2>4. RequestOK(r)'
    BY <1>1, <1>2, <1>3, <2>1, <2>2, <2>3 DEF RequestOK, Becomes, Mild
  <2>5. QED
    BY <1>3, <2>1, <2>4 DEF StepOf, ToldNew
<1>7. QED
  BY <1>5, <1>6

LEMMA SubmitStep ==
  ASSUME RInv, NEW r \in Req, NEW op \in Op, NEW a \in Account, NEW k \in Key,
         Submit(r, op, a, k)
  PROVE  StepOf(r)
<1> DEFINE next == [op |-> op, account |-> a, key |-> k, pc |-> 1, at |-> "step", nonce |-> 0]
<1>1. /\ RelayTypeOK /\ tx[r] = "none" /\ answer[r] = "none"
      /\ req' = [req EXCEPT ![r] = next] /\ UNCHANGED <<accounts, tx, answer, overtaken>>
  BY DEF RInv, RequestOK, Submit
<1>2. next \in Request /\ 1 \in 1..Len(Program[op]) /\ op # "none"
  <2>1. Len(Program[op]) \in 1..5
    BY ProperSteps
  <2>2. \A n \in 1..5 : 1 \in 1..n
    OBVIOUS
  <2>3. op # "none"
    BY Endpoints
  <2>4. next \in Request
    BY DEF Request
  <2>5. QED
    BY <2>1, <2>2, <2>3, <2>4
<1>3. RelayTypeOK' /\ req'[r] = next /\ \A q \in Req \ {r} : req'[q] = req[q]
  BY <1>1, <1>2 DEF RelayTypeOK, accounts
<1>4. KeysHaveCode' /\ ChainGrows /\ \A q \in Req \ {r} : Stays(q)
  BY <1>1, <1>3 DEF RInv, KeysHaveCode, ChainGrows, Stays, accounts
<1>5. RequestOK(r)' /\ ~ToldNew(r)'
  BY <1>1, <1>2, <1>3 DEF RequestOK, Deploys, ToldNew
<1>6. QED
  BY <1>3, <1>4, <1>5 DEF StepOf

LEMMA ReadNonceStep ==
  ASSUME RInv, NEW r \in Req, ReadNonce(r)
  PROVE  StepOf(r)
<1>1. /\ RelayTypeOK /\ RequestOK(r) /\ req[r].at = "step" /\ Step(r).do = "send"
      /\ Signer(r) \in exists \union {Own} /\ answer' = answer /\ overtaken' = overtaken \ {r}
      /\ UNCHANGED <<exists, code, key, nonce, tx>>
  BY DEF RInv, ReadNonce, Does, accounts
<1>2. /\ req[r].op # "none" /\ req[r].pc \in 1..Len(Program[req[r].op])
      /\ tx[r] \notin {"pending", "refused"} /\ answer[r] = "none"
  BY <1>1 DEF RequestOK
<1>3. /\ req[r] \in Request /\ nonce[Signer(r)] \in Nat
      /\ NextNonce(r) \in Nat /\ NextNonce(r) = nonce[Signer(r)] + 1
  BY <1>1, <1>2, StepFacts DEF RelayTypeOK, NextNonce
<1> DEFINE next == [req[r] EXCEPT !.nonce = NextNonce(r), !.at = "read"]
<1>4. /\ next \in Request /\ next.op = req[r].op /\ next.account = req[r].account
      /\ next.key = req[r].key /\ next.pc = req[r].pc /\ next.at = "read"
      /\ next.nonce = nonce[Signer(r)] + 1
  BY <1>3 DEF Request
<1>5. req' = [req EXCEPT ![r] = next]
  <2>1. req' = [[req EXCEPT ![r].nonce = NextNonce(r)] EXCEPT ![r].at = "read"]
    BY DEF ReadNonce
  <2>2. req \in [Req -> Request]
    BY <1>1 DEF RelayTypeOK
  <2>3. [req EXCEPT ![r].nonce = NextNonce(r)][r] = [req[r] EXCEPT !.nonce = NextNonce(r)]
    BY <2>2
  <2>4. QED
    BY <2>1, <2>2, <2>3
<1>6. RelayTypeOK' /\ req'[r] = next /\ \A q \in Req \ {r} : req'[q] = req[q]
  BY <1>1, <1>4, <1>5 DEF RelayTypeOK
<1>7. KeysHaveCode' /\ ChainGrows /\ \A q \in Req \ {r} : Stays(q)
  BY <1>1, <1>6 DEF RInv, KeysHaveCode, ChainGrows, Stays
<1>8. Step(r)' = Step(r) /\ Signer(r)' = Signer(r)
  BY <1>4, <1>6 DEF Step, Signer
<1>9. nonce[Signer(r)] + 1 > nonce[Signer(r)]
  BY <1>3
<1>10. req[r].op = "deploy_wallet" => Deploys(r)'
  BY <1>1, <1>2, <1>4, <1>6 DEF RequestOK, Deploys
<1>11. RequestOK(r)' /\ ~ToldNew(r)'
  BY <1>1, <1>2, <1>4, <1>6, <1>8, <1>9, <1>10 DEF RequestOK, ToldNew
<1>12. QED
  BY <1>6, <1>7, <1>11 DEF StepOf

LEMMA BroadcastStep ==
  ASSUME RInv, NEW r \in Req, Broadcast(r)
  PROVE  StepOf(r)
<1>1. /\ RelayTypeOK /\ RequestOK(r) /\ req[r].at = "read"
      /\ tx' = [tx EXCEPT ![r] = "pending"] /\ req' = [req EXCEPT ![r].at = "sent"]
      /\ UNCHANGED <<exists, code, key, nonce, answer, overtaken>>
  BY DEF RInv, Broadcast, accounts
<1>2. /\ req[r].op # "none" /\ req[r] \in Request /\ answer[r] = "none"
      /\ req[r].pc \in 1..Len(Program[req[r].op])
  BY <1>1 DEF RequestOK, RelayTypeOK
<1> DEFINE next == [req[r] EXCEPT !.at = "sent"]
<1>3. /\ next \in Request /\ next.op = req[r].op /\ next.account = req[r].account
      /\ next.key = req[r].key /\ next.pc = req[r].pc /\ next.at = "sent"
      /\ next.nonce = req[r].nonce
  BY <1>2 DEF Request
<1>4. /\ RelayTypeOK' /\ req'[r] = next /\ tx'[r] = "pending"
      /\ \A q \in Req \ {r} : req'[q] = req[q] /\ tx'[q] = tx[q]
  BY <1>1, <1>3 DEF RelayTypeOK
<1>5. KeysHaveCode' /\ ChainGrows /\ \A q \in Req \ {r} : Stays(q)
  BY <1>1, <1>4 DEF RInv, KeysHaveCode, ChainGrows, Stays
<1>6. Step(r)' = Step(r) /\ Signer(r)' = Signer(r)
  BY <1>3, <1>4 DEF Step, Signer
<1>7. req[r].op = "deploy_wallet" => Deploys(r)'
  BY <1>1, <1>2, <1>3, <1>4 DEF RequestOK, Deploys
<1>8. RequestOK(r)' /\ ~ToldNew(r)'
  BY <1>1, <1>2, <1>3, <1>4, <1>6, <1>7 DEF RequestOK, ToldNew
<1>9. QED
  BY <1>4, <1>5, <1>8 DEF StepOf

\* What an executed action does
LEMMA Effects ==
  ASSUME RInv, NEW r \in Req, Executed(r)
  PROVE  /\ ChainGrows /\ KeysHaveCode'
         /\ exists' \subseteq Account /\ code' \subseteq exists'
         /\ key' \in [Account -> Key \union {NoKey}]
         /\ Effect(r) /\ Step(r).action = "deploy" => req[r].account \in code'
         /\ Effect(r) /\ Step(r).action = "init" =>
              req[r].account \in code' /\ key'[req[r].account] = req[r].key
<1>1. /\ RelayTypeOK /\ RequestOK(r) /\ KeysHaveCode /\ tx[r] = "pending"
  BY DEF RInv, Executed
<1>2. req[r].op # "none" /\ Step(r).do = "send" /\ Signer(r) \in exists \union {Own}
  BY <1>1 DEF RequestOK
<1>3. /\ req[r].account \in Account /\ req[r].key \in Key
      /\ Step(r).action = "deploy" => Step(r).by = "wallet"
  BY <1>1, <1>2, StepFacts DEF ProperStep, Request
<1>4. Step(r).action = "deploy" => req[r].account \in exists
  BY <1>2, <1>3, RelayAssumption DEF Signer
<1>5. CASE Effect(r)
  BY <1>1, <1>3, <1>4, <1>5, RelayAssumption
     DEF Effect, InitAllowed, ChainGrows, KeysHaveCode, RelayTypeOK
<1>6. CASE EffectFails(r) /\ ~Effect(r)
  BY <1>1, <1>6 DEF EffectFails, ChainGrows, KeysHaveCode, RelayTypeOK
<1>7. QED
  BY <1>5, <1>6 DEF Executed

LEMMA ExecutedStep ==
  ASSUME RInv, NEW r \in Req, Executed(r)
  PROVE  StepOf(r)
<1>1. /\ RelayTypeOK /\ RequestOK(r) /\ tx[r] = "pending" /\ req[r].nonce > nonce[Signer(r)]
      /\ req' = req /\ answer' = answer /\ nonce' = [nonce EXCEPT ![Signer(r)] = req[r].nonce]
      /\ overtaken' = overtaken \union
           {q \in Req \ {r} : /\ req[q].op # "none" /\ Step(q).do = "send"
                              /\ Signer(q) = Signer(r) /\ req[q].nonce <= req[r].nonce}
  BY DEF RInv, Executed
<1>2. \/ Effect(r) /\ tx' = [tx EXCEPT ![r] = "done"]
      \/ tx' = [tx EXCEPT ![r] = "failed"]
  BY DEF Executed
<1>3. /\ req[r].op # "none" /\ req[r] \in Request /\ req[r].at \notin {"step", "read"}
      /\ req[r].pc \in 1..Len(Program[req[r].op]) /\ req[r].key # NoKey
      /\ Signer(r) \in Account \union {Own} /\ Step(r).do = "send"
      /\ Signer(r) \in exists \union {Own}
  BY <1>1, StepFacts, RelayAssumption DEF RequestOK, Request
<1>4. /\ ChainGrows /\ KeysHaveCode' /\ exists' \subseteq Account /\ code' \subseteq exists'
      /\ key' \in [Account -> Key \union {NoKey}]
      /\ Effect(r) /\ Step(r).action = "deploy" => req[r].account \in code'
      /\ Effect(r) /\ Step(r).action = "init" =>
           req[r].account \in code' /\ key'[req[r].account] = req[r].key
  BY Effects
<1>5. RelayTypeOK'
  <2>1. req[r].nonce \in Nat
    BY <1>3 DEF Request
  <2>2. nonce' \in [Account \union {Own} -> Nat]
    BY <1>1, <1>3, <2>1 DEF RelayTypeOK
  <2>3. tx' \in [Req -> {"none", "pending", "done", "failed", "refused"}]
    BY <1>1, <1>2 DEF RelayTypeOK
  <2>4. QED
    BY <1>1, <1>4, <2>2, <2>3 DEF RelayTypeOK
<1>6. \A q \in Req \ {r} : Stays(q)
  <2> SUFFICES ASSUME NEW q \in Req \ {r}
               PROVE  Stays(q)
    OBVIOUS
  <2>1. /\ req'[q] = req[q] /\ tx'[q] = tx[q] /\ answer'[q] = answer[q]
        /\ q \in overtaken => q \in overtaken'
    BY <1>1, <1>2 DEF RelayTypeOK
  <2>2. CASE Signer(q) # Signer(r)
    <3>1. nonce'[Signer(q)] = nonce[Signer(q)]
      BY <1>1, <2>2 DEF RelayTypeOK
    <3>2. QED
      BY <2>1, <3>1 DEF Stays
  <2>3. CASE Signer(q) = Signer(r)
    <3>1. nonce'[Signer(q)] = req[r].nonce
      BY <1>1, <1>3, <2>3 DEF RelayTypeOK
    <3>2. req[q].nonce \in Nat /\ req[r].nonce \in Nat
      BY <1>1 DEF RelayTypeOK, Request
    <3>3. req[q].nonce > req[r].nonce \/ req[q].nonce <= req[r].nonce
      BY <3>2
    <3>4. req[q].op # "none" /\ Step(q).do = "send" =>
            req[q].nonce > nonce'[Signer(q)] \/ q \in overtaken'
      BY <1>1, <2>3, <3>1, <3>3
    <3>5. QED
      BY <2>1, <3>4 DEF Stays
  <2>4. QED
    BY <2>2, <2>3
<1>7. tx'[r] \in {"done", "failed"} /\ (tx'[r] = "done" => Effect(r))
  BY <1>1, <1>2 DEF RelayTypeOK
<1>8. req[r].op = "deploy_wallet" => Deploys(r)'
  <2> SUFFICES ASSUME req[r].op = "deploy_wallet"
               PROVE  Deploys(r)'
    OBVIOUS
  <2>1. /\ req[r].pc = 1 => Step(r).action = "deploy"
        /\ req[r].pc = 2 => Step(r).action = "init"
        /\ req[r].account \in Account
    BY <1>1, <1>3, StepFacts
  <2>2. Deploys(r) /\ req[r].pc \in 1..3
    BY <1>1, <1>3, StepFacts DEF RequestOK
  <2>3. req[r].pc \in 2..3 \/ (req[r].at = "sent" /\ tx'[r] = "done") => req[r].account \in code'
    BY <1>4, <1>7, <2>1, <2>2 DEF Deploys, ChainGrows
  <2>4. req[r].pc = 3 \/ (req[r].pc = 2 /\ tx'[r] = "done") => key'[req[r].account] = req[r].key
    BY <1>3, <1>4, <1>7, <2>1, <2>2 DEF Deploys, ChainGrows
  <2>5. QED
    BY <1>1, <2>2, <2>3, <2>4 DEF Deploys
<1>9. Step(r)' = Step(r) /\ Signer(r)' = Signer(r)
  BY <1>1 DEF Step, Signer
<1>10. RequestOK(r)'
  BY <1>1, <1>3, <1>4, <1>7, <1>8, <1>9 DEF RequestOK, ChainGrows
<1>11. ToldNew(r)' => ToldNew(r) /\ req'[r].account = req[r].account
  BY <1>1 DEF ToldNew
<1>12. QED
  BY <1>4, <1>5, <1>6, <1>10, <1>11 DEF StepOf

LEMMA RefusedStep ==
  ASSUME RInv, NEW r \in Req, Refused(r)
  PROVE  StepOf(r)
<1>1. /\ RelayTypeOK /\ RequestOK(r) /\ tx[r] = "pending" /\ req[r].nonce <= nonce[Signer(r)]
      /\ tx' = [tx EXCEPT ![r] = "refused"]
      /\ UNCHANGED <<exists, code, key, nonce, req, answer, overtaken>>
  BY DEF RInv, Refused, accounts
<1>2. /\ req[r].op # "none" /\ req[r].nonce \in Nat /\ nonce[Signer(r)] \in Nat
  BY <1>1, StepFacts DEF RequestOK, RelayTypeOK, Request
<1>3. r \in overtaken /\ req[r].at \notin {"step", "read"}
  BY <1>1, <1>2 DEF RequestOK
<1>4. RelayTypeOK' /\ tx'[r] = "refused" /\ \A q \in Req \ {r} : tx'[q] = tx[q]
  BY <1>1 DEF RelayTypeOK
<1>5. KeysHaveCode' /\ ChainGrows /\ \A q \in Req \ {r} : Stays(q)
  BY <1>1, <1>4 DEF RInv, KeysHaveCode, ChainGrows, Stays
<1>6. Step(r)' = Step(r) /\ Signer(r)' = Signer(r)
  BY <1>1 DEF Step, Signer
<1>7. req[r].op = "deploy_wallet" => Deploys(r)'
  BY <1>1, <1>2, <1>4 DEF RequestOK, Deploys
<1>8. RequestOK(r)'
  BY <1>1, <1>2, <1>3, <1>4, <1>6, <1>7 DEF RequestOK
<1>9. QED
  BY <1>1, <1>4, <1>5, <1>8 DEF StepOf, ToldNew

LEMMA CallsStep ==
  ASSUME RInv, NEW r \in Req, CheckAbsent(r) \/ CheckFails(r) \/ CallHelper(r) \/ HelperFails(r)
  PROVE  StepOf(r)
<1>1. /\ RelayTypeOK /\ RequestOK(r) /\ req[r].at = "step" /\ Step(r).do \in {"absent", "helper"}
  BY DEF RInv, CheckAbsent, CheckFails, CallHelper, HelperFails, Does
<1>2. Mild(r) /\ tx[r] \notin {"pending", "refused"}
  BY <1>1 DEF Mild, RequestOK, CheckAbsent, CheckFails, CallHelper, HelperFails, accounts
<1>3. /\ req[r].op # "deploy_wallet"
      /\ req[r].op = "create_root" /\ req[r].pc = 2 => Step(r).do = "helper"
  BY <1>1, <1>2, StepFacts DEF Mild
<1>4. CASE Ends(r, "error")
  BY <1>2, <1>4, ErrorStep
<1>5. CASE Succeeds(r) /\ (CheckAbsent(r) \/ CheckFails(r))
  <2>1. Step(r).do = "absent"
    BY <1>5 DEF CheckAbsent, CheckFails, Does
  <2>2. QED
    BY <1>1, <1>2, <1>3, <1>5, <2>1, SuccessStep
<1>6. CASE Succeeds(r) /\ CallHelper(r) /\ req[r].account \notin exists
  <2>1. req[r].account \in exists'
    BY <1>6 DEF CallHelper
  <2>2. QED
    BY <1>1, <1>2, <1>3, <1>6, <2>1, SuccessStep
<1>7. QED
  BY <1>4, <1>5, <1>6 DEF CheckAbsent, CheckFails, CallHelper, HelperFails

LEMMA AnswersStep ==
  ASSUME RInv, NEW r \in Req, ReadFails(r) \/ Result(r) \/ NoResult(r) \/ Dies(r)
  PROVE  StepOf(r)
<1>1. RelayTypeOK /\ RequestOK(r) /\ req[r].at # "over"
  BY DEF RInv, ReadFails, Result, NoResult, Dies, Does
<1>2. Mild(r)
  BY <1>1 DEF Mild, RequestOK, ReadFails, Result, NoResult, Dies, accounts
<1>3. CASE Ends(r, "error")
  BY <1>2, <1>3, ErrorStep
<1>4. CASE ~Ends(r, "error")
  <2>1. Step(r).do = "send" /\ Succeeds(r)
    BY <1>1, <1>2, <1>4 DEF RequestOK, Mild, ReadFails, Result, NoResult, Dies, Does
  <2>2. /\ req[r].op = "create_root" /\ req[r].pc = 2 => Step(r).do = "helper"
        /\ ProperStep(Step(r), req[r].pc = Len(Program[req[r].op]))
        /\ req[r].op = "deploy_wallet" /\ req[r].pc # 3 => Step(r).strict = "status"
        /\ req[r].op = "deploy_wallet" => Len(Program[req[r].op]) = 3
    <3>1. req[r].op = "deploy_wallet" /\ req[r].pc # 3 => req[r].pc < 3
      <4>1. req[r].op # "none" /\ req[r].pc \in 1..Len(Program[req[r].op])
        BY <1>1, <1>2 DEF RequestOK, Mild
      <4>2. req[r].op = "deploy_wallet" => req[r].pc \in 1..3
        BY <1>1, <4>1, StepFacts
      <4>3. QED
        BY <4>2
    <3>2. QED
      BY <1>1, <1>2, <3>1, StepFacts DEF Mild
  <2>3. req[r].pc # Len(Program[req[r].op]) => Step(r).strict # "none"
    BY <2>1, <2>2 DEF ProperStep
  <2>4. ASSUME req[r].pc # Len(Program[req[r].op])
        PROVE  /\ tx[r] \in {"done", "failed"} /\ req[r].at = "sent"
               /\ tx[r] = "done" \/ Step(r).strict # "status"
    <3>1. Step(r).strict # "none"
      BY <2>3, <2>4
    <3>2. ReadFails(r) \/ NoResult(r) => Ends(r, "error")
      BY <3>1 DEF NoResult, ReadFails
    <3>3. QED
      BY <1>4, <3>2 DEF Result, Dies
  <2>5. QED
    BY <1>1, <1>2, <1>4, <2>1, <2>2, <2>4, SuccessStep
<1>5. QED
  BY <1>3, <1>4

LEMMA WorkStep ==
  ASSUME RInv, NEW r \in Req, Works(r) \/ Dies(r) \/ Chain(r)
  PROVE  RInv'
<1>1. StepOf(r)
  BY CallsStep, AnswersStep, ReadNonceStep, BroadcastStep, ExecutedStep, RefusedStep
     DEF Works, Chain
<1>2. QED
  BY <1>1, RelayStep

LEMMA RelayIdle ==
  ASSUME RInv, UNCHANGED relayVars
  PROVE  RInv'
<1>1. UNCHANGED <<exists, code, key, nonce, req, tx, answer, overtaken>>
  BY DEF relayVars, accounts
<1>2. RelayTypeOK' /\ KeysHaveCode' /\ CreatedOnce'
  BY <1>1 DEF RInv, RelayTypeOK, KeysHaveCode, CreatedOnce
<1>3. \A r \in Req : RequestOK(r)'
  BY <1>1 DEF RInv, RequestOK, Deploys, Step, Signer
<1>4. QED
  BY <1>2, <1>3 DEF RInv

LEMMA RelayStarts == RelayInit => RInv
<1> SUFFICES ASSUME RelayInit
             PROVE  RInv
  OBVIOUS
<1>1. Unsent \in [op : {"none"}, account : Account, key : Key, pc : {1}, at : {"over"}, nonce : {0}]
  <2>1. PICK a \in Account, k \in Key : TRUE
    BY RelayAssumption
  <2>2. [op |-> "none", account |-> a, key |-> k, pc |-> 1, at |-> "over", nonce |-> 0]
          \in [op : {"none"}, account : Account, key : Key, pc : {1}, at : {"over"}, nonce : {0}]
    OBVIOUS
  <2>3. QED
    BY <2>2 DEF Unsent
<1>2. Unsent \in Request /\ Unsent.op = "none" /\ Unsent.at = "over"
  BY <1>1 DEF Request
<1>3. RelayTypeOK /\ KeysHaveCode
  BY <1>2 DEF RelayInit, RelayTypeOK, KeysHaveCode
<1>4. \A r \in Req : RequestOK(r)
  BY <1>2 DEF RelayInit, RequestOK
<1>5. CreatedOnce
  BY <1>2 DEF RelayInit, CreatedOnce
<1>6. QED
  BY <1>3, <1>4, <1>5 DEF RInv

-------------------------------------------------------------------------------
(***************************************************************************)
(* The relay, with requests to all of its endpoints.                       *)
(***************************************************************************)
LEMMA RelayInvariant == RelaySpec => []RInv
<1>1. ASSUME RInv, [RelayNext]_relayVars
      PROVE  RInv'
  <2>1. CASE RelayNext
    <3>1. PICK r \in Req :
            \/ \E op \in Op, a \in Account, k \in Key : Submit(r, op, a, k)
            \/ Works(r) \/ Dies(r) \/ Chain(r)
      BY <2>1 DEF RelayNext
    <3>2. QED
      BY <1>1, <3>1, SubmitStep, RelayStep, WorkStep
  <2>2. CASE UNCHANGED relayVars
    BY <1>1, <2>2, RelayIdle
  <2>3. QED
    BY <1>1, <2>1, <2>2
<1>2. QED
  BY <1>1, RelayStarts, PTL DEF RelaySpec

(***************************************************************************)
(* signAndBroadcast: however many requests share an access key, one is     *)
(* refused for its nonce only after another one has overtaken it.          *)
(***************************************************************************)
THEOREM RefusalsWereOvertaken == RelaySpec => []RefusedWasOvertaken
<1>1. RInv => RefusedWasOvertaken
  BY DEF RInv, RequestOK, RefusedWasOvertaken
<1>2. QED
  BY <1>1, RelayInvariant, PTL

(***************************************************************************)
(* /deploy-wallet answers "wallet_ready" only for a contract that has the  *)
(* key of the request, however many others deploy to the account.          *)
(***************************************************************************)
THEOREM ReadyWalletsHaveKey == RelaySpec => []ReadyHasKey
<1>1. RInv => ReadyHasKey
  <2> SUFFICES ASSUME RInv, NEW r \in Req, req[r].op = "deploy_wallet", answer[r] = "ok"
               PROVE  req[r].account \in code /\ key[req[r].account] = req[r].key
    BY DEF ReadyHasKey
  <2>1. Deploys(r) /\ req[r].pc = 3
    BY DEF RInv, RequestOK, Deploys
  <2>2. QED
    BY <2>1 DEF Deploys
<1>2. QED
  BY <1>1, RelayInvariant, PTL

(***************************************************************************)
(* /create-root tells at most one of any number of requests for a name     *)
(* that the account is its own.                                            *)
(***************************************************************************)
THEOREM RootsAreCreatedOnce == RelaySpec => []CreatedOnce
<1>1. RInv => CreatedOnce
  BY DEF RInv
<1>2. QED
  BY <1>1, RelayInvariant, PTL

-------------------------------------------------------------------------------
(***************************************************************************)
(* The relay below the creation of wallets.                                *)
(***************************************************************************)
\* A request stays what was asked for.
Keeps(q) ==
  req[q].op # "none" => /\ req'[q].op = req[q].op /\ req'[q].account = req[q].account
                        /\ req'[q].key = req[q].key

\* what an attempt may rely on, whatever a step does for others
Goes == RInv' /\ ChainGrows /\ \A q \in Req : Keeps(q)

LEMMA IdleGoes ==
  ASSUME RInv, UNCHANGED relayVars
  PROVE  Goes
BY RelayIdle DEF Goes, Keeps, ChainGrows, relayVars, accounts

LEMMA SubmitGoes ==
  ASSUME RInv, NEW r \in Req, NEW op \in Op, NEW a \in Account, NEW k \in Key,
         Submit(r, op, a, k)
  PROVE  /\ Goes
         /\ req'[r].op = op /\ req'[r].account = a /\ req'[r].key = k
<1>1. StepOf(r) /\ RInv'
  BY SubmitStep, RelayStep
<1>2. req[r].op = "none" /\ req \in [Req -> Request]
  BY DEF Submit, RInv, RelayTypeOK
<1>3. \A q \in Req : Keeps(q)
  BY <1>1, <1>2 DEF StepOf, Stays, Keeps
<1>4. QED
  BY <1>1, <1>2, <1>3 DEF Goes, StepOf, Submit

LEMMA WorkGoes ==
  ASSUME RInv, NEW r \in Req, Works(r) \/ Dies(r) \/ Chain(r)
  PROVE  Goes
<1>1. StepOf(r) /\ RInv'
  BY CallsStep, AnswersStep, ReadNonceStep, BroadcastStep, ExecutedStep, RefusedStep, WorkStep
     DEF Works, Chain
<1>2. req \in [Req -> Request]
  BY DEF RInv, RelayTypeOK
<1>3. Keeps(r)
  <2>1. CASE req' = req
    BY <2>1 DEF Keeps
  <2>2. CASE ReadNonce(r)
    BY <1>2, <2>2 DEF ReadNonce, Keeps
  <2>3. CASE Broadcast(r)
    BY <1>2, <2>3 DEF Broadcast, Keeps
  <2>4. ASSUME NEW how, Ends(r, how)
        PROVE  Keeps(r)
    BY <1>2, <2>4 DEF Ends, Keeps
  <2>5. CASE Succeeds(r)
    <3>1. CASE req' = [req EXCEPT ![r].pc = @ + 1, ![r].at = "step"]
      BY <1>2, <3>1 DEF Keeps
    <3>2. QED
      BY <2>4, <2>5, <3>1 DEF Succeeds
  <2>6. QED
    BY <2>1, <2>2, <2>3, <2>4, <2>5 DEF Works, Dies, Chain, CheckAbsent, CheckFails, CallHelper,
       HelperFails, ReadFails, Result, NoResult, Executed, Refused
<1>4. \A q \in Req \ {r} : Keeps(q)
  BY <1>1 DEF StepOf, Stays, Keeps
<1>5. QED
  BY <1>1, <1>3, <1>4 DEF Goes, StepOf

-------------------------------------------------------------------------------
(***************************************************************************)
(* The attempts.                                                           *)
(***************************************************************************)
AttemptOK(f) ==
  LET a == attempt[f].account
      q == req[<<f, "deploy">>]
  IN  /\ attempt[f].stage # "new" => a \in Account
      /\ attempt[f].stage = "deploy" => q.op = "deploy_wallet" /\ q.account = a /\ q.key = f
      /\ attempt[f].stage \in {"verify", "derive"} /\ IsRoot(f) => key[a] = f

CInv == RInv /\ TypeOK /\ SavedRootIsOurs /\ \A f \in Attempt : AttemptOK(f)

LEMMA AttemptStays ==
  ASSUME RInv, Goes, NEW f \in Attempt, AttemptOK(f), attempt'[f] = attempt[f]
  PROVE  AttemptOK(f)'
<1>1. <<f, "deploy">> \in Req /\ f # NoKey
  BY CreationAssumption, RelayAssumption
<1>2. attempt[f].stage = "deploy" =>
        /\ req'[<<f, "deploy">>].op = "deploy_wallet"
        /\ req'[<<f, "deploy">>].account = attempt[f].account
        /\ req'[<<f, "deploy">>].key = f
  BY <1>1 DEF AttemptOK, Goes, Keeps
<1>3. attempt[f].stage \in {"verify", "derive"} /\ IsRoot(f) => key'[attempt[f].account] = f
  BY <1>1, CreationAssumption DEF AttemptOK, Goes, ChainGrows, IsRoot
<1>4. QED
  BY <1>2, <1>3 DEF AttemptOK, IsRoot

LEMMA SavedStays ==
  ASSUME TypeOK, SavedRootIsOurs, Goes, NEW p \in Page, saved'[p] = saved[p],
         saved[p] # Nobody, saved[p].account \in Root
  PROVE  key'[saved[p].account] = saved[p].key
<1>1. /\ saved[p].account \in Account /\ saved[p].key \in Attempt
      /\ key[saved[p].account] = saved[p].key
  BY CreationAssumption DEF TypeOK, SavedRootIsOurs, Saved
<1>2. QED
  BY <1>1, CreationAssumption, RelayAssumption DEF Goes, ChainGrows

\* An attempt takes a step, or none: the others keep what they have.
LEMMA AttemptStep ==
  ASSUME CInv, Goes, TypeOK', saved' = saved, NEW f \in Attempt, AttemptOK(f)',
         \A g \in Attempt \ {f} : attempt'[g] = attempt[g]
  PROVE  CInv'
<1>1. \A g \in Attempt : AttemptOK(g)'
  BY AttemptStays DEF CInv
<1>2. SavedRootIsOurs'
  BY SavedStays DEF CInv, SavedRootIsOurs, Saved
<1>3. QED
  BY <1>1, <1>2 DEF CInv, Goes

Stages == {"new", "passkey", "create", "deploy", "verify", "derive", "over"}

LEMMA MovesStep ==
  ASSUME TypeOK, NEW f \in Attempt, NEW stage \in Stages, Moves(f, stage)
  PROVE  /\ attempt'[f].stage = stage /\ attempt'[f].account = attempt[f].account
         /\ \A g \in Attempt \ {f} : attempt'[g] = attempt[g]
         /\ attempt' \in [Attempt -> [page : Page, account : Account \union {Nobody},
                                      stage : Stages]]
BY DEF TypeOK, Moves, Stages

LEMMA NamingStep ==
  ASSUME CInv, NEW p \in Page, NEW a \in Account, Type(p, a) \/ CheckName(p) \/ NameChecked(p, a)
  PROVE  CInv'
<1>1. UNCHANGED <<screen, saved, attempt, relayVars>>
  BY DEF Type, CheckName, NameChecked
<1>2. Goes
  BY <1>1, IdleGoes DEF CInv
<1>3. TypeOK'
  <2>1. RelayTypeOK'
    BY <1>2 DEF Goes, RInv
  <2>2. /\ name' \in [Page -> Account \union {Nobody}] /\ available' \in [Page -> BOOLEAN]
        /\ asked' \in [Page -> SUBSET Account]
    BY DEF Type, CheckName, NameChecked, CInv, TypeOK
  <2>3. QED
    BY <1>1, <2>1, <2>2 DEF CInv, TypeOK
<1>4. \A g \in Attempt : AttemptOK(g)'
  BY <1>1, <1>2, AttemptStays DEF CInv
<1>5. SavedRootIsOurs'
  BY <1>1, <1>2, SavedStays DEF CInv, SavedRootIsOurs, Saved
<1>6. QED
  BY <1>2, <1>3, <1>4, <1>5 DEF CInv, Goes

LEMMA ClickStep ==
  ASSUME CInv, NEW p \in Page, NEW f \in Attempt, CreateClick(p, f)
  PROVE  CInv'
<1>1. Goes /\ saved' = saved
  BY IdleGoes DEF CInv, CreateClick
<1>2. /\ name[p] \in Account
      /\ attempt' = [attempt EXCEPT ![f] = [page |-> p, account |-> name[p], stage |-> "passkey"]]
  BY DEF CreateClick, CInv, TypeOK
<1>3. RelayTypeOK'
  BY <1>1 DEF Goes, RInv
<1>4. TypeOK'
  BY <1>2, <1>3 DEF CInv, TypeOK, CreateClick
<1>5. attempt'[f].account = name[p] /\ attempt'[f].stage = "passkey"
  BY <1>2 DEF CInv, TypeOK
<1>6. AttemptOK(f)'
  BY <1>2, <1>5 DEF AttemptOK
<1>7. \A g \in Attempt \ {f} : attempt'[g] = attempt[g]
  BY <1>2 DEF CInv, TypeOK
<1>8. QED
  BY <1>1, <1>4, <1>6, <1>7, AttemptStep

\* An attempt that goes from one stage to the next, and leaves page and browser alone
LEMMA StageStep ==
  ASSUME CInv, Goes, NEW f \in Attempt, NEW stage \in Stages \ {"new"}, Moves(f, stage),
         attempt[f].stage # "new",
         screen' = screen \/ screen' = [screen EXCEPT ![attempt[f].page] = "naming"],
         UNCHANGED <<saved, naming>>,
         stage = "deploy" => /\ req'[<<f, "deploy">>].op = "deploy_wallet"
                             /\ req'[<<f, "deploy">>].account = attempt[f].account
                             /\ req'[<<f, "deploy">>].key = f,
         stage \in {"verify", "derive"} /\ IsRoot(f) => key'[attempt[f].account] = f
  PROVE  CInv'
<1>1. /\ attempt'[f].stage = stage /\ attempt'[f].account = attempt[f].account
      /\ \A g \in Attempt \ {f} : attempt'[g] = attempt[g]
      /\ attempt' \in [Attempt -> [page : Page, account : Account \union {Nobody},
                                   stage : Stages]]
  BY MovesStep DEF CInv
<1>2. AttemptOK(f)'
  BY <1>1 DEF CInv, AttemptOK, IsRoot
<1>3. RelayTypeOK'
  BY DEF Goes, RInv
<1>4. TypeOK'
  BY <1>1, <1>3 DEF CInv, TypeOK, Stages, naming
<1>5. QED
  BY <1>1, <1>2, <1>4, AttemptStep

LEMMA AskStep ==
  ASSUME CInv, NEW f \in Attempt, AskCreate(f)
  PROVE  CInv'
<1> DEFINE op == IF IsRoot(f) THEN "create_root" ELSE "create_subaccount"
<1>1. op \in Op /\ attempt[f].account \in Account /\ f \in Key /\ <<f, "create">> \in Req
  BY CreationAssumption, Endpoints DEF CInv, AttemptOK, AskCreate
<1>2. Submit(<<f, "create">>, op, attempt[f].account, f)
  BY DEF AskCreate
<1>3. Goes
  BY <1>1, <1>2, SubmitGoes DEF CInv
<1>4. Moves(f, "create") /\ attempt[f].stage # "new" /\ UNCHANGED <<screen, saved, naming>>
  BY DEF AskCreate
<1>5. QED
  BY <1>3, <1>4, StageStep DEF Stages

LEMMA CreatedStep ==
  ASSUME CInv, NEW f \in Attempt, Created(f)
  PROVE  CInv'
<1>1. attempt[f].stage = "create" /\ UNCHANGED <<screen, saved, naming>>
  BY DEF Created
<1>2. CASE IsRoot(f)
  <2>1. /\ Moves(f, "deploy") /\ Submit(<<f, "deploy">>, "deploy_wallet", attempt[f].account, f)
    BY <1>2 DEF Created
  <2>2. /\ "deploy_wallet" \in Op /\ attempt[f].account \in Account /\ f \in Key
        /\ <<f, "deploy">> \in Req
    BY <1>1, CreationAssumption, Endpoints DEF CInv, AttemptOK
  <2>3. /\ Goes /\ req'[<<f, "deploy">>].op = "deploy_wallet"
        /\ req'[<<f, "deploy">>].account = attempt[f].account /\ req'[<<f, "deploy">>].key = f
    BY <2>1, <2>2, SubmitGoes DEF CInv
  <2>4. QED
    BY <1>1, <2>1, <2>3, StageStep DEF Stages
<1>3. CASE ~IsRoot(f)
  <2>1. Moves(f, "verify") /\ UNCHANGED relayVars
    BY <1>3 DEF Created
  <2>2. Goes
    BY <2>1, IdleGoes DEF CInv
  <2>3. QED
    BY <1>1, <1>3, <2>1, <2>2, StageStep DEF Stages
<1>4. QED
  BY <1>2, <1>3

LEMMA LaterSteps ==
  ASSUME CInv, NEW f \in Attempt, Deployed(f) \/ Verify(f) \/ Throws(f)
  PROVE  CInv'
<1>1. /\ attempt[f].stage # "new" /\ UNCHANGED <<saved, naming, relayVars>>
      /\ UNCHANGED <<exists, code, key, nonce, req, tx, answer, overtaken>>
  BY DEF Deployed, Verify, Throws, relayVars, accounts
<1>2. Goes
  BY <1>1, IdleGoes DEF CInv
<1>3. CASE Deployed(f)
  <2>1. /\ req[<<f, "deploy">>].op = "deploy_wallet" /\ <<f, "deploy">> \in Req
        /\ req[<<f, "deploy">>].account = attempt[f].account /\ req[<<f, "deploy">>].key = f
        /\ answer[<<f, "deploy">>] = "ok"
    BY <1>3, CreationAssumption DEF Deployed, CInv, AttemptOK
  <2>2. Deploys(<<f, "deploy">>)
    BY <2>1 DEF CInv, RInv, RequestOK
  <2>3. key[attempt[f].account] = f
    BY <2>1, <2>2 DEF Deploys
  <2>4. Moves(f, "verify") /\ screen' = screen
    BY <1>3 DEF Deployed
  <2>5. QED
    BY <1>1, <1>2, <2>3, <2>4, StageStep DEF Stages
<1>4. CASE Verify(f)
  <2>1. IsRoot(f) => key[attempt[f].account] = f
    BY <1>4 DEF Verify, CInv, AttemptOK
  <2>2. Moves(f, "derive") /\ screen' = screen
    BY <1>4 DEF Verify
  <2>3. QED
    BY <1>1, <1>2, <2>1, <2>2, StageStep DEF Stages
<1>5. CASE Throws(f)
  <2>1. Moves(f, "over") /\ screen' = [screen EXCEPT ![attempt[f].page] = "naming"]
    BY <1>5 DEF Throws, Fails
  <2>2. QED
    BY <1>1, <1>2, <2>1, StageStep DEF Stages
<1>6. QED
  BY <1>3, <1>4, <1>5

LEMMA SaveStep ==
  ASSUME CInv, NEW f \in Attempt, Save(f)
  PROVE  CInv'
<1> DEFINE p == attempt[f].page
           kept == [account |-> attempt[f].account, key |-> f]
<1>1. /\ attempt[f].stage = "derive" /\ UNCHANGED <<naming, relayVars>>
      /\ UNCHANGED <<exists, code, key, nonce, req, tx, answer, overtaken>>
      /\ saved' = [saved EXCEPT ![p] = kept] /\ screen' = [screen EXCEPT ![p] = "dashboard"]
      /\ Moves(f, "over")
  BY DEF Save, relayVars, accounts
<1>2. Goes
  BY <1>1, IdleGoes DEF CInv
<1>3. /\ attempt'[f].stage = "over" /\ attempt'[f].account = attempt[f].account
      /\ \A g \in Attempt \ {f} : attempt'[g] = attempt[g]
      /\ attempt' \in [Attempt -> [page : Page, account : Account \union {Nobody},
                                   stage : Stages]]
  BY <1>1, MovesStep DEF CInv, Stages
<1>4. /\ p \in Page /\ attempt[f].account \in Account /\ kept \in [account : Account, key : Attempt]
      /\ attempt[f].account \in Root => key[attempt[f].account] = f
  BY <1>1 DEF CInv, TypeOK, AttemptOK, IsRoot
<1>5. RelayTypeOK'
  BY <1>2 DEF Goes, RInv
<1>6. TypeOK'
  BY <1>1, <1>3, <1>4, <1>5 DEF CInv, TypeOK, Stages, naming
<1>7. \A g \in Attempt : AttemptOK(g)'
  <2>1. AttemptOK(f)'
    BY <1>3, <1>4 DEF AttemptOK
  <2>2. QED
    BY <1>2, <1>3, <2>1, AttemptStays DEF CInv
<1>8. SavedRootIsOurs'
  <2> SUFFICES ASSUME NEW q \in Page, saved'[q] # Nobody, saved'[q].account \in Root
               PROVE  key'[saved'[q].account] = saved'[q].key
    BY DEF SavedRootIsOurs, Saved
  <2>1. CASE q = p
    <3>1. saved'[q] = kept /\ key' = key
      BY <1>1, <1>4, <2>1 DEF CInv, TypeOK
    <3>2. QED
      BY <1>4, <3>1
  <2>2. CASE q # p
    <3>1. saved'[q] = saved[q]
      BY <1>1, <2>2 DEF CInv, TypeOK
    <3>2. QED
      BY <1>2, <3>1, SavedStays DEF CInv
  <2>3. QED
    BY <2>1, <2>2
<1>9. QED
  BY <1>2, <1>6, <1>7, <1>8 DEF CInv, Goes

LEMMA ReloadStep ==
  ASSUME CInv, NEW p \in Page, Reload(p)
  PROVE  CInv'
<1>1. Goes /\ saved' = saved
  BY IdleGoes DEF CInv, Reload
<1>2. attempt' = [f \in Attempt |->
        IF attempt[f].stage # "new" /\ attempt[f].page = p
        THEN [attempt[f] EXCEPT !.stage = "over"] ELSE attempt[f]]
  BY DEF Reload
<1>3. attempt' \in [Attempt -> [page : Page, account : Account \union {Nobody}, stage : Stages]]
  BY <1>2 DEF CInv, TypeOK, Stages
<1>4. RelayTypeOK'
  BY <1>1 DEF Goes, RInv
<1>5. TypeOK'
  BY <1>1, <1>3, <1>4 DEF CInv, TypeOK, Stages, Reload
<1>6. ASSUME NEW f \in Attempt
      PROVE  AttemptOK(f)'
  <2>1. CASE attempt'[f] = attempt[f]
    BY <1>1, <2>1, AttemptStays DEF CInv
  <2>2. CASE attempt'[f] # attempt[f]
    <3>1. /\ attempt[f].stage # "new" /\ attempt'[f].stage = "over"
          /\ attempt'[f].account = attempt[f].account
      BY <1>2, <2>2 DEF CInv, TypeOK
    <3>2. QED
      BY <3>1 DEF CInv, AttemptOK
  <2>3. QED
    BY <2>1, <2>2
<1>7. SavedRootIsOurs'
  BY <1>1, SavedStays DEF CInv, SavedRootIsOurs, Saved
<1>8. QED
  BY <1>1, <1>5, <1>6, <1>7 DEF CInv, Goes

\* A step of the relay, or none
LEMMA RelayedStep ==
  ASSUME CInv, Goes, UNCHANGED page
  PROVE  CInv'
<1>1. UNCHANGED <<screen, saved, name, available, asked, attempt>>
  BY DEF page, naming
<1>2. RelayTypeOK'
  BY DEF Goes, RInv
<1>3. TypeOK'
  BY <1>1, <1>2 DEF CInv, TypeOK
<1>4. \A f \in Attempt : AttemptOK(f)'
  BY <1>1, AttemptStays DEF CInv
<1>5. SavedRootIsOurs'
  BY <1>1, SavedStays DEF CInv, SavedRootIsOurs, Saved
<1>6. QED
  BY <1>3, <1>4, <1>5 DEF CInv, Goes

LEMMA CreationStarts == Init => CInv
<1> SUFFICES ASSUME Init
             PROVE  CInv
  OBVIOUS
<1>1. RInv
  BY RelayStarts DEF Init
<1>2. Fresh \in [page : Page, account : Account \union {Nobody}, stage : {"new"}]
  BY CreationAssumption DEF Fresh
<1>3. TypeOK
  BY <1>1, <1>2 DEF RInv, Init, TypeOK
<1>4. \A f \in Attempt : AttemptOK(f)
  BY <1>2 DEF Init, AttemptOK
<1>5. SavedRootIsOurs
  BY DEF Init, SavedRootIsOurs, Saved
<1>6. QED
  BY <1>1, <1>3, <1>4, <1>5 DEF CInv

LEMMA CreationInvariant == Spec => []CInv
<1>1. ASSUME CInv, [Next]_vars
      PROVE  CInv'
  <2>1. ASSUME NEW p \in Page, NEW a \in Account, Type(p, a) \/ NameChecked(p, a)
        PROVE  CInv'
    BY <1>1, <2>1, NamingStep
  <2>2. ASSUME NEW p \in Page, CheckName(p)
        PROVE  CInv'
    <3>1. name[p] \in Account
      BY <1>1, <2>2 DEF CInv, TypeOK, CheckName
    <3>2. QED
      BY <1>1, <2>2, <3>1, NamingStep
  <2>3. ASSUME NEW p \in Page, NEW f \in Attempt, CreateClick(p, f)
        PROVE  CInv'
    BY <1>1, <2>3, ClickStep
  <2>4. ASSUME NEW p \in Page, Reload(p)
        PROVE  CInv'
    BY <1>1, <2>4, ReloadStep
  <2>5. ASSUME NEW f \in Attempt, Continues(f)
        PROVE  CInv'
    BY <1>1, <2>5, AskStep, CreatedStep, LaterSteps, SaveStep DEF Continues
  <2>6. ASSUME NEW r \in Req, Relayed(r)
        PROVE  CInv'
    <3>1. Goes /\ UNCHANGED page
      BY <1>1, <2>6, WorkGoes DEF Relayed, CInv
    <3>2. QED
      BY <1>1, <3>1, RelayedStep
  <2>7. CASE UNCHANGED vars
    <3>1. Goes /\ UNCHANGED page
      BY <1>1, <2>7, IdleGoes DEF vars, CInv
    <3>2. QED
      BY <1>1, <3>1, RelayedStep
  <2>8. QED
    BY <1>1, <2>1, <2>2, <2>3, <2>4, <2>5, <2>6, <2>7 DEF Next
<1>2. QED
  BY <1>1, CreationStarts, PTL DEF Spec

(***************************************************************************)
(* Every variable of the pages, the relay and the chain stays in its type. *)
(***************************************************************************)
THEOREM TypeCorrect == Spec => []TypeOK
<1>1. CInv => TypeOK
  BY DEF CInv
<1>2. QED
  BY <1>1, CreationInvariant, PTL

(***************************************************************************)
(* handleCreateWallet: any number of browsers and attempts, with names     *)
(* that are taken in the meantime and a relay that fails at any call; what *)
(* is saved as a root account has a contract with the page's passkey.      *)
(***************************************************************************)
THEOREM SavedRootsAreOurs == Spec => []SavedRootIsOurs
<1>1. CInv => SavedRootIsOurs
  BY DEF CInv
<1>2. QED
  BY <1>1, CreationInvariant, PTL
===============================================================================
