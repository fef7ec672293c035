----------------------------- MODULE ConnectProofs -----------------------------
(***************************************************************************)
(* What holds between a dApp and the wallet for any number of calls,       *)
(* openings and accounts: every invariant that Connect states.             *)
(*                                                                         *)
(* The invariants are not inductive.  What the dApp is told is posted by   *)
(* a screen that got there over a relay, and the transaction it is told of *)
(* may have been executed by an earlier opening of the same session; the   *)
(* key it signs with was approved in another tab, possibly of a wallet     *)
(* that someone else is logged in to by now.  IInv says what every run of  *)
(* the screen and every call has behind it, at each of its stages.         *)
(***************************************************************************)
EXTENDS Connect, TLAPS

Stage ==
  {"new", "storing", "opening", "waiting", "saving", "clearing", "local", "answer",
   "ok", "failed", "gone"}

Operation == {"none", "signIn", "send", "signMessage", "signOut"}

Kinds == {"account", "accountWithKey", "signed", "outcome"}

Person == Account \union {Out}

At == {"none", "loading", "approve", "asking", "sent", "posting", "done", "error"}

(***************************************************************************)
(* Every variable has its type; a screen that is open belongs to a session *)
(* and to a wallet that is logged in.                                      *)
(***************************************************************************)
TypeOK ==
  /\ key \in Key \union {None}
  /\ accounts \in [account : Person, by : Key \union {None}]
  /\ call \in [Call -> [op : Operation, stage : Stage, key : Key \union {None}, signer : Person]]
  /\ posted \subseteq Call
  /\ response \in [Call -> [kind : Kinds \union {"none", "rejected"}, account : Person]]
  /\ account \in Person
  /\ tab \in [at : At, of : Call \union {None}, answer : Kinds \union {"none", "done", "undone"}]
  /\ link \in Call \union {None} /\ pending \in Call \union {None}
  /\ registered \subseteq Account \X Key /\ approved \subseteq Account \X Key
  /\ executed \in [Call -> Nat] /\ opened \in [Call -> Nat]
  /\ local \subseteq Call /\ vague \subseteq Call /\ replaced \subseteq Key
  /\ tab.at # "none" => tab.of \in Call /\ account # Out

(***************************************************************************)
(* The stage of a call says which of the dApp's functions it belongs to.   *)
(***************************************************************************)
StageFits(f) ==
  /\ call[f].stage = "new" <=> call[f].op = "none"
  /\ call[f].stage \in {"storing", "saving"} => call[f].op = "signIn"
  /\ call[f].stage = "clearing" => call[f].op = "signOut"
  /\ call[f].stage \in {"local", "answer"} \/ f \in local => call[f].op = "send"

StagesFit == \A f \in Call : StageFits(f)

(***************************************************************************)
(* A response of some kind answers session f: the call that has posted it  *)
(* is one that such a response is for, and the outcome of a transaction is *)
(* that of one that was executed, or that nobody knows the status of.      *)
(***************************************************************************)
Answered(f, kind) ==
  /\ kind \in {"account", "accountWithKey"} => call[f].op = "signIn"
  /\ kind = "signed" => call[f].op = "signMessage"
  /\ kind = "outcome" => call[f].op = "send" /\ (executed[f] > 0 \/ f \in vague)

(***************************************************************************)
(* What the run of handleApprove on the screen has behind it: an opening   *)
(* that has executed nothing yet, the user's approval as the account that  *)
(* is still logged in, the execution it has seen, the answer it posts.     *)
(***************************************************************************)
ScreenFits ==
  LET f == tab.of IN
  /\ tab.at \in {"loading", "approve", "asking"} => executed[f] < opened[f]
  /\ tab.at = "asking" => <<account, f>> \in approved
  /\ tab.at = "sent" =>
       /\ call[f].op \in {"signIn", "send"}
       /\ call[f].op = "send" /\ tab.answer = "done" => executed[f] > 0
  /\ tab.at = "posting" => tab.answer \in Kinds /\ Answered(f, tab.answer)

ResponsesFit == \A f \in Call : Answered(f, response[f].kind)

\* The session key of a call was stored, and is still there unless it was replaced.
Stored(k) == key = k \/ k \in replaced

(***************************************************************************)
(* A sign-in that has left storeSessionKeyParent has stored its key.       *)
(***************************************************************************)
KeyStored(f) ==
  call[f].op = "signIn" /\ call[f].stage \in {"opening", "waiting", "saving"} => Stored(f)

KeysStored == \A f \in Call : KeyStored(f)

IInv ==
  /\ TypeOK /\ StagesFit /\ ScreenFits /\ ResponsesFit /\ KeysStored
  /\ registered \subseteq approved /\ OnlyApprovedKeysSign
  /\ OncePerOpening /\ SuccessWasExecuted /\ ConnectedHasKey

-------------------------------------------------------------------------------
(***************************************************************************)
(* The dApp.  Its steps leave alone the screen and everything that the     *)
(* user has approved; a call's function never changes once it has begun.   *)
(***************************************************************************)
DappStep ==
  /\ \A f \in Call : call[f].op # "none" =>
       /\ call'[f].op = call[f].op /\ call'[f].key = call[f].key
       /\ call'[f].signer = call[f].signer
  /\ vague \subseteq vague'
  /\ UNCHANGED <<response, wallet, registered, executed>>

LEMMA DappKeepsScreen ==
  ASSUME IInv, DappStep
  PROVE  /\ ScreenFits' /\ ResponsesFit' /\ OncePerOpening'
         /\ registered' \subseteq approved'
<1> USE DEF IInv, DappStep, wallet
<1>1. tab.at # "none" => tab.of \in Call
  BY DEF TypeOK
<1>2. \A f \in Call : \A kind : Answered(f, kind) => Answered(f, kind)'
  BY DEF Answered
<1>3. ScreenFits'
  BY <1>1, <1>2 DEF ScreenFits
<1>4. ResponsesFit'
  BY <1>2 DEF ResponsesFit
<1>5. QED
  BY <1>3, <1>4 DEF OncePerOpening

LEMMA StartsFacts ==
  ASSUME TypeOK, StagesFit, NEW f \in Call, NEW op \in Operation \ {"none"},
         NEW k \in Key \union {None}, NEW stage \in Stage \ {"new"}, Starts(f, op, k, stage)
  PROVE  /\ call[f].op = "none" /\ f \notin local
         /\ call' \in [Call -> [op : Operation, stage : Stage, key : Key \union {None},
                              signer : Person]]
         /\ call'[f] = [op |-> op, stage |-> stage, key |-> k, signer |-> accounts.account]
         /\ \A g \in Call : g # f => call'[g] = call[g]
BY DEF Starts, TypeOK, StagesFit, StageFits

LEMMA BecomesFacts ==
  ASSUME TypeOK, NEW f \in Call, NEW stage \in Stage, Becomes(f, stage)
  PROVE  /\ call' \in [Call -> [op : Operation, stage : Stage, key : Key \union {None},
                              signer : Person]]
         /\ call'[f] = [call[f] EXCEPT !.stage = stage]
         /\ call'[f].op = call[f].op /\ call'[f].stage = stage
         /\ call'[f].key = call[f].key /\ call'[f].signer = call[f].signer
         /\ \A g \in Call : g # f => call'[g] = call[g]
BY DEF Becomes, TypeOK

LEMMA SetKeyFacts ==
  ASSUME TypeOK, NEW k \in Key \union {None}, SetKey(k)
  PROVE  /\ key' \in Key \union {None} /\ replaced' \subseteq Key
         /\ k # None => Stored(k)'
         /\ \A j \in Key : Stored(j) => Stored(j)'
BY DEF SetKey, TypeOK, Stored, Key, Call, Earlier, None

(***************************************************************************)
(* A step of the dApp that moves call f, or stores another key or another  *)
(* account, keeps the invariant if it keeps what the invariant says of f.  *)
(***************************************************************************)
Approves(f) == f \in local => <<call[f].signer, call[f].key>> \in approved

Succeeded(f) ==
  call[f].op = "send" /\ call[f].stage = "ok" => f \in local \/ executed[f] > 0 \/ f \in vague

LEMMA CallGoes ==
  ASSUME IInv, DappStep, TypeOK', NEW f \in Call,
         \A g \in Call : g # f => call'[g] = call[g] /\ (g \in local' <=> g \in local),
         \A k \in Key : Stored(k) => Stored(k)',
         accounts' = accounts \/ ConnectedHasKey',
         StageFits(f)', KeyStored(f)', Approves(f)', Succeeded(f)'
  PROVE  IInv'
<1> USE DEF IInv
<1>1. StagesFit'
  BY DEF StagesFit, StageFits
<1>2. KeysStored'
  BY DEF KeysStored, KeyStored, Key
<1>3. OnlyApprovedKeysSign'
  BY DEF OnlyApprovedKeysSign, Approves, DappStep, wallet, TypeOK
<1>4. SuccessWasExecuted'
  BY DEF SuccessWasExecuted, Succeeded, DappStep
<1>5. ConnectedHasKey'
  BY DEF ConnectedHasKey, Stored, TypeOK
<1>6. QED
  BY <1>1, <1>2, <1>3, <1>4, <1>5, DappKeepsScreen

(***************************************************************************)
(* The calls begin: generateSessionKey, a transaction or a message with    *)
(* the stored key or through the wallet, and a sign-out.                   *)
(***************************************************************************)
LEMMA BeginIInv ==
  ASSUME IInv, NEW f \in Call,
         SignIn(f) \/ SignOut(f) \/ \E op \in {"send", "signMessage"} : Use(f, op)
  PROVE  IInv'
<1> USE DEF IInv
<1>0. f \in Key \union {None} /\ None \in Key \union {None} /\ key \in Key \union {None}
  BY DEF TypeOK, Key
<1> DEFINE Begins(op, k, stage) ==
      /\ Starts(f, op, k, stage)
      /\ stage = "storing" => op = "signIn"
      /\ stage = "local" => op = "send"
      /\ stage = "clearing" => op = "signOut"
      /\ stage = "opening" => op # "signIn"
      /\ stage = "ok" => op # "send"
      /\ stage \in {"storing", "opening", "local", "ok", "clearing"}
      /\ SetKey(None) \/ UNCHANGED <<key, replaced>>
      /\ UNCHANGED <<accounts, relay, wallet, chain, vague>>
<1>1. \E op \in Operation \ {"none"}, k \in Key \union {None}, stage \in Stage \ {"new"} :
        Begins(op, k, stage)
  <2>1. CASE SignIn(f)
    <3>1. Begins("signIn", f, "storing")
      BY <2>1 DEF SignIn
    <3>2. QED
      BY <1>0, <3>1 DEF Operation, Stage
  <2>2. CASE SignOut(f)
    <3>1. Begins("signOut", None, "clearing")
      BY <2>2 DEF SignOut
    <3>2. QED
      BY <1>0, <3>1 DEF Operation, Stage
  <2>3. ASSUME NEW op \in {"send", "signMessage"}, Use(f, op)
        PROVE  \E stage \in {"opening", "local", "ok"} : Begins(op, key, stage)
    BY <2>3 DEF Use
  <2>4. QED
    BY <1>0, <2>1, <2>2, <2>3 DEF Operation, Stage
<1>2. PICK op \in Operation \ {"none"}, k \in Key \union {None}, stage \in Stage \ {"new"} :
        Begins(op, k, stage)
  BY <1>1
<1>3. /\ call[f].op = "none" /\ f \notin local
      /\ call' \in [Call -> [op : Operation, stage : Stage, key : Key \union {None},
                           signer : Person]]
      /\ call'[f] = [op |-> op, stage |-> stage, key |-> k, signer |-> accounts.account]
      /\ \A g \in Call : g # f => call'[g] = call[g]
  BY <1>2, StartsFacts
<1>4. \A j \in Key : Stored(j) => Stored(j)'
  BY <1>2, SetKeyFacts DEF Stored
<1>5. TypeOK'
  BY <1>2, <1>3, SetKeyFacts DEF TypeOK, relay, wallet, chain
<1>6. DappStep
  BY <1>2, <1>3 DEF DappStep, relay, wallet, chain
<1>7. StageFits(f)' /\ KeyStored(f)' /\ Approves(f)' /\ Succeeded(f)'
  BY <1>2, <1>3 DEF StageFits, KeyStored, Approves, Succeeded, chain
<1>8. QED
  BY <1>2, <1>3, <1>4, <1>5, <1>6, <1>7, CallGoes DEF chain

(***************************************************************************)
(* The calls go on: each call of the dApp's page, and each poll.           *)
(***************************************************************************)
LEMMA ContinueIInv ==
  ASSUME IInv, NEW f \in Call, Continues(f)
  PROVE  IInv'
<1> USE DEF IInv
<1> DEFINE Goes(stage) ==
      /\ Becomes(f, stage)
      /\ posted' \subseteq posted \union {f}
      /\ UNCHANGED <<response, wallet, registered, executed>>
<1>1. f \in Key /\ f # None /\ Earlier \in Key
  BY DEF Key, Call, None
<1>2. ASSUME NEW stage \in Stage \ {"new"}, Goes(stage), call[f].stage # "new",
             vague \subseteq vague', vague' \subseteq vague \union {f},
             local \subseteq local', local' \subseteq local \union {f},
             \/ accounts' = accounts
             \/ accounts' \in [account : Person, by : Key \union {None}] /\ ConnectedHasKey',
             SetKey(f) \/ UNCHANGED <<key, replaced>>,
             StageFits(f)', KeyStored(f)', Approves(f)', Succeeded(f)'
      PROVE  IInv'
  <2>1. /\ call' \in [Call -> [op : Operation, stage : Stage, key : Key \union {None},
                             signer : Person]]
        /\ call'[f].op = call[f].op /\ call'[f].stage = stage
        /\ call'[f].key = call[f].key /\ call'[f].signer = call[f].signer
        /\ \A g \in Call : g # f => call'[g] = call[g]
    BY <1>2, BecomesFacts
  <2>2. \A j \in Key : Stored(j) => Stored(j)'
    BY <1>1, <1>2, SetKeyFacts DEF Stored
  <2>3. TypeOK'
    BY <1>1, <1>2, <2>1, SetKeyFacts DEF TypeOK, relay, wallet
  <2>4. DappStep
    BY <1>2, <2>1 DEF DappStep, relay
  <2>5. QED
    BY <1>2, <2>1, <2>2, <2>3, <2>4, CallGoes
<1>3. ASSUME NEW stage \in Stage \ {"new"}, Becomes(f, stage)
      PROVE  /\ call'[f].op = call[f].op /\ call'[f].stage = stage
             /\ call'[f].key = call[f].key /\ call'[f].signer = call[f].signer
  BY <1>3, BecomesFacts
<1>4. StageFits(f) /\ KeyStored(f) /\ Approves(f) /\ Succeeded(f)
      /\ Answered(f, response[f].kind) /\ response[f].kind \in Kinds \union {"none", "rejected"}
  BY DEF StagesFit, KeysStored, OnlyApprovedKeysSign, Approves, SuccessWasExecuted, Succeeded,
         ResponsesFit, TypeOK
<1> USE DEF StageFits, KeyStored, Approves, Succeeded, Stage, relay, wallet, chain
<1>5. CASE StoreKey(f)
  <2>1. Stored(f)'
    BY <1>1, <1>5, SetKeyFacts DEF StoreKey
  <2>2. QED
    BY <1>2, <1>3, <1>4, <1>5, <2>1 DEF StoreKey
<1>6. CASE ClearAccounts(f)
  <2>1. accounts' \in [account : Person, by : Key \union {None}] /\ ConnectedHasKey'
    BY <1>6 DEF ClearAccounts, ConnectedHasKey, Person
  <2>2. QED
    BY <1>2, <1>3, <1>4, <1>6, <2>1 DEF ClearAccounts, Stored
<1>7. CASE SubmitLocal(f)
  <2>1. registered \subseteq approved
    OBVIOUS
  <2>2. QED
    BY <1>2, <1>3, <1>4, <1>7, <2>1 DEF SubmitLocal, LocalExecuted, Stored
<1>8. ASSUME NEW answer \in Answer, LocalAnswer(f, answer)
      PROVE  IInv'
  <2>1. Good(answer) => f \in local \/ f \in vague'
    BY <1>8 DEF LocalAnswer, Answers, Good, Blurs
  <2>2. QED
    BY <1>2, <1>3, <1>4, <1>8, <2>1 DEF LocalAnswer, Blurs, Stored
<1>9. CASE Post(f)
  BY <1>2, <1>3, <1>4, <1>9 DEF Post, Stored
<1>10. CASE Fails(f) \/ TimesOut(f)
  BY <1>2, <1>3, <1>4, <1>10 DEF Fails, TimesOut, Stored
<1>11. CASE Poll(f)
  BY <1>2, <1>3, <1>4, <1>11 DEF Poll, Stored, Answered, Kinds
<1>12. CASE SaveAccounts(f)
  <2>1. accounts' \in [account : Person, by : Key \union {None}] /\ ConnectedHasKey'
    BY <1>1, <1>3, <1>4, <1>12 DEF SaveAccounts, ConnectedHasKey, Stored, TypeOK
  <2>2. QED
    BY <1>2, <1>3, <1>4, <1>12, <2>1 DEF SaveAccounts, Stored
<1>13. QED
  BY <1>5, <1>6, <1>7, <1>8, <1>9, <1>10, <1>11, <1>12 DEF Continues

(***************************************************************************)
(* The iframe is destroyed: a call that was under way is gone.             *)
(***************************************************************************)
LEMMA DappReloadIInv == IInv /\ DappReload => IInv'
<1> SUFFICES ASSUME IInv, DappReload PROVE IInv'
  OBVIOUS
<1> USE DEF IInv
<1>1. \A f \in Call :
        call'[f] = IF call[f].stage \in {"new", "ok", "failed"} THEN call[f]
                   ELSE [call[f] EXCEPT !.stage = "gone"]
  BY DEF DappReload
<1>2. \A f \in Call :
        /\ call'[f] \in [op : Operation, stage : Stage, key : Key \union {None}, signer : Person]
        /\ call'[f].op = call[f].op /\ call'[f].key = call[f].key
        /\ call'[f].signer = call[f].signer
        /\ \/ call'[f].stage = call[f].stage
           \/ call'[f].stage = "gone" /\ call[f].stage # "new"
  <2> TAKE f \in Call
  <2>1. call[f] \in [op : Operation, stage : Stage, key : Key \union {None}, signer : Person]
    BY DEF TypeOK
  <2>2. "gone" \in Stage
    BY DEF Stage
  <2>3. CASE call[f].stage \in {"new", "ok", "failed"}
    BY <1>1, <2>1, <2>3
  <2>4. CASE call[f].stage \notin {"new", "ok", "failed"}
    BY <1>1, <2>1, <2>2, <2>4
  <2>5. QED
    BY <2>3, <2>4
<1>3. TypeOK'
  BY <1>2 DEF DappReload, TypeOK, relay, wallet, chain
<1>4. DappStep
  BY <1>2 DEF DappStep, DappReload, relay, wallet, chain
<1>5. StagesFit' /\ KeysStored' /\ ConnectedHasKey'
  BY <1>2 DEF StagesFit, StageFits, KeysStored, KeyStored, Stored, ConnectedHasKey, DappReload,
              chain
<1>6. OnlyApprovedKeysSign' /\ SuccessWasExecuted'
  BY <1>2 DEF OnlyApprovedKeysSign, SuccessWasExecuted, DappReload, wallet, chain, TypeOK
<1>7. QED
  BY <1>3, <1>4, <1>5, <1>6, DappKeepsScreen

-------------------------------------------------------------------------------
(***************************************************************************)
(* The wallet.  Its steps leave the dApp's calls and its storage alone, and *)
(* take back nothing that was approved or executed.                        *)
(***************************************************************************)
WalletStep ==
  /\ UNCHANGED <<dapp, local>>
  /\ approved \subseteq approved' /\ vague \subseteq vague'
  /\ \A f \in Call : executed[f] <= executed'[f]

LEMMA WalletKeepsDapp ==
  ASSUME IInv, WalletStep, executed' \in [Call -> Nat]
  PROVE  /\ StagesFit' /\ KeysStored' /\ ConnectedHasKey'
         /\ OnlyApprovedKeysSign' /\ SuccessWasExecuted'
         /\ \A f \in Call : \A kind : Answered(f, kind) => Answered(f, kind)'
<1> USE DEF IInv, WalletStep, dapp
<1>1. StagesFit' /\ KeysStored' /\ ConnectedHasKey'
  BY DEF StagesFit, StageFits, KeysStored, KeyStored, Stored, ConnectedHasKey
<1>2. OnlyApprovedKeysSign'
  BY DEF OnlyApprovedKeysSign
<1>3. \A f \in Call : executed[f] > 0 => executed'[f] > 0
  BY DEF TypeOK
<1>4. SuccessWasExecuted'
  BY <1>3 DEF SuccessWasExecuted
<1>5. \A f \in Call : \A kind : Answered(f, kind) => Answered(f, kind)'
  BY <1>3 DEF Answered
<1>6. QED
  BY <1>1, <1>2, <1>4, <1>5

(***************************************************************************)
(* The screen moves on, or closes: nothing is opened, approved or executed *)
(* by it.  It fits as long as what it has behind it is there already.      *)
(***************************************************************************)
LEMMA ScreenMoves ==
  ASSUME IInv, TypeOK', ScreenFits',
         UNCHANGED <<dapp, account, link, pending, opened, chain>>,
         approved \subseteq approved', vague \subseteq vague',
         \A f \in Call : response'[f] = response[f] \/ Answered(f, response'[f].kind)
  PROVE  IInv'
<1> USE DEF IInv, chain
<1>1. WalletStep
  BY DEF WalletStep, TypeOK
<1>2. executed' \in [Call -> Nat]
  BY DEF TypeOK
<1>3. ResponsesFit'
  BY <1>1, <1>2, WalletKeepsDapp DEF ResponsesFit
<1>4. OncePerOpening' /\ registered' \subseteq approved'
  BY DEF OncePerOpening
<1>5. QED
  BY <1>1, <1>2, <1>3, <1>4, WalletKeepsDapp

(***************************************************************************)
(* A session is opened, or a page without a wallet loads: by handleQrScan, *)
(* by useDeepLinkConnect, or when the user logs in.                        *)
(***************************************************************************)
LEMMA OpensFacts ==
  ASSUME TypeOK, NEW f \in Call, Opens(f)
  PROVE  /\ tab' = [at |-> "loading", of |-> f, answer |-> "none"]
         /\ opened' \in [Call -> Nat] /\ opened'[f] = opened[f] + 1
         /\ \A g \in Call : g # f => opened'[g] = opened[g]
<1>1. /\ tab' = [NoTab EXCEPT !.at = "loading", !.of = f]
      /\ opened' = [opened EXCEPT ![f] = @ + 1] /\ opened \in [Call -> Nat]
  BY DEF Opens, TypeOK
<1>2. tab' = [at |-> "loading", of |-> f, answer |-> "none"]
  BY <1>1 DEF NoTab
<1>3. \A g \in Call : opened'[g] = IF g = f THEN opened[g] + 1 ELSE opened[g]
  BY <1>1
<1>4. opened' \in [Call -> Nat]
  BY <1>1
<1>5. QED
  BY <1>2, <1>3, <1>4

LEMMA PagesIInv ==
  ASSUME IInv, account' \in Person, link' \in Call \union {None}, pending' \in Call \union {None},
         UNCHANGED <<dapp, relay, approved, chain, vague>>,
         \/ \E f \in Call : Opens(f) /\ account' # Out
         \/ tab' \in {tab, NoTab} /\ tab'.at = "none" /\ UNCHANGED opened
  PROVE  IInv'
<1> USE DEF IInv, relay, chain
<1>1. WalletStep
  BY DEF WalletStep, TypeOK
<1>2. executed' \in [Call -> Nat] /\ UNCHANGED executed
  BY DEF TypeOK
<1>3. ResponsesFit' /\ registered' \subseteq approved'
  BY <1>1, <1>2, WalletKeepsDapp DEF ResponsesFit
<1>4. CASE \E f \in Call : Opens(f) /\ account' # Out
  <2>1. PICK f \in Call : Opens(f) /\ account' # Out
    BY <1>4
  <2>2. /\ tab' = [at |-> "loading", of |-> f, answer |-> "none"]
        /\ opened' \in [Call -> Nat] /\ opened'[f] = opened[f] + 1
        /\ \A g \in Call : g # f => opened'[g] = opened[g]
    BY <2>1, OpensFacts
  <2>3. TypeOK'
    BY <1>2, <2>1, <2>2 DEF TypeOK, dapp, At
  <2>4. \A g \in Call : executed[g] \in Nat /\ opened[g] \in Nat /\ executed[g] <= opened[g]
    BY DEF TypeOK, OncePerOpening
  <2>5. executed'[f] < opened'[f]
    BY <1>2, <2>2, <2>4
  <2>6. ScreenFits'
    BY <2>2, <2>5 DEF ScreenFits
  <2>7. OncePerOpening'
    BY <1>2, <2>2, <2>4, <2>5 DEF OncePerOpening
  <2>8. QED
    BY <1>1, <1>2, <1>3, <2>3, <2>6, <2>7, WalletKeepsDapp
<1>5. CASE tab' \in {tab, NoTab} /\ tab'.at = "none" /\ UNCHANGED opened
  <2>1. TypeOK'
    BY <1>2, <1>5 DEF TypeOK, dapp, At, NoTab
  <2>2. ScreenFits' /\ OncePerOpening'
    BY <1>5 DEF ScreenFits, OncePerOpening
  <2>3. QED
    BY <1>1, <1>2, <1>3, <2>1, <2>2, WalletKeepsDapp
<1>6. QED
  BY <1>4, <1>5

LEMMA OpenIInv ==
  ASSUME IInv,
         \/ \E f \in Call : Scan(f) \/ OpenLink(f)
         \/ WalletReload \/ Logout
         \/ \E a \in Account : Login(a)
  PROVE  IInv'
<1> USE DEF IInv
<1>1. /\ account \in Person /\ Out \in Person /\ None \in Call \union {None}
      /\ link \in Call \union {None} /\ pending \in Call \union {None}
      /\ tab.at # "none" => account # Out
      /\ NoTab.at = "none"
  BY DEF TypeOK, Person, NoTab
<1>2. ASSUME NEW f \in Call, Scan(f)
      PROVE  IInv'
  BY <1>1, <1>2, PagesIInv DEF Scan
<1>3. ASSUME NEW f \in Call \union {None}, NEW waiting \in Call \union {None},
             PageLoads(f, waiting)
      PROVE  IInv'
  BY <1>1, <1>3, PagesIInv DEF PageLoads
<1>4. ASSUME NEW a \in Account, Login(a)
      PROVE  IInv'
  <2>1. a \in Person /\ a # Out /\ account' = a /\ link' = None
    BY <1>4, ConnectAssumption DEF Login, Person
  <2>2. QED
    BY <1>1, <1>4, <2>1, PagesIInv DEF Login
<1>5. CASE Logout
  BY <1>1, <1>5, PagesIInv DEF Logout
<1>6. QED
  BY <1>1, <1>2, <1>3, <1>4, <1>5 DEF OpenLink, WalletReload

(***************************************************************************)
(* The buttons of the screen, and what becomes of the run of               *)
(* handleApprove: the passkey, the requests to the relay, the response.    *)
(***************************************************************************)
LEMMA ScreenIInv ==
  ASSUME IInv, Loaded \/ Approve \/ PasskeyFails \/ SignMessage \/ PostFails \/ Close
  PROVE  IInv'
<1> USE DEF IInv
<1>1. tab \in [at : At, of : Call \union {None}, answer : Kinds \union {"none", "done", "undone"}]
      /\ (tab.at # "none" => tab.of \in Call /\ account # Out)
      /\ (tab.at # "none" => account \in Account)
  BY DEF TypeOK, Person
<1>2. CASE Loaded
  <2>1. tab' \in {[tab EXCEPT !.at = "approve"], [tab EXCEPT !.at = "error"]} /\ tab.at = "loading"
    BY <1>2 DEF Loaded, Shows
  <2>2. TypeOK' /\ ScreenFits'
    BY <1>1, <1>2, <2>1 DEF Loaded, TypeOK, ScreenFits, dapp, relay, chain, At
  <2>3. QED
    BY <1>2, <2>2, ScreenMoves DEF Loaded, relay
<1>3. CASE Approve
  <2>1. tab' = [tab EXCEPT !.at = "asking"] /\ tab.at = "approve"
        /\ approved' = approved \union {<<account, tab.of>>}
    BY <1>3 DEF Approve, Shows
  <2>2. TypeOK'
    BY <1>1, <1>3, <2>1 DEF Approve, TypeOK, dapp, relay, chain, At, Key
  <2>3. ScreenFits'
    BY <1>1, <1>3, <2>1 DEF Approve, ScreenFits, chain
  <2>4. QED
    BY <1>3, <2>1, <2>2, <2>3, ScreenMoves DEF Approve, relay
<1>4. CASE PasskeyFails
  <2>1. \/ tab' = [tab EXCEPT !.at = "posting", !.answer = "account"] /\ call[tab.of].op = "signIn"
        \/ tab' = [tab EXCEPT !.at = "error"]
    BY <1>4 DEF PasskeyFails, WithoutKey, Answering, Shows, Op
  <2>2. TypeOK'
    BY <1>1, <1>4, <2>1 DEF PasskeyFails, TypeOK, dapp, relay, chain, At, Kinds
  <2>3. ScreenFits'
    BY <1>1, <1>4, <2>1 DEF PasskeyFails, ScreenFits, Answered, dapp, chain, Kinds
  <2>4. QED
    BY <1>4, <2>2, <2>3, ScreenMoves DEF PasskeyFails, relay
<1>5. CASE SignMessage
  <2>1. /\ tab' = [tab EXCEPT !.at = "posting", !.answer = "signed"] /\ tab.at = "asking"
        /\ call[tab.of].op = "signMessage"
    BY <1>5 DEF SignMessage, Answering, Op
  <2>2. TypeOK'
    BY <1>1, <1>5, <2>1 DEF SignMessage, TypeOK, dapp, relay, chain, At, Kinds
  <2>3. ScreenFits'
    BY <1>1, <1>5, <2>1 DEF SignMessage, ScreenFits, Answered, dapp, chain, Kinds
  <2>4. QED
    BY <1>5, <2>2, <2>3, ScreenMoves DEF SignMessage, relay
<1>6. CASE PostFails \/ Close
  <2>1. tab' = [tab EXCEPT !.at = "error"] \/ tab' = NoTab
    BY <1>6 DEF PostFails, Close, Shows
  <2>2. TypeOK' /\ ScreenFits'
    BY <1>1, <1>6, <2>1
    DEF PostFails, Close, TypeOK, ScreenFits, dapp, relay, chain, At, NoTab
  <2>3. QED
    BY <1>6, <2>2, ScreenMoves DEF PostFails, Close, relay
<1>7. QED
  BY <1>2, <1>3, <1>4, <1>5, <1>6

(***************************************************************************)
(* registerExternalSessionKey or sendNearTransaction: the key that is      *)
(* registered was approved, and this opening had executed nothing yet.     *)
(***************************************************************************)
LEMMA SubmitIInv ==
  ASSUME IInv, NEW did \in BOOLEAN, Submit(did)
  PROVE  IInv'
<1> USE DEF IInv
<1> DEFINE f == tab.of
<1>1. /\ tab.at = "asking" /\ f \in Call /\ call[f].op \in {"signIn", "send"}
      /\ executed[f] < opened[f] /\ <<account, f>> \in approved
      /\ executed \in [Call -> Nat] /\ opened \in [Call -> Nat]
  BY DEF Submit, Op, TypeOK, ScreenFits
<1>2. /\ tab' \in [at : At, of : Call \union {None},
                   answer : Kinds \union {"none", "done", "undone"}]
      /\ tab'.at = "sent" /\ tab'.of = f /\ (tab'.answer = "done" => did)
  BY DEF Submit, TypeOK, At
<1>3. registered' \subseteq registered \union {<<account, f>>}
  BY DEF Submit
<1>4. IF did /\ call[f].op = "send" THEN executed' = [executed EXCEPT ![f] = @ + 1]
      ELSE UNCHANGED executed
  BY DEF Submit, Op
<1>5. UNCHANGED <<dapp, relay, account, link, pending, approved, opened, local, vague>>
  BY DEF Submit
<1> HIDE DEF f
<1>6. /\ executed' \in [Call -> Nat]
      /\ \A g \in Call : executed[g] <= executed'[g] /\ (g # f => executed'[g] = executed[g])
      /\ executed'[f] <= opened[f]
      /\ did /\ call[f].op = "send" => executed'[f] > 0
  BY <1>1, <1>4
<1>7. TypeOK'
  BY <1>1, <1>2, <1>3, <1>5, <1>6 DEF TypeOK, dapp, relay
<1>8. WalletStep
  BY <1>5, <1>6 DEF WalletStep
<1>9. ScreenFits'
  BY <1>1, <1>2, <1>5, <1>6 DEF ScreenFits, dapp
<1>10. ResponsesFit'
  BY <1>5, <1>6, <1>8, WalletKeepsDapp DEF ResponsesFit, relay
<1>11. OncePerOpening' /\ registered' \subseteq approved'
  BY <1>1, <1>3, <1>5, <1>6 DEF OncePerOpening
<1>12. QED
  BY <1>6, <1>7, <1>8, <1>9, <1>10, <1>11, WalletKeepsDapp

(***************************************************************************)
(* The relay's answer: what is not told apart from success was executed,   *)
(* or the call is vague from now on.                                       *)
(***************************************************************************)
LEMMA SubmitAnswerIInv ==
  ASSUME IInv, NEW answer \in Answer, SubmitAnswer(answer)
  PROVE  IInv'
<1> USE DEF IInv
<1> DEFINE f == tab.of
<1>1. /\ tab.at = "sent" /\ f \in Call /\ call[f].op \in {"signIn", "send"}
      /\ (call[f].op = "send" /\ tab.answer = "done" => executed[f] > 0)
      /\ tab \in [at : At, of : Call \union {None},
                  answer : Kinds \union {"none", "done", "undone"}]
  BY DEF SubmitAnswer, TypeOK, ScreenFits
<1>2. vague \subseteq vague' /\ vague' \subseteq vague \union {f}
      /\ (answer = "error" => f \in vague')
  BY DEF SubmitAnswer, Blurs
<1>3. Good(answer) => tab.answer = "done" \/ answer = "error"
  BY DEF SubmitAnswer, Answers, Good
<1>4. \/ /\ tab' = [tab EXCEPT !.at = "posting", !.answer = "account"]
         /\ call[f].op = "signIn"
      \/ tab' = [tab EXCEPT !.at = "error"]
      \/ /\ tab' = [tab EXCEPT !.at = "posting", !.answer = "accountWithKey"]
         /\ call[f].op = "signIn"
      \/ /\ tab' = [tab EXCEPT !.at = "posting", !.answer = "outcome"]
         /\ call[f].op = "send" /\ Good(answer)
  BY <1>1 DEF SubmitAnswer, WithoutKey, Answering, Shows, Op
<1>5. UNCHANGED <<dapp, relay, account, link, pending, approved, opened, chain>>
  BY DEF SubmitAnswer
<1>6. /\ tab' \in [at : At, of : Call \union {None},
                   answer : Kinds \union {"none", "done", "undone"}]
      /\ tab'.at \in {"posting", "error"} /\ tab'.of = f
  BY <1>1, <1>4 DEF At, Kinds
<1>7. TypeOK'
  BY <1>1, <1>2, <1>5, <1>6 DEF TypeOK, dapp, relay, chain
<1>8. ScreenFits'
  <2>1. CASE tab'.at = "error"
    BY <2>1 DEF ScreenFits
  <2>2. CASE tab'.at = "posting" /\ call[f].op = "signIn"
    <3>1. tab'.answer \in {"account", "accountWithKey"}
      BY <1>1, <1>4, <2>2
    <3>2. QED
      BY <1>5, <1>6, <2>2, <3>1 DEF ScreenFits, Answered, Kinds, dapp
  <2>3. CASE tab'.at = "posting" /\ call[f].op = "send"
    <3>1. tab'.answer = "outcome" /\ Good(answer)
      BY <1>1, <1>4, <2>3
    <3>2. executed[f] > 0 \/ f \in vague'
      BY <1>1, <1>2, <1>3, <2>3, <3>1
    <3>3. QED
      BY <1>5, <1>6, <2>3, <3>1, <3>2 DEF ScreenFits, Answered, Kinds, dapp, chain
  <2>4. QED
    BY <1>1, <1>6, <2>1, <2>2, <2>3
<1>9. QED
  BY <1>2, <1>5, <1>7, <1>8, ScreenMoves DEF relay

(***************************************************************************)
(* What is posted is what the run of handleApprove has behind it, or that  *)
(* the user has rejected the request.                                      *)
(***************************************************************************)
LEMMA PostsIInv ==
  ASSUME IInv, PostResponse \/ Reject
  PROVE  IInv'
<1> USE DEF IInv
<1>1. tab \in [at : At, of : Call \union {None}, answer : Kinds \union {"none", "done", "undone"}]
      /\ tab.of \in Call /\ account \in Person /\ Out \in Person
  BY DEF TypeOK, Person, PostResponse, Reject
<1>2. CASE PostResponse
  <2>1. /\ tab.answer \in Kinds /\ Answered(tab.of, tab.answer)
        /\ tab' \in {[tab EXCEPT !.at = "done"], [tab EXCEPT !.at = "error"]}
    BY <1>2 DEF PostResponse, ScreenFits, Shows
  <2>2. /\ response' \in [Call -> [kind : Kinds \union {"none", "rejected"}, account : Person]]
        /\ \A f \in Call : response'[f] = response[f] \/ Answered(f, response'[f].kind)
    BY <1>1, <1>2, <2>1 DEF PostResponse, TypeOK
  <2>3. TypeOK' /\ ScreenFits'
    BY <1>1, <1>2, <2>1, <2>2, ZenonT(40) DEF PostResponse, TypeOK, ScreenFits, dapp, chain, At
  <2>4. QED
    BY <1>2, <2>2, <2>3, ScreenMoves DEF PostResponse
<1>3. CASE Reject
  <2>1. /\ response' \in [Call -> [kind : Kinds \union {"none", "rejected"}, account : Person]]
        /\ \A f \in Call : response'[f] = response[f] \/ Answered(f, response'[f].kind)
    BY <1>1, <1>3 DEF Reject, TypeOK, Answered
  <2>2. TypeOK' /\ ScreenFits'
    BY <1>1, <1>3, <2>1 DEF Reject, TypeOK, ScreenFits, dapp, chain, At, NoTab
  <2>3. QED
    BY <1>3, <2>1, <2>2, ScreenMoves DEF Reject
<1>4. QED
  BY <1>2, <1>3

-------------------------------------------------------------------------------
LEMMA InitIInv == Init => IInv
<1> SUFFICES ASSUME Init PROVE IInv
  OBVIOUS
<1>1. TypeOK
  BY ConnectAssumption DEF Init, TypeOK, Key, Person, Operation, Stage, At, NoTab
<1>2. StagesFit /\ KeysStored /\ ResponsesFit /\ ScreenFits
  BY DEF Init, StagesFit, StageFits, KeysStored, KeyStored, ResponsesFit, Answered, ScreenFits,
         NoTab
<1>3. ConnectedHasKey
  BY DEF Init, ConnectedHasKey, Earlier, None
<1>4. OnlyApprovedKeysSign /\ OncePerOpening /\ SuccessWasExecuted /\ registered \subseteq approved
  BY DEF Init, OnlyApprovedKeysSign, OncePerOpening, SuccessWasExecuted
<1>5. QED
  BY <1>1, <1>2, <1>3, <1>4 DEF IInv

LEMMA StutterIInv == IInv /\ UNCHANGED vars => IInv'
BY DEF IInv, vars, dapp, relay, wallet, chain, TypeOK, StagesFit, StageFits, KeysStored, KeyStored,
       Stored, ResponsesFit, Answered, ScreenFits, ConnectedHasKey, OnlyApprovedKeysSign,
       OncePerOpening, SuccessWasExecuted

LEMMA SpecIInv == Spec => []IInv
<1>1. IInv /\ [Next]_vars => IInv'
  BY BeginIInv, ContinueIInv, DappReloadIInv, OpenIInv, ScreenIInv, SubmitIInv, SubmitAnswerIInv,
     PostsIInv, StutterIInv
  DEF Next
<1>2. QED
  BY <1>1, InitIInv, PTL DEF Spec

(***************************************************************************)
(* Every variable has its type.                                            *)
(***************************************************************************)
THEOREM TypeCorrect == Spec => []TypeOK
<1>1. IInv => TypeOK
  BY DEF IInv
<1>2. QED
  BY <1>1, SpecIInv, PTL

(***************************************************************************)
(* A transaction that was executed with a session key was signed with one  *)
(* that the user has approved for the account of the transaction: the      *)
(* executor reads key and account at one time, the wallet registers the    *)
(* one for the other after an approval, and neither changes in between     *)
(* (public/executor.js, ConnectScreen's handleApprove).                    *)
(***************************************************************************)
THEOREM ApprovedKeysSign == Spec => []OnlyApprovedKeysSign
<1>1. IInv => OnlyApprovedKeysSign
  BY DEF IInv
<1>2. QED
  BY <1>1, SpecIInv, PTL

(***************************************************************************)
(* However often the session of a call is opened, an opening executes its  *)
(* transaction at most once (handleApprove leaves the button behind).      *)
(***************************************************************************)
THEOREM OpeningsExecuteOnce == Spec => []OncePerOpening
<1>1. IInv => OncePerOpening
  BY DEF IInv
<1>2. QED
  BY <1>1, SpecIInv, PTL

(***************************************************************************)
(* A dApp that is told of success is told the truth, by whichever opening  *)
(* of the session - or the relay has answered without a status.            *)
(***************************************************************************)
THEOREM SuccessesWereExecuted == Spec => []SuccessWasExecuted
<1>1. IInv => SuccessWasExecuted
  BY DEF IInv
<1>2. QED
  BY <1>1, SpecIInv, PTL

(***************************************************************************)
(* The key of the sign-in that a dApp is connected by is stored before the *)
(* wallet is asked, and only another sign-in or a sign-out removes it      *)
(* (storeSessionKeyParent, setStoredAccounts).                             *)
(***************************************************************************)
THEOREM ConnectedDappsHaveKey == Spec => []ConnectedHasKey
<1>1. IInv => ConnectedHasKey
  BY DEF IInv
<1>2. QED
  BY <1>1, SpecIInv, PTL
===============================================================================
