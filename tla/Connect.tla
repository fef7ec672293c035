-------------------------------- MODULE Connect --------------------------------
(***************************************************************************)
(* A dApp and the wallet: the executor that runs in the dApp's page        *)
(* (public/executor.js), the connect relay that carries one request and    *)
(* its response, and the connect screen of the wallet                      *)
(* (screens/ConnectScreen.tsx, app/App.tsx).                               *)
(*                                                                         *)
(* A call of the dApp posts a request to a relay session of its own and    *)
(* polls for the response, while the user opens the session in the wallet: *)
(* by a scan, or by a link that may find the wallet logged out.  The       *)
(* session may be opened again.  Either page may be reloaded at any time;  *)
(* storage, relay and chain go on.  A call to sign in makes a session key, *)
(* so a call also names its key.  The dApp may be connected already, with  *)
(* or without (a sign-out that overlapped the sign-in) a stored key.       *)
(*                                                                         *)
(* The wallet is one page: a link, which opens a new tab in a browser on   *)
(* the same device, is followed in its place, as if the old tab were left. *)
(***************************************************************************)
EXTENDS Integers, Functions

CONSTANTS
  Account,   \* the accounts of the wallet's user
  Out,       \* no account
  MaxCalls,  \* bound: the calls of the dApp
  MaxOpened  \* bound: how often the user opens sessions

ASSUME ConnectAssumption == MaxCalls \in Nat /\ MaxOpened \in Nat /\ Out \notin Account

Call == 1..MaxCalls
Earlier == 0  \* a call from before, by which the dApp may be connected
Key == Call \union {Earlier}
None == -1

VARIABLES
  key,         \* dApp storage: passkey_session_key
  accounts,    \* dApp storage: passkey_accounts, and the call that they come from
  call,        \* the calls of the dApp
  posted,      \* connect relay: the sessions that have a request
  response,    \* connect relay: the response of a session
  account,     \* wallet: who is logged in, on the page and in localStorage
  tab,         \* wallet: the connect screen, and the run of handleApprove
  link,        \* wallet: the session in the page's URL
  pending,     \* wallet: pending_connect in the sessionStorage
  registered,  \* chain: the session keys of an account
  executed,    \* chain: how often the transaction of a call was executed by the wallet
  local,       \* history: the transactions that were executed with a session key
  approved,    \* history: the sessions that the user has approved, as which account
  opened,      \* history: how often a session was opened
  replaced,    \* history: session keys that were overwritten or removed
  vague        \* history: calls that were answered with an error without a status

dapp == <<key, accounts, call, replaced>>
relay == <<posted, response>>
wallet == <<account, tab, link, pending, approved, opened>>
chain == <<registered, executed, local>>
vars == <<dapp, relay, wallet, chain, vague>>

NoTab == [at |-> "none", of |-> None, answer |-> "none"]

Init ==
  /\ \/ /\ key = None /\ replaced = {}
        /\ accounts = [account |-> Out, by |-> None]
        /\ registered = {}
     \/ /\ key \in {Earlier, None} /\ replaced = {Earlier} \ {key}
        /\ \E a \in Account :
             /\ accounts = [account |-> a, by |-> Earlier]
             /\ registered = {<<a, Earlier>>}
  /\ approved = registered
  /\ call = [f \in Call |-> [op |-> "none", stage |-> "new", key |-> None, signer |-> Out]]
  /\ posted = {} /\ response = [f \in Call |-> [kind |-> "none", account |-> Out]]
  /\ account \in Account \union {Out}
  /\ tab = NoTab /\ link = None /\ pending = None
  /\ opened = [f \in Call |-> 0]
  /\ local = {} /\ vague = {}
  /\ executed = [f \in Call |-> 0]

-------------------------------------------------------------------------------
(***************************************************************************)
(* The executor.                                                           *)
(***************************************************************************)
Starts(f, op, k, stage) ==
  /\ call[f].stage = "new" /\ \A g \in 1..(f - 1) : call[g].stage # "new"
  /\ call' = [call EXCEPT ![f] =
       [op |-> op, stage |-> stage, key |-> k, signer |-> accounts.account]]

Becomes(f, stage) == call' = [call EXCEPT ![f].stage = stage]

\* generateSessionKey
SignIn(f) ==
  /\ Starts(f, "signIn", f, "storing")
  /\ UNCHANGED <<key, accounts, replaced, relay, wallet, chain, vague>>

SetKey(k) == key' = k /\ replaced' = replaced \union ({key} \ {None})

\* mutant: the key is kept in memory until the wallet has answered
StoreKey_Later(f) ==
  /\ call[f].stage = "storing"
  /\ Becomes(f, "opening")
  /\ UNCHANGED <<key, accounts, replaced, relay, wallet, chain, vague>>

\* storeSessionKeyParent
StoreKey(f) ==
  /\ call[f].stage = "storing"
  /\ SetKey(f)
  /\ Becomes(f, "opening")
  /\ UNCHANGED <<accounts, relay, wallet, chain, vague>>

\* signAndSendTransaction and signMessage: with the stored key, or through the wallet.  Nothing
\* asks for an account: the signer is whom the dApp takes to be connected, or Out.
Use(f, op) ==
  /\ Starts(f, op, key,
       IF key = None THEN "opening" ELSE IF op = "send" THEN "local" ELSE "ok")
  /\ UNCHANGED <<key, accounts, replaced, relay, wallet, chain, vague>>

SignOut(f) ==
  /\ Starts(f, "signOut", None, "clearing")
  /\ SetKey(None)
  /\ UNCHANGED <<accounts, relay, wallet, chain, vague>>

\* clearStoredAccounts
ClearAccounts(f) ==
  /\ call[f].stage = "clearing"
  /\ accounts' = [account |-> Out, by |-> None]
  /\ Becomes(f, "ok")
  /\ UNCHANGED <<key, replaced, relay, wallet, chain, vague>>

\* mutant: the contract does not look the session key up
LocalExecuted_AnyKey(f) == call[f].signer # Out

\* execute_session of the contract
LocalExecuted(f) == <<call[f].signer, call[f].key>> \in registered

\* signAndSubmitLocal, up to the relay's request
SubmitLocal(f) ==
  /\ call[f].stage = "local"
  /\ \/ /\ LocalExecuted(f)
        /\ local' = local \union {f}
     \/ UNCHANGED local
  /\ Becomes(f, "answer")
  /\ UNCHANGED <<key, accounts, replaced, relay, wallet, registered, executed, vague>>

\* What the wallet's relay can answer: the status of the transaction, an error without a
\* status, or nothing
Answers(did) ==
  {"error", "nothing"} \union IF did THEN {"success"} ELSE {"failure"}

\* mutant: the status of the answer is not looked at
Good_Any(answer) == answer # "nothing"

\* Only the status "Failure" is told apart from success.
Good(answer) == answer \in {"success", "error"}

Blurs(f, answer) == vague' = IF answer = "error" THEN vague \union {f} ELSE vague

LocalAnswer(f, answer) ==
  /\ call[f].stage = "answer"
  /\ answer \in Answers(f \in local)
  /\ Blurs(f, answer)
  /\ Becomes(f, IF Good(answer) THEN "ok" ELSE "failed")
  /\ UNCHANGED <<key, accounts, replaced, relay, wallet, chain>>

\* connectFlow: the session and its request
Post(f) ==
  /\ call[f].stage = "opening"
  /\ posted' = posted \union {f}
  /\ Becomes(f, "waiting")
  /\ UNCHANGED <<key, accounts, replaced, response, wallet, chain, vague>>

Fails(f) ==
  /\ call[f].stage \in {"storing", "opening", "clearing"}
  /\ Becomes(f, "failed")
  /\ UNCHANGED <<key, accounts, replaced, relay, wallet, chain, vague>>

Poll(f) ==
  /\ call[f].stage = "waiting" /\ response[f].kind # "none"
  /\ Becomes(f, CASE response[f].kind = "rejected" -> "failed"
                  [] response[f].kind \in {"account", "accountWithKey"} -> "saving"
                  [] OTHER -> "ok")
  /\ UNCHANGED <<key, accounts, replaced, relay, wallet, chain, vague>>

\* mutant: a call that has a response to wait for has no end of its own
TimesOut_Answered(f) ==
  /\ call[f].stage = "waiting" /\ response[f].kind # "none"
  /\ Becomes(f, "failed")
  /\ UNCHANGED <<key, accounts, replaced, relay, wallet, chain, vague>>

\* five minutes have passed at a poll
TimesOut(f) ==
  /\ call[f].stage = "waiting"
  /\ Becomes(f, "failed")
  /\ UNCHANGED <<key, accounts, replaced, relay, wallet, chain, vague>>

\* setStoredAccounts, which ignores an error
SaveAccounts(f) ==
  /\ call[f].stage = "saving"
  /\ \/ accounts' = [account |-> response[f].account, by |-> f]
     \/ UNCHANGED accounts
  /\ Becomes(f, "ok")
  /\ UNCHANGED <<key, replaced, relay, wallet, chain, vague>>

\* the iframe is destroyed, with the calls in it
DappReload ==
  /\ call' = [f \in Call |->
       IF call[f].stage \in {"new", "ok", "failed"} THEN call[f]
       ELSE [call[f] EXCEPT !.stage = "gone"]]
  /\ UNCHANGED <<key, accounts, replaced, relay, wallet, chain, vague>>

-------------------------------------------------------------------------------
(***************************************************************************)
(* The wallet.  tab.at is the status of the connect screen; while it is    *)
(* "signing", handleApprove is asking for the passkey, has "sent" a        *)
(* request, or is "posting" its response.                                  *)
(***************************************************************************)
Opens(f) ==
  /\ FoldFunction(+, 0, opened) < MaxOpened
  /\ opened' = [opened EXCEPT ![f] = @ + 1]
  /\ tab' = [NoTab EXCEPT !.at = "loading", !.of = f]

\* handleQrScan
Scan(f) ==
  /\ f \in posted /\ account # Out /\ tab.at = "none"
  /\ Opens(f)
  /\ UNCHANGED <<dapp, relay, account, link, pending, approved, chain, vague>>

\* The page loads: by a link, or again.  With a wallet, a pending session comes first.
PageLoads(f, waiting) ==
  /\ IF account = Out
     THEN /\ tab' = NoTab /\ UNCHANGED opened
          /\ link' = f /\ pending' = IF f = None THEN waiting ELSE f
     ELSE /\ IF f # None THEN Opens(f)
             ELSE IF waiting # None THEN Opens(waiting)
             ELSE tab' = NoTab /\ UNCHANGED opened
          /\ link' = None /\ pending' = None
  /\ UNCHANGED <<dapp, relay, account, approved, chain, vague>>

OpenLink(f) == f \in posted /\ PageLoads(f, None)

WalletReload == PageLoads(link, pending)

\* the wallet appears: useDeepLinkConnect runs again, and the pending session stays
Login(a) ==
  /\ account = Out
  /\ account' = a
  /\ IF link = None THEN UNCHANGED <<tab, opened>> ELSE Opens(link)
  /\ link' = None
  /\ UNCHANGED <<dapp, relay, pending, approved, chain, vague>>

Logout ==
  /\ account # Out /\ tab.at = "none"
  /\ account' = Out
  /\ UNCHANGED <<dapp, relay, tab, link, pending, approved, opened, chain, vague>>

Shows(status) == tab' = [tab EXCEPT !.at = status]

Loaded ==
  /\ tab.at = "loading"
  /\ Shows("approve") \/ Shows("error")
  /\ UNCHANGED <<dapp, relay, account, link, pending, approved, opened, chain, vague>>

\* mutant: the screen goes on to show its buttons
Approve_Twice ==
  /\ tab.at \in {"approve", "asking", "sent"}
  /\ approved' = approved \union {<<account, tab.of>>}
  /\ Shows("asking")
  /\ UNCHANGED <<dapp, relay, account, link, pending, opened, chain, vague>>

Approve ==
  /\ tab.at = "approve"
  /\ approved' = approved \union {<<account, tab.of>>}
  /\ Shows("asking")
  /\ UNCHANGED <<dapp, relay, account, link, pending, opened, chain, vague>>

Op == call[tab.of].op

Answering(kind) == tab' = [tab EXCEPT !.at = "posting", !.answer = kind]

\* "Continue without session key"
WithoutKey == IF Op = "signIn" THEN Answering("account") ELSE Shows("error")

PasskeyFails ==
  /\ tab.at = "asking"
  /\ WithoutKey
  /\ UNCHANGED <<dapp, relay, account, link, pending, approved, opened, chain, vague>>

\* the assertion itself is the response
SignMessage ==
  /\ tab.at = "asking" /\ Op = "signMessage"
  /\ Answering("signed")
  /\ UNCHANGED <<dapp, relay, account, link, pending, approved, opened, chain, vague>>

\* registerExternalSessionKey or sendNearTransaction: the relay's request, executed or not
Submit(did) ==
  /\ tab.at = "asking" /\ Op \in {"signIn", "send"}
  /\ tab' = [tab EXCEPT !.at = "sent", !.answer = IF did THEN "done" ELSE "undone"]
  /\ IF did /\ Op = "signIn" THEN registered' = registered \union {<<account, tab.of>>}
     ELSE UNCHANGED registered
  /\ IF did /\ Op = "send" THEN executed' = [executed EXCEPT ![tab.of] = @ + 1]
     ELSE UNCHANGED executed
  /\ UNCHANGED <<dapp, relay, account, link, pending, approved, opened, local, vague>>

SubmitAnswer(answer) ==
  /\ tab.at = "sent"
  /\ answer \in Answers(tab.answer = "done")
  /\ Blurs(tab.of, answer)
  /\ IF ~Good(answer) THEN WithoutKey
     ELSE Answering(IF Op = "signIn" THEN "accountWithKey" ELSE "outcome")
  /\ UNCHANGED <<dapp, relay, account, link, pending, approved, opened, chain>>

PostResponse ==
  /\ tab.at = "posting"
  /\ response' = [response EXCEPT ![tab.of] = [kind |-> tab.answer, account |-> account]]
  /\ Shows("done") \/ Shows("error")
  /\ UNCHANGED <<dapp, posted, account, link, pending, approved, opened, chain, vague>>

PostFails ==
  /\ tab.at = "posting"
  /\ Shows("error")
  /\ UNCHANGED <<dapp, relay, account, link, pending, approved, opened, chain, vague>>

\* handleReject, which ignores an error
Reject ==
  /\ tab.at = "approve"
  /\ \/ response' = [response EXCEPT ![tab.of] = [kind |-> "rejected", account |-> Out]]
     \/ UNCHANGED response
  /\ tab' = NoTab
  /\ UNCHANGED <<dapp, posted, account, link, pending, approved, opened, chain, vague>>

Close ==
  /\ tab.at \in {"done", "error"}
  /\ tab' = NoTab
  /\ UNCHANGED <<dapp, relay, account, link, pending, approved, opened, chain, vague>>

-------------------------------------------------------------------------------
Answer == {"success", "failure", "error", "nothing"}

Continues(f) ==
  \/ StoreKey(f) \/ ClearAccounts(f) \/ SubmitLocal(f) \/ Post(f) \/ Fails(f)
  \/ \E answer \in Answer : LocalAnswer(f, answer)
  \/ Poll(f) \/ TimesOut(f) \/ SaveAccounts(f)

Next ==
  \/ \E f \in Call :
       \/ SignIn(f) \/ SignOut(f)
       \/ \E op \in {"send", "signMessage"} : Use(f, op)
       \/ Continues(f)
       \/ Scan(f) \/ OpenLink(f)
  \/ DappReload \/ WalletReload \/ Logout
  \/ \E a \in Account : Login(a)
  \/ Loaded \/ Approve \/ PasskeyFails \/ SignMessage
  \/ \E did \in BOOLEAN : Submit(did)
  \/ \E answer \in Answer : SubmitAnswer(answer)
  \/ PostResponse \/ PostFails \/ Reject \/ Close

Spec == Init /\ [][Next]_vars

\* The executor's timers fire, and its calls of the dApp's page return or throw.
FairSpec == Spec /\ \A f \in Call : WF_vars(Continues(f))

-------------------------------------------------------------------------------
\* The wallet tab is not needed for a transaction, the user is: what was executed with a
\* session key was signed with one that the user has approved for the transaction's account.
OnlyApprovedKeysSign ==
  \A f \in local : <<call[f].signer, call[f].key>> \in approved

\* However often a session is opened again, by a scan, a link or a pending link that was left
\* behind, an opening executes the transaction at most once (setStatus('signing') in
\* handleApprove), even if the dApp has given up long ago.
OncePerOpening == \A f \in Call : executed[f] <= opened[f]

\* The dApp is told that its transaction succeeded only if it was executed - unless the
\* wallet's relay has answered with an error without a status.
SuccessWasExecuted ==
  \A f \in Call :
    call[f].op = "send" /\ call[f].stage = "ok" => f \in local \/ executed[f] > 0 \/ f \in vague

\* "Save to parent storage IMMEDIATELY - iframe may be destroyed" (public/executor.js:439): the
\* session key of the sign-in that a dApp is connected by is in its storage, unless another
\* sign-in or a sign-out has replaced it since.
ConnectedHasKey ==
  accounts.by # None => key = accounts.by \/ accounts.by \in replaced

\* Every call of the dApp is settled, whether or not a wallet ever opens its session - unless
\* the page is gone.
CallsEnd ==
  \A f \in Call : call[f].stage # "new" ~> call[f].stage \in {"ok", "failed", "gone"}
===============================================================================
