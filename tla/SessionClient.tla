----------------------------- MODULE SessionClient -----------------------------
(***************************************************************************)
(* The session keys of the web wallet: handleLogin, handleCreateSessionKey *)
(* and the two revocations of hooks/useWallet.tsx, the browser's storage   *)
(* (lib/session.ts, lib/storage.ts), the buttons of the dashboard, the     *)
(* relay and the sessions of the contract.                                 *)
(*                                                                         *)
(* Each press of a button starts a flow: an async function that closes     *)
(* over the wallet it was rendered with, asks for the passkey, sends a     *)
(* request to the relay, and at last changes what the page and the browser *)
(* keep.  Flows interleave at their awaits, outlive the screen and the     *)
(* account that started them, and vanish when the page is reloaded; a      *)
(* request that was sent lives on.                                         *)
(*                                                                         *)
(* A flow that creates a session makes a key of its own, so a flow also    *)
(* names its session and its key.                                          *)
(***************************************************************************)
EXTENDS Integers

CONSTANTS
  Account,   \* the accounts that passkeys of this browser belong to
  Out,       \* no wallet: logged out
  MaxFlows,  \* bound: how many flows start
  Short      \* bound: the sessions that may expire

Flow == 1..MaxFlows

NoKey == 0

\* WalletState, of which the account and the active session key matter
WalletState == [account : Account, active : Flow \union {NoKey}]

ASSUME SessionClientAssumption ==
  MaxFlows \in Nat /\ Short \subseteq Flow /\ Out \notin WalletState

VARIABLES
  wallet,    \* React: the wallet state
  listed,    \* React: the session ids last loaded from the chain (none when null)
  screen,    \* React: the screen
  loading,   \* React: the flag that disables the login button
  busy,      \* dashboard: the flow that disables the session buttons, or 0
  saved,     \* localStorage: the wallet state
  idb,       \* IndexedDB: the session keys, by account and id
  flow,      \* the flows
  tx,        \* what became of the request of a flow
  session,   \* contract: the session that a flow creates
  vague,     \* history: the keys of requests that were answered without a status
  removed    \* history: the keys that were removed from IndexedDB

react == <<wallet, listed, screen, loading, busy>>
stored == <<saved, idb, removed>>
chain == <<tx, session>>
vars == <<react, stored, flow, chain, vague>>

\* w: the wallet of the closure; keys: the sessions to revoke
NewFlow(op, w, keys, stage) == [op |-> op, w |-> w, keys |-> keys, stage |-> stage]

Unused == NewFlow("none", Out, {}, "new")

SessionsOf(account) ==
  {k \in Flow : session[k] \in {"live", "expired"} /\ flow[k].w.account = account}

Init ==
  /\ wallet = Out /\ saved = Out
  /\ listed = {} /\ idb = {} /\ removed = {} /\ vague = {}
  /\ screen = "welcome" /\ loading = FALSE /\ busy = 0
  /\ flow = [f \in Flow |-> Unused]
  /\ tx = [f \in Flow |-> "none"]
  /\ session = [f \in Flow |-> "none"]

-------------------------------------------------------------------------------
(***************************************************************************)
(* The buttons.                                                            *)
(***************************************************************************)
IsNext(f) == flow[f].op = "none" /\ \A g \in 1..(f - 1) : flow[g].op # "none"

Starts(f, op, w, keys, stage) ==
  /\ IsNext(f)
  /\ flow' = [flow EXCEPT ![f] = NewFlow(op, w, keys, stage)]

Becomes(f, stage) == flow' = [flow EXCEPT ![f].stage = stage]

\* setWallet and saveWalletState
SetWallet(w) == wallet' = w /\ saved' = w

\* handleCreateWallet and handleCompleteLogin, which make no session key
Enter(account) ==
  /\ screen = "welcome"
  /\ SetWallet([account |-> account, active |-> NoKey])
  /\ screen' = "dashboard"
  /\ loading' = FALSE
  /\ UNCHANGED <<listed, busy, idb, removed, flow, chain, vague>>

\* handleLogin, up to the screen that shows its progress.  A passkey of no known account leaves
\* everything as it is.
LoginStart(f, account) ==
  /\ screen = "welcome" /\ ~loading
  /\ Starts(f, "login", [account |-> account, active |-> NoKey], {}, "lookup")
  /\ screen' = "login"
  /\ loading' = TRUE
  /\ UNCHANGED <<wallet, listed, busy, stored, chain, vague>>

\* the contract is not there, or cannot be reached: the screen stays
LookupFails(f) ==
  /\ flow[f].stage = "lookup"
  /\ Becomes(f, "done")
  /\ loading' = FALSE
  /\ UNCHANGED <<wallet, listed, screen, busy, stored, chain, vague>>

LookupDone(f) ==
  /\ flow[f].stage = "lookup"
  /\ SetWallet(flow[f].w)
  /\ Becomes(f, "asking")
  /\ UNCHANGED <<listed, screen, loading, busy, idb, removed, chain, vague>>

\* a button of the session panel, which stays disabled until its flow is over
PanelClick(f) ==
  /\ screen = "dashboard" /\ wallet # Out /\ busy = 0
  /\ busy' = f
  /\ UNCHANGED <<wallet, listed, screen, stored, chain, vague>>

HasActiveKey == wallet.active # NoKey /\ <<wallet.account, wallet.active>> \in idb

CreateClick(f) ==
  /\ PanelClick(f)
  /\ ~HasActiveKey
  /\ Starts(f, "create", wallet, {}, "asking")
  /\ loading' = TRUE

\* "Active session key already exists - skipping."
CreateSkips(f) ==
  /\ PanelClick(f)
  /\ HasActiveKey
  /\ Starts(f, "create", wallet, {}, "skipped")
  /\ UNCHANGED loading

RevokeClick(f, k) ==
  /\ PanelClick(f)
  /\ k \in listed
  /\ Starts(f, "revoke", wallet, {k}, "asking")
  /\ loading' = TRUE

RevokeAllClick(f) ==
  /\ PanelClick(f)
  /\ listed # {}
  /\ Starts(f, "revokeAll", wallet, listed, "asking")
  /\ loading' = TRUE

LoadClick ==
  /\ screen = "dashboard" /\ wallet # Out /\ busy = 0
  /\ listed' = SessionsOf(wallet.account)
  /\ UNCHANGED <<wallet, screen, loading, busy, stored, flow, chain, vague>>

\* another screen, and back: the dashboard's own state is new
LeaveDashboard ==
  /\ busy # 0
  /\ busy' = 0
  /\ UNCHANGED <<wallet, listed, screen, loading, stored, flow, chain, vague>>

Logout ==
  /\ screen = "dashboard" /\ wallet # Out
  /\ SetWallet(Out)
  /\ listed' = {}
  /\ screen' = "welcome"
  /\ busy' = 0
  /\ UNCHANGED <<loading, idb, removed, flow, chain, vague>>

\* the page is closed or crashes, and is opened again
Reload ==
  /\ wallet' = saved
  /\ listed' = {}
  /\ screen' = IF saved = Out THEN "welcome" ELSE "dashboard"
  /\ loading' = FALSE
  /\ busy' = 0
  /\ flow' = [f \in Flow |->
       IF flow[f].op = "none" THEN flow[f] ELSE [flow[f] EXCEPT !.stage = "done"]]
  /\ UNCHANGED <<stored, chain, vague>>

-------------------------------------------------------------------------------
(***************************************************************************)
(* The request: the passkey's signature, the relay and the contract.       *)
(***************************************************************************)
Sign(f) ==
  /\ flow[f].stage = "asking"
  /\ Becomes(f, "sent")
  /\ tx' = [tx EXCEPT ![f] = "pending"]
  /\ UNCHANGED <<react, stored, session, vague>>

\* mutant: a failed session key ends the login as a failed lookup does
SignFails_Fatal(f) ==
  /\ flow[f].stage = "asking"
  /\ Becomes(f, "done")
  /\ loading' = FALSE
  /\ UNCHANGED <<wallet, listed, screen, busy, stored, chain, vague>>

SignFails(f) ==
  /\ flow[f].stage = "asking"
  /\ Becomes(f, "finish")
  /\ UNCHANGED <<react, stored, chain, vague>>

\* the ops of Wallet: CreateSession, RevokeSession, RevokeAllSessions
Execute(f) ==
  /\ tx[f] = "pending"
  /\ \/ /\ flow[f].op \in {"login", "create"}
        /\ session' = [session EXCEPT ![f] = "live"]
     \/ /\ flow[f].op = "revoke"
        /\ flow[f].keys \subseteq SessionsOf(flow[f].w.account)
        /\ session' = [k \in Flow |-> IF k \in flow[f].keys THEN "revoked" ELSE session[k]]
     \/ /\ flow[f].op = "revokeAll"
        /\ session' = [k \in Flow |->
             IF k \in SessionsOf(flow[f].w.account) THEN "revoked" ELSE session[k]]
  /\ tx' = [tx EXCEPT ![f] = "done"]
  /\ UNCHANGED <<react, stored, flow, vague>>

Expire(k) ==
  /\ k \in Short /\ session[k] = "live"
  /\ session' = [session EXCEPT ![k] = "expired"]
  /\ UNCHANGED <<react, stored, flow, tx, vague>>

\* the active key is cleared when it is among the sessions that the flow has revoked
ClearActive(f) ==
  LET w == flow[f].w IN
    IF w.active # NoKey /\ (flow[f].op = "revokeAll" \/ w.active \in flow[f].keys)
    THEN SetWallet([w EXCEPT !.active = NoKey])
    ELSE UNCHANGED <<wallet, saved>>

\* mutant: an answer that says "Failure" is not looked at
Accepted_Any(answer) == answer \in {"success", "failure", "error"}

\* Only the status "Failure" is told apart from success
Accepted(answer) == answer \in {"success", "error"}

\* What the relay can answer: the status of the transaction, or an error without a status,
\* about a transaction that was refused or about one that it lost sight of.
Answered(f, answer) ==
  \/ answer = "success" /\ tx[f] = "done" /\ UNCHANGED tx
  \/ answer \in {"failure", "error"} /\ tx[f] = "pending" /\ tx' = [tx EXCEPT ![f] = "failed"]
  \/ answer = "error" /\ UNCHANGED tx

Keys(f) == IF flow[f].op \in {"login", "create"} THEN {f} ELSE flow[f].keys

Answer(f, answer) ==
  /\ flow[f].stage = "sent"
  /\ Answered(f, answer)
  /\ vague' = IF answer = "error" THEN vague \union Keys(f) ELSE vague
  /\ \/ /\ ~Accepted(answer)
        /\ Becomes(f, "finish")
        /\ UNCHANGED <<wallet, saved>>
     \/ /\ Accepted(answer) /\ flow[f].op \in {"login", "create"}
        /\ Becomes(f, "store")
        /\ UNCHANGED <<wallet, saved>>
     \/ /\ Accepted(answer) /\ flow[f].op \in {"revoke", "revokeAll"}
        /\ Becomes(f, "remove")
        /\ ClearActive(f)
  /\ UNCHANGED <<listed, screen, loading, busy, idb, removed, session>>

\* mutant: an answer that was lost is no reason to keep the key
NoAnswer_Remove(f) ==
  /\ flow[f].stage = "sent"
  /\ Becomes(f, IF Keys(f) = {f} THEN "finish" ELSE "remove")
  /\ UNCHANGED <<react, stored, chain, vague>>

\* fetch throws: no answer
NoAnswer(f) ==
  /\ flow[f].stage = "sent"
  /\ Becomes(f, "finish")
  /\ UNCHANGED <<react, stored, chain, vague>>

-------------------------------------------------------------------------------
(***************************************************************************)
(* What follows an answer that was accepted.                               *)
(***************************************************************************)
\* mutant: the id comes first
Entry_IdFirst(f) == <<f, flow[f].w.account>>

\* the key under which IndexedDB keeps a session key: the account and the id
Entry(f) == <<flow[f].w.account, f>>

\* mutant: saveSessionKey is not awaited, and its failure goes unnoticed
Store_NotAwaited(f) ==
  /\ flow[f].stage = "store"
  /\ idb' \in {idb, idb \union {Entry(f)}}
  /\ Becomes(f, "activate")
  /\ UNCHANGED <<react, saved, removed, chain, vague>>

\* saveSessionKey
Store(f) ==
  /\ flow[f].stage = "store"
  /\ idb' = idb \union {Entry(f)}
  /\ Becomes(f, "activate")
  /\ UNCHANGED <<react, saved, removed, chain, vague>>

\* mutant: the key becomes the active one of whatever wallet is current
Activate_Current(f) ==
  /\ flow[f].stage = "activate"
  /\ SetWallet(IF wallet = Out THEN Out ELSE [wallet EXCEPT !.active = f])
  /\ Becomes(f, "finish")
  /\ UNCHANGED <<listed, screen, loading, busy, idb, removed, chain, vague>>

Activate(f) ==
  /\ flow[f].stage = "activate"
  /\ SetWallet([flow[f].w EXCEPT !.active = f])
  /\ Becomes(f, "finish")
  /\ UNCHANGED <<listed, screen, loading, busy, idb, removed, chain, vague>>

ToRemove(f) == {e \in idb : e[1] = flow[f].w.account /\ e[2] \in flow[f].keys}

\* removeSessionKey
Remove(f) ==
  /\ flow[f].stage = "remove"
  /\ \E e \in ToRemove(f) :
       /\ idb' = idb \ {e}
       /\ removed' = removed \union {e}
  /\ UNCHANGED <<react, saved, flow, chain, vague>>

\* "revoked!"
Tell(f) ==
  /\ flow[f].stage = "remove"
  /\ ToRemove(f) = {}
  /\ Becomes(f, "finish")
  /\ listed' = IF flow[f].op = "revokeAll" THEN {} ELSE listed
  /\ UNCHANGED <<wallet, screen, loading, busy, stored, chain, vague>>

\* IndexedDB fails: an error like any other
StorageFails(f) ==
  /\ flow[f].stage \in {"store", "remove"}
  /\ Becomes(f, "finish")
  /\ UNCHANGED <<react, stored, chain, vague>>

\* The catch and finally blocks, and the list that the dashboard loads after each flow of its
\* panel, for the account of the closure, if it can
Finish(f) ==
  /\ flow[f].stage \in {"finish", "skipped"}
  /\ Becomes(f, "done")
  /\ loading' = (loading /\ flow[f].stage = "skipped")
  /\ busy' = IF busy = f THEN 0 ELSE busy
  /\ IF flow[f].op = "login"
     THEN screen' = "dashboard" /\ UNCHANGED listed
     ELSE listed' \in {SessionsOf(flow[f].w.account), listed} /\ UNCHANGED screen
  /\ UNCHANGED <<wallet, stored, chain, vague>>

Continues(f) ==
  \/ LookupFails(f) \/ LookupDone(f)
  \/ Sign(f) \/ SignFails(f)
  \/ \E answer \in {"success", "failure", "error"} : Answer(f, answer)
  \/ NoAnswer(f)
  \/ Store(f) \/ Activate(f) \/ Remove(f) \/ Tell(f) \/ StorageFails(f)
  \/ Finish(f)

Next ==
  \/ \E account \in Account : Enter(account)
  \/ \E f \in Flow :
       \/ \E account \in Account : LoginStart(f, account)
       \/ CreateClick(f)
       \/ CreateSkips(f)
       \/ \E k \in listed : RevokeClick(f, k)
       \/ RevokeAllClick(f)
       \/ Continues(f)
       \/ Execute(f)
       \/ Expire(f)
  \/ LoadClick
  \/ LeaveDashboard
  \/ Logout
  \/ Reload

Spec == Init /\ [][Next]_vars

\* Dialogs, requests and IndexedDB come to an end; users do as they like
FairSpec == Spec /\ \A f \in Flow : WF_vars(Continues(f))

-------------------------------------------------------------------------------
\* Every variable stays in its type.
TypeOK ==
  /\ wallet \in WalletState \union {Out}
  /\ saved \in WalletState \union {Out}
  /\ listed \subseteq Flow
  /\ screen \in {"welcome", "login", "dashboard"}
  /\ loading \in BOOLEAN
  /\ busy \in Flow \union {0}
  /\ idb \subseteq Account \X Flow
  /\ removed \subseteq Account \X Flow
  /\ flow \in [Flow -> [op : {"none", "login", "create", "revoke", "revokeAll"},
                        w : WalletState \union {Out}, keys : SUBSET Flow,
                        stage : {"new", "lookup", "asking", "sent", "store", "activate",
                                 "remove", "skipped", "finish", "done"}]]
  /\ tx \in [Flow -> {"none", "pending", "done", "failed"}]
  /\ session \in [Flow -> {"none", "live", "expired", "revoked"}]
  /\ vague \subseteq Flow

\* the wallet states in use: the page's, and the one that a new page will read
InUse == {wallet, saved} \ {Out}

\* The active session key is one that this account has created on chain, however late its
\* flow came back and whoever has logged in since - unless its creation was answered by an
\* error without a status.
ActiveKeyIsOurs ==
  \A w \in InUse :
    w.active # NoKey =>
      /\ flow[w.active].w.account = w.account
      /\ session[w.active] # "none" \/ w.active \in vague

\* The private key of the active session was saved first: no reload finds an active session
\* whose key was lost, but for the ones that a revocation has removed.
ActiveKeyWasSaved ==
  \A w \in InUse : w.active # NoKey => <<w.account, w.active>> \in idb \union removed

\* A private key is thrown away only when its session is revoked, or when the answer to its
\* revocation was an error without a status: lists that are out of date do no harm.
RemovedKeysAreDead ==
  \A e \in removed :
    session[e[2]] = "revoked" \/ e[2] \in vague

\* A login whose session key fails still ends on the dashboard: at the passkey, at the relay
\* or in the browser's storage (the inner try block of handleLogin).
LoginGetsThrough ==
  \A f \in Flow :
    flow[f].op = "login" /\ flow[f].stage = "asking" ~> screen # "login"
===============================================================================
