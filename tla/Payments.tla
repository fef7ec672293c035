-------------------------------- MODULE Payments --------------------------------
(***************************************************************************)
(* The payments of the web wallet: handleSendEth, handleSendSol,           *)
(* handleSendNear and handleDeriveSol (hooks/useWallet.tsx) with           *)
(* lib/ethereum.ts and lib/solana.ts.                                      *)
(*                                                                         *)
(* A flow is one press of a Send button.  Flows, the derivation of the     *)
(* Solana address and the session and backup operations share one flag,    *)
(* loading, that each sets at its start and clears at its end.             *)
(***************************************************************************)
EXTENDS Integers, FiniteSets

CONSTANTS
  Account,   \* the wallets that this browser logs in to
  Nobody,    \* logged out; no Solana address
  Flow,      \* bound: the presses of a Send button, in their order
  MaxMined   \* bound: the Ethereum transactions of an account

ASSUME PaymentsAssumption == Nobody \notin Account /\ MaxMined \in Nat /\ Flow \subseteq Nat

VARIABLES
  account,   \* wallet
  screen,    \* "connect" and the screens of other parts but "welcome" are left out
  loading,   \* the shared flag
  sol,       \* solAddress, as the account that it is derived from
  deriving,  \* the accounts of derivations that are on their way
  rejecting, \* whether a second Reject of the connect screen is on its way
  flow,      \* the presses
  mined,     \* Ethereum: the transaction count of an account at the latest block
  pool       \* Ethereum: the nonces of transactions that a node has accepted and not mined

page == <<account, screen, loading, sol, deriving, rejecting>>
chain == <<mined, pool>>
vars == <<page, flow, chain>>

NoFlow == [chain |-> "near", account |-> Nobody, from |-> Nobody, nonce |-> 0,
           accepted |-> FALSE, told |-> FALSE, stage |-> "new"]
Over == [NoFlow EXCEPT !.stage = "over"]

Init ==
  /\ account = Nobody /\ screen = "welcome" /\ loading = FALSE
  /\ sol = Nobody /\ deriving = {} /\ rejecting \in BOOLEAN
  /\ flow = [f \in Flow |-> NoFlow]
  /\ mined = [a \in Account |-> 0]
  /\ pool = [a \in Account |-> {}]

-------------------------------------------------------------------------------
(***************************************************************************)
(* The rest of the page.                                                   *)
(***************************************************************************)
Login(a) ==
  /\ screen = "welcome" /\ account = Nobody
  /\ account' = a /\ screen' = "dashboard"
  /\ UNCHANGED <<loading, sol, deriving, rejecting, flow, chain>>

Logout ==
  /\ screen = "dashboard"
  /\ account' = Nobody /\ sol' = Nobody /\ screen' = "welcome"
  /\ UNCHANGED <<loading, deriving, rejecting, flow, chain>>

\* handleDeriveSol, whose buttons wait for loading
Derive ==
  /\ screen = "dashboard" /\ account # Nobody /\ ~loading /\ sol = Nobody
  /\ deriving' = deriving \union {account} /\ loading' = TRUE
  /\ UNCHANGED <<account, screen, sol, rejecting, flow, chain>>

\* Its answer is shown whoever is logged in by now.
Derived(a) ==
  /\ a \in deriving
  /\ deriving' = deriving \ {a} /\ loading' = FALSE
  /\ sol' \in {sol, a}
  /\ UNCHANGED <<account, screen, rejecting, flow, chain>>

\* A session or backup operation, whose buttons have a flag of their own, begins and ends.
\* Which of them run is left out: any number may.
Operate ==
  /\ screen = "dashboard" /\ account # Nobody
  /\ loading' = TRUE
  /\ UNCHANGED <<account, screen, sol, deriving, rejecting, flow, chain>>

Operated ==
  /\ loading /\ loading' = FALSE
  /\ UNCHANGED <<account, screen, sol, deriving, rejecting, flow, chain>>

\* handleReject of the connect screen, pressed twice: the second answer navigates once more.
Rejected ==
  /\ rejecting /\ rejecting' = FALSE
  /\ screen' = "dashboard"
  /\ UNCHANGED <<account, loading, sol, deriving, flow, chain>>

-------------------------------------------------------------------------------
(***************************************************************************)
(* A flow.                                                                 *)
(***************************************************************************)
\* The Send button of a chain.  An Ethereum or Solana payment shows the sending screen.
Press(f, c) ==
  /\ screen = "dashboard" /\ account # Nobody /\ ~loading /\ flow[f].stage = "new"
  /\ \A g \in Flow : g < f => flow[g].stage # "new"
  /\ c = "sol" => sol # Nobody
  /\ flow' = [flow EXCEPT ![f] = [NoFlow EXCEPT !.chain = c, !.account = account,
                                    !.from = IF c = "sol" THEN sol ELSE Nobody,
                                    !.stage = IF c = "near" THEN "sign" ELSE "quote"]]
  /\ loading' = TRUE
  /\ screen' = IF c = "near" THEN screen ELSE "sending"
  /\ UNCHANGED <<account, sol, deriving, rejecting, chain>>

Goes(f, stage) == flow' = [flow EXCEPT ![f].stage = stage]

\* mutant: the count with the transactions of the pool
Quote_Pending(f) ==
  /\ flow[f].stage = "quote"
  /\ LET a == flow[f].account IN
     flow' = [flow EXCEPT ![f].stage = "sign", ![f].nonce = mined[a] + Cardinality(pool[a])]
  /\ UNCHANGED <<page, chain>>

\* getEthNonce with the fees, or the recent blockhash
Quote(f) ==
  /\ flow[f].stage = "quote"
  /\ flow' = [flow EXCEPT ![f].stage = "sign",
                           ![f].nonce = IF flow[f].chain = "eth" THEN mined[flow[f].account] ELSE 0]
  /\ UNCHANGED <<page, chain>>

\* The passkey, or for a NEAR transfer the active session key
Sign(f) == flow[f].stage = "sign" /\ Goes(f, "relay") /\ UNCHANGED <<page, chain>>

\* What a node did with the transaction of a flow, and what the flow tells the user
Answered(f, accepted, told) ==
  flow' = [flow EXCEPT ![f].stage = "end", ![f].accepted = accepted, ![f].told = told]

\* submitViaRelay: an Ethereum or Solana payment needs the MPC signature of the answer; a NEAR
\* transfer needs that its status is not "Failure", so an answer {error} tells that it was sent.
Relay(f) ==
  /\ flow[f].stage = "relay"
  /\ IF flow[f].chain = "near"
     THEN Answered(f, FALSE, TRUE)
     ELSE Goes(f, "broadcast")
  /\ UNCHANGED <<page, chain>>

\* External: what a node accepts.  A transaction may take the place of another one with its
\* nonce.
Accepts(f) ==
  /\ IF flow[f].chain = "eth"
     THEN LET a == flow[f].account IN
          /\ flow[f].nonce >= mined[a]
          /\ pool' = [pool EXCEPT ![a] = @ \union {flow[f].nonce}]
     ELSE flow[f].from = flow[f].account /\ UNCHANGED pool
  /\ UNCHANGED mined

\* mutant: an error of the node is not looked at
Broadcast_Unchecked(f) ==
  /\ flow[f].stage = "broadcast"
  /\ \/ Accepts(f) /\ Answered(f, TRUE, TRUE)
     \/ UNCHANGED chain /\ Answered(f, FALSE, TRUE)
  /\ UNCHANGED page

\* assembleSignedEthTx or assembleSignedSolTx, and the broadcast; the answer may be lost
Broadcast(f) ==
  /\ flow[f].stage = "broadcast"
  /\ Accepts(f)
  /\ Answered(f, TRUE, TRUE) \/ Answered(f, TRUE, FALSE)
  /\ UNCHANGED page

\* mutant: a call that throws is tried again from the start
Throws_Retries(f) ==
  /\ flow[f].stage \in {"quote", "sign", "relay", "broadcast"}
  /\ Goes(f, IF flow[f].chain = "near" THEN "end" ELSE "quote")
  /\ UNCHANGED <<page, chain>>

\* Any call that throws: a dialog that is cancelled, an answer that is an error or is lost, a
\* status "Failure", an answer without a signature, a refused transaction.
Throws(f) ==
  /\ flow[f].stage \in {"quote", "sign", "relay", "broadcast"}
  /\ Goes(f, "end")
  /\ UNCHANGED <<page, chain>>

\* mutant: a flow that ends leaves the screen as it is
End_NoScreen(f) ==
  /\ flow[f].stage = "end" /\ flow' = [flow EXCEPT ![f] = Over]
  /\ loading' = FALSE
  /\ UNCHANGED <<account, screen, sol, deriving, rejecting, chain>>

\* refreshBalance, which never throws, and the finally block
End(f) ==
  /\ flow[f].stage = "end" /\ flow' = [flow EXCEPT ![f] = Over]
  /\ loading' = FALSE
  /\ screen' = IF flow[f].chain = "near" THEN screen ELSE "dashboard"
  /\ UNCHANGED <<account, sol, deriving, rejecting, chain>>

-------------------------------------------------------------------------------
(***************************************************************************)
(* External: Ethereum.  The account may also pay from another browser.     *)
(***************************************************************************)
Mine(a) ==
  /\ mined[a] < MaxMined
  /\ mined' = [mined EXCEPT ![a] = @ + 1]
  /\ pool' = [pool EXCEPT ![a] = @ \ {mined[a]}]
  /\ UNCHANGED <<page, flow>>

Drop(a, n) ==
  /\ n \in pool[a]
  /\ pool' = [pool EXCEPT ![a] = @ \ {n}]
  /\ UNCHANGED <<page, flow, mined>>

Goes_On(f) ==
  Quote(f) \/ Sign(f) \/ Relay(f) \/ Broadcast(f) \/ Throws(f) \/ End(f)

Next ==
  \/ \E a \in Account :
       Login(a) \/ Derived(a) \/ Mine(a) \/ \E n \in pool[a] : Drop(a, n)
  \/ Logout \/ Derive \/ Operate \/ Operated \/ Rejected
  \/ \E f \in Flow : Goes_On(f) \/ \E c \in {"eth", "sol", "near"} : Press(f, c)

Spec == Init /\ [][Next]_vars

\* A dialog is closed at last, and every call returns or throws.
FairSpec == Spec /\ \A f \in Flow : WF_vars(Goes_On(f))

-------------------------------------------------------------------------------
Running(f) == flow[f].stage \notin {"new", "over"}

\* The sending screen, which has no button, is shown only while a payment runs that will leave
\* it, whatever else clears the shared flag or navigates meanwhile.
SendingHasFlow == screen = "sending" => \E f \in Flow : Running(f) /\ flow[f].chain # "near"

\* A payment that a node of Ethereum has accepted is the next one of its account: it never waits
\* for an earlier one that was dropped or that another payment has replaced.
AcceptedIsNext == \A a \in Account : pool[a] \subseteq {mined[a]}

\* The wallet says that an Ethereum or Solana payment was sent only when a node accepted it, and
\* a node of Solana only when it is paid from the account that signs.
ToldIsAccepted == \A f \in Flow : flow[f].told /\ flow[f].chain # "near" =>
  flow[f].accepted /\ (flow[f].chain = "sol" => flow[f].from = flow[f].account)

\* The sending screen is always left.
SendingEnds == screen = "sending" ~> screen # "sending"
===============================================================================
