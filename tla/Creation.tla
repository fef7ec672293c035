-------------------------------- MODULE Creation --------------------------------
(***************************************************************************)
(* The creation of a wallet: the naming screen (screens/NamingScreen.tsx), *)
(* handleCreateWallet (hooks/useWallet.tsx) and the functions of           *)
(* lib/near.ts, on top of the relay.                                       *)
(*                                                                         *)
(* A page is a browser with a user; pages may want the same name.  An      *)
(* attempt is a run of handleCreateWallet.  It makes a passkey of its own, *)
(* so an attempt also names a public key, and it sends at most two         *)
(* requests.                                                               *)
(***************************************************************************)
EXTENDS Relay

CONSTANTS
  Page,      \* the browsers
  Root,      \* the accounts that create-root makes; the factory makes the others
  Attempt,   \* bound: the runs of handleCreateWallet
  Nobody     \* no wallet, no name

ASSUME CreationAssumption ==
  /\ Root \subseteq Account /\ Nobody \notin Account /\ Page # {}
  /\ Attempt \subseteq Key
  /\ Req = Attempt \X {"create", "deploy"}

VARIABLES
  screen,    \* of a page
  saved,     \* localStorage: the account and the passkey of a page
  name,      \* naming screen: the account that the name and the type stand for
  available, \* naming screen: the last answer about a name
  asked,     \* naming screen: the accounts of checks that are on their way
  attempt    \* the attempts

naming == <<name, available, asked>>
page == <<screen, saved, naming, attempt>>
vars == <<page, relayVars>>

Fresh == [page |-> CHOOSE p \in Page : TRUE, account |-> Nobody, stage |-> "new"]

Init ==
  /\ RelayInit
  /\ screen = [p \in Page |-> "naming"]
  /\ saved = [p \in Page |-> Nobody]
  /\ name = [p \in Page |-> Nobody]
  /\ available = [p \in Page |-> FALSE]
  /\ asked = [p \in Page |-> {}]
  /\ attempt = [f \in Attempt |-> Fresh]

-------------------------------------------------------------------------------
(***************************************************************************)
(* The naming screen.                                                      *)
(***************************************************************************)
\* Another name or type: the timer of a check that has not started is cleared.
Type(p, a) ==
  /\ screen[p] = "naming" /\ name[p] # a
  /\ name' = [name EXCEPT ![p] = a]
  /\ UNCHANGED <<screen, saved, available, asked, attempt, relayVars>>

CheckName(p) ==
  /\ screen[p] = "naming" /\ name[p] # Nobody
  /\ asked' = [asked EXCEPT ![p] = @ \union {name[p]}]
  /\ UNCHANGED <<screen, saved, name, available, attempt, relayVars>>

\* What w_public_key can answer: an account without a contract may be an error or, as a result
\* without bytes, an empty string.
ViewAnswers(a) ==
  IF a \in code /\ key[a] # NoKey THEN {key[a]} ELSE {NoKey, "throws"}

\* checkAccountAvailable: any error means that the name is free
NameChecked(p, a) ==
  /\ a \in asked[p]
  /\ asked' = [asked EXCEPT ![p] = @ \ {a}]
  /\ \E free \in BOOLEAN :
       /\ ~free => \E k \in ViewAnswers(a) : k # "throws"
       /\ available' = [available EXCEPT ![p] = free]
  /\ UNCHANGED <<screen, saved, name, attempt, relayVars>>

-------------------------------------------------------------------------------
(***************************************************************************)
(* handleCreateWallet.                                                     *)
(***************************************************************************)
\* the button, which needs canCreate
CreateClick(p, f) ==
  /\ screen[p] = "naming" /\ name[p] # Nobody /\ available[p]
  /\ attempt[f].stage = "new"
  /\ attempt' = [attempt EXCEPT ![f] = [page |-> p, account |-> name[p], stage |-> "passkey"]]
  /\ screen' = [screen EXCEPT ![p] = "creating"]
  /\ name' = [name EXCEPT ![p] = Nobody]
  /\ available' = [available EXCEPT ![p] = FALSE]
  /\ UNCHANGED <<saved, asked, relayVars>>

Moves(f, stage) == attempt' = [attempt EXCEPT ![f].stage = stage]

\* mutant: the screen is left as it is
Fails_NoScreen(f) ==
  /\ Moves(f, "over")
  /\ UNCHANGED screen

\* the catch block
Fails(f) ==
  /\ Moves(f, "over")
  /\ screen' = [screen EXCEPT ![attempt[f].page] = "naming"]

IsRoot(f) == attempt[f].account \in Root

\* createPasskey and getWalletWasmBase64, and the first request
AskCreate(f) ==
  /\ attempt[f].stage = "passkey"
  /\ Moves(f, "create")
  /\ Submit(<<f, "create">>, IF IsRoot(f) THEN "create_root" ELSE "create_subaccount",
            attempt[f].account, f)
  /\ UNCHANGED <<screen, saved, naming>>

\* createRootWallet goes on when the answer has no error; so does createSubaccountWallet,
\* whatever the status of the transaction
Created(f) ==
  /\ attempt[f].stage = "create" /\ answer[<<f, "create">>] \in {"ok", "failure"}
  /\ IF IsRoot(f)
     THEN /\ Moves(f, "deploy")
          /\ Submit(<<f, "deploy">>, "deploy_wallet", attempt[f].account, f)
     ELSE Moves(f, "verify") /\ UNCHANGED relayVars
  /\ UNCHANGED <<screen, saved, naming>>

\* mutant: an error of /deploy-wallet is not looked at
Deployed_AnyAnswer(f) ==
  /\ attempt[f].stage = "deploy" /\ answer[<<f, "deploy">>] \in {"ok", "error"}
  /\ Moves(f, "verify")
  /\ UNCHANGED <<screen, saved, naming, relayVars>>

Deployed(f) ==
  /\ attempt[f].stage = "deploy" /\ answer[<<f, "deploy">>] = "ok"
  /\ Moves(f, "verify")
  /\ UNCHANGED <<screen, saved, naming, relayVars>>

\* nearView: the key that it answers is logged
Verify(f) ==
  /\ attempt[f].stage = "verify"
  /\ \E k \in ViewAnswers(attempt[f].account) : k # "throws"
  /\ Moves(f, "derive")
  /\ UNCHANGED <<screen, saved, naming, relayVars>>

\* mutant: the account is saved without its passkey
Save_NoPasskey(f) ==
  /\ attempt[f].stage = "derive"
  /\ saved' = [saved EXCEPT ![attempt[f].page] = [account |-> attempt[f].account, key |-> NoKey]]
  /\ screen' = [screen EXCEPT ![attempt[f].page] = "dashboard"]
  /\ Moves(f, "over")
  /\ UNCHANGED <<naming, relayVars>>

\* deriveEthAddress, setWallet, saveWalletState, saveCredentialMapping
Save(f) ==
  /\ attempt[f].stage = "derive"
  /\ saved' = [saved EXCEPT ![attempt[f].page] = [account |-> attempt[f].account, key |-> f]]
  /\ screen' = [screen EXCEPT ![attempt[f].page] = "dashboard"]
  /\ Moves(f, "over")
  /\ UNCHANGED <<naming, relayVars>>

\* A dialog that is cancelled, a request that fails, is answered with an error or, for a root
\* account, is aborted after two minutes; a view that fails
Throws(f) ==
  /\ attempt[f].stage \in {"passkey", "create", "deploy", "verify", "derive"}
  /\ Fails(f)
  /\ UNCHANGED <<saved, naming, relayVars>>

Reload(p) ==
  /\ screen' = [screen EXCEPT ![p] = IF saved[p] = Nobody THEN "naming" ELSE "dashboard"]
  /\ name' = [name EXCEPT ![p] = Nobody]
  /\ available' = [available EXCEPT ![p] = FALSE]
  /\ asked' = [asked EXCEPT ![p] = {}]
  /\ attempt' = [f \in Attempt |->
       IF attempt[f].stage # "new" /\ attempt[f].page = p
       THEN [attempt[f] EXCEPT !.stage = "over"] ELSE attempt[f]]
  /\ UNCHANGED <<saved, relayVars>>

Relayed(r) == (Works(r) \/ Dies(r) \/ Chain(r)) /\ UNCHANGED page

Continues(f) ==
  AskCreate(f) \/ Created(f) \/ Deployed(f) \/ Verify(f) \/ Save(f) \/ Throws(f)

Next ==
  \/ \E p \in Page :
       \/ \E a \in Account : Type(p, a) \/ NameChecked(p, a)
       \/ CheckName(p)
       \/ \E f \in Attempt : CreateClick(p, f)
       \/ Reload(p)
  \/ \E f \in Attempt : Continues(f)
  \/ \E r \in Req : Relayed(r)

Spec == Init /\ [][Next]_vars

\* A dialog is closed at last, and every call of the page returns or throws.
FairSpec == Spec /\ \A f \in Attempt : WF_vars(Continues(f))

-------------------------------------------------------------------------------
\* Every variable stays in its type.
TypeOK ==
  /\ RelayTypeOK
  /\ screen \in [Page -> {"naming", "creating", "dashboard"}]
  /\ saved \in [Page -> [account : Account, key : Attempt] \union {Nobody}]
  /\ name \in [Page -> Account \union {Nobody}]
  /\ available \in [Page -> BOOLEAN]
  /\ asked \in [Page -> SUBSET Account]
  /\ attempt \in [Attempt -> [page : Page, account : Account \union {Nobody},
                   stage : {"new", "passkey", "create", "deploy", "verify", "derive", "over"}]]

Saved(A) == \A p \in Page :
  saved[p] # Nobody /\ saved[p].account \in A => key[saved[p].account] = saved[p].key

\* A page keeps a root account as its wallet only when the account's contract has the passkey
\* of that page, whoever else wanted the name and whatever came of earlier attempts.
SavedRootIsOurs == Saved(Root)

\* "Verify deployment" (hooks/useWallet.tsx:258): a page keeps an account of the factory as its
\* wallet only when the contract was deployed with its passkey.
SavedWalletIsOurs == Saved(Account)

\* The screen "Creating your wallet", which has no button, is always left.
CreatingEnds == \A p \in Page : screen[p] = "creating" ~> screen[p] # "creating"
===============================================================================
