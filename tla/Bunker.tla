-------------------------------- MODULE Bunker --------------------------------
(***************************************************************************)
(* The NIP-46 bunker of the browser wallet: Nip46Bunker (nostr/bunker.ts), *)
(* the callbacks and handlers that useWallet.tsx gives it, and the buttons *)
(* of the dashboard that call them.                                        *)
(*                                                                         *)
(* Agents send request events through the relays.  Every bunker that       *)
(* listens runs handleEvent once for every event it receives; the runs     *)
(* interleave at their awaits, with each other and with the user.  An      *)
(* event is read by its kind:                                              *)
(*   "safe"     one of AUTO_APPROVE_METHODS                                *)
(*   "zero"     sign_near_tx in which no action carries value              *)
(*   "value"    sign_near_tx in which one does                             *)
(*   "other"    connect, sign_event, nip44_*, an unknown method, or params *)
(*              that do not parse                                          *)
(* There is one wallet account; a second account has a bunker key and      *)
(* events of its own.                                                      *)
(***************************************************************************)
EXTENDS Integers, FiniteSets

CONSTANTS
  Event,       \* the request events
  Agent,       \* the public keys that events come from
  Kind,        \* the kind of an event
  Sender,      \* event.pubkey
  Receivers,   \* how many receivers the actions of an event have
  Stamp,       \* the values of Date.now() in the ids of pending requests
  MaxBunkers,  \* bound: how often the user starts a bunker
  MaxLoad      \* bound: bunkers started times events received

Kinds == {"safe", "zero", "value", "other"}

ASSUME BunkerAssumption ==
  /\ Kind \in [Event -> Kinds]
  /\ Sender \in [Event -> Agent]
  /\ Receivers \in [Event -> Nat \ {0}]
  /\ MaxBunkers \in Nat
  /\ MaxLoad \in Nat

Bunkers == 1..MaxBunkers

VARIABLES
  wallet,         \* there is a wallet state: the user is logged in
  policy,         \* localStorage: the agents that the allowlist settings let through
  button,         \* the dashboard shows "Stop Bunker", and the settings
  bunkerRef,      \* the bunker that the buttons act on, or 0
  bunkerPending,  \* the ids of the requests on the approval sheet
  status,         \* of every bunker
  allowlist,      \* the settings that a bunker was made with
  handler,        \* the run of handleEvent for an event by a bunker
  runs,           \* history: how often the actions for a receiver were executed
  approvals,      \* history: how often the user approved an event
  answers         \* history: how many responses a handler has published

ui == <<wallet, policy, button, bunkerRef>>
bunkers == <<status, allowlist>>
vars == <<ui, bunkerPending, bunkers, handler, runs, approvals, answers>>

\* the requests that executeNearTx is called for
Transactions == {e \in Event : Kind[e] \in {"zero", "value"}}

PendingId == Event \X Stamp

Idle == [stage |-> "new"]
Done == [stage |-> "done"]
Waiting(id) == [stage |-> "pending", id |-> id]

\* auto: without approval; at: the receiver that is next
Running(auto, at) == [stage |-> "running", auto |-> auto, at |-> at]

Init ==
  /\ wallet = TRUE
  /\ policy = Agent
  /\ button = FALSE
  /\ bunkerRef = 0
  /\ bunkerPending = {}
  /\ status = [b \in Bunkers |-> "none"]
  /\ allowlist = [b \in Bunkers |-> {}]
  /\ handler = [h \in Bunkers \X Event |-> Idle]
  /\ runs = [e \in Event |-> [r \in 1..Receivers[e] |-> 0]]
  /\ approvals = [e \in Event |-> 0]
  /\ answers = [h \in Bunkers \X Event |-> 0]

-------------------------------------------------------------------------------
(***************************************************************************)
(* The user, the wallet and the buttons.                                   *)
(***************************************************************************)
RequestsUnchanged == UNCHANGED <<handler, runs, approvals, answers>>

Login ==
  /\ ~wallet
  /\ wallet' = TRUE
  /\ UNCHANGED <<policy, button, bunkerRef, bunkerPending, bunkers>>
  /\ RequestsUnchanged

\* AgentAccessPanel.save
SetPolicy(agents) ==
  /\ wallet /\ button
  /\ policy' = agents
  /\ UNCHANGED <<wallet, button, bunkerRef, bunkerPending, bunkers>>
  /\ RequestsUnchanged

\* The dashboard is left, and comes back without its local state
LeaveDashboard ==
  /\ button
  /\ button' = FALSE
  /\ UNCHANGED <<wallet, policy, bunkerRef, bunkerPending, bunkers>>
  /\ RequestsUnchanged

Started == {b \in Bunkers : status[b] # "none"}
Received == {e \in Event : \E b \in Bunkers : handler[<<b, e>>].stage # "new"}

\* "Start Bunker", or without the button a scanned nostrconnect code
StartClick(b, viaButton) ==
  /\ wallet
  /\ viaButton => ~button
  /\ (Cardinality(Started) + 1) * Cardinality(Received) <= MaxLoad
  /\ status[b] = "none" /\ \A c \in 1..(b - 1) : status[c] # "none"
  /\ button' = (button \/ viaButton)
  /\ status' = [status EXCEPT ![b] = "starting"]
  /\ UNCHANGED <<wallet, policy, bunkerRef, bunkerPending, allowlist>>
  /\ RequestsUnchanged

\* the passkey has answered: the bunker is made, listens, and becomes the current one
StartDone(b) ==
  /\ status[b] = "starting"
  /\ status' = [status EXCEPT ![b] = "listening"]
  /\ allowlist' = [allowlist EXCEPT ![b] = policy]
  /\ bunkerRef' = b
  /\ UNCHANGED <<wallet, policy, button, bunkerPending>>
  /\ RequestsUnchanged

StartFails(b) ==
  /\ status[b] = "starting"
  /\ status' = [status EXCEPT ![b] = "stopped"]
  /\ UNCHANGED <<ui, bunkerPending, allowlist>>
  /\ RequestsUnchanged

\* mutant: the stopped bunker stays the current one
StopCurrent_KeepsRef ==
  /\ bunkerRef' = bunkerRef
  /\ status' = [b \in Bunkers |-> IF b = bunkerRef THEN "stopped" ELSE status[b]]

\* Nip46Bunker.stop on the current bunker, if there is one
StopCurrent ==
  /\ bunkerRef' = 0
  /\ status' = [b \in Bunkers |-> IF b = bunkerRef THEN "stopped" ELSE status[b]]

\* mutant: the approval sheet is cleared, and the bunker left running
StopBunker_ClearsOnly ==
  /\ wallet /\ button
  /\ button' = FALSE
  /\ bunkerPending' = {}
  /\ UNCHANGED <<wallet, policy, bunkerRef, status, allowlist>>
  /\ RequestsUnchanged

StopBunker ==
  /\ wallet /\ button
  /\ button' = FALSE
  /\ StopCurrent
  /\ bunkerPending' = IF bunkerRef = 0 THEN bunkerPending ELSE {}
  /\ UNCHANGED <<wallet, policy, allowlist>>
  /\ RequestsUnchanged

Logout ==
  /\ wallet
  /\ wallet' = FALSE
  /\ button' = FALSE
  /\ StopCurrent
  /\ UNCHANGED <<policy, bunkerPending, allowlist>>
  /\ RequestsUnchanged

-------------------------------------------------------------------------------
(***************************************************************************)
(* handleEvent.  Each operator below says what becomes of handler h; the   *)
(* parts of a run between two awaits are one step.                         *)
(***************************************************************************)
Is(h, next) == handler' = [handler EXCEPT ![h] = next]

\* sendResponse and sendErrorResponse throw when the bunker has been stopped
Publish(h) ==
  answers' = IF status[h[1]] = "listening" THEN [answers EXCEPT ![h] = @ + 1] ELSE answers

\* What handleMethod has for the client, a result or its error, is sent by sendResponse
Ends(h) == Is(h, Done) /\ Publish(h)

\* mutant: the error of a failed execution is swallowed
Fails_Silently(h) == Is(h, Done) /\ UNCHANGED answers

Fails(h) == Ends(h)

\* _pendingRequests.set, and onRequest
Asks(h) ==
  \E ms \in Stamp :
    /\ Is(h, Waiting(<<h[2], ms>>))
    /\ bunkerPending' = bunkerPending \union {<<h[2], ms>>}
    /\ UNCHANGED answers

\* the call of executeNearTx, up to its first await
BeginsTx(h, auto) ==
  /\ Is(h, Running(auto, 1))
  /\ UNCHANGED answers

IsZeroValue(e) == Kind[e] = "zero"

\* An event arrives; the pool drops the ones that it has seen in this subscription
Receive(b, e) ==
  LET h == <<b, e>> IN
    /\ status[b] = "listening"
    /\ handler[h].stage = "new"
    /\ Cardinality(Started) * Cardinality(Received \union {e}) <= MaxLoad
    /\ \/ /\ Sender[e] \notin allowlist[b] \/ Kind[e] = "safe"
          /\ Ends(h)
          /\ UNCHANGED bunkerPending
       \/ /\ Sender[e] \in allowlist[b] /\ IsZeroValue(e) /\ wallet
          /\ BeginsTx(h, TRUE)
          /\ UNCHANGED bunkerPending
       \/ /\ Sender[e] \in allowlist[b] /\ Kind[e] # "safe"
          /\ ~(IsZeroValue(e) /\ wallet)
          /\ Asks(h)
    /\ UNCHANGED <<ui, bunkers, runs, approvals>>

\* What the relay's answer to the actions for one receiver tells the wallet (ok), and whether
\* they were executed.  A status of "Failure", or an exception before the request is sent:
\* neither.  An answer without a status (an error after the broadcast, or before it) passes
\* for success, and the answer to an executed request may be lost on the way.
Outcome == [executed : BOOLEAN, ok : BOOLEAN]

\* mutant: a run without approval that fails is tried again from the first receiver
RunTx_Retries(h, outcome) ==
  LET e   == h[2]
      run == handler[h]
  IN /\ run.stage = "running"
     /\ runs' = IF outcome.executed THEN [runs EXCEPT ![e][run.at] = @ + 1] ELSE runs
     /\ Is(h, IF ~outcome.ok THEN [run EXCEPT !.at = 1]
              ELSE IF run.at < Receivers[e] THEN [run EXCEPT !.at = @ + 1] ELSE Done)
     /\ UNCHANGED <<ui, bunkers, bunkerPending, answers, approvals>>

\* handleSendNearTransaction for the receiver that is next, and what follows it
RunTx(h, outcome) ==
  LET e    == h[2]
      run  == handler[h]
      last == run.at = Receivers[e]
      \* sendResponse throws inside the try that guards the run without approval
      thrown == ~outcome.ok \/ (last /\ status[h[1]] # "listening")
  IN /\ run.stage = "running"
     /\ runs' = IF outcome.executed THEN [runs EXCEPT ![e][run.at] = @ + 1] ELSE runs
     /\ \/ /\ outcome.ok /\ ~last
           /\ Is(h, [run EXCEPT !.at = @ + 1])
           /\ UNCHANGED <<bunkerPending, answers>>
        \/ /\ outcome.ok /\ last /\ ~thrown
           /\ Ends(h)
           /\ UNCHANGED bunkerPending
        \/ /\ thrown /\ run.auto
           /\ Asks(h)
        \/ /\ thrown /\ ~run.auto
           /\ Fails(h)
           /\ UNCHANGED bunkerPending
     /\ UNCHANGED <<ui, bunkers, approvals>>

\* the handlers of the current bunker that wait for the request with this id
WaitsFor(h, id) ==
  h[1] = bunkerRef /\ handler[h].stage = "pending" /\ handler[h].id = id

Decides(id) ==
  /\ wallet
  /\ id \in bunkerPending
  /\ bunkerPending' = bunkerPending \ {id}
  /\ UNCHANGED <<ui, bunkers, runs>>

\* approveRequest, and the rest of the handler up to its next await
Approve(h) ==
  /\ handler[h].stage = "pending" /\ WaitsFor(h, handler[h].id)
  /\ Decides(handler[h].id)
  /\ approvals' = [approvals EXCEPT ![h[2]] = @ + 1]
  /\ IF h[2] \in Transactions THEN BeginsTx(h, FALSE) ELSE Ends(h)

\* mutant: the handler goes on after it has answered that the user denied
Deny_GoesOn(h) ==
  /\ handler[h].stage = "pending" /\ WaitsFor(h, handler[h].id)
  /\ Decides(handler[h].id)
  /\ answers' = [answers EXCEPT ![h] = @ + 1]
  /\ Is(h, IF h[2] \in Transactions THEN Running(FALSE, 1) ELSE Done)
  /\ UNCHANGED approvals

Deny(h) ==
  /\ handler[h].stage = "pending" /\ WaitsFor(h, handler[h].id)
  /\ Decides(handler[h].id)
  /\ Ends(h)
  /\ UNCHANGED approvals

\* approveRequest or denyRequest for a request that the current bunker does not know
DecideInVain(id) ==
  /\ ~\E h \in Bunkers \X Event : WaitsFor(h, id)
  /\ Decides(id)
  /\ UNCHANGED <<handler, approvals, answers>>

Next ==
  \/ Login
  \/ \E agents \in SUBSET Agent : SetPolicy(agents)
  \/ LeaveDashboard
  \/ \E b \in Bunkers :
       \/ \E viaButton \in BOOLEAN : StartClick(b, viaButton)
       \/ StartDone(b)
       \/ StartFails(b)
  \/ StopBunker
  \/ Logout
  \/ \E b \in Bunkers, e \in Event : Receive(b, e)
  \/ \E h \in Bunkers \X Event :
       \/ \E outcome \in Outcome : RunTx(h, outcome)
       \/ Approve(h)
       \/ Deny(h)
  \/ \E id \in bunkerPending : DecideInVain(id)

Spec == Init /\ [][Next]_vars

\* A request to the relay is answered or fails, and the passkey dialog ends; the user and the
\* agents may do nothing at all
Fairness ==
  /\ \A h \in Bunkers \X Transactions : WF_vars(\E outcome \in Outcome : RunTx(h, outcome))
  /\ \A b \in Bunkers : WF_vars(StartDone(b) \/ StartFails(b))

FairSpec == Spec /\ Fairness

-------------------------------------------------------------------------------
Handler ==
  {Idle, Done}
    \union {Waiting(id) : id \in PendingId}
    \union [stage : {"running"}, auto : BOOLEAN, at : Nat \ {0}]

\* Every variable stays in its type, and the bunker that the buttons act on listens.
TypeOK ==
  /\ wallet \in BOOLEAN
  /\ policy \subseteq Agent
  /\ button \in BOOLEAN
  /\ bunkerRef \in 0..MaxBunkers
  /\ bunkerRef # 0 => status[bunkerRef] = "listening"
  /\ bunkerPending \subseteq PendingId
  /\ status \in [Bunkers -> {"none", "starting", "listening", "stopped"}]
  /\ allowlist \in [Bunkers -> SUBSET Agent]
  /\ handler \in [Bunkers \X Event -> Handler]
  /\ \A h \in Bunkers \X Event :
       handler[h].stage = "running" => handler[h].at <= Receivers[h[2]]
  /\ \A e \in Event : runs[e] \in [1..Receivers[e] -> Nat]
  /\ approvals \in [Event -> Nat]
  /\ answers \in [Bunkers \X Event -> Nat]

\* The bunkers that may have run event e without approval: those that it came to and whose
\* settings let its sender through.
RunBy(e) ==
  {b \in Bunkers : /\ handler[<<b, e>>].stage # "new"
                   /\ Kind[e] = "zero" /\ Sender[e] \in allowlist[b]}

\* However the awaits interleave, whichever bunkers are stopped and restarted and whichever
\* executions fail half-way, every execution is covered: by an approval, or, when no action
\* carries value, by the one run of a bunker that lets the agent through.
ExecutionsCovered ==
  \A e \in Event : \A r \in 1..Receivers[e] :
    runs[e][r] <= approvals[e] + Cardinality(RunBy(e))

\* No handler answers its event twice, on no path through the two try blocks of handleEvent.
AnswersOnce == \A h \in Bunkers \X Event : answers[h] <= 1

\* What the current bunker waits for is on the approval sheet, whatever was started, stopped,
\* approved and denied before: the user can always decide it (onRequest, bunkerPending).
WaitingIsShown ==
  \A h \in Bunkers \X Event :
    h[1] = bunkerRef /\ handler[h].stage = "pending" => handler[h].id \in bunkerPending

\* An execution that the user approved is answered, unless its bunker is stopped meanwhile.
ApprovedIsAnswered ==
  \A h \in Bunkers \X Transactions :
    handler[h].stage = "running" /\ ~handler[h].auto
      ~> answers[h] > 0 \/ status[h[1]] = "stopped"

\* "fall through to human approval on parse failure" (nostr/bunker.ts:217): the user is not
\* asked to approve what has already been executed, in whole or in part.
FallsThroughOnParseFailure ==
  \A h \in Bunkers \X Event :
    LET e == h[2] IN
      handler[h].stage = "pending" /\ (\A b \in Bunkers \ {h[1]} : handler[<<b, e>>] = Idle)
        => \A r \in 1..Receivers[e] : runs[e][r] = 0
===============================================================================
