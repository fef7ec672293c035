# A verification of near-passkey-wallet in TLA+

near-passkey-wallet is a NEAR account whose owner signs with a passkey (FaceID, a Ledger).
The account is a contract; a web page holds the passkey's credential and talks to the
contract through a relay that pays for gas; agents and dApps reach the page, or a session
key that it created, to have something executed.  This directory holds specifications of
its parts, the TLC configurations that check them, and proofs that TLAPS checks.

Paths below are relative to the root of the repository.

## 1. Inventory

| Component | Source | State it keeps | Operations |
|---|---|---|---|
| Nonces | `wallet-contract/src/nonces/mod.rs` | two bitmaps of used nonces, the second of the last cleanup, a timeout | `commit`, `check_cleanup` |
| Wallet contract | `wallet-contract/src/contract/mod.rs`, `state.rs` | signature mode, primary and backup key, extensions, session keys, nonces | `w_execute_signed`, `w_execute_session`, `w_execute_extension`, nine ops |
| Outgoing promises | `wallet-contract/src/request/promise/` | none: a DAG in the request | `build` |
| NIP-46 bunker | `src/nostr/bunker.ts`, `src/hooks/useWallet.tsx`, `src/screens/DashboardScreen.tsx` | the pool's subscription, pending requests, the approval sheet, settings in localStorage | receive, approve, deny, execute, start, stop |
| Accounts and session keys of the page | `src/hooks/useWallet.tsx`, `src/lib/session.ts`, `src/lib/storage.ts` | wallet state in localStorage, session keys in IndexedDB, React state | create, log in, create / use / revoke a session, back up, log out |
| Relay worker | `relay-cf/src/index.js` | none of its own: access keys and their nonces are on chain | relay a request, create an account, deploy, upgrade |
| Wallet creation | `src/screens/NamingScreen.tsx`, `src/hooks/useWallet.tsx`, `src/lib/near.ts` | the name, whether it was seen to be free, the wallet state that is saved | type, check, create, deploy, verify, derive |
| Cloud bunker panel | `src/screens/DashboardScreen.tsx` | resolutions it has shown | poll, approve, deny |
| dApp executor, connect screen | `public/executor.js`, `src/screens/ConnectScreen.tsx`, `src/app/App.tsx` | the dApp's session key and accounts in the parent's storage, the session between the pages, a pending link | sign in, sign out, sign and send, sign a message; approve, reject |
| Ethereum and Solana accounts | `src/lib/{ethereum,solana}.ts`, `src/hooks/useWallet.tsx` | screen and loading flag of the page | derive, send |
| Concurrent nonces, bitmap | `wallet-contract/src/nonces/concurrent.rs`, `crates/bitmap` | words of 256 bits | next nonce, set and test bits |
| Maps with cleanup, lock | `crates/map-utils`, `crates/near/utils` | wrappers of one value | entry guards, lock and unlock |
| Encodings | `src/lib/{borsh,relay,ethereum,utils}.ts`, `public/executor.js`, `packages/passkey-sdk` | none | borsh and JSON of a request, RLP, DER, compact-u16, base 58, payment codes |
| Cryptography, UI | `crates/crypto`, `src/components` | none | |

How they meet: a user action in the page signs a `RequestMessage` with the passkey or a
session key and posts it to the relay, which wraps it into a transaction that calls the
contract; the contract checks and commits the nonce, verifies, executes the ops and detaches
the promises, which run as receipts in later blocks.  The bunker receives events from agents
over nostr relays, asks the user through React state, and executes through the same path.
The executor does so with a session key of its own.

What is hard here:

* *ordering and time* - nonces are forgotten by whichever call happens to come after a
  timeout; two paths share them; `created_at` is signed in seconds and checked with fractions;
* *authority* - three kinds of actors change who may act, in lists of ops of any order;
* *partial failure* - a panic rolls back the contract but not what the page has stored, and a
  request of several receivers is executed one receiver at a time;
* *stale state* - React closures, button state that is lost on navigation, lists loaded
  earlier than they are used;
* *delivery* - nostr relays redeliver the last 15 seconds to every new subscription, and
  an answer of the relay may be lost, or be an error that reads like a success.

`PROJECT.json` lists each hazard at its line with the properties that would catch it.

## 2. Modules

| Module | What it is |
|---|---|
| `Nonces` | the nonce window as operators on a record, shared by the next two |
| `ReplayGuard` | abstract: what the window, and the contract with it, promise the owner |
| `ReplayProtection` | the window at work: blocks, submissions in every sub-second form, cleanups |
| `Wallet` | the contract: one action per entry point and per op, the working copy a panic drops, the add-key receipts |
| `Bunker` | the bunker, the callbacks the page gives it, and the dashboard's buttons |
| `SessionClient` | the session keys of the page: logins, creations and revocations as flows between the page, the browser's storage, the relay and the contract's sessions |
| `Relay` | the worker's endpoints, call by call, against the accounts, keys and nonces of the chain |
| `Creation` | the naming screen and `handleCreateWallet` of several browsers; EXTENDS `Relay` and composes with its requests |
| `Connect` | a dApp with the executor and a wallet page: sessions, links, the connect screen, session keys |
| `Payments` | the payments of three chains that share one screen and one flag, against a chain with a pool |
| `Borsh` | what is signed and what is sent, for every form of request, and what the contract reads of it |
| `Encodings` | RLP, DER, compact-u16, base 58 and payment codes as functions on bytes |
| `Codec` | enumerates inputs for `Borsh` and `Encodings`, with their properties |
| `NoncesProofs`, `ReplayProtectionProofs`, `WalletProofs`, `BunkerProofs`, `SessionClientProofs`, `PaymentsProofs`, `ConnectProofs`, `CreationProofs` | the theorems |
| `MC...` | instances for TLC |

### Nonces and ReplayProtection

`store` is `Nonces` without its constant timeout.  A bitmap is the set of its bits.  An
instant is a pair of a second and a fraction, because `Nonces::now` truncates the block's time
and `commit` compares the request's `created_at` exactly.  The signature covers `created_at`
as whole seconds (`TimestampSeconds`), while the call's JSON argument carries fractions: a
signed request is therefore submitted with any fraction.  `Cleanup` is the call of
`check_cleanup` on its own that `execute_extension` makes.  A failing `commit` returns an
error that makes the contract panic, so it changes nothing.

`runs` and `ranAt` are history.  `ReplayGuard` keeps those and the current second only, and
says when a request may execute; `ImplementsReplayGuard` is the refinement.

### Wallet

A call is modelled as it runs.  The entry point checks in the code's order and commits the
nonce (`SignedError`, `SessionError`, `ExtensionError`, `Begin`); each op is a step on `work`,
a copy of the state; `Finish` writes it back, together with the receipts of the access keys
that its sessions need.  Any error is `Panic`: `work` is dropped.  Calls do not overlap, as in
the runtime; the add-key receipts run between later calls, in any order.  Every deployed state
is an initial one: `StateInit` can hold `State` with either signature mode and with extensions.
`runs` and `ranAt` are history, of the messages in `Tracked`: how often, and when, the ops of one
have run to their end.  With them the contract implements `ReplayGuard` as the window does, through
both of its paths, panics and working copies (`ImplementsReplayGuard`).

The keys are model values; `BadPk` stands for a string that does not parse.  A signature is
the key that made it.  A promise DAG is empty, or builds, or contains a call to the wallet
itself, on which `PromiseSingle::build` panics.  Events and view methods are left out.

### Bunker

The events that agents send are read by their kind, because `handleEvent` treats all of a
kind alike; a signature of an event cannot be forged.  A handler is `new`, `running` (with
the receiver that is next), `pending` or `done`; what `handleEvent` does between two awaits is
one step.  `StartClick` and `StartDone` are the two sides of the passkey dialog in
`handleStartBunker`.  `button` is the dashboard's own `bunkerRunning`, which is lost when the
dashboard unmounts (`LeaveDashboard`); the hook's variable of the same name is read by nothing
the model contains, and is left out.  `allowlist` are the settings at the time the bunker was
made (all agents when they do not restrict).  Which account is logged in is left out: `wallet`
says only whether one is.

The nostr pool is external: it hands an event at most once to a subscription, and hands it to
every bunker that listens.  `Outcome` is what the page learns of one relay request; an
executed request whose answer is lost, and an answer that carries an error and no status, are
both possible.  A request without any action is not modelled.

### SessionClient

A press of a button starts a flow, which is one of the async functions `handleLogin`,
`handleCreateSessionKey`, `handleRevokeSessionKey`, `handleRevokeAllSessionKeys`.  `w` is the
wallet that its closure holds, and `setWallet` of a flow always writes a copy of that one, however
the page has changed in the meantime; `stage` is the await at which it stands.  The page
(`wallet`, `listed`, `screen`, `loading`), the dashboard's `sessionLoading` (`busy`), localStorage
(`saved`) and IndexedDB (`idb`) are the state; a reload ends all flows and reads `saved`, while a
request that was sent (`tx`) may still be executed.  `LeaveDashboard` loses `busy` but not the
flow, so several flows can run at once.

A transaction that was sent may run at any later time, or never.  The relay answers with
its status, or with an error that has none - of a transaction that it could not send, or lost
sight of - or not at all.  Of the contract only the life of sessions is modelled: what
`Wallet` does with the three session ops, by an owner whose messages pass its checks.

Left out: sending with a session key, registering a key of a dApp
(`handleRegisterExternalSessionKey`, which stores nothing in the page), keys of the old format
that need migration.  `Enter` stands for the two ways to a wallet that make no session key
(`handleCreateWallet`, `handleCompleteLogin`), in one step.  The lookup in `handleLogin` runs
with the passkey dialog already confirmed, which is when the screen changes.

### Relay and Creation

A request is a program: the sequence of calls that its endpoint makes (`Program`), with a
cursor.  A call that views the chain, the helper call of testnet, and a transaction are steps of
their own.  For a transaction the worker reads the nonce of its access key (`ReadNonce`) and
broadcasts; the chain executes or refuses it, whether or not the worker still waits.  `Result` is
the answer of the node, `NoResult` its error or time-out, `Dies` the end of the worker in the
middle of a request.
A read sees all that has executed, while the worker asks for finality 'final', which may lag behind
it by a few blocks.
`overtaken` is history: who lost its nonce to another request.  Which of the errors make an
endpoint stop and which are ignored is the code's: create-wallet-global and create-subaccount
answer `ok` whatever became of their transactions.

`Creation` adds pages.  `NameChecked` shows the availability of a name that was asked for 500 ms
and one await earlier, for whichever name stands there now; `checkAccountAvailable` counts any
error as free.  `AskCreate` starts a request of `Relay` and `Created` continues with its answer,
so that two pages that want one name meet at every pair of steps.

### Connect

`call` is a promise of the executor (sign in, sign out, a transaction, a message); `tab` is the
wallet's connect screen.  The session server keeps requests (`posted`) and responses, and hands a
session to whoever opens it: `Scan`, `PageLoads` and `OpenLink` are the three ways, and
`pending` is the link kept over a login.  `registered` are the session keys that the contract
knows, `local` the calls that the executor signed on its own.  `replaced`, `approved`,
`executed` and `opened` are history; `vague` marks the calls for which the relay has answered with
an error and no status.  The public key of a session key is its name.
There is one wallet page: a link is followed in its place, while the executor opens a new tab.
Storing the accounts may fail unnoticed (`SaveAccounts`), as `setStoredAccounts` ignores errors, and
the executor uses a session key it finds without asking whether anybody is signed in (`Use`).

### Payments

A flow is one press of a Send button: it quotes (nonce and fees, or a blockhash), signs,
broadcasts, and ends by clearing `loading` and leaving the sending screen.  `Derive`, `Operate`
and `Rejected` are the other functions of the page that write the same flag or screen.  The
chain accepts a transaction whose nonce is not used, mines the next one of an account, or drops
one.  Solana's broadcast fails when the account that pays is not the one that signs, which
happens when a derivation finishes under another account.

### Borsh, Encodings and Codec

Borsh values are nested sequences of tokens (`<<"u8", 2>>`), so that a length or an order that
differs shows, and JSON is a record with the fields that are there.  For each of the four forms of
request there is the writer of the bytes, the writer of the JSON, and `ContractMessage`, which
parses the JSON with serde's defaults and encodes again.  The tokens of chain, signer, nonce and
time are fixed: every writer takes them from the same variables.

Bytes of RLP and base 58 are real bytes.  A number is written with `Digits` and read with
`Number`, the loops that the code repeats for each encoding: divide by the base until nothing is
left, multiply by the base and add.  `ReadInt` past the end of the data gives a number that nothing
has room for, as the `NaN` of `readBeInt` does.  `RlpDecode` stands for two readers: the page's
`rlpDecodeAt`, and a node.  It refuses items that do not end with their list, as a node does;
`rlpDecodeAt` would read on, but is only given lists that the page has encoded itself.  A payment
code has its currencies joined at commas and split there again, and no `accepts` at all for an
empty list (`CreatePaymentQr`), so that `EncodingsRoundTrip` compares what the lists mean: an absent
one is an empty one.  TLC checks the DER conversion scaled down to two
digits of four values and an order of 13, so that it sees every pair of integers; its constants
may be those of P-256, too, and the theorem is about any.

## 3. What is checked

| Run | Checks | Bounds, and why they are enough |
|---|---|---|
| `nonces` | `TypeOK`, `AtMostOnce`, `NonceExclusive`, `RetainedAtMostThreeTimeouts`, `ImplementsReplayGuard` | timeout 2, seconds 2..10 in halves, sixteen signed requests over two nonces, with a timeout shorter and one longer than the wallet's: both rotations happen more than once, and requests reach each edge of the window before and after each |
| `wallet` | `TypeOK`, `SessionsDieOut`, `SessionsHaveAccessKeys`, `ImplementsReplayGuard`, `NeverLockedOut`, `DisableIsFinal`, `PrivilegedStateNeedsSignature` | twenty-two requests that make each op succeed and fail alone and after others; two sessions, two extensions, three accounts, a primary and a backup key; five seconds and a longest time to live of two; two nonces, with messages that only one path, and that both paths, let through, over several windows of a timeout of one; `Tracked` are the messages of one nonce created at 3 and at 4, whose windows overlap |
| `bunker` | `TypeOK`, `ExecutionsCovered`, `WaitingIsShown`, `AnswersOnce`, `ApprovedIsAnswered` | an event of every kind, one with two receivers, from an agent that the settings let through or not; two bunkers (the current one and one from before), two ids for one event.  `MaxLoad` = 3 bounds bunkers started times events received: two bunkers for any one event, or one bunker with any three events, in every order; handlers of different events share no state but the sheet |
| `bunker_fall_through` | `FallsThroughOnParseFailure` (violated) | as small as the counterexample allows |
| `session_keys` | `TypeOK`, `ActiveKeyIsOurs`, `ActiveKeyWasSaved`, `RemovedKeysAreDead`, `LoginGetsThrough` | two accounts and two flows, so that a flow races with another, meets a list that is out of date, or comes back under the other account; the first session may expire |
| `relay` | `RefusedWasOvertaken`, `ReadyHasKey`, `CreatedOnce` | any three requests, of any endpoints, for one account and two keys: the third may come between any two calls of the others; symmetric in requests and keys (the properties are safety) |
| `creation` | `TypeOK` (which includes that of `Relay`), `SavedRootIsOurs`, `CreatingEnds` | two pages, one attempt each of its own passkey, one root name |
| `creation_verify` | `SavedWalletIsOurs` (violated) | the same with a name of the factory |
| `connect` | `OnlyApprovedKeysSign`, `OncePerOpening`, `SuccessWasExecuted`, `ConnectedHasKey`, `CallsEnd` | two calls, each of which may be opened twice, one account: a call meets the key, the answers and the links that another has left |
| `payments` | `SendingHasFlow`, `AcceptedIsNext`, `ToldIsAccepted`, `SendingEnds` | two accounts, two payments of any chains, one of which may be mined, with any number of the operations that share the flag |
| `codec` | `RequestsVerify`, `EncodingsRoundTrip`, `DerKeepsSignature` | up to three actions, ops, RLP strings, bytes or currencies; RLP strings of 0, 1, 55, 56 and 256 bytes and single bytes at 0, 127 and 128; every u16; every pair of integers below the scaled order |
| `signed_tx` | `SignedTxIsReadable` (violated) | the same |

The bounds are the constants `MaxTime` (seconds), `Messages` and `Requests` (what is
submitted), `MaxBunkers` (how often the user starts one), `MaxLoad`, `Stamp` (values of the clock
in ids), `MaxFlows` (how many flows start), `Short` (which sessions may expire), `Req` and
`Attempt` (requests and presses of Create), `Tracked` (the messages whose executions `Wallet`
maps to its guard), `MaxCalls` and `MaxOpened` (calls of the dApp, and how often each is opened), `Flow` (payments), `MaxMined` (blocks with a payment), and
`Element`, `Byte`, `MaxLen` (inputs of `Codec`).  `MaxTime` bounds only `NewBlock`; a model that
has reached it goes on with calls in its last block.  Deadlock is checked in every run but
`relay`, whose three requests end, and `codec` and `signed_tx`, whose inputs stop growing.

Fairness (`Bunker!FairSpec`): a request to the relay is answered or fails (`fetch` settles), and
the passkey dialog ends with an answer or an error.  `SessionClient!FairSpec` says the same of
every flow, and that IndexedDB answers; neither the contract nor the user has to act.
`Creation!FairSpec` and `Payments!FairSpec` say that what an attempt or a payment waits for
returns or throws (`Continues`, `Goes_On`): no fairness of the worker or the chain is needed, because a page's
call ends by throwing as well.  `Connect!FairSpec` says that the executor's timer fires and that its calls settle: that
is why a call ends even if no wallet ever opens its session.
Nothing is assumed of users and agents: they may never approve, send or press anything.

### What the violated runs show

1. *What has run in part is offered for approval* (`bunker_fall_through`).  The `catch` that is
   meant for parameters that do not parse also catches a failed execution.
   `ExecutionsCovered` is what holds: each further execution has an approval of its own.
2. *An account is kept as the wallet whose contract has another key* (`creation_verify`).  "Verify
   deployment" logs the key and does not compare it, and create-subaccount answers `ok` whatever
   its transaction came to.  Two browsers that take one name at the same time both save it.
   `SavedRootIsOurs` says what holds of root accounts, whose deployment is answered for.
3. *No node reads a signed Ethereum transaction* (`signed_tx`).  `rlpDecode` returns payloads, and
   `rlpEncodeList` joins what it is given: the fields lose their prefixes.  Besides, `r` is the
   compressed point of 33 bytes rather than its coordinate, `v` is 27 or 28 rather than a parity,
   and the access list is an empty string rather than an empty list.  `AcceptedIsNext` and
   `ToldIsAccepted` are about the order of payments, for signatures that a node would read.

These disagreements are visible in the text, or in the model, and have no run:

In the contract:

* `signature/mod.rs:46` stores a nonce "for at most `2 * timeout`"; it is up to three, which is
  proved (`RetentionIsBounded`).
* `wallet-contract/README.md:22` gives sessions 30 days; `create_session` caps them at 24 hours.
* `wallet-contract/src/lib.rs:75` counts `Custom` among the safe ops; `execute_op` panics on it.

In the page:

* `nostr/bunker.ts:301` says that sign_near_tx is never approved automatically; `handleEvent`
  executes it without asking when no action carries value, as the comment at its line 207 says.
* `useWallet.tsx:1179` says that `executeNearTx` "must never read a stale snapshot"; it reads the
  account from a ref, and calls the `handleSendNearTransaction` of the render that started the
  bunker, with the session keys of then.
* `DashboardScreen.tsx:101` says that an allowlist "Takes effect on bunker restart"; a dashboard
  that was left offers Start while a bunker runs, and the first one then listens on with the old
  list.
* `useWallet.tsx:424` calls a failing creation of a session key non-fatal; an error of the relay
  without a status counts as a success, and the page then signs with an unknown key.  For the
  same reason it reports sessions revoked that are not and throws their private keys away;
  `ActiveKeyIsOurs`, `RemovedKeysAreDead` and `SuccessWasExecuted` hold but for such answers.
* `useWallet.tsx:867` skips a creation when there is "a valid active session key", and looks
  only at the browser's copy: an expired session is never replaced (`CreateSkips`).
* `handleSendNearTransaction` signs and sends a function call of a dApp with a deposit of zero.
* `derToRawP256` throws when r or s is shorter than 32 bytes, which one signature in about 128
  is; the model has the throw as an empty result, so `DerKeepsSignature` is about the others.
* `checkAccountAvailable` counts any error as a free name, and the answer for one name is shown
  for the next; creation survives both (`SavedRootIsOurs`).
* `parsePasskeyUri` expects `/send` as the path while the host of such a URI is `send`.

In the executor and the connect screen:

* `public/executor.js` writes a transfer with discriminant 0 and its amount as `deposit`; the
  contract reads discriminant 3 and `amount`, and never parses it.  `RequestsVerify` leaves the
  executor's transfers out.
* `ConnectScreen.tsx:104` says that the dApp falls back to the relay without a registered key;
  the executor keeps and uses its key, and the transaction fails (`OnlyApprovedKeysSign` holds).
* The wallet ignores the `signerId` of a request, and `pending_connect` stays after a login by
  link (`Login`, `OpenLink`): the session may be offered once more.
* A second press of Reject navigates to the dashboard again (`Rejected` of `Payments`).

In the relay and the SDK:

* create-wallet-global never installs a key; the second handler of /deploy-global-contract
  (`index.js:567`) is never reached; debug-tx, "without sending" (`:205`), sends.
* `base58ToBytes` of `lib/utils.ts` counts leading zeros twice, unlike the relay's.
* The SDK cuts an `assetId` with a colon in it; payments without one round-trip, except that an
  empty list of currencies comes back as none (`accepts` is undefined).

## 4. What is proved

All theorems hold for every value of the constants that satisfies the named assumptions:
`NoncesAssumption` (timeout and precision are natural numbers), `ReplayAssumption` and
`WalletAssumption` (what is submitted is well formed), `NoSessionAssumption` and
`IdleAssumption` (the two null values are no values), `BunkerAssumption`,
`SessionClientAssumption` and `PaymentsAssumption` (types of the constants; bounds are
natural numbers; null values are no values), `ConnectAssumption` (bounds are natural
numbers; nobody is no account), `RelayAssumption` and `CreationAssumption` (null values are no
values, there is an account, a key and a browser, each attempt has a key and two requests of its own),
`BorshAssumption` (the empty text is a text, amounts are natural numbers),
`EncodingsAssumption` (an even base of at most 256, an order above 1 whose digits fit in the width,
as that of P-256 does in 32 bytes) and `CodecAssumption` (inputs are bytes, and the length of
a string takes at most eight bytes, which is what its prefix has room for).  The bounds
on bunkers, flows and loads only cap counters of the model: the theorems hold for any.

`NoncesProofs` has the lemmas about the window: `CheckCleanup` keeps every nonce used in the
last timeout and drops every one not used in the last three; a commit that succeeds is in the
window and is not stored.

`ReplayProtectionProofs`.  None of the properties is inductive: that a nonce is not stored
says something about the past only with the invariant that links the bitmaps to the history.
The inductive invariant says that the last cleanup is not in the future and every use recorded
in `ranAt` is in `nonces` if it is not older than the last cleanup, and in `old_nonces`
if it is at most a timeout older; and, in the other direction, that each stored nonce has a use
that is recent enough.  From it follow `ExecutesAtMostOnce`, `NoncesAreExclusive`,
`RetentionIsBounded`, and each step's image under the refinement (`WindowImplementsGuard`).

`WalletProofs`.  `IInv` is the conjunction of the types, `WorkFollowsState` (what the ops of a
running call cannot have changed in its working copy, by actor), `UsesAccounted` (the link
between the bitmaps and the messages that were executed, for the state and the working copy),
`RunsFresh` (the message of a running call was fresh when it began, and no block comes in between),
`SessionsBounded` (no session
expires later than the longest time to live after the current instant, or after the one at which
signatures were disabled), `KeysPromised` (each session in the working copy has its access key, a receipt, or a
key in the call), and the properties themselves.  `OpEffect` states once what any op can do, so
that each property has one case for all ops rather than nine.  The action properties
follow from `WorkFollowsState` at `Finish`, the only step that writes the state.
`WalletImplementsGuard` maps a block to a block, a `Finish` that ends a message to its execution,
and every other step, a panic among them, to a stutter.

`BunkerProofs`.  `ExecutionsCovered` compares counters, and is not inductive: an execution that was
allowed before an await is counted after it.  The invariant counts, for each receiver of a
request, the executions together with the handlers that are allowed and have not come to this
receiver yet (`Balanced`), and says which handlers have been paid for by an approval and which by
their bunker's own leave.  The rest are facts on ids and stages: an id names its handler for ever
(`IdsName`), a handler is answered when it is done and not before (`AnsweredWhenDone`), a bunker
that has not started is quiet (`QuietBeforeStart`).

`SessionClientProofs`.  Every flow carries the wallet state of the render that started it, and may set
it again at any time.  So the invariant says of every copy, whether shown, saved, or in the closure of a
flow, that it relies only on what grows: sessions that were created or are vague, keys that were
saved or removed on purpose, revocations (`WalletsSound`, `KeysSeen`, `KeptIsOwned`).  `StoreMeans`,
`RemoveMeans` and `RequestsFollow` say what a flow at each stage has already achieved.

`PaymentsProofs`.  `NonceReached` says that no flow carries a nonce above what its account has mined,
and mined counts only grow: a node that takes only the nonces from there on (`Accepts`) can
therefore take but the next one.

The same module proves the properties of `Codec`, for the bytes that payments and requests are
sent as.  Its invariant `InputOK` is small: a list stays a list of its kind, a number stays in its
range.  The work is in the encodings, which are loops.  The library's induction theorems take an
operator as a parameter, which the provers here cannot instantiate, so the module starts with an
induction for sets: `Induct` says that a set that has a number whenever it has all smaller ones has
every number, and follows from the well-founded order of finite sets (`Least`).  `Recursion` then
shows that a recursive definition whose argument descends has a solution, and `FoldSolution`
that a fold over positions has; what TLC evaluates is therefore known by the equation of one step:
`DigitsRule`, `NumberRule`, `Flattened`, `Decoded`, `SplitPrefixes`.  From there on:

* Numbers: `NumberOfDigits` and `DigitsOfNumber` say that digits and numbers determine each other
  when the first digit is not zero, and `NumberSkipsZeros` what padding is worth.
* `DerIsKept` (`DerKeepsSignature`): sign byte, padding and the low half of s leave the integers
  what they are, for any order, that of P-256 included.
* `EncodingsAreRead` (`EncodingsRoundTrip`): `Base58Kept` counts the zeros in front and leaves the rest
  to the numbers; `CompactKept` splits an integer into seven bits, seven bits and two; `RlpKept`
  says where data holds each item (`Places`), that the bounds of a prefix are read as they were
  written (`BoundsRead`), that the decoder always advances (`ExtentGrows`, which gives `RlpDecode`
  its recursion), and goes back from the last item to the first; `SplitJoined` says that texts joined
  at a character that none of them has are split there again, and `CurrenciesKept` and `PaymentKept`
  apply that to the two levels of a payment code.  An empty list of currencies is read back as none.
* `RequestsAlwaysVerify` (`RequestsVerify`): for each kind of action and of operation a lemma says
  that what is signed is what the contract makes of the JSON; four theorems put them together for
  requests of any length, with any texts and amounts.  The transfers of the executor are
  excluded, as in `RequestsVerify`, for they do not verify.

`ConnectProofs`.  What a dApp is told is posted by a screen that got there over a relay, about a
transaction that an earlier opening of the same session may have executed; the key it signs with
was approved in another tab, perhaps of a wallet that someone else is logged in to by now.  `IInv`
says what each stage has behind it.  `ScreenFits`: a screen that has not submitted is an opening of
its session that has executed nothing; one that waits for the passkey has the user's
approval, by the account that is still logged in; one that has sent a transaction and
heard of its success has executed it; one that posts an answer posts what its session is for.
`ResponsesFit` says that of the answer once it is posted, where the outcome of a transaction
means that it was executed or is `vague`; `KeysStored`, that the key of a sign-in under way is the
one the dApp has stored, unless a later call has replaced it.  `StagesFit` ties a call's stage
to its operation.  What a step of the dApp leaves alone is stated once (`DappStep`), and what one of
the wallet does (`WalletStep`), so each action only has to show what it changes itself.

`CreationProofs` is about the relay alone (`RelaySpec`) and below the creation of wallets (`Spec`).
The properties are about answers, which look back at steps that are over.  `RequestOK` says what each
stage of a request has left on chain, where nothing is undone (`ChainGrows`), and that the nonce of
a transaction under way is good or was overtaken.  A step of one request disturbs the others only as
`Stays` allows, which is stated once (`OthersStay`) and proved per action.  `AttemptOK` adds what an
attempt of `handleCreateWallet` may conclude from the answers to its own two requests, and
`SavedRootIsOurs` follows.  The accounts of the factory have no such argument, and no such
property: see the run `creation_verify`.

Every safety invariant and action property of the passing runs is a theorem, for every value of
the constants.  Model-checked only: the liveness properties `ApprovedIsAnswered`,
`LoginGetsThrough`, `CallsEnd`, `CreatingEnds` and `SendingEnds`, because what must eventually
happen needs ENABLED, which is out of the prover's reach; and the violated runs.

## 5. Plan

What would come next: the sends of `SessionClient`, and that it composes with an abstract
contract of sessions that `Wallet` implements; `PromiseDag`, `BitMap` and `Lock` as algorithms
against reference definitions, so that `Nonces`' sets of bits are shown to be what the words hold.

## 6. What is not modelled

Cryptography (a signature is the key that made it); the Durable Object of the cloud bunker and of
the sessions, and the chain-signature contract (not in the repository: the cloud bunker's panel is
left out, sessions and signatures are modelled from how they are used); reading endpoints of the
relay; several pages of one wallet at once; reads of the chain that lag behind it (the nonces that
the relay reads); bitmaps as words, the promise DAG, maps with cleanup; the credential map and the import
of credentials; presentation.
