--------------------------- MODULE ReplayProtection ---------------------------
(***************************************************************************)
(* The nonce window at work: blocks advance, requests are submitted, and   *)
(* the extensions of the wallet make it clean up in between.  Every call   *)
(* to the contract is one step: a call that returns an error panics and    *)
(* the runtime drops whatever it wrote.                                    *)
(*                                                                         *)
(* A signature covers the borsh form of a request, in which created_at is  *)
(* a number of seconds; the window check reads the created_at of the JSON  *)
(* argument, which may carry a sub-second part.  One signed request can    *)
(* therefore be submitted in SubMax + 1 forms.                             *)
(***************************************************************************)
EXTENDS Nonces

CONSTANTS
  Signed,    \* what is signed: [nonce, created, timeout]
  Genesis,   \* the second of the first block
  MaxTime    \* bound: the second after which TLC makes no more blocks

ASSUME ReplayAssumption ==
  /\ Signed \subseteq [nonce : Nonce, created : Nat, timeout : Nat]
  /\ Genesis \in Nat
  /\ MaxTime \in Nat

VARIABLES
  block_timestamp,  \* env::block_timestamp()
  store,            \* State.nonces
  runs,             \* history: how often each signed request has executed
  ranAt             \* history: the (truncated) second it last did

vars == <<block_timestamp, store, runs, ranAt>>

Init ==
  /\ block_timestamp = [sec |-> Genesis, sub |-> 0]
  /\ store = NewNonces
  /\ runs = [m \in Signed |-> 0]
  /\ ranAt = [m \in Signed |-> 0]

NewBlock ==
  /\ \E t \in [sec : 0..MaxTime, sub : 0..SubMax] :
       /\ NotAfter(block_timestamp, t)
       /\ block_timestamp' = t
  /\ UNCHANGED <<store, runs, ranAt>>

\* a request that passes Nonces::commit, as submitted with sub-second part sub
Execute(m, sub) ==
  /\ CommitError(store, block_timestamp, m.nonce, [sec |-> m.created, sub |-> sub], m.timeout)
       = "Ok"
  /\ store' = Commit(store, block_timestamp, m.nonce)
  /\ runs' = [runs EXCEPT ![m] = @ + 1]
  /\ ranAt' = [ranAt EXCEPT ![m] = block_timestamp.sec]
  /\ UNCHANGED block_timestamp

\* the cleanup of a call that commits no nonce (execute_extension)
Cleanup ==
  /\ store' = CheckCleanup(store, block_timestamp)
  /\ UNCHANGED <<block_timestamp, runs, ranAt>>

Next ==
  \/ NewBlock
  \/ \E m \in Signed, sub \in 0..SubMax : Execute(m, sub)
  \/ Cleanup

Spec == Init /\ [][Next]_vars

-------------------------------------------------------------------------------
\* Every variable stays in its type.
TypeOK ==
  /\ block_timestamp \in Instant
  /\ store \in NonceStore
  /\ runs \in [Signed -> Nat]
  /\ ranAt \in [Signed -> Nat]

\* A signed request executes at most once, in whichever of its forms and however the
\* bitmaps rotate between two submissions (Nonces::commit and check_cleanup).
AtMostOnce == \A m \in Signed : runs[m] <= 1

\* Two different requests with the same nonce never execute within one timeout of each
\* other: a rotation forgets a nonce only when all that was valid with it has expired.
NonceExclusive ==
  \A m, k \in Signed :
    m # k /\ m.nonce = k.nonce /\ runs[m] > 0 /\ runs[k] > 0
      => ranAt[m] + Timeout < ranAt[k] \/ ranAt[k] + Timeout < ranAt[m]

\* the stored nonces n of store s that no request used at or after second `since`
StoredWithoutUse(s, since) ==
  {n \in StoredNonces(s) : ~\E m \in Signed : m.nonce = n /\ runs[m] > 0 /\ since <= ranAt[m]}

\* Nothing is refused for a stale bit, nor kept for ever: what a call at this moment finds
\* stored was used within the last three timeouts (check_cleanup drops the rest).
RetainedAtMostThreeTimeouts ==
  StoredWithoutUse(CheckCleanup(store, block_timestamp), block_timestamp.sec - 3 * Timeout) = {}

Guard == INSTANCE ReplayGuard WITH now <- block_timestamp.sec

\* The contract's nonces implement the promise of ReplayGuard.
ImplementsReplayGuard == Guard!Spec
===============================================================================
