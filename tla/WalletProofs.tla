----------------------------- MODULE WalletProofs -----------------------------
(***************************************************************************)
(* The properties of Wallet for every set of accounts, keys, nonces,       *)
(* messages and requests, and for op lists of every length.                *)
(*                                                                         *)
(* The inductive invariant speaks of the working copy: whatever ops have   *)
(* run so far, it is as far from a lockout as the state, only a signed     *)
(* request has touched its privileged part, and it accounts for every      *)
(* message that has executed and every access key promised.                *)
(***************************************************************************)
EXTENDS Wallet, NoncesProofs

\* what only a signed request may change
SamePrivileges(s, t) ==
  /\ s.signature_enabled = t.signature_enabled
  /\ s.backup_key = t.backup_key
  /\ s.session_keys = t.session_keys

\* what one op may do to the working copy
Effect(next, keys) ==
  /\ next.nonces = work.nonces
  /\ call.actor # "SignedRequest" => SamePrivileges(next, work)
  /\ ~LockedOut(work) => ~LockedOut(next)
  /\ \A id \in SessionId :
       \/ next.session_keys[id] \in {NoSession, work.session_keys[id]}
       \/ /\ NotAfter(next.session_keys[id].expires_at, Later(block_timestamp, MaxSessionTtl))
          /\ next.session_keys[id].public_key \in keys

WorkFollowsState ==
  /\ call = Idle => work = state
  /\ call # Idle =>
       /\ ~LockedOut(state) => ~LockedOut(work)
       /\ call.actor = "SignedRequest" => SignatureAllowed(state)
       /\ call.actor # "SignedRequest" => SamePrivileges(work, state)

(***************************************************************************)
(* Every message that has executed did so at or after its created_at, and  *)
(* its nonce is accounted for; the nonce of the running call is, too,      *)
(* should the call succeed.                                                *)
(***************************************************************************)
UsesAccounted ==
  /\ state.nonces.last_cleaned_at <= block_timestamp.sec
  /\ work.nonces.last_cleaned_at <= block_timestamp.sec
  /\ \A m \in Tracked : runs[m] > 0 =>
       /\ m.created <= ranAt[m]
       /\ Accounts(state.nonces, m.nonce, ranAt[m])
       /\ Accounts(work.nonces, m.nonce, ranAt[m])
  /\ call # Idle /\ call.msg # None =>
       Accounts(work.nonces, call.msg.nonce, block_timestamp.sec)

(***************************************************************************)
(* What ReplayGuard asks of a message that executes now, but that it has   *)
(* not executed before.                                                    *)
(***************************************************************************)
Fresh(m) ==
  /\ m.created <= block_timestamp.sec
  /\ block_timestamp.sec <= m.created + Timeout
  /\ block_timestamp.sec <= m.created + m.timeout
  /\ \A k \in Tracked :
       k.nonce = m.nonce /\ runs[k] > 0 => ranAt[k] + Timeout < block_timestamp.sec

\* a message was fresh when its call began, and no block has passed since
RunsFresh == call # Idle /\ call.msg # None => Fresh(call.msg)

\* no session key of state s expires later than a full ttl after instant t
ExpireBy(s, t) ==
  \A id \in SessionId :
    s.session_keys[id] # NoSession =>
      NotAfter(s.session_keys[id].expires_at, Later(t, MaxSessionTtl))

SessionsBounded ==
  /\ ExpireBy(state, block_timestamp)
  /\ ExpireBy(work, block_timestamp)
  /\ disabledAt = Never <=> SignatureAllowed(state)
  /\ disabledAt # Never => ExpireBy(state, disabledAt)

HaveKeys(s, pks) ==
  \A id \in SessionId : s.session_keys[id] # NoSession => s.session_keys[id].public_key \in pks

KeysPromised ==
  /\ HaveKeys(state, receipts \union access_keys)
  /\ call # Idle => HaveKeys(work, receipts \union access_keys \union call.keys)

IInv ==
  /\ TypeOK
  /\ WorkFollowsState
  /\ UsesAccounted
  /\ RunsFresh
  /\ SessionsBounded
  /\ SessionsDieOut
  /\ KeysPromised

-------------------------------------------------------------------------------
(***************************************************************************)
(* The next op of a running call is an op, and what follows it a list.     *)
(***************************************************************************)
LEMMA NextOp ==
  ASSUME TypeOK, call # Idle, call.left # <<>>
  PROVE  /\ call \in Call
         /\ Head(call.left) \in WalletOp
         /\ Tail(call.left) \in Seq(WalletOp)
<1>1. call \in Call
  BY DEF TypeOK
<1>2. call.left \in Seq(WalletOp)
  BY <1>1 DEF Call
<1>3. QED
  BY <1>1, <1>2

(***************************************************************************)
(* Every op panics, or changes the working copy within Effect (execute_op).*)
(***************************************************************************)
LEMMA OpEffect ==
  ASSUME TypeOK, ExecuteOp
  PROVE  Panic \/ \E next \in State, keys \in SUBSET SessionPk :
                    Proceed(next, keys) /\ Effect(next, keys)
<1> DEFINE op == Head(call.left)
<1>1. call # Idle /\ call.left # <<>>
  BY DEF ExecuteOp, NextOpIs, SetSignatureMode, AddExtension, RemoveExtension, CreateSession,
         RevokeSession, RevokeAllSessions, SetBackupKey, RemoveBackupKey, Custom
<1>2. /\ work \in State /\ block_timestamp \in Instant
      /\ call \in Call /\ op \in WalletOp
  BY <1>1, NextOp DEF TypeOK
<1>3. CASE SetSignatureMode
  <2> DEFINE next == [work EXCEPT !.signature_enabled = op.enable]
  <2>1. op.op = "SetSignatureMode"
    BY <1>3 DEF SetSignatureMode, NextOpIs
  <2>2. next \in State
    BY <1>2, <2>1 DEF State, WalletOp
  <2>3. CASE Panic
    BY <2>3
  <2>4. CASE ~Panic
    <3>1. Proceed(next, {}) /\ call.actor = "SignedRequest" /\ ~LockedOut(next)
      BY <1>3, <2>4 DEF SetSignatureMode, IfSigned, CheckLockout
    <3>2. Effect(next, {})
      BY <1>2, <3>1 DEF Effect, State
    <3>3. QED
      BY <2>2, <3>1, <3>2
  <2>5. QED
    BY <2>3, <2>4
<1>4. CASE AddExtension
  <2> DEFINE next == [work EXCEPT !.extensions = @ \union {op.account_id}]
  <2>1. op.op = "AddExtension"
    BY <1>4 DEF AddExtension, NextOpIs
  <2>2. next \in State
    BY <1>2, <2>1 DEF State, WalletOp
  <2>3. Panic \/ Proceed(next, {})
    BY <1>4 DEF AddExtension
  <2>4. Effect(next, {})
    BY <1>2 DEF Effect, State, SamePrivileges, LockedOut
  <2>5. QED
    BY <2>2, <2>3, <2>4
<1>5. CASE RemoveExtension
  <2> DEFINE next == [work EXCEPT !.extensions = @ \ {op.account_id}]
  <2>1. next \in State
    BY <1>2 DEF State
  <2>2. CASE Panic
    BY <2>2
  <2>3. CASE ~Panic
    <3>1. Proceed(next, {}) /\ ~LockedOut(next)
      BY <1>5, <2>3 DEF RemoveExtension, CheckLockout
    <3>2. Effect(next, {})
      BY <1>2, <3>1 DEF Effect, State, SamePrivileges
    <3>3. QED
      BY <2>1, <3>1, <3>2
  <2>4. QED
    BY <2>2, <2>3
<1>6. CASE CreateSession
  <2> DEFINE now  == block_timestamp
             key  == [public_key |-> op.public_key, created_at |-> now,
                      expires_at |-> Later(now, op.ttl_secs)]
             next == [work EXCEPT !.session_keys[op.session_key_id] = key]
  <2>1. op.op = "CreateSession"
    BY <1>6 DEF CreateSession, NextOpIs
  <2>2. op.session_key_id \in SessionId /\ op.ttl_secs \in Nat
    BY <1>2, <2>1 DEF WalletOp
  <2>3. CASE Panic
    BY <2>3
  <2>4. CASE ~Panic
    <3>1. /\ Proceed(next, {op.public_key})
          /\ call.actor = "SignedRequest"
          /\ op.ttl_secs <= MaxSessionTtl
          /\ op.public_key \in SessionPk
      BY <1>6, <2>2, <2>4, WalletAssumption DEF CreateSession, IfSigned
    <3>2. key \in SessionKey /\ NotAfter(key.expires_at, Later(now, MaxSessionTtl))
      BY <1>2, <2>2, <3>1, WalletAssumption DEF SessionKey, Instant, Later, NotAfter
    <3>3. /\ next \in State
          /\ next.session_keys = [work.session_keys EXCEPT ![op.session_key_id] = key]
      <4> HIDE DEF key
      <4> QED  BY <1>2, <2>2, <3>2 DEF State
    <3>4. Effect(next, {op.public_key})
      <4>1. /\ next.nonces = work.nonces
            /\ ~LockedOut(work) => ~LockedOut(next)
        BY <1>2 DEF State, LockedOut
      <4>2. \A id \in SessionId :
              next.session_keys[id] = IF id = op.session_key_id THEN key
                                      ELSE work.session_keys[id]
        <5> HIDE DEF key, next
        <5> QED  BY <1>2, <3>3 DEF State
      <4>3. key.public_key = op.public_key
        OBVIOUS
      <4>4. QED
        <5> HIDE DEF key, next
        <5> QED  BY <3>1, <3>2, <4>1, <4>2, <4>3 DEF Effect
    <3>5. QED
      <4> HIDE DEF key, next
      <4> QED  BY <3>1, <3>3, <3>4
  <2>5. QED
    BY <2>3, <2>4
<1>7. CASE RevokeSession
  <2> DEFINE next == [work EXCEPT !.session_keys[op.session_key_id] = NoSession]
  <2>1. op.op = "RevokeSession"
    BY <1>7 DEF RevokeSession, NextOpIs
  <2>2. op.session_key_id \in SessionId
    BY <1>2, <2>1 DEF WalletOp
  <2>3. CASE Panic
    BY <2>3
  <2>4. CASE ~Panic
    <3>1. Proceed(next, {}) /\ call.actor = "SignedRequest"
      BY <1>7, <2>4 DEF RevokeSession, IfSigned
    <3>2. next \in State
      BY <1>2, <2>2 DEF State
    <3>3. Effect(next, {})
      BY <1>2, <2>2, <3>1 DEF Effect, State, LockedOut
    <3>4. QED
      BY <3>1, <3>2, <3>3
  <2>5. QED
    BY <2>3, <2>4
<1>8. CASE RevokeAllSessions
  <2> DEFINE next == [work EXCEPT !.session_keys = [id \in SessionId |-> NoSession]]
  <2>1. next \in State
    BY <1>2 DEF State
  <2>2. CASE Panic
    BY <2>2
  <2>3. CASE ~Panic
    <3>1. Proceed(next, {}) /\ call.actor = "SignedRequest"
      BY <1>8, <2>3 DEF RevokeAllSessions, IfSigned
    <3>2. Effect(next, {})
      BY <1>2, <3>1 DEF Effect, State, LockedOut
    <3>3. QED
      BY <2>1, <3>1, <3>2
  <2>4. QED
    BY <2>2, <2>3
<1>9. CASE SetBackupKey
  <2> DEFINE next == [work EXCEPT !.backup_key = op.public_key]
  <2>1. CASE Panic
    BY <2>1
  <2>2. CASE ~Panic
    <3>1. Proceed(next, {}) /\ call.actor = "SignedRequest" /\ op.public_key \in Passkey
      BY <1>9, <2>2 DEF SetBackupKey, IfSigned
    <3>2. next \in State
      BY <1>2, <3>1 DEF State
    <3>3. Effect(next, {})
      BY <1>2, <3>1 DEF Effect, State, LockedOut
    <3>4. QED
      BY <3>1, <3>2, <3>3
  <2>3. QED
    BY <2>1, <2>2
<1>10. CASE RemoveBackupKey
  <2> DEFINE next == [work EXCEPT !.backup_key = None]
  <2>1. next \in State
    BY <1>2 DEF State
  <2>2. CASE Panic
    BY <2>2
  <2>3. CASE ~Panic
    <3>1. Proceed(next, {}) /\ call.actor = "SignedRequest"
      BY <1>10, <2>3 DEF RemoveBackupKey, IfSigned
    <3>2. Effect(next, {})
      BY <1>2, <3>1 DEF Effect, State, LockedOut
    <3>3. QED
      BY <2>1, <3>1, <3>2
  <2>4. QED
    BY <2>2, <2>3
<1>11. CASE Custom
  BY <1>11 DEF Custom
<1>12. QED
  BY <1>3, <1>4, <1>5, <1>6, <1>7, <1>8, <1>9, <1>10, <1>11 DEF ExecuteOp

-------------------------------------------------------------------------------
LEMMA InitIInv == Init => IInv
<1> SUFFICES ASSUME Init PROVE IInv
  OBVIOUS
<1>1. PICK enabled \in BOOLEAN, extensions \in SUBSET Account :
        state = NewState(enabled, extensions)
  BY DEF Init
<1>2. /\ state \in State
      /\ state.nonces = NewNonces
      /\ \A id \in SessionId : state.session_keys[id] = NoSession
  BY <1>1, NoncesAssumption DEF NewState, State, NewNonces, NonceStore
<1>3. TypeOK
  BY <1>2, WalletAssumption, NoncesAssumption DEF Init, TypeOK, Instant
<1>4. UsesAccounted
  BY <1>2, WalletAssumption DEF Init, UsesAccounted, NewNonces
<1>5. SessionsBounded
  <2>1. block_timestamp \in Instant /\ block_timestamp # Never
    BY <1>3, WalletAssumption DEF TypeOK
  <2>2. QED
    BY <1>2, <2>1 DEF Init, SessionsBounded, ExpireBy
<1>6. QED
  BY <1>2, <1>3, <1>4, <1>5
     DEF Init, IInv, WorkFollowsState, RunsFresh, Fresh, SessionsDieOut, KeysPromised, HaveKeys

(***************************************************************************)
(* A new block only moves the clock forward, and no call is running.       *)
(***************************************************************************)
LEMMA NewBlockIInv == IInv /\ NewBlock => IInv'
<1> SUFFICES ASSUME IInv, NewBlock PROVE IInv'
  OBVIOUS
<1>1. /\ call = Idle /\ work = state
      /\ block_timestamp \in Instant
      /\ block_timestamp' \in Instant
      /\ block_timestamp.sec <= block_timestamp'.sec
      /\ UNCHANGED <<state, call, work, receipts, access_keys, runs, ranAt, disabledAt>>
  BY WalletAssumption DEF NewBlock, IInv, TypeOK, WorkFollowsState, Instant, NotAfter
<1>2. TypeOK'
  BY <1>1 DEF IInv, TypeOK
<1>3. UsesAccounted'
  <2>1. state.nonces.last_cleaned_at \in Nat
    BY DEF IInv, TypeOK, State, NonceStore
  <2>2. QED
    BY <1>1, <2>1 DEF IInv, UsesAccounted, Instant
<1>4. SessionsBounded'
  <2>1. ExpireBy(state, block_timestamp')
    <3>1. NotAfter(block_timestamp, block_timestamp')
      BY DEF NewBlock
    <3>2. ASSUME NEW id \in SessionId, state.session_keys[id] # NoSession
          PROVE  NotAfter(state.session_keys[id].expires_at,
                          Later(block_timestamp', MaxSessionTtl))
      <4>1. state.session_keys[id].expires_at \in Instant
        BY <3>2 DEF IInv, TypeOK, State, SessionKey
      <4>2. NotAfter(state.session_keys[id].expires_at, Later(block_timestamp, MaxSessionTtl))
        BY <3>2 DEF IInv, SessionsBounded, ExpireBy
      <4>3. QED
        BY <1>1, <3>1, <4>1, <4>2, WalletAssumption, NoncesAssumption
           DEF NotAfter, Later, Instant
    <3>3. QED
      BY <3>2 DEF ExpireBy
  <2>2. QED
    BY <1>1, <2>1 DEF IInv, SessionsBounded, ExpireBy
<1>5. QED
  BY <1>1, <1>2, <1>3, <1>4
     DEF IInv, WorkFollowsState, RunsFresh, Fresh, SessionsDieOut, KeysPromised, HaveKeys

(***************************************************************************)
(* The shape of the state after an entry point has let a call begin.       *)
(***************************************************************************)
LEMMA BeginType ==
  ASSUME IInv, call = Idle,
         NEW actor \in Actor, NEW by \in SessionId \union {NoSession}, NEW request \in Request,
         NEW msg \in Messages \union {None}, NEW nonces \in NonceStore,
         Begin(actor, by, request, msg, nonces)
  PROVE  /\ TypeOK'
         /\ call' \in Call /\ call' # Idle
         /\ call'.actor = actor /\ call'.msg = msg
         /\ work' \in State /\ work'.nonces = nonces
         /\ SamePrivileges(work', state) /\ work'.extensions = state.extensions
<1>1. call' \in Call /\ call'.actor = actor /\ call'.msg = msg
  BY DEF Begin, Call, Request
<1>2. /\ work' \in State /\ work'.nonces = nonces
      /\ SamePrivileges(work', state) /\ work'.extensions = state.extensions
  BY DEF Begin, IInv, TypeOK, State, SamePrivileges
<1>3. TypeOK'
  BY <1>1, <1>2 DEF Begin, IInv, TypeOK
<1>4. QED
  BY <1>1, <1>2, <1>3, IdleAssumption

(***************************************************************************)
(* What holds of the new call whatever the entry point, once its message   *)
(* and its actor have passed their checks.                                 *)
(***************************************************************************)
LEMMA BeginIInv ==
  ASSUME IInv, call = Idle,
         NEW actor \in Actor, NEW by \in SessionId \union {NoSession}, NEW request \in Request,
         NEW msg \in Messages \union {None}, NEW nonces \in NonceStore,
         Begin(actor, by, request, msg, nonces),
         nonces.last_cleaned_at <= block_timestamp.sec,
         \A k \in Tracked : runs[k] > 0 => Accounts(nonces, k.nonce, ranAt[k]),
         msg # None => Accounts(nonces, msg.nonce, block_timestamp.sec) /\ Fresh(msg),
         actor = "SignedRequest" => SignatureAllowed(state),
         actor = "Session" /\ disabledAt # Never =>
           ~NotAfter(Later(disabledAt, MaxSessionTtl), block_timestamp)
  PROVE  IInv'
<1>1. /\ TypeOK'
      /\ call' \in Call /\ call' # Idle
      /\ call'.actor = actor /\ call'.msg = msg
      /\ work' \in State /\ work'.nonces = nonces
      /\ SamePrivileges(work', state) /\ work'.extensions = state.extensions
  BY BeginType
<1>2. UNCHANGED <<block_timestamp, state, receipts, access_keys, runs, ranAt, disabledAt>>
  BY DEF Begin
<1>3. WorkFollowsState'
  BY <1>1, <1>2 DEF WorkFollowsState, SamePrivileges, LockedOut, SignatureAllowed
<1>4. UsesAccounted'
  BY <1>1, <1>2 DEF IInv, UsesAccounted
<1>5. RunsFresh' /\ SessionsDieOut'
  BY <1>1, <1>2 DEF RunsFresh, Fresh, SessionsDieOut
<1>6. SessionsBounded'
  BY <1>1, <1>2 DEF IInv, SessionsBounded, ExpireBy, SamePrivileges, SignatureAllowed
<1>7. KeysPromised'
  BY <1>1, <1>2 DEF IInv, KeysPromised, HaveKeys, SamePrivileges
<1>8. QED
  BY <1>1, <1>3, <1>4, <1>5, <1>6, <1>7 DEF IInv

(***************************************************************************)
(* What the invariant says of a message that has executed.                 *)
(***************************************************************************)
LEMMA ExecutedAccounted ==
  ASSUME IInv
  PROVE  \A k \in Tracked : runs[k] > 0 =>
           /\ k.nonce \in Nonce /\ k.created \in Nat /\ ranAt[k] \in Nat
           /\ k.created <= ranAt[k]
           /\ Accounts(state.nonces, k.nonce, ranAt[k])
BY WalletAssumption DEF IInv, TypeOK, UsesAccounted, Message

(***************************************************************************)
(* A message that passes the checks is fresh, and its commit leaves a      *)
(* store that accounts for it and for all that has executed.               *)
(***************************************************************************)
LEMMA MessageCommits ==
  ASSUME IInv, NEW m \in Messages, NEW sub \in 0..SubMax, MessageError(m, sub) = "Ok"
  PROVE  LET nonces == Commit(state.nonces, block_timestamp, m.nonce) IN
           /\ nonces \in NonceStore
           /\ nonces.last_cleaned_at <= block_timestamp.sec
           /\ \A k \in Tracked : runs[k] > 0 => Accounts(nonces, k.nonce, ranAt[k])
           /\ Accounts(nonces, m.nonce, block_timestamp.sec)
           /\ Fresh(m)
<1> DEFINE c == [sec |-> m.created, sub |-> sub]
           nonces == Commit(state.nonces, block_timestamp, m.nonce)
<1>1. /\ block_timestamp \in Instant /\ state.nonces \in NonceStore
      /\ state.nonces.last_cleaned_at <= block_timestamp.sec
  BY DEF IInv, TypeOK, State, UsesAccounted
<1>2. m.nonce \in Nonce /\ m.created \in Nat /\ m.timeout \in Nat /\ c \in Instant
  BY WalletAssumption DEF Message, Instant
<1>3. CommitError(state.nonces, block_timestamp, m.nonce, c, m.timeout) = "Ok"
  BY DEF MessageError
<1>4. nonces \in NonceStore /\ nonces.last_cleaned_at <= block_timestamp.sec
  BY <1>1, <1>2, CommitStore, CleanupStore
<1>5. /\ Accounts(nonces, m.nonce, block_timestamp.sec)
      /\ \A k \in Tracked : runs[k] > 0 => Accounts(nonces, k.nonce, ranAt[k])
  BY <1>1, <1>2, ExecutedAccounted, CommitAccounts
<1>6. /\ m.created <= block_timestamp.sec
      /\ block_timestamp.sec <= m.created + Timeout
      /\ block_timestamp.sec <= m.created + m.timeout
  <2>1. /\ c.sec <= block_timestamp.sec
        /\ block_timestamp.sec <= c.sec + Timeout
        /\ block_timestamp.sec <= c.sec + m.timeout
    <3> HIDE DEF c
    <3> QED  BY <1>1, <1>2, <1>3, CommitIsTimely
  <2>2. QED
    BY <2>1
<1>7. ASSUME NEW k \in Tracked, k.nonce = m.nonce, runs[k] > 0
      PROVE  ranAt[k] + Timeout < block_timestamp.sec
  <2>1. ranAt[k] \in Nat /\ Accounts(state.nonces, m.nonce, ranAt[k])
    BY <1>7, ExecutedAccounted
  <2>2. QED
    <3> HIDE DEF c
    <3> QED  BY <1>1, <1>2, <1>3, <2>1, CommitIsFresh
<1>8. QED
  BY <1>4, <1>5, <1>6, <1>7 DEF Fresh

LEMMA ExecuteSignedIInv ==
  ASSUME IInv, NEW m \in Messages, NEW sub \in 0..SubMax, NEW signer,
         ExecuteSigned(m, sub, signer)
  PROVE  IInv'
<1>1. SignatureAllowed(state) /\ MessageError(m, sub) = "Ok"
  BY DEF ExecuteSigned, SignedError
<1>2. m # None /\ m.request \in Request
  BY WalletAssumption DEF Message
<1>3. QED
  BY <1>1, <1>2, MessageCommits, BeginIInv DEF ExecuteSigned, Actor

LEMMA ExecuteSessionIInv ==
  ASSUME IInv, NEW m \in Messages, NEW sub \in 0..SubMax, NEW id \in SessionId, NEW signer,
         ExecuteSession(m, sub, id, signer)
  PROVE  IInv'
<1> DEFINE key == state.session_keys[id]
<1>1. /\ key # NoSession
      /\ ~NotAfter(key.expires_at, block_timestamp)
      /\ MessageError(m, sub) = "Ok"
  BY DEF ExecuteSession, SessionError
<1>2. m # None /\ m.request \in Request
  BY WalletAssumption DEF Message
<1>3. ASSUME disabledAt # Never
      PROVE  ~NotAfter(Later(disabledAt, MaxSessionTtl), block_timestamp)
  <2>1. /\ key.expires_at \in Instant /\ block_timestamp \in Instant
        /\ disabledAt \in Instant
    BY <1>1, <1>3 DEF IInv, TypeOK, State, SessionKey
  <2>2. NotAfter(key.expires_at, Later(disabledAt, MaxSessionTtl))
    BY <1>1, <1>3 DEF IInv, SessionsBounded, ExpireBy
  <2>3. QED
    <3> HIDE DEF key
    <3> QED
      BY <1>1, <2>1, <2>2, WalletAssumption, NoncesAssumption DEF NotAfter, Later, Instant
<1>4. QED
  BY <1>1, <1>2, <1>3, MessageCommits, BeginIInv DEF ExecuteSession, Actor

LEMMA ExecuteExtensionIInv ==
  ASSUME IInv, NEW caller, NEW deposit, NEW request \in Requests,
         ExecuteExtension(caller, deposit, request)
  PROVE  IInv'
<1> DEFINE nonces == CheckCleanup(state.nonces, block_timestamp)
<1>1. /\ block_timestamp \in Instant /\ state.nonces \in NonceStore
      /\ state.nonces.last_cleaned_at <= block_timestamp.sec
  BY DEF IInv, TypeOK, State, UsesAccounted
<1>2. nonces \in NonceStore /\ nonces.last_cleaned_at <= block_timestamp.sec
  BY <1>1, CleanupStore
<1>3. \A k \in Tracked : runs[k] > 0 => Accounts(nonces, k.nonce, ranAt[k])
  BY <1>1, ExecutedAccounted, CleanupAccounts
<1>4. request \in Request
  BY WalletAssumption
<1>5. QED
  BY <1>2, <1>3, <1>4, BeginIInv DEF ExecuteExtension, Actor

(***************************************************************************)
(* A panic leaves nothing of the call behind.                              *)
(***************************************************************************)
LEMMA PanicIInv == IInv /\ Panic => IInv'
BY DEF IInv, Panic, TypeOK, WorkFollowsState, UsesAccounted, RunsFresh, Fresh, SessionsBounded,
       SessionsDieOut, ExpireBy, KeysPromised, HaveKeys

LEMMA ExecuteOpIInv == IInv /\ ExecuteOp => IInv'
<1> SUFFICES ASSUME IInv, ExecuteOp, ~Panic PROVE IInv'
  BY PanicIInv
<1>1. TypeOK
  BY DEF IInv
<1>2. PICK next \in State, keys \in SUBSET SessionPk : Proceed(next, keys) /\ Effect(next, keys)
  BY <1>1, OpEffect
<1>3. call # Idle /\ call.left # <<>>
  BY DEF ExecuteOp, NextOpIs, SetSignatureMode, AddExtension, RemoveExtension, CreateSession,
         RevokeSession, RevokeAllSessions, SetBackupKey, RemoveBackupKey, Custom
<1>4. call \in Call /\ Tail(call.left) \in Seq(WalletOp)
  BY <1>1, <1>3, NextOp
<1>5. /\ call' \in Call /\ call' # Idle
      /\ call'.actor = call.actor /\ call'.msg = call.msg
      /\ call'.keys = call.keys \union keys
  <2>1. call' = [call EXCEPT !.left = Tail(call.left), !.keys = call.keys \union keys]
    BY <1>2 DEF Proceed
  <2>2. call' \in Call /\ call'.actor = call.actor /\ call'.msg = call.msg
        /\ call'.keys = call.keys \union keys
    BY <1>2, <1>4, <2>1 DEF Call
  <2>3. QED
    BY <2>2, IdleAssumption
<1>6. /\ work' = next
      /\ UNCHANGED <<block_timestamp, state, receipts, access_keys, runs, ranAt, disabledAt>>
  BY <1>2 DEF Proceed
<1>7. TypeOK'
  BY <1>1, <1>5, <1>6 DEF TypeOK
<1>8. WorkFollowsState'
  BY <1>2, <1>3, <1>5, <1>6
     DEF IInv, WorkFollowsState, Effect, SamePrivileges, LockedOut, SignatureAllowed
<1>9. UsesAccounted'
  BY <1>2, <1>3, <1>5, <1>6 DEF IInv, UsesAccounted, Effect
<1>10. RunsFresh' /\ SessionsDieOut'
  BY <1>3, <1>5, <1>6 DEF IInv, RunsFresh, Fresh, SessionsDieOut
<1>11. SessionsBounded'
  <2>1. ExpireBy(next, block_timestamp)
    BY <1>2 DEF IInv, SessionsBounded, ExpireBy, Effect
  <2>2. QED
    BY <1>6, <2>1 DEF IInv, SessionsBounded, ExpireBy
<1>12. KeysPromised'
  <2>1. HaveKeys(next, receipts \union access_keys \union call.keys \union keys)
    BY <1>2, <1>3 DEF IInv, KeysPromised, HaveKeys, Effect
  <2>2. QED
    BY <1>5, <1>6, <2>1 DEF IInv, KeysPromised, HaveKeys
<1>13. QED
  BY <1>7, <1>8, <1>9, <1>10, <1>11, <1>12 DEF IInv

(***************************************************************************)
(* The working copy becomes the state, and the signatures that it does not *)
(* allow any more are disabled from this instant on.                       *)
(***************************************************************************)
LEMMA FinishIInv == IInv /\ Finish => IInv'
<1> SUFFICES ASSUME IInv, Finish PROVE IInv'
  OBVIOUS
<1>1. /\ call # Idle /\ call \in Call
      /\ state' = work /\ work' = work /\ call' = Idle
      /\ receipts' = receipts \union call.keys
      /\ IF call.msg \in Tracked
         THEN /\ runs' = [runs EXCEPT ![call.msg] = @ + 1]
              /\ ranAt' = [ranAt EXCEPT ![call.msg] = block_timestamp.sec]
         ELSE UNCHANGED <<runs, ranAt>>
      /\ disabledAt' = IF SignatureAllowed(work) THEN Never
                       ELSE IF disabledAt = Never THEN block_timestamp ELSE disabledAt
      /\ UNCHANGED <<block_timestamp, access_keys>>
      /\ block_timestamp \in Instant /\ block_timestamp.sec \in Nat
  BY DEF Finish, IInv, TypeOK, Instant
<1>2. call.msg \in Tracked => call.msg # None /\ Fresh(call.msg)
  BY <1>1, WalletAssumption DEF IInv, RunsFresh
<1>3. TypeOK'
  <2>1. runs' \in [Tracked -> Nat] /\ ranAt' \in [Tracked -> Nat]
    BY <1>1 DEF IInv, TypeOK
  <2>2. disabledAt' \in Instant \union {Never}
    BY <1>1 DEF IInv, TypeOK
  <2>3. receipts' \subseteq SessionPk
    BY <1>1 DEF IInv, TypeOK, Call
  <2>4. QED
    BY <1>1, <2>1, <2>2, <2>3 DEF IInv, TypeOK
<1>4. UsesAccounted'
  <2>1. ASSUME NEW m \in Tracked, runs'[m] > 0
        PROVE  m.created <= ranAt'[m] /\ Accounts(work.nonces, m.nonce, ranAt'[m])
    <3>1. CASE m = call.msg
      <4>1. ranAt'[m] = block_timestamp.sec
        BY <1>1, <3>1 DEF IInv, TypeOK
      <4>2. QED
        BY <1>1, <1>2, <3>1, <4>1 DEF IInv, UsesAccounted, Fresh
    <3>2. CASE m # call.msg
      <4>1. runs'[m] = runs[m] /\ ranAt'[m] = ranAt[m]
        BY <1>1, <3>2 DEF IInv, TypeOK
      <4>2. QED
        BY <2>1, <4>1 DEF IInv, UsesAccounted
    <3>3. QED
      BY <3>1, <3>2
  <2>2. QED
    BY <1>1, <2>1 DEF IInv, UsesAccounted
<1>5. SessionsBounded'
  <2>1. disabledAt' = Never <=> SignatureAllowed(work)
    <3>1. block_timestamp # Never
      BY <1>1, WalletAssumption
    <3>2. QED
      BY <1>1, <3>1
  <2>2. ASSUME disabledAt' # Never PROVE ExpireBy(work, disabledAt')
    <3>1. CASE disabledAt = Never
      BY <1>1, <2>2, <3>1 DEF IInv, SessionsBounded, ExpireBy
    <3>2. CASE disabledAt # Never
      <4>1. SamePrivileges(work, state) /\ ExpireBy(state, disabledAt)
        BY <1>1, <3>2 DEF IInv, SessionsBounded, WorkFollowsState
      <4>2. disabledAt' = disabledAt
        BY <1>1, <2>2, <3>2
      <4>3. QED
        BY <4>1, <4>2 DEF SamePrivileges, ExpireBy
    <3>3. QED
      BY <3>1, <3>2
  <2>3. QED
    BY <1>1, <2>1, <2>2 DEF IInv, SessionsBounded, ExpireBy
<1>6. KeysPromised'
  <2>1. HaveKeys(work, receipts \union access_keys \union call.keys)
    BY <1>1 DEF IInv, KeysPromised
  <2>2. QED
    BY <1>1, <2>1 DEF KeysPromised, HaveKeys
<1>7. WorkFollowsState' /\ RunsFresh' /\ SessionsDieOut'
  BY <1>1 DEF WorkFollowsState, RunsFresh, Fresh, SessionsDieOut
<1>8. QED
  BY <1>3, <1>4, <1>5, <1>6, <1>7 DEF IInv

LEMMA AddAccessKeyIInv ==
  ASSUME IInv, NEW pk \in receipts, AddAccessKey(pk)
  PROVE  IInv'
<1>1. /\ call = Idle
      /\ receipts' \union access_keys' = receipts \union access_keys
      /\ UNCHANGED <<block_timestamp, state, call, work, runs, ranAt, disabledAt>>
  BY DEF AddAccessKey
<1>2. TypeOK'
  BY DEF IInv, TypeOK, AddAccessKey
<1>3. KeysPromised'
  BY <1>1 DEF IInv, KeysPromised, HaveKeys
<1>4. QED
  BY <1>1, <1>2, <1>3 DEF IInv, WorkFollowsState, UsesAccounted, RunsFresh, Fresh, SessionsBounded,
     SessionsDieOut, ExpireBy

LEMMA StutterIInv == IInv /\ UNCHANGED vars => IInv'
BY DEF IInv, vars, TypeOK, WorkFollowsState, UsesAccounted, RunsFresh, Fresh, SessionsBounded,
       SessionsDieOut, ExpireBy, KeysPromised, HaveKeys

LEMMA NextIInv == IInv /\ [Next]_vars => IInv'
<1> SUFFICES ASSUME IInv, [Next]_vars PROVE IInv'
  OBVIOUS
<1>1. CASE SelfCallPanics
  BY <1>1, PanicIInv DEF SelfCallPanics
<1>2. QED
  BY <1>1, NewBlockIInv, ExecuteSignedIInv, ExecuteSessionIInv, ExecuteExtensionIInv,
     ExecuteOpIInv, FinishIInv, AddAccessKeyIInv, StutterIInv DEF Next

LEMMA SpecIInv == Spec => []IInv
BY InitIInv, NextIInv, PTL DEF Spec

-------------------------------------------------------------------------------
(***************************************************************************)
(* The variables stay in their types: no unparsed key is ever stored.      *)
(***************************************************************************)
THEOREM TypeCorrect == Spec => []TypeOK
<1>1. IInv => TypeOK
  BY DEF IInv
<1>2. QED
  BY <1>1, SpecIInv, PTL

(***************************************************************************)
(* Once signatures are disabled the sessions end within one maximal ttl.   *)
(***************************************************************************)
THEOREM SessionsEnd == Spec => []SessionsDieOut
<1>1. IInv => SessionsDieOut
  BY DEF IInv
<1>2. QED
  BY <1>1, SpecIInv, PTL

(***************************************************************************)
(* A stored session always has its access key, or the receipt that adds it.*)
(***************************************************************************)
THEOREM SessionsKeepAccessKeys == Spec => []SessionsHaveAccessKeys
<1>1. IInv => SessionsHaveAccessKeys
  BY DEF IInv, KeysPromised, HaveKeys, SessionsHaveAccessKeys
<1>2. QED
  BY <1>1, SpecIInv, PTL

(***************************************************************************)
(* The state changes at the end of a call only.                            *)
(***************************************************************************)
LEMMA StateChangesAtFinish ==
  ASSUME IInv, [Next]_vars
  PROVE  state' = state \/ Finish
<1>1. CASE ExecuteOp
  <2>1. TypeOK
    BY DEF IInv
  <2>2. QED
    BY <1>1, <2>1, OpEffect DEF Panic, Proceed
<1>2. QED
  BY <1>1 DEF Next, vars, NewBlock, ExecuteSigned, ExecuteSession, ExecuteExtension, Begin,
     SelfCallPanics, Panic, AddAccessKey

(***************************************************************************)
(* A message that a call ends with is one that ReplayGuard lets execute.   *)
(***************************************************************************)
LEMMA FinishIsAllowed ==
  ASSUME IInv, Finish, call.msg \in Tracked
  PROVE  Guard!Execute(call.msg)
<1> DEFINE m == call.msg
<1>1. /\ call # Idle /\ m # None /\ Fresh(m)
      /\ m.created \in Nat /\ block_timestamp.sec \in Nat
      /\ runs \in [Tracked -> Nat]
  BY WalletAssumption DEF Finish, IInv, RunsFresh, TypeOK, Message, Instant
<1>2. runs[m] = 0
  <2>1. SUFFICES ASSUME runs[m] > 0 PROVE FALSE
    BY <1>1
  <2>2. ranAt[m] \in Nat /\ m.created <= ranAt[m]
    BY <2>1, ExecutedAccounted
  <2>3. ranAt[m] + Timeout < block_timestamp.sec
    BY <1>1, <2>1 DEF Fresh
  <2>4. block_timestamp.sec <= m.created + Timeout
    BY <1>1 DEF Fresh
  <2>5. QED
    BY <1>1, <2>2, <2>3, <2>4, NoncesAssumption
<1>3. /\ runs' = [runs EXCEPT ![m] = 1]
      /\ ranAt' = [ranAt EXCEPT ![m] = block_timestamp.sec]
      /\ block_timestamp' = block_timestamp
  BY <1>1, <1>2 DEF Finish
<1>4. QED
  BY <1>1, <1>2, <1>3 DEF Guard!Execute, Fresh

(***************************************************************************)
(* The contract implements ReplayGuard, whatever its messages, requests,   *)
(* keys and ops: a step of it is a block, the end of a call that executes  *)
(* a message, or nothing that ReplayGuard sees.                            *)
(***************************************************************************)
THEOREM WalletImplementsGuard == Spec => ImplementsReplayGuard
<1>1. Init => Guard!Init
  BY WalletAssumption DEF Init, Guard!Init
<1>2. IInv /\ [Next]_vars => [Guard!Next]_(Guard!vars)
  <2> SUFFICES ASSUME IInv, [Next]_vars PROVE [Guard!Next]_(Guard!vars)
    OBVIOUS
  <2>1. CASE NewBlock
    <3>1. /\ block_timestamp'.sec \in Nat
          /\ block_timestamp.sec <= block_timestamp'.sec
          /\ UNCHANGED <<runs, ranAt>>
      BY <2>1, WalletAssumption DEF NewBlock, NotAfter, IInv, TypeOK, Instant
    <3>2. QED
      BY <3>1 DEF Guard!Next, Guard!NewBlock
  <2>2. CASE Finish
    <3>1. CASE call.msg \in Tracked
      BY <2>2, <3>1, FinishIsAllowed DEF Guard!Next
    <3>2. CASE call.msg \notin Tracked
      BY <2>2, <3>2 DEF Finish, Guard!vars
    <3>3. QED
      BY <3>1, <3>2
  <2>3. CASE ExecuteOp
    <3>1. TypeOK
      BY DEF IInv
    <3>2. QED
      BY <2>3, <3>1, OpEffect DEF Panic, Proceed, Guard!vars
  <2>4. CASE ~(NewBlock \/ Finish \/ ExecuteOp)
    BY <2>4 DEF Next, vars, ExecuteSigned, ExecuteSession, ExecuteExtension, Begin,
                SelfCallPanics, Panic, AddAccessKey, Guard!vars
  <2>5. QED
    BY <2>1, <2>2, <2>3, <2>4
<1>3. QED
  BY <1>1, <1>2, SpecIInv, PTL DEF Spec, ImplementsReplayGuard, Guard!Spec

(***************************************************************************)
(* No order of ops, by any actor, locks out a wallet that could be used.   *)
(***************************************************************************)
THEOREM WalletIsNeverLockedOut == Spec => NeverLockedOut
<1>1. IInv /\ [Next]_vars => [~LockedOut(state) => ~LockedOut(state')]_vars
  <2> SUFFICES ASSUME IInv, [Next]_vars, ~LockedOut(state) PROVE ~LockedOut(state')
    OBVIOUS
  <2>1. CASE Finish
    BY <2>1 DEF Finish, IInv, WorkFollowsState
  <2>2. QED
    BY <2>1, StateChangesAtFinish
<1>2. QED
  BY <1>1, SpecIInv, PTL DEF Spec, NeverLockedOut

(***************************************************************************)
(* Nobody can enable signatures again once they are not allowed.           *)
(***************************************************************************)
THEOREM DisablingIsFinal == Spec => DisableIsFinal
<1>1. IInv /\ [Next]_vars => [~SignatureAllowed(state) => ~SignatureAllowed(state')]_vars
  <2> SUFFICES ASSUME IInv, [Next]_vars, ~SignatureAllowed(state)
               PROVE  ~SignatureAllowed(state')
    OBVIOUS
  <2>1. CASE Finish
    BY <2>1 DEF Finish, IInv, WorkFollowsState, SamePrivileges, LockedOut, SignatureAllowed
  <2>2. QED
    BY <2>1, StateChangesAtFinish
<1>2. QED
  BY <1>1, SpecIInv, PTL DEF Spec, DisableIsFinal

(***************************************************************************)
(* The mode, the backup key and the sessions are the owner's to change.    *)
(***************************************************************************)
THEOREM PrivilegesNeedSignature == Spec => PrivilegedStateNeedsSignature
<1> DEFINE Changed == \/ state'.signature_enabled # state.signature_enabled
                      \/ state'.backup_key # state.backup_key
                      \/ state'.session_keys # state.session_keys
<1>1. IInv /\ [Next]_vars =>
        [Changed => call.actor = "SignedRequest" /\ SignatureAllowed(state)]_vars
  <2> SUFFICES ASSUME IInv, [Next]_vars, Changed
               PROVE  call.actor = "SignedRequest" /\ SignatureAllowed(state)
    OBVIOUS
  <2>1. Finish
    BY StateChangesAtFinish
  <2>2. QED
    BY <2>1 DEF Finish, IInv, WorkFollowsState, SamePrivileges
<1>2. QED
  BY <1>1, SpecIInv, PTL DEF Spec, PrivilegedStateNeedsSignature
===============================================================================
