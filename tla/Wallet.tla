-------------------------------- MODULE Wallet --------------------------------
(***************************************************************************)
(* The wallet contract (wallet-contract/src/contract/mod.rs and state.rs). *)
(*                                                                         *)
(* Three kinds of actor execute requests: the owner with a passkey         *)
(* signature, a session key, and an enabled extension.  A request is a     *)
(* list of wallet ops followed by an outgoing promise.  A call to the      *)
(* contract is modelled as the code runs it: the checks and the commit of  *)
(* the nonce, one step per op on a working copy of the state, and the end, *)
(* where the working copy is written back.  No call begins before the last *)
(* one has ended.  The error of any step makes the contract panic, and the *)
(* runtime drops the working copy and every promise of the call.           *)
(*                                                                         *)
(* A signature is modelled by the key that made it.                        *)
(***************************************************************************)
EXTENDS Nonces, Sequences

CONSTANTS
  Account,        \* account ids: callers, and extensions once added
  SessionId,      \* the ids that CreateSession gives to session keys
  SessionPk,      \* session public keys that decode_near_ed25519_public_key accepts
  BadPk,          \* a public key that no parser accepts
  Passkey,        \* public keys of the signing standard
  Primary,        \* the one the wallet was deployed for
  MaxSessionTtl,  \* MAX_SESSION_TTL_SECS
  ChainId,        \* the chain this contract runs on
  Self,           \* the account this contract runs on
  Messages,       \* the request messages that anyone may submit
  Requests,       \* the requests that extensions may submit
  Tracked,        \* bound: the messages whose executions the history counts
  None,           \* no backup key, no message, or a signature of no known key
  NoSession,      \* no session key under an id
  Never,          \* no time
  Idle,           \* no call is running
  Genesis,        \* the second of the first block
  MaxTime         \* bound: the second after which TLC makes no more blocks

\* A CreateSession or SetBackupKey op may carry any string as its public key.
WalletOp ==
  [op : {"SetSignatureMode"}, enable : BOOLEAN]
    \union [op : {"AddExtension", "RemoveExtension"}, account_id : Account]
    \union [op : {"CreateSession"}, session_key_id : SessionId,
            public_key : SessionPk \union {BadPk}, ttl_secs : Nat]
    \union [op : {"RevokeSession"}, session_key_id : SessionId]
    \union [op : {"SetBackupKey"}, public_key : Passkey \union {BadPk}]
    \union [op : {"RevokeAllSessions", "RemoveBackupKey", "Custom"}]

\* out: no promise to build, promises to other accounts, or one to this account
Request == [ops : Seq(WalletOp), out : {"empty", "calls", "self_call"}]

\* chain_id and signer_id take any value; created is created_at as it is signed, in seconds
Message ==
  [chain_id : {ChainId, "other"}, signer_id : Account, nonce : Nonce, created : Nat,
   timeout : Nat, request : Request]

ASSUME WalletAssumption ==
  /\ Primary \in Passkey
  /\ None \notin Passkey \union SessionPk \union Messages
  /\ BadPk \notin Passkey \union SessionPk
  /\ MaxSessionTtl \in Nat
  /\ Messages \subseteq Message
  /\ Requests \subseteq Request
  /\ Tracked \subseteq Messages
  /\ Self \in Account
  /\ Never \notin Instant
  /\ Genesis \in Nat
  /\ MaxTime \in Nat

\* the instant that many seconds after t
Later(t, secs) == [sec |-> t.sec + secs, sub |-> t.sub]

SessionKey == [public_key : SessionPk, created_at : Instant, expires_at : Instant]

ASSUME NoSessionAssumption == NoSession \notin SessionKey

\* State without the constant public_key and wallet_id; a map is total, with NoSession
State ==
  [signature_enabled : BOOLEAN,
   backup_key        : Passkey \union {None},
   nonces            : NonceStore,
   extensions        : SUBSET Account,
   session_keys      : [SessionId -> SessionKey \union {NoSession}]]

Actor == {"SignedRequest", "Extension", "Session"}

\* by: the session key id of a Session; left: the ops still to execute; msg: the signed
\* message of the call, if it has one; keys: the access keys its promises will add
Call ==
  [actor : Actor, by : SessionId \union {NoSession}, left : Seq(WalletOp),
   out : {"empty", "calls", "self_call"}, msg : Messages \union {None},
   keys : SUBSET SessionPk]

ASSUME IdleAssumption == Idle \notin Call

VARIABLES
  block_timestamp,  \* env::block_timestamp()
  state,            \* the contract's state in storage
  call,             \* the running call, or Idle
  work,             \* the running call's copy of the state
  receipts,         \* AddKey receipts that are not applied yet
  access_keys,      \* the FunctionCall access keys of the account
  runs,             \* history: how often each message has executed, by whichever path
  ranAt,            \* history: the second it last did
  disabledAt        \* history: the instant since when signatures are not allowed

vars ==
  <<block_timestamp, state, call, work, receipts, access_keys, runs, ranAt, disabledAt>>

-------------------------------------------------------------------------------
(***************************************************************************)
(* State::is_signature_allowed and Contract::check_lockout.                *)
(***************************************************************************)
SignatureAllowed(s) == s.signature_enabled \/ s.extensions = {}

LockedOut(s) == ~s.signature_enabled /\ s.extensions = {}

(***************************************************************************)
(* A StateInit may hold any State::new(...).extensions(...), with the      *)
(* public field signature_enabled of either value.                         *)
(***************************************************************************)
NewState(enabled, extensions) ==
  [signature_enabled |-> enabled,
   backup_key        |-> None,
   nonces            |-> NewNonces,
   extensions        |-> extensions,
   session_keys      |-> [id \in SessionId |-> NoSession]]

Init ==
  /\ block_timestamp = [sec |-> Genesis, sub |-> 0]
  /\ \E enabled \in BOOLEAN, extensions \in SUBSET Account :
       state = NewState(enabled, extensions)
  /\ call = Idle
  /\ work = state
  /\ receipts = {}
  /\ access_keys = {}
  /\ runs = [m \in Tracked |-> 0]
  /\ ranAt = [m \in Tracked |-> 0]
  /\ disabledAt = IF SignatureAllowed(state) THEN Never ELSE block_timestamp

NewBlock ==
  /\ call = Idle
  /\ \E t \in [sec : 0..MaxTime, sub : 0..SubMax] :
       /\ NotAfter(block_timestamp, t)
       /\ block_timestamp' = t
  /\ UNCHANGED <<state, call, work, receipts, access_keys, runs, ranAt, disabledAt>>

-------------------------------------------------------------------------------
(***************************************************************************)
(* The checks of the entry points, in the order the code makes them.       *)
(***************************************************************************)
MessageError(m, sub) ==
  IF m.chain_id # ChainId THEN "InvalidChainId"
  ELSE IF m.signer_id # Self THEN "InvalidSignerId"
  ELSE CommitError(state.nonces, block_timestamp, m.nonce, [sec |-> m.created, sub |-> sub],
                   m.timeout)

\* mutant: a disabled signature is still verified
SignedError_IgnoresMode(m, sub, signer) ==
  IF MessageError(m, sub) # "Ok" THEN MessageError(m, sub)
  ELSE IF signer \notin {Primary, state.backup_key} \ {None} THEN "InvalidSignature"
  ELSE "Ok"

SignedError(m, sub, signer) ==
  IF ~SignatureAllowed(state) THEN "SignatureDisabled"
  ELSE IF MessageError(m, sub) # "Ok" THEN MessageError(m, sub)
  ELSE IF signer \notin {Primary, state.backup_key} \ {None} THEN "InvalidSignature"
  ELSE "Ok"

ExtensionError(caller, deposit) ==
  IF ~deposit THEN "InsufficientDeposit"
  ELSE IF caller \notin state.extensions THEN "ExtensionNotEnabled"
  ELSE "Ok"

SessionOps == {"AddExtension", "RemoveExtension", "Custom"}

\* mutant: a session key is accepted at the very instant at which it expires
SessionError_AtExpiry(m, sub, id, signer) ==
  LET key == state.session_keys[id] IN
    IF key = NoSession THEN "SessionKeyNotFound"
    ELSE IF ~NotAfter(block_timestamp, key.expires_at) THEN "SessionKeyExpired"
    ELSE IF MessageError(m, sub) # "Ok" THEN MessageError(m, sub)
    ELSE IF signer # key.public_key THEN "InvalidSignature"
    ELSE IF \E i \in DOMAIN m.request.ops : m.request.ops[i].op \notin SessionOps
         THEN "SessionOpNotAllowed"
    ELSE "Ok"

SessionError(m, sub, id, signer) ==
  LET key == state.session_keys[id] IN
    IF key = NoSession THEN "SessionKeyNotFound"
    ELSE IF NotAfter(key.expires_at, block_timestamp) THEN "SessionKeyExpired"
    ELSE IF MessageError(m, sub) # "Ok" THEN MessageError(m, sub)
    ELSE IF signer # key.public_key THEN "InvalidSignature"
    ELSE IF \E i \in DOMAIN m.request.ops : m.request.ops[i].op \notin SessionOps
         THEN "SessionOpNotAllowed"
    ELSE "Ok"

Begin(actor, by, request, msg, nonces) ==
  /\ call' = [actor |-> actor, by |-> by, left |-> request.ops, out |-> request.out,
              msg |-> msg, keys |-> {}]
  /\ work' = [state EXCEPT !.nonces = nonces]
  /\ UNCHANGED <<block_timestamp, state, receipts, access_keys, runs, ranAt, disabledAt>>

ExecuteSigned(m, sub, signer) ==
  /\ call = Idle
  /\ SignedError(m, sub, signer) = "Ok"
  /\ Begin("SignedRequest", NoSession, m.request, m,
           Commit(state.nonces, block_timestamp, m.nonce))

ExecuteExtension(caller, deposit, request) ==
  /\ call = Idle
  /\ ExtensionError(caller, deposit) = "Ok"
  /\ Begin("Extension", NoSession, request, None,
           CheckCleanup(state.nonces, block_timestamp))

\* mutant: the session path checks the nonce and does not commit it
ExecuteSession_NoCommit(m, sub, id, signer) ==
  /\ call = Idle
  /\ SessionError(m, sub, id, signer) = "Ok"
  /\ Begin("Session", id, m.request, m, CheckCleanup(state.nonces, block_timestamp))

ExecuteSession(m, sub, id, signer) ==
  /\ call = Idle
  /\ SessionError(m, sub, id, signer) = "Ok"
  /\ Begin("Session", id, m.request, m, Commit(state.nonces, block_timestamp, m.nonce))

-------------------------------------------------------------------------------
(***************************************************************************)
(* The ops: what each one returns to the actor, and what it does to the    *)
(* working copy when it returns Ok.                                        *)
(***************************************************************************)
NextOpIs(name) == call # Idle /\ call.left # <<>> /\ Head(call.left).op = name

Panic ==
  /\ call' = Idle
  /\ work' = state
  /\ UNCHANGED <<block_timestamp, state, receipts, access_keys, runs, ranAt, disabledAt>>

\* mutant: only the promise of the last op is kept
Proceed_LastPromise(next, keys) ==
  /\ work' = next
  /\ call' = [call EXCEPT !.left = Tail(@), !.keys = keys]
  /\ UNCHANGED <<block_timestamp, state, receipts, access_keys, runs, ranAt, disabledAt>>

Proceed(next, keys) ==
  /\ work' = next
  /\ call' = [call EXCEPT !.left = Tail(@), !.keys = @ \union keys]
  /\ UNCHANGED <<block_timestamp, state, receipts, access_keys, runs, ranAt, disabledAt>>

\* execute_op lets only a signed request through to all but the extension ops
\* mutant: extensions are let through too
IfSigned_OrExtension(error) ==
  IF call.actor = "Session" THEN "SessionOpNotAllowed" ELSE error

IfSigned(error) ==
  IF call.actor # "SignedRequest" THEN "SessionOpNotAllowed" ELSE error

CheckLockout(s) == IF LockedOut(s) THEN "Lockout" ELSE "Ok"

SetSignatureMode ==
  LET op    == Head(call.left)
      next  == [work EXCEPT !.signature_enabled = op.enable]
      error == IfSigned(IF work.signature_enabled = op.enable
                        THEN "ThisSignatureModeAlreadySet" ELSE CheckLockout(next))
  IN /\ NextOpIs("SetSignatureMode")
     /\ IF error = "Ok" THEN Proceed(next, {}) ELSE Panic

AddExtension ==
  LET op    == Head(call.left)
      error == IF op.account_id \in work.extensions THEN "ExtensionEnabled" ELSE "Ok"
  IN /\ NextOpIs("AddExtension")
     /\ IF error = "Ok"
        THEN Proceed([work EXCEPT !.extensions = @ \union {op.account_id}], {})
        ELSE Panic

\* mutant: no check for lockout
RemoveExtension_Unchecked ==
  LET op == Head(call.left) IN
    /\ NextOpIs("RemoveExtension")
    /\ IF op.account_id \in work.extensions
       THEN Proceed([work EXCEPT !.extensions = @ \ {op.account_id}], {})
       ELSE Panic

RemoveExtension ==
  LET op    == Head(call.left)
      next  == [work EXCEPT !.extensions = @ \ {op.account_id}]
      error == IF op.account_id \notin work.extensions THEN "ExtensionNotEnabled"
               ELSE CheckLockout(next)
  IN /\ NextOpIs("RemoveExtension")
     /\ IF error = "Ok" THEN Proceed(next, {}) ELSE Panic

CreateSession ==
  LET op    == Head(call.left)
      now   == block_timestamp
      key   == [public_key |-> op.public_key, created_at |-> now,
                expires_at |-> Later(now, op.ttl_secs)]
      error == IfSigned(IF op.ttl_secs > MaxSessionTtl THEN "SessionTtlTooLong"
                        ELSE IF op.public_key \notin SessionPk THEN "InvalidSessionKey"
                        ELSE IF work.session_keys[op.session_key_id] # NoSession
                             THEN "SessionKeyAlreadyExists"
                        ELSE "Ok")
  IN /\ NextOpIs("CreateSession")
     /\ IF error = "Ok"
        THEN Proceed([work EXCEPT !.session_keys[op.session_key_id] = key], {op.public_key})
        ELSE Panic

RevokeSession ==
  LET op    == Head(call.left)
      error == IfSigned(IF work.session_keys[op.session_key_id] = NoSession
                        THEN "SessionKeyNotFound" ELSE "Ok")
  IN /\ NextOpIs("RevokeSession")
     /\ IF error = "Ok"
        THEN Proceed([work EXCEPT !.session_keys[op.session_key_id] = NoSession], {})
        ELSE Panic

RevokeAllSessions ==
  /\ NextOpIs("RevokeAllSessions")
  /\ IF IfSigned("Ok") = "Ok"
     THEN Proceed([work EXCEPT !.session_keys = [id \in SessionId |-> NoSession]], {})
     ELSE Panic

\* mutant: the key is stored without being parsed
SetBackupKey_Unparsed ==
  LET op == Head(call.left) IN
    /\ NextOpIs("SetBackupKey")
    /\ IF IfSigned("Ok") = "Ok" /\ work.backup_key = None
       THEN Proceed([work EXCEPT !.backup_key = op.public_key], {})
       ELSE Panic

SetBackupKey ==
  LET op    == Head(call.left)
      error == IfSigned(IF work.backup_key # None THEN "BackupKeyAlreadySet"
                        ELSE IF op.public_key \notin Passkey THEN "InvalidSignature"
                        ELSE "Ok")
  IN /\ NextOpIs("SetBackupKey")
     /\ IF error = "Ok" THEN Proceed([work EXCEPT !.backup_key = op.public_key], {}) ELSE Panic

RemoveBackupKey ==
  LET error == IfSigned(IF work.backup_key = None THEN "NoBackupKeySet" ELSE "Ok")
  IN /\ NextOpIs("RemoveBackupKey")
     /\ IF error = "Ok" THEN Proceed([work EXCEPT !.backup_key = None], {}) ELSE Panic

\* "custom ops are not supported"
Custom == NextOpIs("Custom") /\ Panic

ExecuteOp ==
  \/ SetSignatureMode \/ AddExtension \/ RemoveExtension
  \/ CreateSession \/ RevokeSession \/ RevokeAllSessions
  \/ SetBackupKey \/ RemoveBackupKey \/ Custom

(***************************************************************************)
(* The end of a call: the promise of the request is built, which panics on *)
(* a call to the wallet itself, and the working copy becomes the state.    *)
(***************************************************************************)
Finish ==
  /\ call # Idle
  /\ call.left = <<>>
  /\ call.out # "self_call"
  /\ state' = work
  /\ call' = Idle
  /\ receipts' = receipts \union call.keys
  /\ IF call.msg \in Tracked
     THEN /\ runs' = [runs EXCEPT ![call.msg] = @ + 1]
          /\ ranAt' = [ranAt EXCEPT ![call.msg] = block_timestamp.sec]
     ELSE UNCHANGED <<runs, ranAt>>
  /\ disabledAt' = IF SignatureAllowed(work) THEN Never
                   ELSE IF disabledAt = Never THEN block_timestamp ELSE disabledAt
  /\ UNCHANGED <<block_timestamp, work, access_keys>>

SelfCallPanics ==
  /\ call # Idle
  /\ call.left = <<>>
  /\ call.out = "self_call"
  /\ Panic

\* The receipt of create_session's promise: a later one, in a block of its own choosing
AddAccessKey(pk) ==
  /\ call = Idle
  /\ receipts' = receipts \ {pk}
  /\ access_keys' = access_keys \union {pk}
  /\ UNCHANGED <<block_timestamp, state, call, work, runs, ranAt, disabledAt>>

Next ==
  \/ NewBlock
  \/ \E m \in Messages, sub \in 0..SubMax :
       \/ \E signer \in Passkey \union {None} : ExecuteSigned(m, sub, signer)
       \/ \E id \in SessionId, signer \in SessionPk \union {None} :
            ExecuteSession(m, sub, id, signer)
  \/ \E caller \in Account, deposit \in BOOLEAN, request \in Requests :
       ExecuteExtension(caller, deposit, request)
  \/ ExecuteOp
  \/ Finish
  \/ SelfCallPanics
  \/ \E pk \in receipts : AddAccessKey(pk)

Spec == Init /\ [][Next]_vars

-------------------------------------------------------------------------------
\* Every variable stays in its type; in particular no unparsed key is ever stored.
TypeOK ==
  /\ block_timestamp \in Instant
  /\ state \in State
  /\ call \in Call \union {Idle}
  /\ work \in State
  /\ receipts \subseteq SessionPk
  /\ access_keys \subseteq SessionPk
  /\ runs \in [Tracked -> Nat]
  /\ ranAt \in [Tracked -> Nat]
  /\ disabledAt \in Instant \union {Never}

Guard == INSTANCE ReplayGuard WITH now <- block_timestamp.sec, Signed <- Tracked

\* The contract as a whole keeps the promise of ReplayGuard: the signed and the session path
\* share one nonce space, and no op, panic or call of an extension between two submissions
\* lets a message execute again (execute_signed and execute_session commit before they verify).
ImplementsReplayGuard == Guard!Spec

\* A wallet that its owner or an extension can use is never left with neither
\* (check_lockout after set_signature_mode and remove_extension, for every op order).
NeverLockedOut == [][~LockedOut(state) => ~LockedOut(state')]_vars

\* Once signatures are not allowed, no sequence of calls by extensions and sessions brings
\* them back: enabling them takes a signature, and the last extension cannot go.
DisableIsFinal == [][~SignatureAllowed(state) => ~SignatureAllowed(state')]_vars

\* The signature mode, the backup key and the session keys change only at the end of a
\* signed request, and only in a wallet that allows signatures.
PrivilegedStateNeedsSignature ==
  [][\/ state'.signature_enabled # state.signature_enabled
     \/ state'.backup_key # state.backup_key
     \/ state'.session_keys # state.session_keys
     => call.actor = "SignedRequest" /\ SignatureAllowed(state)]_vars

\* The sessions that nobody can revoke any more die out: none executes anything when
\* MaxSessionTtl has passed since signatures were disabled, to the nanosecond, also if it was
\* created with the longest time to live by the request that disabled them.
SessionsDieOut ==
  call # Idle /\ disabledAt # Never =>
    (call.actor = "Session" => ~NotAfter(Later(disabledAt, MaxSessionTtl), block_timestamp))

\* The key of every stored session is an access key of the account or about to be, also
\* when a request creates several sessions or replaces one (create_session's promise).
SessionsHaveAccessKeys ==
  \A id \in SessionId :
    state.session_keys[id] # NoSession =>
      state.session_keys[id].public_key \in receipts \union access_keys
===============================================================================
