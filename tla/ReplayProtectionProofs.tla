------------------------ MODULE ReplayProtectionProofs ------------------------
(***************************************************************************)
(* The properties of ReplayProtection for every set of nonces and requests,*)
(* every timeout (zero included) and every sequence of blocks.             *)
(*                                                                         *)
(* The inductive invariant ties the history to the bitmaps: each execution *)
(* is accounted for by a bit, or is more than a timeout older than the     *)
(* last rotation; and each bit has an execution that set it, recent enough *)
(* for the bitmap it is in.                                                *)
(***************************************************************************)
EXTENDS ReplayProtection, NoncesProofs

\* every request that executed did so while valid, and the store accounts for it
ExecutionsAccounted ==
  \A m \in Signed : runs[m] > 0 =>
    /\ m.created <= ranAt[m]
    /\ ranAt[m] <= m.created + Timeout
    /\ ranAt[m] <= block_timestamp.sec
    /\ Accounts(store, m.nonce, ranAt[m])

\* every stored bit was set by a request, since the last rotation or since the one before
BitsJustified ==
  /\ \A n \in store.nonces : \E m \in Signed :
       m.nonce = n /\ runs[m] > 0 /\ store.last_cleaned_at <= ranAt[m]
  /\ \A n \in store.old_nonces : \E m \in Signed :
       m.nonce = n /\ runs[m] > 0 /\ store.last_cleaned_at - 2 * Timeout <= ranAt[m]

IInv ==
  /\ TypeOK
  /\ store.last_cleaned_at <= block_timestamp.sec
  /\ AtMostOnce
  /\ NonceExclusive
  /\ ExecutionsAccounted
  /\ BitsJustified

LEMMA InitIInv == Init => IInv
BY NoncesAssumption, ReplayAssumption
   DEF Init, IInv, TypeOK, Instant, NonceStore, NewNonces, AtMostOnce, NonceExclusive,
       ExecutionsAccounted, BitsJustified

(***************************************************************************)
(* In a state of IInv a request that passes Nonces::commit has not executed*)
(* before, and no request with its nonce has within the last timeout: the  *)
(* guard of ReplayGuard!Execute.                                           *)
(***************************************************************************)
LEMMA ExecuteIsAllowed ==
  ASSUME IInv, NEW m \in Signed, NEW sub \in 0..SubMax, Execute(m, sub)
  PROVE  /\ runs[m] = 0
         /\ m.created <= block_timestamp.sec
         /\ block_timestamp.sec <= m.created + Timeout
         /\ block_timestamp.sec <= m.created + m.timeout
         /\ \A k \in Signed : k.nonce = m.nonce /\ runs[k] > 0
              => ranAt[k] + Timeout < block_timestamp.sec
<1> DEFINE c == [sec |-> m.created, sub |-> sub]
<1>1. /\ block_timestamp \in Instant /\ store \in NonceStore
      /\ store.last_cleaned_at <= block_timestamp.sec
      /\ runs \in [Signed -> Nat] /\ ranAt \in [Signed -> Nat]
  BY DEF IInv, TypeOK
<1>2. m.nonce \in Nonce /\ m.created \in Nat /\ m.timeout \in Nat /\ c \in Instant
  BY ReplayAssumption DEF Instant
<1>3. CommitError(store, block_timestamp, m.nonce, c, m.timeout) = "Ok"
  BY DEF Execute
<1>4. /\ m.created <= block_timestamp.sec
      /\ block_timestamp.sec <= m.created + Timeout
      /\ block_timestamp.sec <= m.created + m.timeout
  <2>1. /\ c.sec <= block_timestamp.sec
        /\ block_timestamp.sec <= c.sec + Timeout
        /\ block_timestamp.sec <= c.sec + m.timeout
    <3> HIDE DEF c
    <3> QED  BY <1>1, <1>2, <1>3, CommitIsTimely
  <2>2. QED
    BY <2>1
<1>5. ASSUME NEW k \in Signed, k.nonce = m.nonce, runs[k] > 0
      PROVE  ranAt[k] + Timeout < block_timestamp.sec
  <2>1. Accounts(store, m.nonce, ranAt[k]) /\ ranAt[k] \in Nat
    BY <1>1, <1>5 DEF IInv, ExecutionsAccounted
  <2>2. QED
    <3> HIDE DEF c
    <3> QED  BY <1>1, <1>2, <1>3, <2>1, CommitIsFresh
<1>6. runs[m] = 0
  <2>1. SUFFICES ASSUME runs[m] > 0 PROVE FALSE
    BY <1>1
  <2>2. ranAt[m] + Timeout < block_timestamp.sec
    BY <2>1, <1>5
  <2>3. m.created <= ranAt[m]
    BY <2>1 DEF IInv, ExecutionsAccounted
  <2>4. QED
    BY <1>1, <1>2, <1>4, <2>2, <2>3, NoncesAssumption DEF Instant
<1>7. QED
  BY <1>4, <1>5, <1>6

(***************************************************************************)
(* The cleanup keeps every bit justified, whether it rotates or not.       *)
(***************************************************************************)
LEMMA CleanupJustified ==
  ASSUME IInv, NEW s, s = CheckCleanup(store, block_timestamp)
  PROVE  /\ \A n \in s.nonces : \E m \in Signed :
              m.nonce = n /\ runs[m] > 0 /\ s.last_cleaned_at <= ranAt[m]
         /\ \A n \in s.old_nonces : \E m \in Signed :
              m.nonce = n /\ runs[m] > 0 /\ s.last_cleaned_at - 2 * Timeout <= ranAt[m]
<1>1. /\ store \in NonceStore /\ block_timestamp \in Instant
      /\ runs \in [Signed -> Nat] /\ ranAt \in [Signed -> Nat]
      /\ BitsJustified
  BY DEF IInv, TypeOK
<1>2. CASE store.last_cleaned_at < block_timestamp.sec - Timeout
  <2>1. /\ s.nonces = {}
        /\ s.last_cleaned_at = block_timestamp.sec
        /\ s.old_nonces \subseteq store.nonces
        /\ s.old_nonces # {} => block_timestamp.sec - 2 * Timeout <= store.last_cleaned_at
    BY <1>1, <1>2, NoncesAssumption DEF CheckCleanup, NonceStore, Instant
  <2>2. QED
    BY <1>1, <2>1, NoncesAssumption DEF BitsJustified, NonceStore, Instant
<1>3. CASE ~(store.last_cleaned_at < block_timestamp.sec - Timeout)
  <2>1. s = store
    BY <1>3 DEF CheckCleanup
  <2>2. QED
    BY <1>1, <2>1 DEF BitsJustified
<1>4. QED
  BY <1>2, <1>3

LEMMA NewBlockIInv == IInv /\ NewBlock => IInv'
<1> SUFFICES ASSUME IInv, NewBlock PROVE IInv'
  OBVIOUS
<1>1. /\ block_timestamp \in Instant /\ block_timestamp' \in Instant
      /\ block_timestamp.sec <= block_timestamp'.sec
      /\ UNCHANGED <<store, runs, ranAt>>
  BY ReplayAssumption DEF IInv, TypeOK, NewBlock, NotAfter, Instant
<1>2. TypeOK' /\ (store.last_cleaned_at <= block_timestamp.sec)'
  BY <1>1 DEF IInv, TypeOK, NonceStore, Instant
<1>3. AtMostOnce' /\ NonceExclusive' /\ BitsJustified'
  BY <1>1 DEF IInv, AtMostOnce, NonceExclusive, BitsJustified
<1>4. ExecutionsAccounted'
  BY <1>1 DEF IInv, TypeOK, ExecutionsAccounted, Accounts, Instant
<1>5. QED
  BY <1>2, <1>3, <1>4 DEF IInv

LEMMA CleanupIInv == IInv /\ Cleanup => IInv'
<1> SUFFICES ASSUME IInv, Cleanup PROVE IInv'
  OBVIOUS
<1>1. /\ block_timestamp \in Instant /\ store \in NonceStore
      /\ store.last_cleaned_at <= block_timestamp.sec
      /\ runs \in [Signed -> Nat] /\ ranAt \in [Signed -> Nat]
      /\ store' = CheckCleanup(store, block_timestamp)
      /\ UNCHANGED <<block_timestamp, runs, ranAt>>
  BY DEF IInv, TypeOK, Cleanup
<1>2. TypeOK' /\ (store.last_cleaned_at <= block_timestamp.sec)'
  BY <1>1, CleanupStore DEF TypeOK
<1>3. AtMostOnce' /\ NonceExclusive'
  BY <1>1 DEF IInv, AtMostOnce, NonceExclusive
<1>4. ExecutionsAccounted'
  <2>1. ASSUME NEW m \in Signed, runs[m] > 0
        PROVE  Accounts(store', m.nonce, ranAt[m])
    <3>1. Accounts(store, m.nonce, ranAt[m]) /\ m.nonce \in Nonce /\ ranAt[m] \in Nat
      BY <1>1, <2>1, ReplayAssumption DEF IInv, ExecutionsAccounted
    <3>2. QED
      BY <1>1, <3>1, CleanupAccounts
  <2>2. QED
    BY <1>1, <2>1 DEF IInv, ExecutionsAccounted
<1>5. BitsJustified'
  BY <1>1, CleanupJustified DEF BitsJustified
<1>6. QED
  BY <1>2, <1>3, <1>4, <1>5 DEF IInv

LEMMA ExecuteIInv ==
  ASSUME IInv, NEW m \in Signed, NEW sub \in 0..SubMax, Execute(m, sub)
  PROVE  IInv'
<1> DEFINE now == block_timestamp.sec
<1>1. /\ block_timestamp \in Instant /\ store \in NonceStore /\ now \in Nat
      /\ store.last_cleaned_at <= now
      /\ runs \in [Signed -> Nat] /\ ranAt \in [Signed -> Nat]
      /\ m.nonce \in Nonce /\ m.created \in Nat
  BY ReplayAssumption DEF IInv, TypeOK, Instant
<1>2. /\ store' = Commit(store, block_timestamp, m.nonce)
      /\ runs' = [runs EXCEPT ![m] = @ + 1]
      /\ ranAt' = [ranAt EXCEPT ![m] = now]
      /\ UNCHANGED block_timestamp
  BY DEF Execute
<1>3. /\ runs[m] = 0
      /\ m.created <= now /\ now <= m.created + Timeout
      /\ \A k \in Signed : k.nonce = m.nonce /\ runs[k] > 0 => ranAt[k] + Timeout < now
  BY ExecuteIsAllowed
<1>4. TypeOK' /\ (store.last_cleaned_at <= block_timestamp.sec)'
  BY <1>1, <1>2, CommitStore, CleanupStore DEF TypeOK
<1>5. AtMostOnce'
  BY <1>1, <1>2, <1>3 DEF IInv, AtMostOnce
<1>6. NonceExclusive'
  BY <1>1, <1>2, <1>3 DEF IInv, NonceExclusive
<1>7. ExecutionsAccounted'
  <2>1. ASSUME NEW k \in Signed, runs'[k] > 0
        PROVE  /\ k.created <= ranAt'[k]
               /\ ranAt'[k] <= k.created + Timeout
               /\ ranAt'[k] <= now
               /\ Accounts(store', k.nonce, ranAt'[k])
    <3>1. CASE k = m
      <4>1. ranAt'[k] = now /\ Accounts(store', m.nonce, now)
        BY <1>1, <1>2, <3>1, CommitAccounts
      <4>2. QED
        BY <1>1, <1>3, <3>1, <4>1
    <3>2. CASE k # m
      <4>1. /\ runs[k] > 0 /\ ranAt'[k] = ranAt[k]
            /\ ranAt[k] \in Nat /\ k.nonce \in Nonce
        BY <1>1, <1>2, <2>1, <3>2, ReplayAssumption
      <4>2. Accounts(store, k.nonce, ranAt[k])
        BY <4>1 DEF IInv, ExecutionsAccounted
      <4>3. Accounts(store', k.nonce, ranAt[k])
        BY <1>1, <1>2, <4>1, <4>2, CommitAccounts
      <4>4. QED
        BY <4>1, <4>3 DEF IInv, ExecutionsAccounted
    <3>3. QED
      BY <3>1, <3>2
  <2>2. QED
    BY <1>2, <2>1 DEF ExecutionsAccounted
<1>8. BitsJustified'
  <2> DEFINE s == CheckCleanup(store, block_timestamp)
  <2>1. /\ store'.last_cleaned_at = s.last_cleaned_at
        /\ store'.old_nonces = s.old_nonces
        /\ store'.nonces = s.nonces \union {m.nonce}
        /\ s.last_cleaned_at \in Nat /\ s.last_cleaned_at <= now
    BY <1>1, <1>2, CommitStore, CleanupStore DEF NonceStore
  <2>2. \A k \in Signed : runs[k] > 0 => runs'[k] > 0 /\ ranAt'[k] = ranAt[k]
    BY <1>1, <1>2, <1>3
  <2>3. runs'[m] > 0 /\ ranAt'[m] = now
    BY <1>1, <1>2
  <2>4. /\ \A n \in s.nonces : \E k \in Signed :
             k.nonce = n /\ runs[k] > 0 /\ s.last_cleaned_at <= ranAt[k]
        /\ \A n \in s.old_nonces : \E k \in Signed :
             k.nonce = n /\ runs[k] > 0 /\ s.last_cleaned_at - 2 * Timeout <= ranAt[k]
    BY CleanupJustified
  <2> HIDE DEF s
  <2>5. QED
    BY <2>1, <2>2, <2>3, <2>4 DEF BitsJustified
<1>9. QED
  BY <1>4, <1>5, <1>6, <1>7, <1>8 DEF IInv

LEMMA NextIInv == IInv /\ [Next]_vars => IInv'
<1> SUFFICES ASSUME IInv, [Next]_vars PROVE IInv'
  OBVIOUS
<1>1. CASE NewBlock
  BY <1>1, NewBlockIInv
<1>2. ASSUME NEW m \in Signed, NEW sub \in 0..SubMax, Execute(m, sub) PROVE IInv'
  BY <1>2, ExecuteIInv
<1>3. CASE Cleanup
  BY <1>3, CleanupIInv
<1>4. CASE UNCHANGED vars
  BY <1>4 DEF vars, IInv, TypeOK, AtMostOnce, NonceExclusive, ExecutionsAccounted,
              BitsJustified, Accounts
<1>5. QED
  BY <1>1, <1>2, <1>3, <1>4 DEF Next

LEMMA SpecIInv == Spec => []IInv
BY InitIInv, NextIInv, PTL DEF Spec

(***************************************************************************)
(* The nonce store and the history keep their types.                       *)
(***************************************************************************)
THEOREM TypeCorrect == Spec => []TypeOK
<1>1. IInv => TypeOK
  BY DEF IInv
<1>2. QED
  BY <1>1, SpecIInv, PTL

(***************************************************************************)
(* A signed request executes at most once, whatever the timeout, the block *)
(* times and the order of submissions and cleanups.                        *)
(***************************************************************************)
THEOREM ExecutesAtMostOnce == Spec => []AtMostOnce
<1>1. IInv => AtMostOnce
  BY DEF IInv
<1>2. QED
  BY <1>1, SpecIInv, PTL

(***************************************************************************)
(* Two requests with one nonce execute more than a timeout apart.          *)
(***************************************************************************)
THEOREM NoncesAreExclusive == Spec => []NonceExclusive
<1>1. IInv => NonceExclusive
  BY DEF IInv
<1>2. QED
  BY <1>1, SpecIInv, PTL

(***************************************************************************)
(* What a call finds stored was used within the last three timeouts: the   *)
(* bound that the documented two timeouts should read.                     *)
(***************************************************************************)
THEOREM RetentionIsBounded == Spec => []RetainedAtMostThreeTimeouts
<1>1. IInv => RetainedAtMostThreeTimeouts
  <2> SUFFICES ASSUME IInv,
                      NEW n \in StoredNonces(CheckCleanup(store, block_timestamp))
               PROVE  \E m \in Signed : /\ m.nonce = n /\ runs[m] > 0
                                        /\ block_timestamp.sec - 3 * Timeout <= ranAt[m]
    BY DEF RetainedAtMostThreeTimeouts, StoredWithoutUse
  <2> DEFINE s == CheckCleanup(store, block_timestamp)
  <2>1. /\ block_timestamp \in Instant /\ store \in NonceStore
        /\ store.last_cleaned_at <= block_timestamp.sec
        /\ ranAt \in [Signed -> Nat]
    BY DEF IInv, TypeOK
  <2>2. s.last_cleaned_at \in Nat /\ block_timestamp.sec - Timeout <= s.last_cleaned_at
    BY <2>1, CleanupStore DEF NonceStore
  <2>3. PICK m \in Signed : /\ m.nonce = n /\ runs[m] > 0
                            /\ s.last_cleaned_at - 2 * Timeout <= ranAt[m]
    <3>1. CASE n \in s.nonces
      <4>1. PICK m \in Signed : m.nonce = n /\ runs[m] > 0 /\ s.last_cleaned_at <= ranAt[m]
        BY <3>1, CleanupJustified
      <4>2. s.last_cleaned_at - 2 * Timeout <= ranAt[m]
        <5> HIDE DEF s
        <5> QED  BY <2>1, <2>2, <4>1, NoncesAssumption
      <4>3. QED
        BY <4>1, <4>2
    <3>2. CASE n \in s.old_nonces
      BY <3>2, CleanupJustified
    <3>3. QED
      BY <3>1, <3>2 DEF StoredNonces
  <2>4. block_timestamp.sec - 3 * Timeout <= ranAt[m]
    <3> HIDE DEF s
    <3> QED  BY <2>1, <2>2, <2>3, NoncesAssumption DEF Instant
  <2>5. QED
    BY <2>3, <2>4
<1>2. QED
  BY <1>1, SpecIInv, PTL

(***************************************************************************)
(* The nonce window implements the promise of ReplayGuard: its initial     *)
(* states and its steps are ReplayGuard's, under the mapping that forgets  *)
(* the store and the sub-second part of the clock.                         *)
(***************************************************************************)
THEOREM WindowImplementsGuard == Spec => ImplementsReplayGuard
<1>1. Init => Guard!Init
  BY ReplayAssumption DEF Init, Guard!Init
<1>2. IInv /\ [Next]_vars => [Guard!Next]_(Guard!vars)
  <2> SUFFICES ASSUME IInv, [Next]_vars PROVE [Guard!Next]_(Guard!vars)
    OBVIOUS
  <2>1. CASE NewBlock
    <3>1. /\ block_timestamp'.sec \in Nat
          /\ block_timestamp.sec <= block_timestamp'.sec
          /\ UNCHANGED <<runs, ranAt>>
      BY <2>1, ReplayAssumption DEF NewBlock, NotAfter, IInv, TypeOK, Instant
    <3>2. QED
      BY <3>1 DEF Guard!Next, Guard!NewBlock
  <2>2. ASSUME NEW m \in Signed, NEW sub \in 0..SubMax, Execute(m, sub)
        PROVE  Guard!Next
    <3>1. /\ runs[m] = 0
          /\ m.created <= block_timestamp.sec
          /\ block_timestamp.sec <= m.created + Timeout
          /\ block_timestamp.sec <= m.created + m.timeout
          /\ \A k \in Signed : k.nonce = m.nonce /\ runs[k] > 0
               => ranAt[k] + Timeout < block_timestamp.sec
      BY <2>2, ExecuteIsAllowed
    <3>2. /\ runs' = [runs EXCEPT ![m] = 1]
          /\ ranAt' = [ranAt EXCEPT ![m] = block_timestamp.sec]
          /\ block_timestamp' = block_timestamp
      BY <2>2, <3>1 DEF Execute
    <3>3. Guard!Execute(m)
      BY <3>1, <3>2 DEF Guard!Execute
    <3>4. QED
      BY <3>3 DEF Guard!Next
  <2>3. CASE Cleanup \/ UNCHANGED vars
    BY <2>3 DEF Cleanup, vars, Guard!vars
  <2>4. QED
    BY <2>1, <2>2, <2>3 DEF Next
<1>3. QED
  BY <1>1, <1>2, SpecIInv, PTL DEF Spec, ImplementsReplayGuard, Guard!Spec
===============================================================================
