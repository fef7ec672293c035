----------------------------- MODULE NoncesProofs -----------------------------
(***************************************************************************)
(* What the operators of Nonces do to a nonce that was committed, for any  *)
(* timeout.  The specifications that keep a NonceStore build on these.     *)
(***************************************************************************)
EXTENDS Nonces, TLAPS

(***************************************************************************)
(* Store s still accounts for a commit of nonce n at second at: the bit is *)
(* in the current bitmap, which is at most one timeout older than the      *)
(* commit; or in the old one, and the rotation came after the commit; or   *)
(* the last rotation is more than a timeout later than the commit.         *)
(***************************************************************************)
Accounts(s, n, at) ==
  \/ n \in s.nonces /\ at - Timeout <= s.last_cleaned_at
  \/ n \in s.old_nonces /\ at <= s.last_cleaned_at
  \/ at + Timeout < s.last_cleaned_at

(***************************************************************************)
(* The cleanup returns a store, cleaned within the last timeout but not in *)
(* the future (check_cleanup).                                             *)
(***************************************************************************)
LEMMA CleanupStore ==
  ASSUME NEW s \in NonceStore, NEW t \in Instant, s.last_cleaned_at <= t.sec
  PROVE  /\ CheckCleanup(s, t) \in NonceStore
         /\ CheckCleanup(s, t).last_cleaned_at <= t.sec
         /\ t.sec - Timeout <= CheckCleanup(s, t).last_cleaned_at
         /\ s.last_cleaned_at <= CheckCleanup(s, t).last_cleaned_at
BY NoncesAssumption DEF CheckCleanup, NonceStore, Instant

(***************************************************************************)
(* A commit returns a store with the nonce set and everything else as the  *)
(* cleanup left it.                                                        *)
(***************************************************************************)
LEMMA CommitStore ==
  ASSUME NEW s \in NonceStore, NEW t \in Instant, s.last_cleaned_at <= t.sec,
         NEW n \in Nonce
  PROVE  /\ Commit(s, t, n) \in NonceStore
         /\ Commit(s, t, n).last_cleaned_at = CheckCleanup(s, t).last_cleaned_at
         /\ Commit(s, t, n).old_nonces = CheckCleanup(s, t).old_nonces
         /\ Commit(s, t, n).nonces = CheckCleanup(s, t).nonces \union {n}
BY CleanupStore DEF Commit, NonceStore

(***************************************************************************)
(* However late the cleanup runs, it forgets no nonce that a commit within *)
(* the last timeout set.                                                   *)
(***************************************************************************)
LEMMA CleanupAccounts ==
  ASSUME NEW s \in NonceStore, NEW t \in Instant, s.last_cleaned_at <= t.sec,
         NEW n \in Nonce, NEW at \in Nat, Accounts(s, n, at)
  PROVE  Accounts(CheckCleanup(s, t), n, at)
BY NoncesAssumption DEF CheckCleanup, NonceStore, Instant, Accounts

(***************************************************************************)
(* A commit keeps accounting for the earlier ones and accounts for itself. *)
(***************************************************************************)
LEMMA CommitAccounts ==
  ASSUME NEW s \in NonceStore, NEW t \in Instant, s.last_cleaned_at <= t.sec,
         NEW n \in Nonce
  PROVE  /\ Accounts(Commit(s, t, n), n, t.sec)
         /\ \A k \in Nonce, at \in Nat :
              Accounts(s, k, at) => Accounts(Commit(s, t, n), k, at)
<1>1. Accounts(Commit(s, t, n), n, t.sec)
  BY CommitStore, CleanupStore DEF Accounts
<1>2. ASSUME NEW k \in Nonce, NEW at \in Nat, Accounts(s, k, at)
      PROVE  Accounts(Commit(s, t, n), k, at)
  <2>1. Accounts(CheckCleanup(s, t), k, at)
    BY <1>2, CleanupAccounts
  <2>2. QED
    BY <2>1, CommitStore DEF Accounts
<1>3. QED
  BY <1>1, <1>2

(***************************************************************************)
(* A commit that succeeds comes more than a timeout after every earlier    *)
(* commit of its nonce that the store accounts for.                        *)
(***************************************************************************)
LEMMA CommitIsFresh ==
  ASSUME NEW s \in NonceStore, NEW t \in Instant, s.last_cleaned_at <= t.sec,
         NEW n \in Nonce, NEW at \in Nat, Accounts(s, n, at),
         NEW created_at, NEW timeout,
         CommitError(s, t, n, created_at, timeout) = "Ok"
  PROVE  at + Timeout < t.sec
<1>1. n \notin StoredNonces(CheckCleanup(s, t))
  BY DEF CommitError
<1>2. Accounts(CheckCleanup(s, t), n, at)
  BY CleanupAccounts
<1>3. at + Timeout < CheckCleanup(s, t).last_cleaned_at
  BY <1>1, <1>2 DEF Accounts, StoredNonces
<1>4. QED
  BY <1>3, CleanupStore, NoncesAssumption DEF NonceStore, Instant

(***************************************************************************)
(* A commit that succeeds comes within the validity of the request, counted*)
(* from the second its signature covers, whatever sub-second part the      *)
(* submitted created_at has (the range check of Nonces::commit).           *)
(***************************************************************************)
LEMMA CommitIsTimely ==
  ASSUME NEW s, NEW t \in Instant, NEW n, NEW created_at \in Instant, NEW timeout \in Nat,
         CommitError(s, t, n, created_at, timeout) = "Ok"
  PROVE  /\ created_at.sec <= t.sec
         /\ t.sec <= created_at.sec + Timeout
         /\ t.sec <= created_at.sec + timeout
<1>1. InWindow(t, created_at, timeout)
  BY DEF CommitError
<1>2. /\ t.sec - Validity(timeout) <= created_at.sec
      /\ created_at.sec <= t.sec
  BY <1>1 DEF InWindow, NotAfter, Truncated, Instant
<1>3. Validity(timeout) \in Nat /\ Validity(timeout) <= timeout /\ Validity(timeout) <= Timeout
  BY NoncesAssumption DEF Validity
<1>4. QED
  BY <1>2, <1>3, NoncesAssumption DEF Instant
===============================================================================
