-------------------------------- MODULE Nonces --------------------------------
(***************************************************************************)
(* The dual-timeout nonce window of the wallet contract                    *)
(* (wallet-contract/src/nonces/mod.rs) as operators on a record, so that   *)
(* the contract's specification and the stand-alone one share them.        *)
(*                                                                         *)
(* A block timestamp or a created_at is a pair of whole seconds and a      *)
(* sub-second part: the contract truncates the one and compares the other  *)
(* exactly.  A bitmap of nonces is the set of its bits.                    *)
(***************************************************************************)
EXTENDS Integers

CONSTANTS
  Nonce,    \* the nonces that requests carry (u32 in the code)
  Timeout,  \* Nonces.timeout, whole seconds, fixed when the state is built
  SubMax    \* the largest sub-second part of a timestamp

ASSUME NoncesAssumption == Timeout \in Nat /\ SubMax \in Nat

Instant == [sec : Nat, sub : 0..SubMax]

NotAfter(a, b) == a.sec < b.sec \/ (a.sec = b.sec /\ a.sub <= b.sub)

\* Deadline::trunc_subsecs, and what TimestampSeconds keeps of an instant
Truncated(t) == [sec |-> t.sec, sub |-> 0]

\* Nonces without its constant timeout; last_cleaned_at is a whole second
NonceStore == [last_cleaned_at : Nat, old_nonces : SUBSET Nonce, nonces : SUBSET Nonce]

\* mutant: the first window is backdated by a timeout
NewNonces_Backdated == [last_cleaned_at |-> 0 - Timeout, old_nonces |-> {}, nonces |-> {}]

NewNonces == [last_cleaned_at |-> 0, old_nonces |-> {}, nonces |-> {}]

StoredNonces(s) == s.old_nonces \union s.nonces

\* mutant: the rotation never drops the old nonces
CheckCleanup_OldKept(s, t) ==
  IF s.last_cleaned_at < t.sec - Timeout
  THEN [last_cleaned_at |-> t.sec, nonces |-> {}, old_nonces |-> s.nonces]
  ELSE s

\* mutant: the rotation drops the old nonces one second early
CheckCleanup_DropsEarly(s, t) ==
  IF s.last_cleaned_at < t.sec - Timeout
  THEN [last_cleaned_at |-> t.sec,
        nonces          |-> {},
        old_nonces      |-> IF s.last_cleaned_at <= t.sec - 2 * Timeout THEN {} ELSE s.nonces]
  ELSE s

(***************************************************************************)
(* Nonces::check_cleanup at block time t.                                  *)
(***************************************************************************)
CheckCleanup(s, t) ==
  LET lastValid == t.sec - Timeout IN
    IF s.last_cleaned_at < lastValid
    THEN [last_cleaned_at |-> t.sec,
          nonces          |-> {},
          old_nonces      |-> IF s.last_cleaned_at < lastValid - Timeout THEN {} ELSE s.nonces]
    ELSE s

\* mutant: the timeout of the request is ignored
Validity_WalletOnly(timeout) == Timeout

Validity(timeout) == IF timeout < Timeout THEN timeout ELSE Timeout

\* created_at lies in [now - min(self.timeout, msg.timeout), now]
InWindow(t, created_at, timeout) ==
  /\ t.sec - Validity(timeout) <= created_at.sec
  /\ NotAfter(created_at, Truncated(t))

\* mutant: only the current bitmap is looked at
CommitError_CurrentOnly(s, t, nonce, created_at, timeout) ==
  IF ~InWindow(t, created_at, timeout) THEN "ExpiredOrFuture"
  ELSE IF nonce \in CheckCleanup(s, t).nonces THEN "AlreadyExecuted"
  ELSE "Ok"

(***************************************************************************)
(* Nonces::commit at block time t: the error it returns, and the state it  *)
(* leaves when it returns none.  A caller that gets an error panics, which *)
(* undoes the cleanup too.                                                 *)
(***************************************************************************)
CommitError(s, t, nonce, created_at, timeout) ==
  IF ~InWindow(t, created_at, timeout) THEN "ExpiredOrFuture"
  ELSE IF nonce \in StoredNonces(CheckCleanup(s, t)) THEN "AlreadyExecuted"
  ELSE "Ok"

Commit(s, t, nonce) ==
  LET c == CheckCleanup(s, t) IN [c EXCEPT !.nonces = @ \union {nonce}]
===============================================================================
