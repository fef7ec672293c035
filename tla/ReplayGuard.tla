------------------------------ MODULE ReplayGuard -----------------------------
(***************************************************************************)
(* What the nonces of the wallet contract promise its user, without saying *)
(* how: a signed request executes at most once, only while it is valid,    *)
(* and two requests that carry the same nonce never execute within one     *)
(* timeout of each other.                                                  *)
(***************************************************************************)
EXTENDS Integers

CONSTANTS
  Signed,   \* the signed requests: [nonce, created, timeout, ...]
  Timeout   \* the wallet's timeout, in seconds

VARIABLES
  now,      \* the second of the latest block
  runs,     \* how often each request has executed
  ranAt     \* when it last did

vars == <<now, runs, ranAt>>

Init ==
  /\ now \in Nat
  /\ runs = [m \in Signed |-> 0]
  /\ ranAt = [m \in Signed |-> 0]

NewBlock ==
  /\ now' \in Nat
  /\ now <= now'
  /\ UNCHANGED <<runs, ranAt>>

Execute(m) ==
  /\ runs[m] = 0
  /\ m.created <= now
  /\ now <= m.created + Timeout
  /\ now <= m.created + m.timeout
  /\ \A k \in Signed : k.nonce = m.nonce /\ runs[k] > 0 => ranAt[k] + Timeout < now
  /\ runs' = [runs EXCEPT ![m] = 1]
  /\ ranAt' = [ranAt EXCEPT ![m] = now]
  /\ UNCHANGED now

Next == NewBlock \/ \E m \in Signed : Execute(m)

Spec == Init /\ [][Next]_vars
===============================================================================
