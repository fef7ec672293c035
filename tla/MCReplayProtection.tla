-------------------------- MODULE MCReplayProtection --------------------------
(***************************************************************************)
(* Small instances of ReplayProtection.                                    *)
(***************************************************************************)
EXTENDS ReplayProtection

\* Requests over both nonces, created at the given seconds, with a timeout shorter than
\* the wallet's and one longer than it.
MCSigned ==
  [nonce : Nonce, created : {2, 3, 5, 8}, timeout : {1, 4}]
===============================================================================
