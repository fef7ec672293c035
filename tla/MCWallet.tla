------------------------------- MODULE MCWallet -------------------------------
(***************************************************************************)
(* Small instances of Wallet.  The requests are chosen so that every op    *)
(* meets each of its outcomes, alone and after the ops that prepare it.    *)
(***************************************************************************)
EXTENDS Wallet

CONSTANTS self, ext1, ext2, s1, s2, k1, k2, primary, backup, n1, n2

Req(ops) == [ops |-> ops, out |-> "empty"]

SetMode(enable) == [op |-> "SetSignatureMode", enable |-> enable]
Add(account)    == [op |-> "AddExtension", account_id |-> account]
Remove(account) == [op |-> "RemoveExtension", account_id |-> account]
Create(id, pk, ttl) ==
  [op |-> "CreateSession", session_key_id |-> id, public_key |-> pk, ttl_secs |-> ttl]
Revoke(id)      == [op |-> "RevokeSession", session_key_id |-> id]
Backup(pk)      == [op |-> "SetBackupKey", public_key |-> pk]
Plain(name)     == [op |-> name]

\* what changes who may act: the mode, the extensions, the ends of a call
AuthorityRequests ==
  {Req(<<SetMode(FALSE)>>), Req(<<SetMode(TRUE)>>),
   Req(<<Add(ext1)>>), Req(<<Remove(ext1)>>),
   Req(<<Add(ext1), SetMode(FALSE)>>), Req(<<SetMode(FALSE), Add(ext1)>>),
   Req(<<Add(ext1), Create(s1, k1, 2), SetMode(FALSE)>>),
   Req(<<Remove(ext1), Add(ext2)>>), Req(<<Add(ext2), Remove(ext1)>>),
   Req(<<Plain("Custom")>>),
   [ops |-> <<Add(ext2)>>, out |-> "self_call"], [ops |-> <<>>, out |-> "calls"]}

\* what manages the keys
KeyRequests ==
  {Req(<<Create(s1, k1, 2)>>), Req(<<Create(s2, k2, 1), Create(s1, k1, 2)>>),
   Req(<<Create(s1, k1, 3)>>), Req(<<Create(s1, BadPk, 1)>>),
   Req(<<Revoke(s1)>>), Req(<<Revoke(s1), Create(s1, k2, 1)>>),
   Req(<<Plain("RevokeAllSessions")>>),
   Req(<<Backup(backup)>>), Req(<<Backup(BadPk)>>), Req(<<Plain("RemoveBackupKey")>>)}

MessagesOf(nonces, times, timeout, requests) ==
  [chain_id : {ChainId}, signer_id : {Self}, nonce : nonces, created : times,
   timeout : {timeout}, request : requests]

\* one message for another chain and one for another account
Misdirected ==
  {[chain_id |-> "other", signer_id |-> Self, nonce |-> n1, created |-> 3, timeout |-> 2,
    request |-> Req(<<>>)],
   [chain_id |-> ChainId, signer_id |-> ext1, nonce |-> n1, created |-> 3, timeout |-> 2,
    request |-> Req(<<>>)]}

AllRequests == AuthorityRequests \union KeyRequests

\* a request that the signed and the session path both let through, with a nonce of its own
ReplayMessages ==
  MessagesOf({n2}, {3, 4}, 2, {[ops |-> <<>>, out |-> "calls"]})

AllMessages == MessagesOf({n1}, {3, 5, 7}, 2, AllRequests) \union ReplayMessages \union Misdirected
===============================================================================
