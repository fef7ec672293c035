-------------------------- MODULE SessionClientProofs --------------------------
(***************************************************************************)
(* The safety of SessionClient for any number of accounts and flows.       *)
(*                                                                         *)
(* What a flow writes at its end it has read long before: from the wallet  *)
(* of its closure, and from a list that may be out of date or another      *)
(* account's.  The invariant says of each such copy what its later use     *)
(* relies on (WalletsSound, KeysSeen), and of each stage what has happened *)
(* before it (RequestsFollow, StoreMeans, RemoveMeans).                    *)
(***************************************************************************)
EXTENDS SessionClient, TLAPS

Stage == {"new", "lookup", "asking", "sent", "store", "activate", "remove", "skipped", "finish",
          "done"}
Creates == {"login", "create"}
Revokes == {"revoke", "revokeAll"}

FlowRecord ==
  [op : {"none"} \union Creates \union Revokes, w : WalletState \union {Out}, keys : SUBSET Flow,
   stage : Stage]

\* the sessions that were created on chain
Seen == {k \in Flow : session[k] # "none"}

Created(k) == session[k] # "none" \/ k \in vague
Dead(k) == session[k] = "revoked" \/ k \in vague
Kept == idb \union removed

\* What the active key of a wallet state, in use or in a closure, relies on
Sound(w) ==
  w # Out /\ w.active # NoKey =>
    /\ flow[w.active].op \in Creates
    /\ flow[w.active].w.account = w.account
    /\ Created(w.active)
    /\ <<w.account, w.active>> \in Kept

FlowsAreStarted ==
  \A f \in Flow :
    IF flow[f].op = "none" THEN flow[f] = Unused
    ELSE /\ flow[f].w \in WalletState /\ flow[f].stage # "new"
         /\ flow[f].stage \in {"store", "activate"} => flow[f].op \in Creates
         /\ flow[f].stage = "remove" => flow[f].op \in Revokes

RequestsFollow ==
  \A f \in Flow :
    /\ flow[f].stage \in {"new", "lookup", "asking"} => tx[f] = "none"
    /\ session[f] # "none" => tx[f] = "done" /\ flow[f].op \in Creates
    /\ tx[f] = "done" /\ flow[f].op \in Creates => session[f] # "none"
    /\ tx[f] = "done" /\ flow[f].op \in Revokes =>
         \A k \in flow[f].keys :
           flow[k].w.account = flow[f].w.account => session[k] = "revoked"

KeysSeen == listed \subseteq Seen /\ \A f \in Flow : flow[f].keys \subseteq Seen

KeptIsOwned ==
  \A e \in Kept : flow[e[2]].op \in Creates /\ flow[e[2]].w.account = e[1]

StoreMeans ==
  \A f \in Flow :
    /\ flow[f].stage \in {"store", "activate"} => Created(f)
    /\ flow[f].stage = "activate" => Entry(f) \in Kept

RemoveMeans ==
  \A f \in Flow : flow[f].stage = "remove" =>
    \A k \in flow[f].keys : flow[k].w.account = flow[f].w.account => Dead(k)

WalletsSound == Sound(wallet) /\ Sound(saved) /\ \A f \in Flow : Sound(flow[f].w)

IInv ==
  /\ TypeOK /\ FlowsAreStarted /\ RequestsFollow /\ KeysSeen /\ KeptIsOwned
  /\ StoreMeans /\ RemoveMeans /\ WalletsSound /\ RemovedKeysAreDead

-------------------------------------------------------------------------------
(***************************************************************************)
(* What never changes, or only grows.                                      *)
(***************************************************************************)
Stable ==
  /\ \A k \in Flow : flow[k].op # "none" =>
       flow'[k].op = flow[k].op /\ flow'[k].w = flow[k].w /\ flow'[k].keys = flow[k].keys
  /\ \A k \in Flow : /\ session[k] # "none" => session'[k] # "none"
                     /\ session[k] = "revoked" => session'[k] = "revoked"
  /\ Kept \subseteq Kept'
  /\ vague \subseteq vague'

LEMMA TypedFlows ==
  ASSUME TypeOK
  PROVE  flow \in [Flow -> FlowRecord]
BY DEF TypeOK, FlowRecord, Stage, Creates, Revokes

LEMMA SoundStays ==
  ASSUME TypeOK, Stable, NEW w \in WalletState \union {Out}, Sound(w)
  PROVE  Sound(w)'
BY DEF Stable, Sound, Created, WalletState, NoKey, Creates

\* What no step of IInv's parts but a change of f, the wallets or the list can disturb
LEMMA CopiesStay ==
  ASSUME IInv, Stable
  PROVE  /\ \A k \in Flow : Created(k) => Created(k)'
         /\ \A k \in Flow : Dead(k) => Dead(k)'
         /\ Seen \subseteq Seen'
         /\ \A e \in Kept : flow'[e[2]].op \in Creates /\ flow'[e[2]].w.account = e[1]
         /\ \A e \in removed : (session[e[2]] = "revoked" \/ e[2] \in vague)'
         /\ \A f \in Flow : flow[f].op # "none" => Sound(flow[f].w)'
<1>1. /\ \A k \in Flow : Created(k) => Created(k)'
      /\ \A k \in Flow : Dead(k) => Dead(k)'
      /\ Seen \subseteq Seen'
  BY DEF Stable, Created, Dead, Seen
<1>2. \A e \in Kept : e[2] \in Flow
  BY DEF IInv, TypeOK, Kept
<1>3. \A e \in Kept : flow'[e[2]].op \in Creates /\ flow'[e[2]].w.account = e[1]
  BY <1>2 DEF IInv, KeptIsOwned, Stable, Creates
<1>4. \A e \in removed : (session[e[2]] = "revoked" \/ e[2] \in vague)'
  BY <1>2 DEF IInv, RemovedKeysAreDead, Stable, Kept
<1>5. ASSUME NEW f \in Flow, flow[f].op # "none"
      PROVE  Sound(flow[f].w)'
  <2>1. flow'[f].w = flow[f].w /\ flow[f].w \in WalletState \union {Out}
    BY <1>5 DEF Stable, IInv, TypeOK
  <2>2. Sound(flow[f].w)
    BY DEF IInv, WalletsSound
  <2>3. QED
    BY <2>1, <2>2, SoundStays DEF IInv
<1>6. QED
  BY <1>1, <1>3, <1>4, <1>5

-------------------------------------------------------------------------------
(***************************************************************************)
(* The page: buttons that start no flow, and the reload.                   *)
(***************************************************************************)
Quiet ==
  \/ \E a \in Account : Enter(a)
  \/ LoadClick \/ LeaveDashboard \/ Logout

PageStep == Quiet \/ Reload

\* No wallet, or one without an active key, relies on nothing.
LEMMA NoKeyIsSound ==
  ASSUME NEW w, w = Out \/ w.active = NoKey
  PROVE  Sound(w) /\ Sound(w)'
BY DEF Sound

\* by the reload
Ended(f) == flow[f].op # "none" /\ flow'[f] = [flow[f] EXCEPT !.stage = "done"]

LEMMA PageSteps ==
  ASSUME IInv, PageStep
  PROVE  /\ TypeOK' /\ Stable /\ UNCHANGED <<idb, removed, tx, session, vague>>
         /\ \A f \in Flow :
              flow'[f] = flow[f] \/ Ended(f)
         /\ listed' \subseteq Seen
         /\ Sound(wallet)' /\ Sound(saved)'
<1>1. TypeOK /\ listed \subseteq Seen /\ Sound(wallet) /\ Sound(saved)
  BY DEF IInv, KeysSeen, WalletsSound
<1>2. CASE Quiet
  <2>1. UNCHANGED <<flow, idb, removed, tx, session, vague>>
    BY <1>2 DEF Quiet, Enter, LoadClick, LeaveDashboard, Logout, SetWallet, chain, stored
  <2>2. Stable
    BY <2>1 DEF Stable, Kept
  <2>3. TypeOK' /\ listed' \subseteq Seen
    <3>1. \A a \in Account : [account |-> a, active |-> NoKey] \in WalletState
      BY DEF WalletState
    <3>2. SessionsOf(wallet.account) \subseteq Seen /\ Seen \subseteq Flow
      BY DEF SessionsOf, Seen
    <3>3. /\ wallet' \in WalletState \union {Out} /\ saved' \in WalletState \union {Out}
          /\ listed' \subseteq Seen /\ screen' \in {"welcome", "login", "dashboard"}
          /\ loading' \in BOOLEAN /\ busy' \in Flow \union {0}
      BY <1>1, <1>2, <3>1, <3>2
         DEF Quiet, Enter, LoadClick, LeaveDashboard, Logout, SetWallet, stored, TypeOK
    <3>4. QED
      BY <1>1, <2>1, <3>2, <3>3 DEF TypeOK
  <2>4. /\ wallet' = wallet \/ wallet' = Out \/ wallet'.active = NoKey
        /\ saved' = saved \/ saved' = Out \/ saved'.active = NoKey
    BY <1>2 DEF Quiet, Enter, LoadClick, LeaveDashboard, Logout, SetWallet, stored
  <2>5. Sound(wallet)' /\ Sound(saved)'
    BY <1>1, <2>1, <2>4 DEF Sound, Created, Kept
  <2>6. QED
    BY <2>1, <2>2, <2>3, <2>5
<1>3. CASE Reload
  <2>1. UNCHANGED <<idb, removed, tx, session, vague, saved>> /\ wallet' = saved /\ listed' = {}
    BY <1>3 DEF Reload, chain, stored
  <2>2. \A f \in Flow :
          flow'[f] = flow[f] \/ Ended(f)
    BY <1>3 DEF Reload, Ended
  <2>3. \A f \in Flow : flow[f] \in FlowRecord
    BY <1>1, TypedFlows
  <2>4. Stable
    BY <2>1, <2>2, <2>3 DEF Stable, Kept, FlowRecord, Ended
  <2>5. flow' \in [Flow -> FlowRecord]
    BY <1>1, <1>3 DEF Reload, TypeOK, FlowRecord, Stage, Creates, Revokes
  <2>6. TypeOK'
    BY <1>1, <1>3, <2>1, <2>5 DEF Reload, TypeOK, FlowRecord, Stage, Creates, Revokes
  <2>7. Sound(saved)'
    BY <1>1, <2>1, <2>4, SoundStays DEF TypeOK
  <2>8. Sound(wallet)'
    BY <2>1, <2>7 DEF Sound
  <2>9. QED
    BY <2>1, <2>2, <2>4, <2>6, <2>7, <2>8
<1>4. QED
  BY <1>2, <1>3 DEF PageStep

-------------------------------------------------------------------------------
(***************************************************************************)
(* The buttons that start a flow.                                          *)
(***************************************************************************)
StartStep(f) ==
  \/ \E a \in Account : LoginStart(f, a)
  \/ CreateClick(f) \/ CreateSkips(f)
  \/ \E k \in listed : RevokeClick(f, k)
  \/ RevokeAllClick(f)

\* f was unused and becomes next.
Begins(f, next) ==
  /\ flow[f].op = "none" /\ flow' = [flow EXCEPT ![f] = next]
  /\ next.op # "none" /\ next.stage \in {"lookup", "asking", "skipped"}
  /\ next.w \in WalletState /\ Sound(next.w)
  /\ next.keys \subseteq Seen
  /\ UNCHANGED <<wallet, listed, stored, chain, vague>>

LEMMA StartSteps ==
  ASSUME IInv, NEW f \in Flow, StartStep(f)
  PROVE  TypeOK' /\ \E next \in FlowRecord : Begins(f, next)
<1>1. /\ TypeOK /\ flow \in [Flow -> FlowRecord] /\ Sound(wallet)
      /\ listed \subseteq Seen /\ Seen \subseteq Flow
  BY TypedFlows DEF IInv, KeysSeen, WalletsSound, Seen
<1>2. PICK op \in Creates \union Revokes, w \in WalletState, keys \in SUBSET Seen,
           stage \in {"lookup", "asking", "skipped"} :
        Starts(f, op, w, keys, stage) /\ (w = wallet \/ w.active = NoKey)
  <2>1. CASE \E a \in Account : LoginStart(f, a)
    <3>1. PICK a \in Account : LoginStart(f, a)
      BY <2>1
    <3>2. [account |-> a, active |-> NoKey] \in WalletState
      BY DEF WalletState
    <3>3. QED
      BY <3>1, <3>2 DEF LoginStart, Creates
  <2>2. CASE CreateClick(f) \/ CreateSkips(f)
    BY <1>1, <2>2 DEF CreateClick, CreateSkips, PanelClick, TypeOK, Creates
  <2>3. CASE RevokeAllClick(f) \/ \E k \in listed : RevokeClick(f, k)
    BY <1>1, <2>3 DEF RevokeAllClick, RevokeClick, PanelClick, TypeOK, Revokes
  <2>4. QED
    BY <2>1, <2>2, <2>3 DEF StartStep
<1> DEFINE next == NewFlow(op, w, keys, stage)
<1>3. next \in FlowRecord
  BY <1>1 DEF NewFlow, FlowRecord, Stage
<1>4. /\ UNCHANGED <<wallet, listed, stored, chain, vague>>
      /\ screen' \in {screen, "login"} /\ loading' \in {loading, TRUE} /\ busy' \in {busy, f}
  BY DEF StartStep, LoginStart, CreateClick, CreateSkips, RevokeClick, RevokeAllClick, PanelClick
<1>5. Sound(w)
  BY <1>1, <1>2 DEF Sound
<1>6. Begins(f, next)
  BY <1>2, <1>4, <1>5 DEF Begins, Starts, IsNext, NewFlow, Creates, Revokes
<1>7. flow' \in [Flow -> FlowRecord]
  BY <1>1, <1>3, <1>6 DEF Begins
<1>8. TypeOK'
  BY <1>1, <1>4, <1>7 DEF TypeOK, FlowRecord, Stage, Creates, Revokes, stored, chain
<1>9. QED
  BY <1>3, <1>6, <1>8

-------------------------------------------------------------------------------
(***************************************************************************)
(* A flow goes on.                                                         *)
(***************************************************************************)
\* Its stage becomes s; each stage has been come to by what it relies on.
GoesOn(f, s) ==
  /\ flow[f].op # "none" /\ flow' = [flow EXCEPT ![f].stage = s]
  /\ s \in Stage \ {"new", "lookup"}
  /\ session' = session /\ Kept \subseteq Kept' /\ vague \subseteq vague'
  /\ \A g \in Flow : tx'[g] = tx[g] \/ (g = f /\ s # "asking" /\ "done" \notin {tx[g], tx'[g]})
  /\ s = "asking" => flow[f].stage = "lookup"
  /\ s \in {"store", "activate"} => flow[f].op \in Creates /\ Created(f)'
  /\ s = "activate" => Entry(f) \in Kept'
  /\ s = "remove" => /\ flow[f].op \in Revokes
                     /\ \A k \in flow[f].keys :
                          flow[k].w.account = flow[f].w.account => Dead(k)'
  /\ \A e \in Kept' \ Kept : e = Entry(f) /\ flow[f].op \in Creates
  /\ \A e \in removed' \ removed : Dead(e[2])'
  /\ \A w \in {wallet', saved'} :
       \/ w \in {wallet, saved, flow[f].w}
       \/ w # Out /\ w.active = NoKey
       \/ w = [flow[f].w EXCEPT !.active = f] /\ flow[f].stage = "activate"
  /\ listed' \subseteq Seen

\* A stage that relies on nothing new
Plain == {"sent", "finish", "done"}

\* What comes with a step that only moves f to s, or one that shows a list of sessions
LEMMA PlainSteps ==
  ASSUME IInv, NEW f \in Flow, NEW s \in Stage, flow[f].op # "none", Becomes(f, s),
         s \in Plain \/ (s = "asking" /\ flow[f].stage = "lookup"),
         UNCHANGED <<idb, removed, session, vague>>,
         \A g \in Flow : tx'[g] = tx[g] \/ (g = f /\ s # "asking" /\ "done" \notin {tx[g], tx'[g]}),
         wallet' \in {wallet, flow[f].w}, saved' \in {saved, flow[f].w}, listed' \subseteq Seen
  PROVE  GoesOn(f, s)
BY DEF GoesOn, Becomes, Plain, Kept

LEMMA GoesOnSteps ==
  ASSUME IInv, NEW f \in Flow, Continues(f)
  PROVE  \E s \in Stage : GoesOn(f, s)
<1>1. /\ TypeOK /\ flow[f] \in FlowRecord /\ listed \subseteq Seen
      /\ \A a : SessionsOf(a) \subseteq Seen
  BY TypedFlows DEF IInv, KeysSeen, SessionsOf, Seen
<1>2. flow[f].op # "none" /\ flow[f].w \in WalletState
  <2>1. flow[f].stage # "new"
    BY DEF Continues, LookupFails, LookupDone, Sign, SignFails, Answer, NoAnswer, Store, Activate,
         Remove, Tell, StorageFails, Finish
  <2>2. QED
    BY <2>1 DEF IInv, FlowsAreStarted, Unused, NewFlow
<1>3. CASE LookupFails(f) \/ LookupDone(f) \/ SignFails(f) \/ NoAnswer(f) \/ StorageFails(f)
  <2>1. PICK s \in {"done", "asking", "finish"} :
          Becomes(f, s) /\ (s = "asking" => flow[f].stage = "lookup")
    BY <1>3 DEF LookupFails, LookupDone, SignFails, NoAnswer, StorageFails
  <2>2. /\ UNCHANGED <<idb, removed, session, vague, tx, listed>>
        /\ wallet' \in {wallet, flow[f].w} /\ saved' \in {saved, flow[f].w}
    BY <1>3 DEF LookupFails, LookupDone, SignFails, NoAnswer, StorageFails, SetWallet,
         react, stored, chain
  <2>3. QED
    BY <1>1, <1>2, <2>1, <2>2, PlainSteps DEF Plain, Stage
<1>4. CASE Sign(f)
  <2>1. flow[f].stage = "asking" /\ Becomes(f, "sent") /\ tx' = [tx EXCEPT ![f] = "pending"]
    BY <1>4 DEF Sign
  <2>2. UNCHANGED <<idb, removed, session, vague, listed, wallet, saved>>
    BY <1>4 DEF Sign, react, stored
  <2>3. tx[f] = "none"
    BY <2>1 DEF IInv, RequestsFollow
  <2>4. \A g \in Flow : tx'[g] = tx[g] \/ (tx[g] # "done" /\ tx'[g] # "done" /\ g = f)
    BY <1>1, <2>1, <2>3 DEF TypeOK
  <2>5. QED
    BY <1>1, <1>2, <2>1, <2>2, <2>4, PlainSteps DEF Plain, Stage
<1>5. ASSUME NEW answer \in {"success", "failure", "error"}, Answer(f, answer)
      PROVE  \E s \in Stage : GoesOn(f, s)
  <2>1. /\ UNCHANGED <<idb, removed, session, listed>>
        /\ vague' = IF answer = "error" THEN vague \union Keys(f) ELSE vague
    BY <1>5 DEF Answer
  <2>2. \A g \in Flow : tx'[g] = tx[g] \/ (tx[g] # "done" /\ tx'[g] # "done" /\ g = f)
    BY <1>1, <1>5 DEF Answer, Answered, TypeOK
  <2>3. answer = "success" => tx[f] = "done"
    BY <1>5 DEF Answer, Answered
  <2>4. CASE ~Accepted(answer)
    <3>1. Becomes(f, "finish") /\ UNCHANGED <<wallet, saved>> /\ vague' = vague
      BY <1>5, <2>1, <2>4 DEF Answer, Accepted
    <3>2. QED
      BY <1>1, <1>2, <2>1, <2>2, <3>1, PlainSteps DEF Plain, Stage
  <2>5. CASE Accepted(answer) /\ flow[f].op \in Creates
    <3>1. Becomes(f, "store") /\ UNCHANGED <<wallet, saved>>
      BY <1>5, <2>5 DEF Answer, Creates
    <3>2. Created(f)'
      BY <2>1, <2>3, <2>5 DEF Accepted, Created, Keys, Creates, IInv, RequestsFollow
    <3>3. GoesOn(f, "store")
      BY <1>1, <1>2, <2>1, <2>2, <2>5, <3>1, <3>2 DEF GoesOn, Becomes, Kept, Stage
    <3>4. QED
      BY <3>3 DEF Stage
  <2>6. CASE Accepted(answer) /\ flow[f].op \in Revokes
    <3>1. Becomes(f, "remove") /\ ClearActive(f)
      BY <1>5, <2>6 DEF Answer, Revokes
    <3>2. \A k \in flow[f].keys : flow[k].w.account = flow[f].w.account => Dead(k)'
      BY <2>1, <2>3, <2>6 DEF Accepted, Dead, Keys, Revokes, IInv, RequestsFollow
    <3>3. \A w \in {wallet', saved'} : w \in {wallet, saved} \/ (w # Out /\ w.active = NoKey)
      <4>1. [flow[f].w EXCEPT !.active = NoKey] \in WalletState
        BY <1>2 DEF WalletState
      <4>2. [flow[f].w EXCEPT !.active = NoKey].active = NoKey
        BY <1>2 DEF WalletState
      <4>3. QED
        BY <3>1, <4>1, <4>2, SessionClientAssumption DEF ClearActive, SetWallet
    <3>4. GoesOn(f, "remove")
      BY <1>1, <1>2, <2>1, <2>2, <2>6, <3>1, <3>2, <3>3 DEF GoesOn, Becomes, Kept, Stage
    <3>5. QED
      BY <3>4 DEF Stage
  <2>7. QED
    BY <1>2, <1>5, <2>4, <2>5, <2>6 DEF Answer, Creates, Revokes
<1>6. CASE Store(f)
  <2>1. /\ flow[f].stage = "store" /\ Becomes(f, "activate")
        /\ idb' = idb \union {Entry(f)}
        /\ UNCHANGED <<wallet, saved, listed, removed, tx, session, vague>>
    BY <1>6 DEF Store, react, chain
  <2>2. flow[f].op \in Creates /\ Created(f)'
    BY <1>2, <2>1 DEF IInv, FlowsAreStarted, StoreMeans, Created
  <2>3. GoesOn(f, "activate")
    BY <1>1, <1>2, <2>1, <2>2 DEF GoesOn, Becomes, Kept, Stage
  <2>4. QED
    BY <2>3 DEF Stage
<1>7. CASE Activate(f)
  <2>1. /\ flow[f].stage = "activate" /\ Becomes(f, "finish")
        /\ wallet' = [flow[f].w EXCEPT !.active = f] /\ saved' = wallet'
        /\ UNCHANGED <<listed, idb, removed, tx, session, vague>>
    BY <1>7 DEF Activate, SetWallet, chain
  <2>2. GoesOn(f, "finish")
    BY <1>1, <1>2, <2>1 DEF GoesOn, Becomes, Kept, Stage
  <2>3. QED
    BY <2>2 DEF Stage
<1>8. CASE Remove(f)
  <2>1. PICK e \in ToRemove(f) : idb' = idb \ {e} /\ removed' = removed \union {e}
    BY <1>8 DEF Remove
  <2>2. flow[f].stage = "remove" /\ UNCHANGED <<wallet, saved, listed, flow, tx, session, vague>>
    BY <1>8 DEF Remove, react, chain
  <2>3. e \in idb /\ e[1] = flow[f].w.account /\ e[2] \in flow[f].keys
    BY <2>1 DEF ToRemove
  <2>4. flow[e[2]].w.account = e[1]
    BY <2>3 DEF IInv, KeptIsOwned, Kept
  <2>5. /\ flow[f].op \in Revokes
        /\ \A k \in flow[f].keys : flow[k].w.account = flow[f].w.account => Dead(k)
    BY <1>2, <2>2 DEF IInv, FlowsAreStarted, RemoveMeans
  <2>6. \A k \in Flow : Dead(k) => Dead(k)'
    BY <2>2 DEF Dead
  <2>7. Dead(e[2])' /\ \A k \in flow[f].keys : flow[k].w.account = flow[f].w.account => Dead(k)'
    BY <2>2, <2>3, <2>4, <2>5 DEF Dead
  <2>8. flow' = [flow EXCEPT ![f].stage = "remove"]
    BY <1>1, <2>2 DEF FlowRecord, TypeOK
  <2>9. GoesOn(f, "remove")
    BY <1>1, <1>2, <2>1, <2>2, <2>3, <2>5, <2>7, <2>8 DEF GoesOn, Kept, Stage
  <2>10. QED
    BY <2>9 DEF Stage
<1>9. CASE Tell(f) \/ Finish(f)
  <2>1. PICK s \in {"finish", "done"} : Becomes(f, s)
    BY <1>9 DEF Tell, Finish
  <2>2. UNCHANGED <<idb, removed, session, vague, tx, wallet, saved>> /\ listed' \subseteq Seen
    BY <1>1, <1>9 DEF Tell, Finish, stored, chain
  <2>3. QED
    BY <1>1, <1>2, <2>1, <2>2, PlainSteps DEF Plain, Stage
<1>10. QED
  BY <1>3, <1>4, <1>5, <1>6, <1>7, <1>8, <1>9 DEF Continues

LEMMA GoesOnTypes ==
  ASSUME IInv, NEW f \in Flow, Continues(f), NEW s \in Stage, GoesOn(f, s)
  PROVE  TypeOK'
<1>1. TypeOK /\ flow \in [Flow -> FlowRecord] /\ flow[f] \in FlowRecord
  BY TypedFlows DEF IInv
<1>2. flow' \in [Flow -> FlowRecord]
  BY <1>1 DEF GoesOn, FlowRecord
<1>3. flow[f].w \in WalletState
  BY DEF GoesOn, IInv, FlowsAreStarted
<1>4. wallet' \in WalletState \union {Out} /\ saved' \in WalletState \union {Out}
  <2>1. /\ [flow[f].w EXCEPT !.active = NoKey] \in WalletState
        /\ [flow[f].w EXCEPT !.active = f] \in WalletState
    BY <1>3 DEF WalletState
  <2>2. QED
    BY <1>1, <1>3, <2>1
       DEF Continues, LookupFails, LookupDone, Sign, SignFails, Answer, ClearActive, NoAnswer,
           Store, Activate, Remove, Tell, StorageFails, Finish, SetWallet, TypeOK, react, stored
<1>5. listed' \subseteq Flow /\ session' = session
  BY DEF GoesOn, Seen
<1>6. /\ screen' \in {screen, "dashboard"} /\ busy' \in {busy, 0}
      /\ loading' \in {loading, FALSE, loading /\ FALSE, loading /\ TRUE}
  BY DEF Continues, LookupFails, LookupDone, Sign, SignFails, Answer, NoAnswer, Store, Activate,
     Remove, Tell, StorageFails, Finish, react
<1>7. idb' \subseteq Account \X Flow /\ removed' \subseteq Account \X Flow
  <2>1. Entry(f) \in Account \X Flow
    BY <1>3 DEF Entry, WalletState
  <2>2. QED
    BY <1>1, <2>1
       DEF Continues, LookupFails, LookupDone, Sign, SignFails, Answer, NoAnswer, Store, Activate,
           Remove, ToRemove, Tell, StorageFails, Finish, TypeOK, stored
<1>8. vague' \subseteq Flow
  BY <1>1, <1>2
     DEF Continues, LookupFails, LookupDone, Sign, SignFails, Answer, NoAnswer, Store, Activate,
         Remove, Tell, StorageFails, Finish, Keys, TypeOK, FlowRecord
<1>9. tx' \in [Flow -> {"none", "pending", "done", "failed"}]
  BY <1>1
     DEF Continues, LookupFails, LookupDone, Sign, SignFails, Answer, Answered, NoAnswer, Store,
         Activate, Remove, Tell, StorageFails, Finish, TypeOK, chain
<1>10. QED
  BY <1>1, <1>2, <1>4, <1>5, <1>6, <1>7, <1>8, <1>9
     DEF TypeOK, FlowRecord, Stage, Creates, Revokes

-------------------------------------------------------------------------------
(***************************************************************************)
(* The contract.                                                           *)
(***************************************************************************)
\* A request is executed once, after its flow has signed it; sessions come to life once.
LEMMA ExecuteSteps ==
  ASSUME IInv, NEW f \in Flow, Execute(f)
  PROVE  /\ TypeOK' /\ Stable /\ UNCHANGED <<react, stored, flow, vague>>
         /\ RequestsFollow'
<1>1. /\ TypeOK /\ tx[f] = "pending" /\ tx' = [tx EXCEPT ![f] = "done"]
      /\ UNCHANGED <<react, stored, flow, vague>>
  BY DEF IInv, Execute
<1>2. RequestsFollow /\ session[f] = "none"
  BY <1>1 DEF IInv, RequestsFollow
<1>3. flow[f].op # "none" /\ flow[f].keys \subseteq Seen
  BY DEF IInv, KeysSeen, Execute
<1>4. CASE flow[f].op \in Creates
  <2>1. session' = [session EXCEPT ![f] = "live"]
    BY <1>4 DEF Execute, Creates
  <2>2. /\ session'[f] = "live"
        /\ \A k \in Flow \ {f} : session'[k] = session[k]
    BY <1>1, <2>1 DEF TypeOK
  <2>3. \A k \in Flow : session[k] # "none" => session'[k] = session[k]
    BY <1>2, <2>2
  <2>4. Stable
    BY <1>1, <2>3 DEF Stable, Kept, stored
  <2>5. TypeOK'
    BY <1>1, <2>1 DEF TypeOK, react, stored
  <2>6. RequestsFollow'
    <3>1. tx'[f] = "done" /\ \A g \in Flow \ {f} : tx'[g] = tx[g]
      BY <1>1 DEF TypeOK
    <3>2. \A g \in Flow : flow'[g].stage \in {"new", "lookup", "asking"} => tx'[g] = "none"
      BY <1>1, <1>2, <3>1 DEF RequestsFollow
    <3>3. \A g \in Flow : session'[g] # "none" => tx'[g] = "done" /\ flow'[g].op \in Creates
      BY <1>1, <1>2, <1>4, <2>2, <3>1 DEF RequestsFollow
    <3>4. \A g \in Flow : tx'[g] = "done" /\ flow'[g].op \in Creates => session'[g] # "none"
      BY <1>1, <1>2, <2>2, <3>1 DEF RequestsFollow
    <3>5. \A g \in Flow : tx'[g] = "done" /\ flow'[g].op \in Revokes =>
            \A k \in flow'[g].keys :
              flow'[k].w.account = flow'[g].w.account => session'[k] = "revoked"
      <4> SUFFICES ASSUME NEW g \in Flow, tx'[g] = "done", flow[g].op \in Revokes,
                          NEW k \in flow[g].keys, flow[k].w.account = flow[g].w.account
                   PROVE  session'[k] = "revoked"
        BY <1>1
      <4>1. g # f
        BY <1>4 DEF Creates, Revokes
      <4>2. session[k] = "revoked" /\ k \in Flow
        BY <1>1, <1>2, <3>1, <4>1 DEF RequestsFollow, IInv, KeysSeen, Seen
      <4>3. QED
        BY <2>3, <4>2
    <3>6. QED
      BY <3>2, <3>3, <3>4, <3>5 DEF RequestsFollow
  <2>7. QED
    BY <1>1, <2>4, <2>5, <2>6
<1>5. CASE flow[f].op \in Revokes
  <2>1. PICK K \in SUBSET Seen :
          /\ session' = [k \in Flow |-> IF k \in K THEN "revoked" ELSE session[k]]
          /\ \A k \in flow[f].keys :
               flow[k].w.account = flow[f].w.account => k \in K \/ session[k] = "revoked"
    <3>1. SessionsOf(flow[f].w.account) \subseteq Seen
      BY DEF SessionsOf, Seen
    <3>2. \A k \in flow[f].keys :
            flow[k].w.account = flow[f].w.account =>
              k \in SessionsOf(flow[f].w.account) \/ session[k] = "revoked"
      BY <1>1, <1>3 DEF SessionsOf, Seen, TypeOK
    <3>3. QED
      BY <1>3, <1>5, <3>1, <3>2 DEF Execute, Revokes
  <2>2. \A k \in Flow : /\ session'[k] = "none" <=> session[k] = "none"
                        /\ session[k] = "revoked" => session'[k] = "revoked"
    BY <2>1 DEF Seen
  <2>3. Stable
    BY <1>1, <2>2 DEF Stable, Kept, stored
  <2>4. TypeOK'
    BY <1>1, <2>1 DEF TypeOK, react, stored
  <2>5. RequestsFollow'
    <3>1. tx'[f] = "done" /\ \A g \in Flow \ {f} : tx'[g] = tx[g]
      BY <1>1 DEF TypeOK
    <3>2. \A g \in Flow : flow'[g].stage \in {"new", "lookup", "asking"} => tx'[g] = "none"
      BY <1>1, <1>2, <3>1 DEF RequestsFollow
    <3>3. \A g \in Flow : session'[g] # "none" => tx'[g] = "done" /\ flow'[g].op \in Creates
      BY <1>1, <1>2, <2>2, <3>1 DEF RequestsFollow
    <3>4. \A g \in Flow : tx'[g] = "done" /\ flow'[g].op \in Creates => session'[g] # "none"
      BY <1>1, <1>2, <1>5, <2>2, <3>1 DEF RequestsFollow, Creates, Revokes
    <3>5. \A g \in Flow : tx'[g] = "done" /\ flow'[g].op \in Revokes =>
            \A k \in flow'[g].keys :
              flow'[k].w.account = flow'[g].w.account => session'[k] = "revoked"
      <4> SUFFICES ASSUME NEW g \in Flow, tx'[g] = "done", flow[g].op \in Revokes,
                          NEW k \in flow[g].keys, flow[k].w.account = flow[g].w.account
                   PROVE  session'[k] = "revoked"
        BY <1>1
      <4>1. k \in Flow
        BY DEF IInv, KeysSeen, Seen
      <4>2. CASE g = f
        BY <2>1, <2>2, <4>1, <4>2
      <4>3. CASE g # f
        BY <1>2, <2>2, <3>1, <4>1, <4>3 DEF RequestsFollow
      <4>4. QED
        BY <4>2, <4>3
    <3>6. QED
      BY <3>2, <3>3, <3>4, <3>5 DEF RequestsFollow
  <2>6. QED
    BY <1>1, <2>3, <2>4, <2>5
<1>6. QED
  BY <1>4, <1>5 DEF Execute, Creates, Revokes

LEMMA ExpireSteps ==
  ASSUME IInv, NEW k \in Flow, Expire(k)
  PROVE  /\ TypeOK' /\ Stable /\ UNCHANGED <<react, stored, flow, vague>>
         /\ RequestsFollow'
<1>1. /\ TypeOK /\ session[k] = "live" /\ session' = [session EXCEPT ![k] = "expired"]
      /\ UNCHANGED <<react, stored, flow, tx, vague>>
  BY DEF IInv, Expire
<1>2. \A g \in Flow : /\ session'[g] = "none" <=> session[g] = "none"
                      /\ session[g] = "revoked" => session'[g] = "revoked"
  BY <1>1 DEF TypeOK
<1>3. \A g \in Flow : flow[g].keys \subseteq Flow
  BY DEF IInv, KeysSeen, Seen
<1>4. Stable /\ RequestsFollow'
  BY <1>1, <1>2, <1>3 DEF Stable, Kept, stored, IInv, RequestsFollow
<1>5. TypeOK'
  BY <1>1 DEF TypeOK, react, stored
<1>6. QED
  BY <1>1, <1>4, <1>5

-------------------------------------------------------------------------------
(***************************************************************************)
(* The invariant.                                                          *)
(***************************************************************************)
LEMMA InitIInv == Init => IInv
<1> SUFFICES ASSUME Init PROVE IInv
  OBVIOUS
<1>1. TypeOK
  BY DEF Init, TypeOK, Unused, NewFlow
<1>2. FlowsAreStarted /\ RequestsFollow /\ KeysSeen /\ StoreMeans /\ RemoveMeans
  BY DEF Init, FlowsAreStarted, RequestsFollow, KeysSeen, StoreMeans, RemoveMeans, Unused, NewFlow,
     Seen, Creates, Revokes
<1>3. KeptIsOwned /\ WalletsSound /\ RemovedKeysAreDead
  BY DEF Init, KeptIsOwned, WalletsSound, Sound, RemovedKeysAreDead, Kept, Unused, NewFlow
<1>4. QED
  BY <1>1, <1>2, <1>3 DEF IInv

\* The page has moved: flows are as they were, or over.
LEMMA PageIInv ==
  ASSUME IInv, PageStep
  PROVE  IInv'
<1>1. /\ TypeOK' /\ Stable /\ UNCHANGED <<idb, removed, tx, session, vague>>
      /\ listed' \subseteq Seen /\ Sound(wallet)' /\ Sound(saved)'
  BY PageSteps
<1>2. \A f \in Flow : /\ flow'[f].op = flow[f].op /\ flow'[f].w = flow[f].w
                      /\ flow'[f].keys = flow[f].keys
                      /\ flow'[f].stage = flow[f].stage \/ flow'[f].stage = "done"
                      /\ flow[f].op = "none" => flow'[f] = flow[f]
  <2> SUFFICES ASSUME NEW f \in Flow
               PROVE  /\ flow'[f].op = flow[f].op /\ flow'[f].w = flow[f].w
                      /\ flow'[f].keys = flow[f].keys
                      /\ flow'[f].stage = flow[f].stage \/ flow'[f].stage = "done"
                      /\ flow[f].op = "none" => flow'[f] = flow[f]
    OBVIOUS
  <2>1. flow[f] \in FlowRecord
    BY TypedFlows DEF IInv
  <2>2. flow'[f] = flow[f] \/ Ended(f)
    BY PageSteps
  <2>3. QED
    BY <2>1, <2>2 DEF FlowRecord, Ended
<1>3. Seen' = Seen /\ Kept' = Kept
  BY <1>1 DEF Seen, Kept
<1>4. \A f \in Flow : flow[f].keys \subseteq Flow
  BY DEF IInv, KeysSeen, Seen
<1>5. FlowsAreStarted'
  BY <1>2 DEF IInv, FlowsAreStarted
<1>6. RequestsFollow'
  BY <1>1, <1>2, <1>4 DEF IInv, RequestsFollow
<1>7. KeysSeen'
  BY <1>1, <1>2, <1>3 DEF IInv, KeysSeen
<1>8. KeptIsOwned'
  BY <1>1, <1>3, CopiesStay DEF KeptIsOwned
<1>9. StoreMeans'
  BY <1>1, <1>2, <1>3 DEF IInv, StoreMeans, Created, Entry
<1>10. RemoveMeans'
  BY <1>1, <1>2, <1>4 DEF IInv, RemoveMeans, Dead
<1>11. WalletsSound'
  <2>1. ASSUME NEW f \in Flow, flow[f].op = "none"
        PROVE  Sound(flow[f].w)'
    BY <1>2, <2>1 DEF IInv, FlowsAreStarted, Unused, NewFlow, Sound
  <2>2. QED
    BY <1>1, <2>1, CopiesStay DEF WalletsSound
<1>12. RemovedKeysAreDead'
  BY <1>1, CopiesStay DEF RemovedKeysAreDead
<1>13. QED
  BY <1>1, <1>5, <1>6, <1>7, <1>8, <1>9, <1>10, <1>11, <1>12 DEF IInv

LEMMA StartIInv ==
  ASSUME IInv, NEW f \in Flow, StartStep(f)
  PROVE  IInv'
<1>1. TypeOK /\ TypeOK' /\ flow \in [Flow -> FlowRecord]
  BY StartSteps, TypedFlows DEF IInv
<1>2. PICK next \in FlowRecord : Begins(f, next)
  BY StartSteps
<1>3. /\ flow[f].op = "none" /\ flow'[f] = next /\ \A g \in Flow \ {f} : flow'[g] = flow[g]
      /\ UNCHANGED <<wallet, listed, saved, idb, removed, tx, session, vague>>
  BY <1>1, <1>2 DEF Begins, stored, chain
<1>4. Stable
  BY <1>3 DEF Stable, Kept
<1>5. Seen' = Seen /\ Kept' = Kept
  BY <1>3 DEF Seen, Kept
<1>6. tx[f] = "none" /\ f \notin Seen
  BY <1>3 DEF IInv, FlowsAreStarted, RequestsFollow, Unused, NewFlow, Seen
<1>7. \A g \in Flow : \A k \in flow[g].keys : k \in Flow \ {f}
  BY <1>6 DEF IInv, KeysSeen, Seen
<1>8. FlowsAreStarted'
  BY <1>2, <1>3 DEF IInv, FlowsAreStarted, Begins
<1>9. RequestsFollow'
  <2> SUFFICES ASSUME NEW g \in Flow
               PROVE  /\ flow'[g].stage \in {"new", "lookup", "asking"} => tx[g] = "none"
                      /\ session[g] # "none" => tx[g] = "done" /\ flow'[g].op \in Creates
                      /\ tx[g] = "done" /\ flow'[g].op \in Creates => session[g] # "none"
                      /\ tx[g] = "done" /\ flow'[g].op \in Revokes =>
                           \A k \in flow'[g].keys :
                             flow'[k].w.account = flow'[g].w.account => session[k] = "revoked"
    BY <1>3 DEF RequestsFollow
  <2>1. CASE g = f
    BY <1>6, <2>1 DEF Seen
  <2>2. CASE g # f
    BY <1>3, <1>7, <2>2 DEF IInv, RequestsFollow
  <2>3. QED
    BY <2>1, <2>2
<1>10. KeysSeen'
  BY <1>2, <1>3, <1>5 DEF IInv, KeysSeen, Begins
<1>11. KeptIsOwned'
  BY <1>4, <1>5, CopiesStay DEF KeptIsOwned
<1>12. StoreMeans'
  BY <1>2, <1>3, <1>5 DEF IInv, StoreMeans, Created, Entry, Begins
<1>13. RemoveMeans'
  BY <1>2, <1>3, <1>7 DEF IInv, RemoveMeans, Dead, Begins
<1>14. WalletsSound'
  <2>1. Sound(wallet)' /\ Sound(saved)'
    BY <1>1, <1>3, <1>4, SoundStays DEF IInv, TypeOK, WalletsSound
  <2>2. Sound(flow[f].w)'
    BY <1>1, <1>2, <1>3, <1>4, SoundStays DEF Begins
  <2>3. \A g \in Flow : flow[g].op = "none" => flow[g].w = Out
    BY DEF IInv, FlowsAreStarted, Unused, NewFlow
  <2>4. \A g \in Flow \ {f} : Sound(flow[g].w)'
    BY <1>3, <1>4, <2>3, CopiesStay DEF Sound
  <2>5. QED
    BY <2>1, <2>2, <2>4 DEF WalletsSound
<1>15. RemovedKeysAreDead'
  BY <1>3, <1>4, CopiesStay DEF RemovedKeysAreDead
<1>16. QED
  BY <1>1, <1>8, <1>9, <1>10, <1>11, <1>12, <1>13, <1>14, <1>15 DEF IInv

LEMMA GoesOnIInv ==
  ASSUME IInv, NEW f \in Flow, Continues(f)
  PROVE  IInv'
<1>1. PICK s \in Stage : GoesOn(f, s)
  BY GoesOnSteps
<1>2. TypeOK /\ TypeOK' /\ flow \in [Flow -> FlowRecord]
  BY <1>1, GoesOnTypes, TypedFlows DEF IInv
<1>3. /\ \A g \in Flow : /\ flow'[g].op = flow[g].op /\ flow'[g].w = flow[g].w
                         /\ flow'[g].keys = flow[g].keys
      /\ \A g \in Flow \ {f} : flow'[g] = flow[g]
      /\ flow'[f].stage = s /\ session' = session
  BY <1>1, <1>2 DEF GoesOn, FlowRecord
<1>4. Stable
  BY <1>1, <1>3 DEF Stable, GoesOn
<1>5. Seen' = Seen
  BY <1>3 DEF Seen
<1>6. \A g \in Flow : \A k \in flow[g].keys : k \in Flow
  BY DEF IInv, KeysSeen, Seen
<1>7. flow[f].op # "none" /\ flow[f].w \in WalletState
  BY <1>1 DEF GoesOn, IInv, FlowsAreStarted
<1>8. FlowsAreStarted'
  BY <1>1, <1>3, <1>7 DEF IInv, FlowsAreStarted, GoesOn
<1>9. RequestsFollow'
  <2>1. \A g \in Flow : /\ tx'[g] = "done" <=> tx[g] = "done"
                        /\ flow'[g].stage \in {"new", "lookup", "asking"} => tx'[g] = "none"
    BY <1>1, <1>3 DEF IInv, RequestsFollow, GoesOn
  <2>2. QED
    BY <1>3, <1>6, <2>1 DEF IInv, RequestsFollow
<1>10. KeysSeen'
  BY <1>1, <1>3, <1>5 DEF IInv, KeysSeen, GoesOn
<1>11. KeptIsOwned'
  <2> SUFFICES ASSUME NEW e \in Kept'
               PROVE  flow'[e[2]].op \in Creates /\ flow'[e[2]].w.account = e[1]
    BY DEF KeptIsOwned
  <2>1. CASE e \in Kept
    BY <1>4, <2>1, CopiesStay
  <2>2. CASE e \notin Kept
    BY <1>1, <1>3, <2>2 DEF GoesOn, Entry
  <2>3. QED
    BY <2>1, <2>2
<1>12. StoreMeans'
  <2> SUFFICES ASSUME NEW g \in Flow
               PROVE  /\ flow'[g].stage \in {"store", "activate"} => Created(g)'
                      /\ flow'[g].stage = "activate" => <<flow'[g].w.account, g>> \in Kept'
    BY DEF StoreMeans, Entry
  <2>1. CASE g = f
    BY <1>1, <1>3, <2>1 DEF GoesOn, Entry
  <2>2. CASE g # f
    BY <1>3, <1>4, <2>2, CopiesStay DEF IInv, StoreMeans, Entry, Stable
  <2>3. QED
    BY <2>1, <2>2
<1>13. RemoveMeans'
  <2> SUFFICES ASSUME NEW g \in Flow, flow'[g].stage = "remove",
                      NEW k \in flow'[g].keys, flow'[k].w.account = flow'[g].w.account
               PROVE  Dead(k)'
    BY DEF RemoveMeans
  <2>1. k \in Flow /\ k \in flow[g].keys /\ flow[k].w.account = flow[g].w.account
    BY <1>3, <1>6
  <2>2. CASE g = f
    BY <1>1, <1>3, <2>1, <2>2 DEF GoesOn
  <2>3. CASE g # f
    BY <1>3, <1>4, <2>1, <2>3, CopiesStay DEF IInv, RemoveMeans
  <2>4. QED
    BY <2>2, <2>3
<1>14. WalletsSound'
  <2>1. \A w \in {wallet, saved, flow[f].w} :
          w \in WalletState \union {Out} /\ Sound(w)
    BY <1>2, <1>7 DEF IInv, WalletsSound, TypeOK
  <2>2. \A w \in {wallet, saved, flow[f].w} :
          w # Out /\ w.active # NoKey =>
            /\ flow'[w.active].op \in Creates /\ flow'[w.active].w.account = w.account
            /\ Created(w.active)' /\ <<w.account, w.active>> \in Kept'
    BY <1>2, <1>4, <2>1, SoundStays DEF Sound, Stable, WalletState, NoKey, Created, Creates
  <2>3. ASSUME flow[f].stage = "activate"
        PROVE  \A w \in {[flow[f].w EXCEPT !.active = f]} :
                 /\ flow'[w.active].op \in Creates /\ flow'[w.active].w.account = w.account
                 /\ Created(w.active)' /\ <<w.account, w.active>> \in Kept'
    <3>1. flow[f].op \in Creates /\ Created(f)' /\ <<flow[f].w.account, f>> \in Kept'
      BY <1>4, <1>7, <2>3, CopiesStay DEF IInv, FlowsAreStarted, StoreMeans, Stable, Entry
    <3>2. \A w \in {[flow[f].w EXCEPT !.active = f]} : w.active = f /\ w.account = flow[f].w.account
      BY <1>7 DEF WalletState
    <3>3. QED
      BY <1>3, <3>1, <3>2
  <2>4. \A w \in {wallet', saved'} :
          w # Out /\ w.active # NoKey =>
            /\ flow'[w.active].op \in Creates /\ flow'[w.active].w.account = w.account
            /\ Created(w.active)' /\ <<w.account, w.active>> \in Kept'
    BY <1>1, <2>2, <2>3 DEF GoesOn
  <2>5. Sound(wallet)' /\ Sound(saved)'
    BY <2>4 DEF Sound
  <2>6. \A g \in Flow : flow[g].op = "none" => flow'[g].w = Out
    BY <1>3 DEF IInv, FlowsAreStarted, Unused, NewFlow
  <2>7. \A g \in Flow : Sound(flow[g].w)'
    BY <1>4, <2>6, CopiesStay DEF Sound
  <2>8. QED
    BY <2>5, <2>7 DEF WalletsSound
<1>15. RemovedKeysAreDead'
  BY <1>1, <1>4, CopiesStay DEF RemovedKeysAreDead, GoesOn, Dead
<1>16. QED
  BY <1>2, <1>8, <1>9, <1>10, <1>11, <1>12, <1>13, <1>14, <1>15 DEF IInv

LEMMA ChainIInv ==
  ASSUME IInv, TypeOK', Stable, UNCHANGED <<react, stored, flow, vague>>, RequestsFollow'
  PROVE  IInv'
<1>1. UNCHANGED <<wallet, saved, listed, idb, removed, flow, vague>> /\ Kept' = Kept
  BY DEF react, stored, Kept
<1>2. FlowsAreStarted'
  BY <1>1 DEF IInv, FlowsAreStarted
<1>3. KeysSeen'
  BY <1>1, CopiesStay DEF IInv, KeysSeen
<1>4. KeptIsOwned'
  BY <1>1, CopiesStay DEF KeptIsOwned
<1>5. StoreMeans'
  BY <1>1, CopiesStay DEF IInv, StoreMeans, Entry
<1>6. RemoveMeans'
  <2>1. \A f \in Flow : \A k \in flow[f].keys : k \in Flow
    BY DEF IInv, KeysSeen, Seen
  <2>2. QED
    BY <1>1, <2>1, CopiesStay DEF IInv, RemoveMeans
<1>7. WalletsSound'
  <2>1. Sound(wallet)' /\ Sound(saved)'
    BY <1>1, SoundStays DEF IInv, TypeOK, WalletsSound
  <2>2. \A f \in Flow : flow[f].op = "none" => flow'[f].w = Out
    BY <1>1 DEF IInv, FlowsAreStarted, Unused, NewFlow
  <2>3. \A f \in Flow : Sound(flow[f].w)'
    BY <2>2, CopiesStay DEF Sound
  <2>4. QED
    BY <2>1, <2>3 DEF WalletsSound
<1>8. RemovedKeysAreDead'
  BY <1>1, CopiesStay DEF RemovedKeysAreDead
<1>9. QED
  BY <1>2, <1>3, <1>4, <1>5, <1>6, <1>7, <1>8 DEF IInv

LEMMA StepIInv ==
  ASSUME IInv, [Next]_vars
  PROVE  IInv'
<1>1. CASE UNCHANGED vars
  <2>1. TypeOK' /\ Stable /\ RequestsFollow'
    BY <1>1 DEF vars, react, stored, chain, IInv, TypeOK, Stable, Kept, RequestsFollow
  <2>2. UNCHANGED <<react, stored, flow, vague>>
    BY <1>1 DEF vars
  <2>3. QED
    BY <2>1, <2>2, ChainIInv
<1>2. CASE PageStep
  BY <1>2, PageIInv
<1>3. ASSUME NEW f \in Flow, StartStep(f)
      PROVE  IInv'
  BY <1>3, StartIInv
<1>4. ASSUME NEW f \in Flow, Continues(f)
      PROVE  IInv'
  BY <1>4, GoesOnIInv
<1>5. ASSUME NEW f \in Flow, Execute(f)
      PROVE  IInv'
  BY <1>5, ExecuteSteps, ChainIInv
<1>6. ASSUME NEW f \in Flow, Expire(f)
      PROVE  IInv'
  BY <1>6, ExpireSteps, ChainIInv
<1>7. QED
  BY <1>1, <1>2, <1>3, <1>4, <1>5, <1>6 DEF Next, PageStep, Quiet, StartStep

LEMMA SpecIInv == Spec => []IInv
<1>1. IInv /\ [Next]_vars => IInv'
  BY StepIInv
<1>2. QED
  BY <1>1, InitIInv, PTL DEF Spec

(***************************************************************************)
(* Every variable of the page, the browser, the flows and the contract     *)
(* stays in its type.                                                      *)
(***************************************************************************)
THEOREM TypeCorrect == Spec => []TypeOK
<1>1. IInv => TypeOK
  BY DEF IInv
<1>2. QED
  BY <1>1, SpecIInv, PTL

(***************************************************************************)
(* However many flows end late, in whatever order and after whatever       *)
(* logins: the active session key is one of its account.                   *)
(***************************************************************************)
THEOREM ActiveKeysAreOurs == Spec => []ActiveKeyIsOurs
<1>1. IInv => ActiveKeyIsOurs
  BY DEF IInv, WalletsSound, Sound, Created, ActiveKeyIsOurs, InUse
<1>2. QED
  BY <1>1, SpecIInv, PTL

(***************************************************************************)
(* handleCreateSessionKey and handleLogin activate what IndexedDB has: no  *)
(* reload in between loses the private key of an active session.           *)
(***************************************************************************)
THEOREM ActiveKeysWereSaved == Spec => []ActiveKeyWasSaved
<1>1. IInv => ActiveKeyWasSaved
  BY DEF IInv, WalletsSound, Sound, Kept, ActiveKeyWasSaved, InUse
<1>2. QED
  BY <1>1, SpecIInv, PTL

(***************************************************************************)
(* The revocations remove private keys by lists that may be out of date,   *)
(* and never the key of a session that the contract still accepts.         *)
(***************************************************************************)
THEOREM RemovedKeysStayDead == Spec => []RemovedKeysAreDead
<1>1. IInv => RemovedKeysAreDead
  BY DEF IInv
<1>2. QED
  BY <1>1, SpecIInv, PTL
===============================================================================
