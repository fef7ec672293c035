------------------------------ MODULE BunkerProofs ------------------------------
(***************************************************************************)
(* The safety of Bunker for any number of bunkers, events, agents and      *)
(* receivers.                                                              *)
(*                                                                         *)
(* ExecutionsCovered counts: an execution for receiver r was covered       *)
(* when its run began, by the approval or by the bunker's own leave.  A    *)
(* run that has not passed r still holds that cover, so the invariant      *)
(* counts these runs among the executions (Balanced).                      *)
(***************************************************************************)
EXTENDS Bunker, FiniteSetTheorems, TLAPS

\* No event has come to a bunker that does not listen yet.
QuietBeforeStart ==
  \A b \in Bunkers, e \in Event :
    status[b] \in {"none", "starting"} => handler[<<b, e>>] = Idle

\* A request is shown under the id of its own event.
IdsName ==
  \A h \in Bunkers \X Event : handler[h].stage = "pending" => handler[h].id[1] = h[2]

AnsweredWhenDone ==
  \A h \in Bunkers \X Event : answers[h] = 0 \/ (answers[h] = 1 /\ handler[h].stage = "done")

\* the bunkers whose run of event e has not passed receiver r
Ahead(e, r) ==
  {b \in Bunkers : handler[<<b, e>>].stage = "running" /\ handler[<<b, e>>].at <= r}

Balanced ==
  \A e \in Event : \A r \in 1..Receivers[e] :
    runs[e][r] + Cardinality(Ahead(e, r)) <= approvals[e] + Cardinality(RunBy(e))

Types ==
  /\ TypeOK
  /\ runs = [e \in Event |-> runs[e]]
  /\ QuietBeforeStart
  /\ IdsName

IInv == Types /\ AnsweredWhenDone /\ WaitingIsShown /\ Balanced

-------------------------------------------------------------------------------
(***************************************************************************)
(* Bunkers and handlers.                                                   *)
(***************************************************************************)
\* the stages of a handler
LEMMA Stages ==
  ASSUME NEW x \in Handler
  PROVE  /\ x.stage \in {"new", "done", "pending", "running"}
         /\ x.stage = "new" <=> x = Idle
         /\ x.stage = "pending" => x.id \in PendingId
         /\ x.stage = "running" => /\ x \in [stage : {"running"}, auto : BOOLEAN, at : Nat \ {0}]
                                   /\ [x EXCEPT !.at = @ + 1] \in Handler
                                   /\ [x EXCEPT !.at = @ + 1].stage = "running"
                                   /\ [x EXCEPT !.at = @ + 1].at = x.at + 1
BY DEF Handler, Idle, Done, Waiting

LEMMA HandlerValues ==
  /\ Idle \in Handler /\ Done \in Handler
  /\ \A e \in Event, ms \in Stamp : Waiting(<<e, ms>>) \in Handler
  /\ \A auto \in BOOLEAN : Running(auto, 1) \in Handler
BY DEF Handler, Idle, Done, Waiting, Running, PendingId

LEMMA SubsetCounts ==
  ASSUME NEW S \in SUBSET Bunkers
  PROVE  /\ Cardinality(S) \in Nat
         /\ \A T \in SUBSET S : Cardinality(T) <= Cardinality(S)
         /\ \A b \in Bunkers \ S : Cardinality(S \union {b}) = Cardinality(S) + 1
         /\ \A b \in S : Cardinality(S \ {b}) = Cardinality(S) - 1
<1>1. IsFiniteSet(Bunkers)
  BY FS_Interval, BunkerAssumption DEF Bunkers
<1>2. IsFiniteSet(S)
  BY <1>1, FS_Subset
<1>3. QED
  BY <1>2, FS_Subset, FS_AddElement, FS_RemoveElement, FS_CardinalityType

-------------------------------------------------------------------------------
(***************************************************************************)
(* The steps, by what they do to the requests.                             *)
(***************************************************************************)
\* the buttons, the settings and the wallet
ByUser ==
  \/ Login
  \/ \E agents \in SUBSET Agent : SetPolicy(agents)
  \/ LeaveDashboard
  \/ \E b \in Bunkers :
       \/ \E viaButton \in BOOLEAN : StartClick(b, viaButton)
       \/ StartDone(b)
       \/ StartFails(b)
  \/ StopBunker
  \/ Logout

UserTypes ==
  /\ wallet' \in BOOLEAN /\ policy' \subseteq Agent /\ button' \in BOOLEAN
  /\ status' \in [Bunkers -> {"none", "starting", "listening", "stopped"}]
  /\ allowlist' \in [Bunkers -> SUBSET Agent]
  /\ bunkerPending' \subseteq bunkerPending
  /\ bunkerRef' \in 0..MaxBunkers
  /\ bunkerRef' # 0 => status'[bunkerRef'] = "listening"

\* A bunker is never put back, the settings of one that has listened stay, and the sheet is
\* emptied only with the bunker that it belongs to.
SheetKept ==
  /\ \A b \in Bunkers :
       /\ status'[b] \in {"none", "starting"} => status[b] \in {"none", "starting"}
       /\ allowlist'[b] = allowlist[b] \/ status[b] = "starting"
  /\ \/ bunkerRef' = 0
     \/ bunkerRef' = bunkerRef /\ bunkerPending' = bunkerPending
     \/ bunkerRef' \in Bunkers /\ status[bunkerRef'] = "starting"

LEMMA StopTypes ==
  ASSUME TypeOK, StopCurrent
  PROVE  /\ bunkerRef' = 0
         /\ status' \in [Bunkers -> {"none", "starting", "listening", "stopped"}]
         /\ \A b \in Bunkers : status'[b] \in {"none", "starting"} => status'[b] = status[b]
BY DEF TypeOK, StopCurrent

LEMMA UserSteps ==
  ASSUME Types, ByUser
  PROVE  /\ UNCHANGED <<handler, runs, approvals, answers>>
         /\ UserTypes
         /\ SheetKept
<1>0. TypeOK /\ 0 \in 0..MaxBunkers
  BY BunkerAssumption DEF Types
<1> USE <1>0 DEF TypeOK, ui, bunkers, RequestsUnchanged, Bunkers, UserTypes, SheetKept
<1>1. CASE Login
  BY <1>1 DEF Login
<1>2. CASE \E agents \in SUBSET Agent : SetPolicy(agents)
  BY <1>2 DEF SetPolicy
<1>3. CASE LeaveDashboard
  BY <1>3 DEF LeaveDashboard
<1>4. CASE \E b \in Bunkers, viaButton \in BOOLEAN : StartClick(b, viaButton)
  BY <1>4 DEF StartClick
<1>5. CASE \E b \in Bunkers : StartDone(b)
  BY <1>5 DEF StartDone
<1>6. CASE \E b \in Bunkers : StartFails(b)
  BY <1>6 DEF StartFails
<1>7. CASE StopBunker
  BY <1>7, StopTypes DEF StopBunker
<1>8. CASE Logout
  BY <1>8, StopTypes DEF Logout
<1>9. QED
  BY <1>1, <1>2, <1>3, <1>4, <1>5, <1>6, <1>7, <1>8 DEF ByUser

-------------------------------------------------------------------------------
(***************************************************************************)
(* A step of handler h, which becomes next.                                *)
(***************************************************************************)
Moves(h, next) ==
  /\ handler' = [handler EXCEPT ![h] = next]
  /\ next.stage # "new" /\ handler[h].stage # "done"
  /\ next.stage = "running" => next.at <= Receivers[h[2]]
  /\ \/ answers' = answers
     \/ next = Done /\ answers' = [answers EXCEPT ![h] = @ + 1]
  /\ \/ /\ next.stage = "pending" /\ next.id[1] = h[2]
        /\ bunkerPending' = bunkerPending \union {next.id}
     \/ next.stage # "pending" /\ bunkerPending' = bunkerPending
     \/ /\ next.stage # "pending" /\ handler[h].stage = "pending" /\ h[1] = bunkerRef
        /\ bunkerPending' = bunkerPending \ {handler[h].id}
  /\ UNCHANGED <<ui, bunkers>>

\* what it adds to the counts
Came(h, next) ==
  /\ handler[h].stage = "new" /\ status[h[1]] = "listening"
  /\ next.stage = "running" =>
       next.at = 1 /\ Kind[h[2]] = "zero" /\ Sender[h[2]] \in allowlist[h[1]]
  /\ UNCHANGED <<runs, approvals>>

Ran(h, next) ==
  /\ handler[h].stage = "running"
  /\ next.stage = "running" => next.at = handler[h].at + 1
  /\ runs' \in {runs, [runs EXCEPT ![h[2]][handler[h].at] = @ + 1]}
  /\ UNCHANGED approvals

Approved(h, next) ==
  /\ handler[h].stage = "pending"
  /\ approvals' = [approvals EXCEPT ![h[2]] = @ + 1]
  /\ UNCHANGED runs

Denied(h, next) ==
  /\ handler[h].stage = "pending" /\ next = Done
  /\ UNCHANGED <<runs, approvals>>

Counts(h, next) == Came(h, next) \/ Ran(h, next) \/ Approved(h, next) \/ Denied(h, next)

LEMMA ReceiveMoves ==
  ASSUME Types, NEW b \in Bunkers, NEW e \in Event, Receive(b, e)
  PROVE  \E next \in Handler : Moves(<<b, e>>, next) /\ Came(<<b, e>>, next)
<1> DEFINE h == <<b, e>>
<1> USE HandlerValues DEF Moves, Came, ui, bunkers
<1>1. h \in Bunkers \X Event /\ h[1] = b /\ h[2] = e /\ 1 <= Receivers[e]
  BY BunkerAssumption
<1>2. CASE Ends(h) /\ UNCHANGED bunkerPending
  <2>1. Moves(h, Done) /\ Came(h, Done)
    BY <1>1, <1>2 DEF Receive, Ends, Is, Publish, Done
  <2>2. QED
    BY <2>1
<1>3. CASE /\ Sender[e] \in allowlist[b] /\ IsZeroValue(e)
           /\ BeginsTx(h, TRUE) /\ UNCHANGED bunkerPending
  <2>1. Moves(h, Running(TRUE, 1)) /\ Came(h, Running(TRUE, 1))
    BY <1>1, <1>3 DEF Receive, BeginsTx, Is, Running, IsZeroValue
  <2>2. QED
    BY <2>1
<1>4. CASE Asks(h)
  <2>1. PICK ms \in Stamp : Is(h, Waiting(<<e, ms>>)) /\ UNCHANGED answers
                           /\ bunkerPending' = bunkerPending \union {<<e, ms>>}
    BY <1>1, <1>4 DEF Asks
  <2>2. Moves(h, Waiting(<<e, ms>>)) /\ Came(h, Waiting(<<e, ms>>))
    BY <1>1, <2>1 DEF Receive, Is, Waiting
  <2>3. QED
    BY <2>2
<1>5. QED
  BY <1>2, <1>3, <1>4 DEF Receive

LEMMA RunTxMoves ==
  ASSUME Types, NEW h \in Bunkers \X Event, NEW outcome \in Outcome, RunTx(h, outcome)
  PROVE  \E next \in Handler : Moves(h, next) /\ Ran(h, next)
<1> DEFINE run == handler[h]
<1> USE HandlerValues DEF Moves, Ran, ui, bunkers
<1>1. /\ run \in Handler /\ run.stage = "running"
      /\ [run EXCEPT !.at = @ + 1] \in Handler
      /\ [run EXCEPT !.at = @ + 1].stage = "running"
      /\ [run EXCEPT !.at = @ + 1].at = run.at + 1
      /\ run.at \in Nat \ {0} /\ run.at <= Receivers[h[2]] /\ Receivers[h[2]] \in Nat
  BY Stages, BunkerAssumption DEF Types, TypeOK, RunTx
<1>2. CASE /\ run.at # Receivers[h[2]]
           /\ Is(h, [run EXCEPT !.at = @ + 1])
           /\ UNCHANGED <<bunkerPending, answers>>
  <2>1. Moves(h, [run EXCEPT !.at = @ + 1]) /\ Ran(h, [run EXCEPT !.at = @ + 1])
    BY <1>1, <1>2 DEF RunTx, Is
  <2>2. QED
    BY <1>1, <2>1
<1>3. CASE Ends(h) /\ UNCHANGED bunkerPending
  <2>1. Moves(h, Done) /\ Ran(h, Done)
    BY <1>1, <1>3 DEF RunTx, Ends, Is, Publish, Done
  <2>2. QED
    BY <2>1
<1>4. CASE Asks(h)
  <2>1. PICK ms \in Stamp : Is(h, Waiting(<<h[2], ms>>)) /\ UNCHANGED answers
                           /\ bunkerPending' = bunkerPending \union {<<h[2], ms>>}
    BY <1>4 DEF Asks
  <2>2. Moves(h, Waiting(<<h[2], ms>>)) /\ Ran(h, Waiting(<<h[2], ms>>))
    BY <1>1, <2>1 DEF RunTx, Is, Waiting
  <2>3. QED
    BY <2>2
<1>5. QED
  BY <1>2, <1>3, <1>4 DEF RunTx, Fails

LEMMA ApproveMoves ==
  ASSUME Types, NEW h \in Bunkers \X Event, Approve(h)
  PROVE  \E next \in Handler : Moves(h, next) /\ Approved(h, next)
<1> USE HandlerValues DEF Moves, Approved, ui, bunkers, Approve, Decides, WaitsFor
<1>1. 1 <= Receivers[h[2]]
  BY BunkerAssumption
<1>2. CASE BeginsTx(h, FALSE)
  <2>1. Moves(h, Running(FALSE, 1)) /\ Approved(h, Running(FALSE, 1))
    BY <1>1, <1>2 DEF BeginsTx, Is, Running
  <2>2. QED
    BY <2>1
<1>3. CASE Ends(h)
  <2>1. Moves(h, Done) /\ Approved(h, Done)
    BY <1>3 DEF Ends, Is, Publish, Done
  <2>2. QED
    BY <2>1
<1>4. QED
  BY <1>2, <1>3

LEMMA DenyMoves ==
  ASSUME Types, NEW h \in Bunkers \X Event, Deny(h)
  PROVE  \E next \in Handler : Moves(h, next) /\ Denied(h, next)
<1>1. Moves(h, Done) /\ Denied(h, Done)
  BY DEF Moves, Denied, ui, bunkers, Deny, Decides, WaitsFor, Ends, Is, Publish, Done
<1>2. QED
  BY <1>1, HandlerValues

LEMMA StepCases ==
  ASSUME Types, Next
  PROVE  \/ ByUser
         \/ \E id \in bunkerPending : DecideInVain(id)
         \/ \E h \in Bunkers \X Event, next \in Handler : Moves(h, next) /\ Counts(h, next)
<1>1. CASE \E b \in Bunkers, e \in Event : Receive(b, e)
  BY <1>1, ReceiveMoves DEF Counts
<1>2. CASE \E h \in Bunkers \X Event, outcome \in Outcome : RunTx(h, outcome)
  BY <1>2, RunTxMoves DEF Counts
<1>3. CASE \E h \in Bunkers \X Event : Approve(h) \/ Deny(h)
  BY <1>3, ApproveMoves, DenyMoves DEF Counts
<1>4. QED
  BY <1>1, <1>2, <1>3 DEF Next, ByUser

-------------------------------------------------------------------------------
(***************************************************************************)
(* The types, and what ties handlers to bunkers and ids.                   *)
(***************************************************************************)
LEMMA TypesInit ==
  ASSUME Init
  PROVE  Types
<1>1. TypeOK
  <2>1. /\ bunkerRef \in 0..MaxBunkers
        /\ status \in [Bunkers -> {"none", "starting", "listening", "stopped"}]
    BY BunkerAssumption DEF Init
  <2>2. handler \in [Bunkers \X Event -> Handler]
    BY HandlerValues DEF Init
  <2>3. \A h \in Bunkers \X Event : handler[h].stage # "running"
    BY DEF Init, Idle
  <2>4. \A e \in Event : runs[e] \in [1..Receivers[e] -> Nat]
    BY DEF Init
  <2>5. QED
    BY <2>1, <2>2, <2>3, <2>4 DEF Init, TypeOK
<1>2. runs = [e \in Event |-> runs[e]] /\ QuietBeforeStart /\ IdsName
  BY DEF Init, QuietBeforeStart, IdsName, Idle
<1>3. QED
  BY <1>1, <1>2 DEF Types

LEMMA TypesMoves ==
  ASSUME Types, NEW h \in Bunkers \X Event, NEW next \in Handler,
         Moves(h, next), Counts(h, next)
  PROVE  Types'
<1> USE DEF Types, Moves, ui, bunkers
<1>1. next.stage = "pending" => next.id \in PendingId
  BY Stages
<1>2. bunkerPending' \subseteq PendingId
  BY <1>1 DEF TypeOK
<1>3. handler' \in [Bunkers \X Event -> Handler]
  BY DEF TypeOK
<1>4. \A g \in Bunkers \X Event :
        handler'[g].stage = "running" => handler'[g].at <= Receivers[g[2]]
  BY DEF TypeOK
<1>5. answers' \in [Bunkers \X Event -> Nat]
  BY DEF TypeOK
<1>6. approvals' \in [Event -> Nat]
  BY DEF TypeOK, Counts, Came, Ran, Approved, Denied
<1>7. /\ runs' = [e \in Event |-> runs'[e]]
      /\ \A e \in Event : runs'[e] \in [1..Receivers[e] -> Nat]
  <2>1. CASE runs' = runs
    BY <2>1 DEF TypeOK
  <2>2. CASE Ran(h, next) /\ runs' # runs
    <3>1. /\ handler[h].at \in 1..Receivers[h[2]]
          /\ runs' = [runs EXCEPT ![h[2]][handler[h].at] = @ + 1]
      BY <2>2, Stages, BunkerAssumption DEF Ran, TypeOK
    <3>2. h[2] \in Event
      OBVIOUS
    <3>3. runs' = [runs EXCEPT ![h[2]] = [runs[h[2]] EXCEPT ![handler[h].at] = @ + 1]]
      BY <3>1, <3>2
    <3>4. [runs[h[2]] EXCEPT ![handler[h].at] = @ + 1] \in [1..Receivers[h[2]] -> Nat]
      <4>1. runs[h[2]] \in [1..Receivers[h[2]] -> Nat]
        BY <3>2 DEF TypeOK
      <4>2. ASSUME NEW S, NEW f \in [S -> Nat], NEW x \in S
            PROVE  [f EXCEPT ![x] = @ + 1] \in [S -> Nat]
        OBVIOUS
      <4>3. QED
        BY <3>1, <4>1, <4>2
    <3>5. \A e \in Event :
            runs'[e] = IF e = h[2] THEN [runs[h[2]] EXCEPT ![handler[h].at] = @ + 1] ELSE runs[e]
      BY <3>2, <3>3
    <3>6. \A e \in Event : runs'[e] \in [1..Receivers[e] -> Nat]
      BY <3>2, <3>4, <3>5 DEF TypeOK
    <3>7. runs' = [e \in Event |-> runs'[e]]
      BY <3>2, <3>3, <3>5
    <3>8. QED
      BY <3>6, <3>7
  <2>3. QED
    BY <2>1, <2>2 DEF Counts, Came, Approved, Denied
<1>8. TypeOK'
  BY <1>2, <1>3, <1>4, <1>5, <1>6, <1>7 DEF TypeOK
<1>9. QuietBeforeStart'
  <2>1. status[h[1]] = "listening" \/ handler[h] # Idle
    BY DEF Counts, Came, Ran, Approved, Denied, Idle
  <2>2. QED
    BY <2>1 DEF QuietBeforeStart, TypeOK, Counts, Came, Ran, Approved, Denied
<1>10. IdsName'
  BY DEF IdsName, TypeOK
<1>11. QED
  BY <1>7, <1>8, <1>9, <1>10

LEMMA TypesStep ==
  ASSUME Types, [Next]_vars
  PROVE  Types'
<1>1. CASE ByUser
  <2>1. TypeOK'
    BY <1>1, UserSteps DEF Types, TypeOK, UserTypes
  <2>2. runs' = [e \in Event |-> runs'[e]] /\ QuietBeforeStart' /\ IdsName'
    BY <1>1, UserSteps DEF Types, SheetKept, QuietBeforeStart, IdsName
  <2>3. QED
    BY <2>1, <2>2 DEF Types
<1>2. CASE \E id \in bunkerPending : DecideInVain(id)
  BY <1>2 DEF DecideInVain, Decides, ui, bunkers, Types, TypeOK, QuietBeforeStart, IdsName
<1>3. CASE UNCHANGED vars
  BY <1>3 DEF vars, ui, bunkers, Types, TypeOK, QuietBeforeStart, IdsName
<1>4. QED
  BY <1>1, <1>2, <1>3, StepCases, TypesMoves

-------------------------------------------------------------------------------
LEMMA AnsweredStep ==
  ASSUME Types, AnsweredWhenDone, [Next]_vars
  PROVE  AnsweredWhenDone'
<1> USE DEF AnsweredWhenDone
<1>1. CASE ByUser
  BY <1>1, UserSteps
<1>2. CASE \E id \in bunkerPending : DecideInVain(id)
  BY <1>2 DEF DecideInVain
<1>3. CASE UNCHANGED vars
  BY <1>3 DEF vars
<1>4. ASSUME NEW h \in Bunkers \X Event, NEW next \in Handler, Moves(h, next)
      PROVE  AnsweredWhenDone'
  BY <1>4 DEF Moves, Done, Types, TypeOK
<1>5. QED
  BY <1>1, <1>2, <1>3, <1>4, StepCases

\* An id is the id of one handler of the current bunker at most.
LEMMA ShownStep ==
  ASSUME Types, WaitingIsShown, [Next]_vars
  PROVE  WaitingIsShown'
<1>1. CASE ByUser
  <2> SUFFICES ASSUME NEW h \in Bunkers \X Event, h[1] = bunkerRef', handler'[h].stage = "pending"
               PROVE  handler'[h].id \in bunkerPending'
    BY DEF WaitingIsShown
  <2>1. handler'[h] = handler[h] /\ bunkerRef' # 0 /\ h = <<h[1], h[2]>>
    BY <1>1, UserSteps, BunkerAssumption DEF Bunkers
  <2>2. handler[h] # Idle
    BY <2>1 DEF Idle
  <2>3. status[bunkerRef'] # "starting"
    BY <2>1, <2>2 DEF Types, QuietBeforeStart
  <2>4. QED
    BY <1>1, <2>1, <2>3, UserSteps DEF SheetKept, WaitingIsShown
<1>2. CASE \E id \in bunkerPending : DecideInVain(id)
  BY <1>2 DEF DecideInVain, Decides, WaitsFor, ui, WaitingIsShown
<1>3. CASE UNCHANGED vars
  BY <1>3 DEF vars, ui, WaitingIsShown
<1>4. ASSUME NEW h \in Bunkers \X Event, NEW next \in Handler, Moves(h, next)
      PROVE  WaitingIsShown'
  <2> SUFFICES ASSUME NEW g \in Bunkers \X Event, g[1] = bunkerRef', handler'[g].stage = "pending"
               PROVE  handler'[g].id \in bunkerPending'
    BY DEF WaitingIsShown
  <2>1. bunkerRef' = bunkerRef
    BY <1>4 DEF Moves, ui
  <2>2. CASE g = h
    BY <1>4, <2>2 DEF Moves, Types, TypeOK
  <2>3. CASE g # h
    <3>1. handler'[g] = handler[g] /\ handler[g].id \in bunkerPending
      BY <1>4, <2>1, <2>3 DEF Moves, Types, TypeOK, WaitingIsShown
    <3>2. g[1] = h[1] => g[2] # h[2]
      BY <2>3
    <3>3. handler[h].stage = "pending" /\ h[1] = bunkerRef => handler[g].id # handler[h].id
      BY <2>1, <3>1, <3>2 DEF Types, IdsName
    <3>4. QED
      BY <1>4, <3>1, <3>3 DEF Moves
  <2>4. QED
    BY <2>2, <2>3
<1>5. QED
  BY <1>1, <1>2, <1>3, <1>4, StepCases

-------------------------------------------------------------------------------
(***************************************************************************)
(* The balance of executions and covers.                                   *)
(***************************************************************************)
\* What a step of handler h does to the counts of its event, for receiver r
LEMMA EventBalance ==
  ASSUME Types, Balanced, NEW h \in Bunkers \X Event, NEW next \in Handler,
         Moves(h, next), Counts(h, next), NEW r \in 1..Receivers[h[2]]
  PROVE  runs'[h[2]][r] + Cardinality(Ahead(h[2], r)')
           <= approvals'[h[2]] + Cardinality(RunBy(h[2])')
<1> DEFINE b == h[1]
           e == h[2]
<1>1. b \in Bunkers /\ e \in Event /\ h = <<b, e>>
  OBVIOUS
<1>2. Types'
  BY TypesMoves
<1>3. /\ handler[h] \in Handler /\ handler'[h] = next
      /\ \A c \in Bunkers \ {b} : handler'[<<c, e>>] = handler[<<c, e>>]
      /\ allowlist' = allowlist
  BY <1>1 DEF Types, TypeOK, Moves, bunkers
<1>4. /\ runs[e][r] \in Nat /\ runs'[e][r] \in Nat
      /\ approvals[e] \in Nat /\ approvals'[e] \in Nat
      /\ runs[e][r] + Cardinality(Ahead(e, r)) <= approvals[e] + Cardinality(RunBy(e))
  BY <1>1, <1>2 DEF Types, TypeOK, Balanced
<1>5. /\ Ahead(e, r) \in SUBSET Bunkers /\ Ahead(e, r)' \in SUBSET Bunkers
      /\ RunBy(e) \in SUBSET Bunkers /\ RunBy(e)' \in SUBSET Bunkers
  BY DEF Ahead, RunBy, Bunkers
<1>6. RunBy(e) \subseteq RunBy(e)'
  BY <1>1, <1>3 DEF RunBy, Moves
<1>7. /\ Cardinality(Ahead(e, r)) \in Nat /\ Cardinality(Ahead(e, r)') \in Nat
      /\ Cardinality(RunBy(e)) \in Nat /\ Cardinality(RunBy(e)') \in Nat
      /\ Cardinality(RunBy(e)) <= Cardinality(RunBy(e)')
  BY <1>5, <1>6, SubsetCounts
<1>8. CASE /\ Ahead(e, r)' \subseteq Ahead(e, r)
           /\ runs'[e][r] = runs[e][r]
           /\ approvals'[e] >= approvals[e]
  <2>1. Cardinality(Ahead(e, r)') <= Cardinality(Ahead(e, r))
    BY <1>5, <1>8, SubsetCounts
  <2>2. QED
    BY <1>4, <1>7, <1>8, <2>1
<1>9. CASE Came(h, next) /\ next.stage = "running"
  <2>1. b \notin Ahead(e, r) /\ Ahead(e, r)' \subseteq Ahead(e, r) \union {b}
    BY <1>1, <1>3, <1>9 DEF Ahead, Came
  <2>2. b \notin RunBy(e) /\ RunBy(e)' = RunBy(e) \union {b}
    BY <1>1, <1>3, <1>9 DEF RunBy, Came, Moves
  <2>3. Cardinality(Ahead(e, r)') <= Cardinality(Ahead(e, r)) + 1
    <3>1. Ahead(e, r) \union {b} \in SUBSET Bunkers
      BY <1>1, <1>5
    <3>2. Cardinality(Ahead(e, r)') <= Cardinality(Ahead(e, r) \union {b})
      BY <2>1, <3>1, SubsetCounts
    <3>3. Cardinality(Ahead(e, r) \union {b}) = Cardinality(Ahead(e, r)) + 1
      BY <1>1, <1>5, <2>1, SubsetCounts
    <3>4. QED
      BY <3>2, <3>3
  <2>4. Cardinality(RunBy(e)') = Cardinality(RunBy(e)) + 1
    BY <1>1, <1>5, <2>2, SubsetCounts
  <2>5. runs' = runs /\ approvals' = approvals
    BY <1>9 DEF Came
  <2>6. QED
    BY <1>4, <1>7, <2>3, <2>4, <2>5
<1>10. CASE Approved(h, next)
  <2>1. b \notin Ahead(e, r) /\ Ahead(e, r)' \subseteq Ahead(e, r) \union {b}
    BY <1>1, <1>3, <1>10 DEF Ahead, Approved
  <2>2. Cardinality(Ahead(e, r)') <= Cardinality(Ahead(e, r)) + 1
    <3>1. Ahead(e, r) \union {b} \in SUBSET Bunkers
      BY <1>1, <1>5
    <3>2. Cardinality(Ahead(e, r)') <= Cardinality(Ahead(e, r) \union {b})
      BY <2>1, <3>1, SubsetCounts
    <3>3. Cardinality(Ahead(e, r) \union {b}) = Cardinality(Ahead(e, r)) + 1
      BY <1>1, <1>5, <2>1, SubsetCounts
    <3>4. QED
      BY <3>2, <3>3
  <2>3. runs' = runs /\ approvals'[e] = approvals[e] + 1
    BY <1>1, <1>10 DEF Approved, Types, TypeOK
  <2>4. QED
    BY <1>4, <1>7, <2>2, <2>3
<1>11. CASE Ran(h, next)
  <2>1. handler[h].at \in Nat /\ approvals' = approvals
    BY <1>3, <1>11, Stages DEF Ran
  <2>2. Ahead(e, r)' \subseteq Ahead(e, r)
    BY <1>1, <1>3, <1>11, <2>1 DEF Ahead, Ran
  <2>3. CASE runs'[e][r] = runs[e][r]
    BY <1>4, <1>8, <2>1, <2>2, <2>3
  <2>4. CASE runs'[e][r] # runs[e][r]
    <3>1. handler[h].at = r /\ runs'[e][r] = runs[e][r] + 1
      <4>1. /\ runs[e] \in [1..Receivers[e] -> Nat]
            /\ runs = [f \in Event |-> runs[f]]
        BY <1>1 DEF Types, TypeOK
      <4>2. runs' = [runs EXCEPT ![e][handler[h].at] = runs[e][handler[h].at] + 1]
        BY <1>11, <2>4 DEF Ran
      <4>3. runs'[e] = [runs[e] EXCEPT ![handler[h].at] = runs[e][handler[h].at] + 1]
        BY <1>1, <4>1, <4>2
      <4>4. QED
        BY <2>4, <4>1, <4>3
    <3>2. b \in Ahead(e, r) /\ Ahead(e, r)' \subseteq Ahead(e, r) \ {b}
      BY <1>1, <1>3, <1>11, <2>2, <3>1 DEF Ahead, Ran
    <3>3. Cardinality(Ahead(e, r)') <= Cardinality(Ahead(e, r)) - 1
      <4>1. Ahead(e, r) \ {b} \in SUBSET Bunkers
        BY <1>5
      <4>2. Cardinality(Ahead(e, r)') <= Cardinality(Ahead(e, r) \ {b})
        BY <3>2, <4>1, SubsetCounts
      <4>3. Cardinality(Ahead(e, r) \ {b}) = Cardinality(Ahead(e, r)) - 1
        BY <1>5, <3>2, SubsetCounts
      <4>4. QED
        BY <4>2, <4>3
    <3>4. QED
      BY <1>4, <1>7, <2>1, <3>1, <3>3
  <2>5. QED
    BY <2>3, <2>4
<1>12. CASE Denied(h, next) \/ (Came(h, next) /\ next.stage # "running")
  <2>1. Ahead(e, r)' \subseteq Ahead(e, r)
    BY <1>1, <1>3, <1>12 DEF Ahead, Denied, Done
  <2>2. runs' = runs /\ approvals' = approvals
    BY <1>12 DEF Denied, Came
  <2>3. QED
    BY <1>4, <1>8, <2>1, <2>2
<1>13. QED
  BY <1>9, <1>10, <1>11, <1>12 DEF Counts

LEMMA BalancedStep ==
  ASSUME Types, Balanced, [Next]_vars
  PROVE  Balanced'
<1>1. CASE ByUser
  <2>1. \A e \in Event : RunBy(e)' = RunBy(e)
    <3> SUFFICES ASSUME NEW e \in Event, NEW b \in Bunkers
                 PROVE  b \in RunBy(e)' <=> b \in RunBy(e)
      BY DEF RunBy
    <3>1. allowlist'[b] = allowlist[b] \/ handler[<<b, e>>].stage = "new"
      BY <1>1, UserSteps DEF SheetKept, Types, QuietBeforeStart, Idle
    <3>2. QED
      BY <1>1, <3>1, UserSteps DEF RunBy
  <2>2. QED
    BY <1>1, <2>1, UserSteps DEF Balanced, Ahead
<1>2. CASE \E id \in bunkerPending : DecideInVain(id)
  BY <1>2 DEF DecideInVain, Decides, bunkers, Balanced, Ahead, RunBy
<1>3. CASE UNCHANGED vars
  BY <1>3 DEF vars, bunkers, Balanced, Ahead, RunBy
<1>4. ASSUME NEW h \in Bunkers \X Event, NEW next \in Handler, Moves(h, next), Counts(h, next)
      PROVE  Balanced'
  <2> SUFFICES ASSUME NEW e \in Event, NEW r \in 1..Receivers[e]
               PROVE  (runs[e][r] + Cardinality(Ahead(e, r))
                         <= approvals[e] + Cardinality(RunBy(e)))'
    BY DEF Balanced
  <2>1. CASE e = h[2]
    BY <1>4, <2>1, EventBalance
  <2>2. CASE e # h[2]
    <3>1. \A b \in Bunkers : handler'[<<b, e>>] = handler[<<b, e>>]
      BY <1>4, <2>2 DEF Moves, Types, TypeOK
    <3>2. Ahead(e, r)' = Ahead(e, r) /\ RunBy(e)' = RunBy(e)
      BY <1>4, <3>1 DEF Ahead, RunBy, Moves, bunkers
    <3>3. runs'[e] = runs[e] /\ approvals'[e] = approvals[e]
      BY <1>4, <2>2 DEF Counts, Came, Ran, Approved, Denied, Types, TypeOK
    <3>4. QED
      BY <3>2, <3>3 DEF Balanced
  <2>3. QED
    BY <2>1, <2>2
<1>5. QED
  BY <1>1, <1>2, <1>3, <1>4, StepCases

LEMMA BalancedCovers ==
  ASSUME Types, Balanced
  PROVE  ExecutionsCovered
<1> SUFFICES ASSUME NEW e \in Event, NEW r \in 1..Receivers[e]
             PROVE  runs[e][r] <= approvals[e] + Cardinality(RunBy(e))
  BY DEF ExecutionsCovered
<1>1. Ahead(e, r) \in SUBSET Bunkers /\ RunBy(e) \in SUBSET Bunkers
  BY DEF Ahead, RunBy, Bunkers
<1>2. Cardinality(Ahead(e, r)) \in Nat /\ Cardinality(RunBy(e)) \in Nat
  BY <1>1, SubsetCounts
<1>3. runs[e][r] \in Nat /\ approvals[e] \in Nat
  BY DEF Types, TypeOK
<1>4. QED
  BY <1>2, <1>3 DEF Balanced

-------------------------------------------------------------------------------
LEMMA InitIInv == Init => IInv
<1> SUFFICES ASSUME Init PROVE IInv
  OBVIOUS
<1>1. AnsweredWhenDone /\ WaitingIsShown
  BY DEF Init, AnsweredWhenDone, WaitingIsShown, Idle
<1>2. ASSUME NEW e \in Event, NEW r \in 1..Receivers[e]
      PROVE  runs[e][r] + Cardinality(Ahead(e, r)) <= approvals[e] + Cardinality(RunBy(e))
  <2>1. Ahead(e, r) = {} /\ RunBy(e) = {}
    BY DEF Init, Ahead, RunBy, Idle
  <2>2. QED
    BY <2>1, FS_EmptySet DEF Init
<1>3. QED
  BY <1>1, <1>2, TypesInit DEF IInv, Balanced

LEMMA SpecIInv == Spec => []IInv
<1>1. IInv /\ [Next]_vars => IInv'
  BY TypesStep, AnsweredStep, ShownStep, BalancedStep DEF IInv
<1>2. QED
  BY <1>1, InitIInv, PTL DEF Spec

(***************************************************************************)
(* Every variable of the bunkers, the page and the requests stays in its   *)
(* type.                                                                   *)
(***************************************************************************)
THEOREM TypeCorrect == Spec => []TypeOK
<1>1. IInv => TypeOK
  BY DEF IInv, Types
<1>2. QED
  BY <1>1, SpecIInv, PTL

(***************************************************************************)
(* However many bunkers and receivers there are, and whichever executions  *)
(* fail half-way: none runs without an approval or a bunker's own leave.   *)
(***************************************************************************)
THEOREM ExecutionsAreCovered == Spec => []ExecutionsCovered
<1>1. IInv => ExecutionsCovered
  BY BalancedCovers DEF IInv
<1>2. QED
  BY <1>1, SpecIInv, PTL

(***************************************************************************)
(* No path through handleEvent answers an event twice.                     *)
(***************************************************************************)
THEOREM NothingIsAnsweredTwice == Spec => []AnswersOnce
<1>1. IInv => AnswersOnce
  BY DEF IInv, AnsweredWhenDone, AnswersOnce
<1>2. QED
  BY <1>1, SpecIInv, PTL

(***************************************************************************)
(* The user finds on the sheet what the current bunker waits for.          *)
(***************************************************************************)
THEOREM WaitingStaysShown == Spec => []WaitingIsShown
<1>1. IInv => WaitingIsShown
  BY DEF IInv
<1>2. QED
  BY <1>1, SpecIInv, PTL
===============================================================================
