----------------------------- MODULE PaymentsProofs -----------------------------
(***************************************************************************)
(* The safety of Payments for any number of accounts and presses, and what *)
(* is sent: the properties of Codec for every input.                       *)
(*                                                                         *)
(* AcceptedIsNext looks at the pool only.  What makes it true is that a    *)
(* nonce is read from the chain, whose count only grows: no flow carries a *)
(* nonce above the count of its account (NonceReached), so a node accepts  *)
(* it only when it is the count.                                           *)
(*                                                                         *)
(* The encodings are loops over bytes and digits: recursive functions and  *)
(* folds.  A loop is known by its first value and the equation of a step   *)
(* (DigitsRule, NumberRule, Flattened, Decoded, SplitPrefixes), which      *)
(* follow from induction once and for all (Recursion, FoldSolution).  The  *)
(* lemmas about an encoding are inductions on numbers or sequences with    *)
(* these equations, and the two directions meet in the value of the digits *)
(* (NumberOfDigits, DigitsOfNumber).  InputOK says that an input stays of  *)
(* its kind and in its range.                                              *)
(***************************************************************************)
EXTENDS Payments, Codec, FiniteSetTheorems, SequenceTheorems, TLAPS

Stage == {"new", "quote", "sign", "relay", "broadcast", "end", "over"}

FlowRecord ==
  [chain : {"eth", "sol", "near"}, account : Account \union {Nobody},
   from : Account \union {Nobody}, nonce : Nat, accepted : BOOLEAN, told : BOOLEAN,
   stage : Stage]

TypeOK ==
  /\ account \in Account \union {Nobody}
  /\ sol \in Account \union {Nobody}
  /\ deriving \subseteq Account
  /\ flow \in [Flow -> FlowRecord]
  /\ mined \in [Account -> Nat]
  /\ pool \in [Account -> SUBSET Nat]

\* A flow that runs belongs to an account and has told nothing before its end.
RunsForAccount ==
  \A f \in Flow : Running(f) =>
    flow[f].account \in Account /\ (flow[f].stage # "end" => ~flow[f].told)

NonceReached ==
  \A f \in Flow : Running(f) => flow[f].nonce <= mined[flow[f].account]

Types == TypeOK /\ RunsForAccount

IInv == Types /\ NonceReached /\ SendingHasFlow /\ AcceptedIsNext /\ ToldIsAccepted

-------------------------------------------------------------------------------
(***************************************************************************)
(* The steps by what they touch: the page, the chain, or one flow.         *)
(***************************************************************************)
PageStep ==
  \/ \E a \in Account : Login(a) \/ Derived(a)
  \/ Logout \/ Derive \/ Operate \/ Operated \/ Rejected

ChainStep == \E a \in Account : Mine(a) \/ \E n \in pool[a] : Drop(a, n)

LEMMA StepCases ==
  ASSUME [Next]_vars
  PROVE  \/ PageStep \/ ChainStep \/ UNCHANGED vars
         \/ \E f \in Flow : Goes_On(f) \/ \E c \in {"eth", "sol", "near"} : Press(f, c)
BY DEF Next, PageStep, ChainStep

\* No step of the rest of the page shows the sending screen.
LEMMA PageSteps ==
  ASSUME PageStep, TypeOK
  PROVE  /\ account' \in Account \union {Nobody} /\ sol' \in Account \union {Nobody}
         /\ deriving' \subseteq Account
         /\ screen' = "sending" => screen = "sending"
         /\ UNCHANGED <<flow, chain>>
BY DEF PageStep, Login, Derived, Logout, Derive, Operate, Operated, Rejected, TypeOK

\* The count of an account only grows, and what is mined has left the pool.
LEMMA ChainSteps ==
  ASSUME ChainStep, TypeOK
  PROVE  /\ UNCHANGED <<page, flow>>
         /\ mined' \in [Account -> Nat] /\ pool' \in [Account -> SUBSET Nat]
         /\ \A a \in Account : mined[a] <= mined'[a] /\ pool'[a] \subseteq pool[a]
         /\ \A a \in Account : mined'[a] # mined[a] => pool'[a] \subseteq pool[a] \ {mined[a]}
<1>1. ASSUME NEW a \in Account, Mine(a)
      PROVE  /\ UNCHANGED <<page, flow>>
             /\ mined' \in [Account -> Nat] /\ pool' \in [Account -> SUBSET Nat]
             /\ \A b \in Account : mined[b] <= mined'[b] /\ pool'[b] \subseteq pool[b]
             /\ \A b \in Account : mined'[b] # mined[b] => pool'[b] \subseteq pool[b] \ {mined[b]}
  BY <1>1 DEF Mine, TypeOK
<1>2. ASSUME NEW a \in Account, NEW n \in pool[a], Drop(a, n)
      PROVE  /\ UNCHANGED <<page, flow, mined>>
             /\ pool' \in [Account -> SUBSET Nat]
             /\ \A b \in Account : pool'[b] \subseteq pool[b]
  BY <1>2 DEF Drop, TypeOK
<1>3. QED
  BY <1>1, <1>2 DEF ChainStep, TypeOK

\* What a step of flow f does to it
Moves(f, next) == flow' = [flow EXCEPT ![f] = next]

\* A call returns or throws: the flow goes on, the chain and the page stay.
Calls(f, next) ==
  /\ Running(f) /\ flow[f].stage # "end" /\ next.stage \in Stage \ {"new", "over"}
  /\ next.chain = flow[f].chain /\ next.account = flow[f].account /\ next.from = flow[f].from
  /\ next.nonce = flow[f].nonce \/ next.nonce \in {0, mined[flow[f].account]}
  /\ next.told => next.stage = "end" /\ next.chain = "near"
  /\ UNCHANGED <<page, chain>>

\* A node accepts the transaction.
Broadcasts(f, next) ==
  /\ flow[f].stage = "broadcast" /\ Accepts(f)
  /\ \E told \in BOOLEAN :
       next = [flow[f] EXCEPT !.stage = "end", !.accepted = TRUE, !.told = told]
  /\ UNCHANGED page

LEMMA FlowSteps ==
  ASSUME Types, NEW f \in Flow, Goes_On(f)
  PROVE  \E next \in FlowRecord :
           Moves(f, next) /\ (Calls(f, next) \/ Broadcasts(f, next) \/ End(f))
<1>1. flow[f] \in FlowRecord /\ mined \in [Account -> Nat]
  BY DEF Types, TypeOK
<1>2. CASE Quote(f)
  <2> DEFINE next == [flow[f] EXCEPT !.stage = "sign",
                        !.nonce = IF flow[f].chain = "eth" THEN mined[flow[f].account] ELSE 0]
  <2>1. Running(f) /\ flow[f].account \in Account /\ ~flow[f].told
    BY <1>2 DEF Quote, Running, Types, RunsForAccount
  <2>2. Moves(f, next)
    BY <1>1, <1>2 DEF Quote, Moves, Types, TypeOK, FlowRecord
  <2>3. next \in FlowRecord /\ Calls(f, next)
    BY <1>1, <1>2, <2>1 DEF Quote, Calls, FlowRecord, Stage
  <2>4. QED
    BY <2>2, <2>3
<1>3. CASE Sign(f) \/ Throws(f) \/ (Relay(f) /\ flow[f].chain # "near")
  <2>1. PICK stage \in {"relay", "broadcast", "end"} : Goes(f, stage) /\ UNCHANGED <<page, chain>>
    BY <1>3 DEF Sign, Throws, Relay
  <2>2. Running(f) /\ flow[f].stage # "end" /\ ~flow[f].told
    BY <1>3 DEF Sign, Throws, Relay, Running, Types, RunsForAccount
  <2> DEFINE next == [flow[f] EXCEPT !.stage = stage]
  <2>3. Moves(f, next)
    BY <1>1, <2>1 DEF Goes, Moves, FlowRecord
  <2>4. next \in FlowRecord /\ Calls(f, next)
    BY <1>1, <2>1, <2>2 DEF Calls, FlowRecord, Stage
  <2>5. QED
    BY <2>3, <2>4
<1>4. CASE Relay(f) /\ flow[f].chain = "near"
  <2> DEFINE next == [flow[f] EXCEPT !.stage = "end", !.accepted = FALSE, !.told = TRUE]
  <2>1. Moves(f, next)
    BY <1>1, <1>4 DEF Relay, Answered, Moves, FlowRecord
  <2>2. next \in FlowRecord /\ Calls(f, next)
    BY <1>1, <1>4 DEF Relay, Calls, Running, FlowRecord, Stage
  <2>3. QED
    BY <2>1, <2>2
<1>5. CASE Broadcast(f)
  <2>1. PICK told \in BOOLEAN : Answered(f, TRUE, told)
    BY <1>5 DEF Broadcast
  <2> DEFINE next == [flow[f] EXCEPT !.stage = "end", !.accepted = TRUE, !.told = told]
  <2>2. Moves(f, next) /\ next \in FlowRecord
    BY <1>1, <2>1 DEF Answered, Moves, FlowRecord, Stage
  <2>3. Broadcasts(f, next)
    BY <1>5 DEF Broadcast, Broadcasts
  <2>4. QED
    BY <2>2, <2>3
<1>6. CASE End(f)
  <2>1. Over \in FlowRecord
    BY DEF Over, NoFlow, FlowRecord, Stage
  <2>2. QED
    BY <1>6, <2>1 DEF End, Moves
<1>7. QED
  BY <1>2, <1>3, <1>4, <1>5, <1>6 DEF Goes_On

\* What a press makes of a flow
LEMMA PressSteps ==
  ASSUME Types, NEW f \in Flow, NEW c \in {"eth", "sol", "near"}, Press(f, c)
  PROVE  \E next \in FlowRecord :
           /\ Moves(f, next)
           /\ flow[f].stage = "new" /\ next.stage \in Stage \ {"new", "over"}
           /\ next.chain = c /\ next.account = account /\ account \in Account
           /\ next.nonce = 0 /\ ~next.told
           /\ screen # "sending" /\ (c = "near" => screen' # "sending")
           /\ UNCHANGED <<account, sol, deriving, chain>>
<1> DEFINE next == [NoFlow EXCEPT !.chain = c, !.account = account,
                                  !.from = IF c = "sol" THEN sol ELSE Nobody,
                                  !.stage = IF c = "near" THEN "sign" ELSE "quote"]
<1>1. account \in Account
  BY DEF Press, Types, TypeOK
<1>2. next \in FlowRecord
  BY <1>1 DEF NoFlow, FlowRecord, Stage, Types, TypeOK
<1>3. Moves(f, next)
  BY DEF Press, Moves
<1>4. /\ next.stage \in Stage \ {"new", "over"} /\ next.chain = c /\ next.account = account
      /\ next.nonce = 0 /\ ~next.told
  BY DEF NoFlow, Stage
<1>5. QED
  BY <1>1, <1>2, <1>3, <1>4 DEF Press

\* A node accepts at most the next nonce of the account.
LEMMA AcceptedNonce ==
  ASSUME Types, NonceReached, AcceptedIsNext, NEW f \in Flow, Running(f), Accepts(f)
  PROVE  mined' = mined /\ pool' \in [Account -> SUBSET Nat] /\ AcceptedIsNext'
<1>1. /\ flow[f].account \in Account
      /\ flow[f].nonce \in Nat /\ flow[f].nonce <= mined[flow[f].account]
  BY DEF Types, TypeOK, RunsForAccount, NonceReached, FlowRecord
<1>2. CASE flow[f].chain = "eth"
  BY <1>1, <1>2 DEF Accepts, AcceptedIsNext, Types, TypeOK
<1>3. CASE flow[f].chain # "eth"
  BY <1>3 DEF Accepts, AcceptedIsNext, Types, TypeOK
<1>4. QED
  BY <1>2, <1>3

-------------------------------------------------------------------------------
(***************************************************************************)
(* The invariant.                                                          *)
(***************************************************************************)
LEMMA InitIInv == Init => IInv
BY PaymentsAssumption
   DEF Init, IInv, Types, TypeOK, RunsForAccount, NonceReached, SendingHasFlow, AcceptedIsNext,
       ToldIsAccepted, NoFlow, FlowRecord, Stage, Running

\* The invariant of the flows when f becomes next and the counts stay.
FlowHolds(next) ==
  /\ next.stage \notin {"new", "over"} =>
       /\ next.account \in Account /\ (next.stage # "end" => ~next.told)
       /\ next.nonce <= mined[next.account]
  /\ next.told /\ next.chain # "near" =>
       next.accepted /\ (next.chain = "sol" => next.from = next.account)

LEMMA FlowsHold ==
  ASSUME IInv, NEW f \in Flow, NEW next \in FlowRecord, Moves(f, next), FlowHolds(next),
         mined' = mined
  PROVE  /\ flow' \in [Flow -> FlowRecord]
         /\ RunsForAccount' /\ NonceReached' /\ ToldIsAccepted'
<1>1. flow \in [Flow -> FlowRecord] /\ flow' \in [Flow -> FlowRecord]
  BY DEF IInv, Types, TypeOK, Moves
<1>2. flow'[f] = next /\ \A g \in Flow \ {f} : flow'[g] = flow[g]
  BY <1>1 DEF Moves
<1>3. RunsForAccount'
  BY <1>2 DEF IInv, Types, RunsForAccount, FlowHolds, Running
<1>4. NonceReached'
  BY <1>2 DEF IInv, NonceReached, FlowHolds, Running
<1>5. ToldIsAccepted'
  BY <1>2 DEF IInv, ToldIsAccepted, FlowHolds
<1>6. QED
  BY <1>1, <1>3, <1>4, <1>5

\* A payment that goes on keeps its screen.
LEMMA ScreenHolds ==
  ASSUME IInv, NEW f \in Flow, NEW next \in FlowRecord, Moves(f, next),
         next.chain = flow[f].chain, next.stage \notin {"new", "over"}, screen' = screen
  PROVE  SendingHasFlow'
<1>1. flow'[f] = next /\ \A g \in Flow \ {f} : flow'[g] = flow[g]
  BY DEF IInv, Types, TypeOK, Moves
<1>2. QED
  BY <1>1 DEF IInv, SendingHasFlow, Running

LEMMA StepIInv ==
  ASSUME IInv, [Next]_vars
  PROVE  IInv'
<1>1. CASE PageStep
  <2>1. UNCHANGED <<flow, mined, pool>>
    BY <1>1, PageSteps DEF IInv, Types, chain
  <2>2. Types'
    BY <1>1, <2>1, PageSteps DEF IInv, Types, TypeOK, RunsForAccount, Running
  <2>3. (NonceReached /\ SendingHasFlow /\ AcceptedIsNext /\ ToldIsAccepted)'
    BY <1>1, <2>1, PageSteps
       DEF IInv, Types, NonceReached, SendingHasFlow, AcceptedIsNext, ToldIsAccepted, Running
  <2>4. QED
    BY <2>2, <2>3 DEF IInv
<1>2. CASE ChainStep
  <2>1. /\ UNCHANGED <<account, screen, sol, deriving, flow>>
        /\ mined' \in [Account -> Nat] /\ pool' \in [Account -> SUBSET Nat]
        /\ \A a \in Account : mined[a] <= mined'[a] /\ pool'[a] \subseteq pool[a]
        /\ \A a \in Account : mined'[a] # mined[a] => pool'[a] \subseteq pool[a] \ {mined[a]}
    BY <1>2, ChainSteps DEF IInv, Types, page
  <2>2. Types'
    BY <2>1 DEF IInv, Types, TypeOK, RunsForAccount, Running
  <2>3. NonceReached'
    <3> SUFFICES ASSUME NEW f \in Flow, Running(f)
                 PROVE  flow[f].nonce <= mined'[flow[f].account]
      BY <2>1 DEF NonceReached, Running
    <3>1. flow[f].nonce \in Nat /\ flow[f].account \in Account
      BY DEF IInv, Types, TypeOK, RunsForAccount, FlowRecord
    <3>2. mined[flow[f].account] \in Nat /\ mined'[flow[f].account] \in Nat
      BY <2>1, <3>1 DEF IInv, Types, TypeOK
    <3>3. QED
      BY <2>1, <3>1, <3>2 DEF IInv, NonceReached
  <2>4. AcceptedIsNext'
    BY <2>1 DEF IInv, AcceptedIsNext
  <2>5. SendingHasFlow' /\ ToldIsAccepted'
    BY <2>1 DEF IInv, SendingHasFlow, ToldIsAccepted, Running
  <2>6. QED
    BY <2>2, <2>3, <2>4, <2>5 DEF IInv
<1>3. CASE UNCHANGED vars
  BY <1>3 DEF vars, page, chain, IInv, Types, TypeOK, RunsForAccount, NonceReached,
       SendingHasFlow, AcceptedIsNext, ToldIsAccepted, Running
<1>4. ASSUME NEW f \in Flow, Goes_On(f)
      PROVE  IInv'
  <2>1. PICK next \in FlowRecord :
          Moves(f, next) /\ (Calls(f, next) \/ Broadcasts(f, next) \/ End(f))
    BY <1>4, FlowSteps DEF IInv
  <2>2. flow[f] \in FlowRecord
    BY DEF IInv, Types, TypeOK
  <2>3. CASE Calls(f, next)
    <3>1. FlowHolds(next)
      BY <2>2, <2>3 DEF Calls, FlowHolds, IInv, Types, TypeOK, RunsForAccount, NonceReached,
           FlowRecord
    <3>2. UNCHANGED <<account, screen, sol, deriving, mined, pool>>
      BY <2>3 DEF Calls, page, chain
    <3>3. SendingHasFlow'
      BY <2>1, <2>3, <3>2, ScreenHolds DEF Calls
    <3>4. QED
      BY <2>1, <3>1, <3>2, <3>3, FlowsHold DEF IInv, Types, TypeOK, AcceptedIsNext
  <2>4. CASE Broadcasts(f, next)
    <3>1. Running(f) /\ Accepts(f) /\ UNCHANGED <<account, screen, sol, deriving>>
      BY <2>4 DEF Broadcasts, Running, page
    <3>2. mined' = mined /\ pool' \in [Account -> SUBSET Nat] /\ AcceptedIsNext'
      BY <3>1, AcceptedNonce DEF IInv
    <3>3. /\ next.chain = flow[f].chain /\ next.account = flow[f].account
          /\ next.from = flow[f].from /\ next.nonce = flow[f].nonce
          /\ next.stage = "end" /\ next.accepted
      BY <2>2, <2>4 DEF Broadcasts, FlowRecord
    <3>4. next.chain = "sol" => next.from = next.account
      BY <3>1, <3>3 DEF Accepts
    <3>5. FlowHolds(next)
      BY <3>1, <3>3, <3>4 DEF FlowHolds, IInv, Types, RunsForAccount, NonceReached
    <3>6. SendingHasFlow'
      BY <2>1, <3>1, <3>3, ScreenHolds
    <3>7. QED
      BY <2>1, <3>1, <3>2, <3>5, <3>6, FlowsHold DEF IInv, Types, TypeOK
  <2>5. CASE End(f)
    <3>1. /\ flow' = [flow EXCEPT ![f] = Over] /\ Moves(f, Over)
          /\ Over \in FlowRecord /\ FlowHolds(Over)
      BY <2>5 DEF End, Moves, Over, NoFlow, FlowRecord, FlowHolds, Stage
    <3>2. UNCHANGED <<account, sol, deriving, mined, pool>>
      BY <2>5 DEF End, chain
    <3>3. SendingHasFlow'
      <4>1. \A g \in Flow \ {f} : flow'[g] = flow[g]
        BY <3>1 DEF IInv, Types, TypeOK
      <4>2. CASE flow[f].chain = "near"
        BY <2>5, <4>1, <4>2 DEF End, IInv, SendingHasFlow, Running
      <4>3. CASE flow[f].chain # "near"
        BY <2>5, <4>3 DEF End, SendingHasFlow
      <4>4. QED
        BY <4>2, <4>3
    <3>4. QED
      BY <3>1, <3>2, <3>3, FlowsHold DEF IInv, Types, TypeOK, AcceptedIsNext
  <2>6. QED
    BY <2>1, <2>3, <2>4, <2>5
<1>5. ASSUME NEW f \in Flow, NEW c \in {"eth", "sol", "near"}, Press(f, c)
      PROVE  IInv'
  <2>1. PICK next \in FlowRecord :
          /\ Moves(f, next)
          /\ flow[f].stage = "new" /\ next.stage \in Stage \ {"new", "over"}
          /\ next.chain = c /\ next.account = account /\ account \in Account
          /\ next.nonce = 0 /\ ~next.told
          /\ screen # "sending" /\ (c = "near" => screen' # "sending")
          /\ UNCHANGED <<account, sol, deriving, chain>>
    BY <1>5, PressSteps DEF IInv
  <2>2. FlowHolds(next)
    <3>1. mined[next.account] \in Nat
      BY <2>1 DEF IInv, Types, TypeOK
    <3>2. QED
      BY <2>1, <3>1 DEF FlowHolds
  <2>3. UNCHANGED <<account, sol, deriving, mined, pool>>
    BY <2>1 DEF chain
  <2>4. SendingHasFlow'
    <3>1. flow'[f] = next
      BY <2>1 DEF Moves, IInv, Types, TypeOK
    <3>2. QED
      BY <2>1, <3>1 DEF SendingHasFlow, Running
  <2>5. QED
    BY <2>1, <2>2, <2>3, <2>4, FlowsHold DEF IInv, Types, TypeOK, AcceptedIsNext
<1>6. QED
  BY <1>1, <1>2, <1>3, <1>4, <1>5, StepCases

LEMMA SpecIInv == Spec => []IInv
<1>1. IInv /\ [Next]_vars => IInv'
  BY StepIInv
<1>2. QED
  BY <1>1, InitIInv, PTL DEF Spec

(***************************************************************************)
(* However often a payment is pressed, thrown out, dropped from the pool   *)
(* or overtaken: what a node has accepted is the account's next one.       *)
(***************************************************************************)
THEOREM AcceptedPaymentsAreNext == Spec => []AcceptedIsNext
<1>1. IInv => AcceptedIsNext
  BY DEF IInv
<1>2. QED
  BY <1>1, SpecIInv, PTL

(***************************************************************************)
(* handleSendEth and handleSendSol tell of a payment only what a node has  *)
(* accepted, whoever is logged in by then.                                 *)
(***************************************************************************)
THEOREM ToldPaymentsAreAccepted == Spec => []ToldIsAccepted
<1>1. IInv => ToldIsAccepted
  BY DEF IInv
<1>2. QED
  BY <1>1, SpecIInv, PTL

(***************************************************************************)
(* Whatever clears the shared flag, the sending screen is shown only for a *)
(* payment that runs and will leave it.                                    *)
(***************************************************************************)
THEOREM SendingScreenHasFlow == Spec => []SendingHasFlow
<1>1. IInv => SendingHasFlow
  BY DEF IInv
<1>2. QED
  BY <1>1, SpecIInv, PTL

-------------------------------------------------------------------------------
(***************************************************************************)
(* Induction.  The induction theorems of the library take an operator,     *)
(* which no prover can instantiate.  Here a set T takes its place: the     *)
(* numbers, sequences or places that are known to have the property.       *)
(***************************************************************************)

\* A set of natural numbers has a least one.
LEMMA Least ==
  ASSUME NEW T, T \subseteq Nat, T # {}
  PROVE  \E x \in T : \A y \in T : x <= y
<1> DEFINE R == StrictSubsetOrdering(Nat)
           F == FiniteSubsetsOf(Nat)
           S == {0 .. n - 1 : n \in T}
<1>1. IsWellFoundedOn(R, F)
  BY FS_StrictSubsetOrderingWellFounded
<1>2. \A n \in Nat : 0 .. n - 1 \in F
  <2> SUFFICES ASSUME NEW n \in Nat PROVE 0 .. n - 1 \in F
    OBVIOUS
  <2>1. IsFiniteSet(0 .. n - 1)
    BY FS_Interval
  <2>2. QED
    BY <2>1 DEF FiniteSubsetsOf
<1>3. S \subseteq F /\ S # {}
  BY <1>2
<1>4. \E s \in S : \A t \in S : ~(<<t, s>> \in R)
  <2> HIDE DEF R, F, S
  <2> QED BY <1>1, <1>3, WFMin
<1>5. PICK x \in T : \A y \in T : ~(<<0 .. y - 1, 0 .. x - 1>> \in R)
  BY <1>4
<1>6. ASSUME NEW y \in T, y < x PROVE FALSE
  <2>1. x \in Nat /\ y \in Nat
    OBVIOUS
  <2>2. 0 .. y - 1 \subseteq 0 .. x - 1 /\ y \in 0 .. x - 1 /\ y \notin 0 .. y - 1
    BY <1>6, <2>1
  <2>3. <<0 .. y - 1, 0 .. x - 1>> \in R
    BY <2>1, <2>2 DEF StrictSubsetOrdering
  <2>4. QED
    BY <1>5, <2>3
<1>7. QED
  BY <1>6

\* Induction on natural numbers, for a set of them: T has all when it has each that comes after
\* members of T only.
LEMMA Induct ==
  ASSUME NEW T, \A n \in Nat : (\A m \in Nat : m < n => m \in T) => n \in T
  PROVE  Nat \subseteq T
<1> SUFFICES ASSUME ~(Nat \subseteq T) PROVE FALSE
  OBVIOUS
<1> DEFINE U == Nat \ T
<1>1. PICK x \in U : \A y \in U : x <= y
  <2>1. U # {} /\ U \subseteq Nat
    OBVIOUS
  <2> HIDE DEF U
  <2>2. QED
    BY <2>1, Least
<1>2. x \in Nat /\ x \notin T
  OBVIOUS
<1>3. \A m \in Nat : m < x => m \in T
  BY <1>1, <1>2
<1>4. QED
  BY <1>2, <1>3

\* Induction on a rank.
LEMMA InductOn ==
  ASSUME NEW D, NEW rank \in [D -> Nat], NEW T,
         \A x \in D : (\A y \in D : rank[y] < rank[x] => y \in T) => x \in T
  PROVE  D \subseteq T
<1> DEFINE N == {n \in Nat : \A x \in D : rank[x] = n => x \in T}
<1>1. ASSUME NEW n \in Nat, \A m \in Nat : m < n => m \in N
      PROVE  n \in N
  <2> SUFFICES ASSUME NEW x \in D, rank[x] = n PROVE x \in T
    OBVIOUS
  <2>1. \A y \in D : rank[y] < rank[x] => y \in T
    BY <1>1
  <2>2. QED
    BY <2>1
<1>2. Nat \subseteq N
  <2> HIDE DEF N
  <2> QED BY <1>1, Induct
<1>3. QED
  BY <1>2

(***************************************************************************)
(* A definition of f[x] by f[h[x]] has a solution when h descends in rank  *)
(* wherever it is used: on what is not in B.                               *)
(***************************************************************************)
Descends(D, V, rank, B, h, first, step) ==
  /\ rank \in [D -> Nat] /\ B \in SUBSET D /\ h \in [D -> D]
  /\ first \in [D -> V] /\ step \in [D \X V -> V]
  /\ \A x \in D \ B : rank[h[x]] < rank[x]

\* f satisfies the definition.
Solves(f, D, V, B, h, first, step) ==
  /\ f \in [D -> V]
  /\ \A x \in D : f[x] = IF x \in B THEN first[x] ELSE step[<<x, f[h[x]]>>]

\* Such a definition has a solution: the union of those on the ranks below each one.
LEMMA Recursion ==
  ASSUME NEW D, NEW V, NEW rank, NEW B, NEW h, NEW first, NEW step,
         Descends(D, V, rank, B, h, first, step)
  PROVE  \E f : Solves(f, D, V, B, h, first, step)
<1> USE DEF Descends
<1> DEFINE Rule(f, x) == f[x] = IF x \in B THEN first[x] ELSE step[<<x, f[h[x]]>>]
           Upto(n) == {x \in D : rank[x] <= n}
           Good(n) == {f \in [D -> V] : \A x \in Upto(n) : Rule(f, x)}
<1>1. ASSUME NEW m \in Nat, NEW n \in Nat, m <= n, NEW f \in Good(m), NEW g \in Good(n)
      PROVE  \A x \in Upto(m) : f[x] = g[x]
  <2> DEFINE T == {x \in D : rank[x] <= m => f[x] = g[x]}
  <2>1. ASSUME NEW x \in D, \A y \in D : rank[y] < rank[x] => y \in T
        PROVE  x \in T
    <3> SUFFICES ASSUME rank[x] <= m PROVE f[x] = g[x]
      OBVIOUS
    <3>1. Rule(f, x) /\ Rule(g, x)
      BY <1>1
    <3>2. x \notin B => f[h[x]] = g[h[x]]
      BY <2>1, <1>1
    <3>3. QED
      BY <3>1, <3>2
  <2>2. D \subseteq T
    <3> HIDE DEF T
    <3> QED BY <2>1, InductOn
  <2>3. QED
    BY <2>2
<1>2. ASSUME NEW n \in Nat
      PROVE  \E f \in [D -> V] : f \in Good(n)
  <2> DEFINE N == {k \in Nat : \E f \in [D -> V] : f \in Good(k)}
  <2>1. ASSUME NEW k \in Nat, \A m \in Nat : m < k => m \in N
        PROVE  k \in N
    <3>1. PICK g \in [D -> V] : k > 0 => g \in Good(k - 1)
      <4>1. CASE k > 0
        <5>1. k - 1 \in N
          BY <2>1, <4>1
        <5>2. QED
          BY <5>1
      <4>2. CASE k = 0
        BY <4>2
      <4>3. QED
        BY <4>1, <4>2
    <3> DEFINE f == [x \in D |-> IF rank[x] < k THEN g[x]
                                 ELSE IF x \in B THEN first[x] ELSE step[<<x, g[h[x]]>>]]
    <3>2. f \in [D -> V]
      OBVIOUS
    <3>3. ASSUME NEW x \in Upto(k) PROVE Rule(f, x)
      <4>1. CASE rank[x] < k
        <5>1. k > 0 /\ x \in Upto(k - 1)
          BY <4>1
        <5>2. Rule(g, x)
          BY <3>1, <5>1
        <5>3. x \notin B => rank[h[x]] < k
          BY <4>1
        <5>4. QED
          BY <4>1, <5>2, <5>3
      <4>2. CASE rank[x] = k
        <5>1. x \notin B => rank[h[x]] < k
          BY <4>2
        <5>2. QED
          BY <4>2, <5>1
      <4>3. QED
        BY <4>1, <4>2
    <3>4. QED
      BY <3>2, <3>3
  <2>2. Nat \subseteq N
    <3> HIDE DEF N
    <3> QED BY <2>1, Induct
  <2>3. QED
    BY <2>2
<1> DEFINE F(n) == CHOOSE f \in [D -> V] : f \in Good(n)
           f == [x \in D |-> F(rank[x])[x]]
<1>3. \A n \in Nat : F(n) \in [D -> V] /\ F(n) \in Good(n)
  <2> HIDE DEF Good
  <2> QED BY <1>2
<1>4. \A m, n \in Nat : m <= n => \A x \in Upto(m) : F(m)[x] = F(n)[x]
  <2> HIDE DEF Good, F, Upto
  <2> QED BY <1>1, <1>3
<1>5. f \in [D -> V]
  <2> HIDE DEF F
  <2> QED BY <1>3
<1>6. ASSUME NEW x \in D PROVE Rule(f, x)
  <2>1. Rule(F(rank[x]), x)
    <3>1. F(rank[x]) \in Good(rank[x])
      <4> HIDE DEF F, Good
      <4> QED BY <1>3
    <3>2. x \in Upto(rank[x])
      OBVIOUS
    <3> HIDE DEF F, Upto, Rule
    <3>3. QED
      BY <3>1, <3>2
  <2>2. x \notin B => f[h[x]] = F(rank[x])[h[x]]
    <3> HIDE DEF F
    <3> QED BY <1>4
  <2> HIDE DEF F
  <2>3. QED
    BY <2>1, <2>2
<1>7. QED
  <2> HIDE DEF f
  <2> QED BY <1>5, <1>6 DEF Solves

-------------------------------------------------------------------------------
(***************************************************************************)
(* Digits and numbers.  Digits is a recursive function and Number a        *)
(* fold; both are known by the equation of one step.                       *)
(***************************************************************************)

\* Division by a base.
LEMMA Divides ==
  ASSUME NEW base \in Nat, base >= 2, NEW n \in Nat
  PROVE  /\ n \div base \in Nat /\ n % base \in 0 .. base - 1
         /\ n = (n \div base) * base + (n % base)
         /\ n > 0 => n \div base < n
OBVIOUS

\* The digits of n are those of n \div base and one more: the recursion of Digits is one.
LEMMA DigitsRule ==
  ASSUME NEW base \in Nat, base >= 2, NEW n \in Nat
  PROVE  /\ Digits(base, n) \in Seq(0 .. base - 1)
         /\ Digits(base, n) =
              IF n = 0 THEN <<>> ELSE Append(Digits(base, n \div base), n % base)
<1> DEFINE D == 0 .. base - 1
           V == Seq(D)
           Rule(f, k) == f[k] = IF k = 0 THEN <<>> ELSE Append(f[k \div base], k % base)
<1>1. \A k \in Nat : k \div base \in Nat /\ k % base \in 0 .. base - 1 /\ (k > 0 => k \div base < k)
  BY Divides
<1>2. PICK g \in [Nat -> V] : \A k \in Nat : Rule(g, k)
  <2> DEFINE rank == [k \in Nat |-> k]
             h == [k \in Nat |-> k \div base]
             first == [k \in Nat |-> <<>>]
             step == [p \in Nat \X V |-> Append(p[2], p[1] % base)]
  <2>1. rank \in [Nat -> Nat] /\ h \in [Nat -> Nat] /\ {0} \in SUBSET Nat /\ first \in [Nat -> V]
    BY <1>1
  <2>2. step \in [Nat \X V -> V]
    <3> DEFINE P == Nat \X V
    <3>1. ASSUME NEW p \in P PROVE Append(p[2], p[1] % base) \in V
      <4>1. p[1] \in Nat /\ p[2] \in V
        OBVIOUS
      <4>2. p[1] % base \in D
        BY <4>1, <1>1
      <4> HIDE DEF D, P
      <4>3. QED
        BY <4>1, <4>2
    <3> HIDE DEF V, P
    <3>2. [p \in P |-> Append(p[2], p[1] % base)] \in [P -> V]
      BY <3>1
    <3>3. QED
      BY <3>2 DEF P
  <2>3. \A k \in Nat \ {0} : rank[h[k]] < rank[k]
    BY <1>1
  <2> DEFINE B == {0}
  <2>4. PICK g : Solves(g, Nat, V, B, h, first, step)
    <3> HIDE DEF rank, h, V, first, step, B
    <3>1. Descends(Nat, V, rank, B, h, first, step)
      <4>1. B \in SUBSET Nat /\ \A k \in Nat \ B : rank[h[k]] < rank[k]
        BY <2>3 DEF B
      <4>2. QED
        BY <2>1, <2>2, <4>1 DEF Descends
    <3>2. QED
      BY <3>1, Recursion
  <2>5. ASSUME NEW k \in Nat
        PROVE  step[<<k, g[h[k]]>>] = Append(g[k \div base], k % base)
    <3> HIDE DEF V
    <3>1. h[k] = k \div base /\ g[h[k]] \in V
      BY <1>1, <2>4 DEF Solves
    <3>2. <<k, g[h[k]]>> \in Nat \X V
      BY <3>1
    <3>3. step[<<k, g[h[k]]>>] = Append(<<k, g[h[k]]>>[2], <<k, g[h[k]]>>[1] % base)
      BY <3>2, Zenon
    <3> HIDE DEF step, h
    <3>4. QED
      BY <3>1, <3>3
  <2> HIDE DEF step, h, V
  <2>6. QED
    BY <2>4, <2>5 DEF Solves
<1>3. g = [k \in Nat |-> IF k = 0 THEN <<>> ELSE Append(g[k \div base], k % base)]
  BY <1>2
<1>4. PICK f : /\ f = [k \in Nat |-> IF k = 0 THEN <<>> ELSE Append(f[k \div base], k % base)]
               /\ \A k \in Nat : Digits(base, k) = f[k]
  <2> DEFINE f == CHOOSE f : f = [k \in Nat |-> IF k = 0 THEN <<>>
                                                 ELSE Append(f[k \div base], k % base)]
  <2>1. f = [k \in Nat |-> IF k = 0 THEN <<>> ELSE Append(f[k \div base], k % base)]
    BY <1>3
  <2>2. \A k \in Nat : Digits(base, k) = f[k]
    BY DEF Digits
  <2> HIDE DEF f
  <2>3. QED
    BY <2>1, <2>2
<1>5. f[0] = <<>>
  BY <1>4
<1>6. \A k \in Nat : k # 0 => f[k] = Append(f[k \div base], k % base)
  BY <1>4, Zenon
<1>7. f[n] \in V
  <2> DEFINE T == {k \in Nat : f[k] \in V}
  <2>1. ASSUME NEW k \in Nat, \A m \in Nat : m < k => m \in T PROVE k \in T
    <3> HIDE DEF D
    <3>1. CASE k = 0
      <4>1. f[k] = <<>>
        BY <1>5, <3>1
      <4>2. f[k] \in V
        BY <4>1
      <4>3. QED
        BY <4>2
    <3>2. CASE k # 0
      <4>1. k % base \in D
        BY <1>1 DEF D
      <4>2. f[k \div base] \in V
        <5>1. k \div base \in Nat /\ k \div base < k
          BY <1>1, <3>2
        <5> HIDE DEF V
        <5>2. QED
          BY <5>1, <2>1
      <4>3. f[k] = Append(f[k \div base], k % base)
        BY <1>6, <3>2, Zenon
      <4>4. f[k] \in V
        BY <4>1, <4>2, <4>3
      <4>5. QED
        BY <4>4
    <3>3. QED
      BY <3>1, <3>2
  <2>2. Nat \subseteq T
    <3> HIDE DEF T
    <3> QED BY <2>1, Induct
  <2> QED BY <2>2
<1>8. QED
  BY <1>1, <1>4, <1>5, <1>6, <1>7

\* Induction on sequences that grow at their end.
LEMMA SeqInduct ==
  ASSUME NEW S, NEW T, <<>> \in T, \A s \in Seq(S), e \in S : s \in T => Append(s, e) \in T
  PROVE  Seq(S) \subseteq T
<1> DEFINE N == {n \in Nat : \A s \in Seq(S) : Len(s) = n => s \in T}
<1>1. ASSUME NEW n \in Nat, \A m \in Nat : m < n => m \in N
      PROVE  n \in N
  <2> SUFFICES ASSUME NEW s \in Seq(S), Len(s) = n PROVE s \in T
    OBVIOUS
  <2>1. CASE n = 0
    <3>1. s = <<>>
      BY <2>1
    <3>2. QED
      BY <3>1
  <2>2. CASE n # 0
    <3> DEFINE t == SubSeq(s, 1, n - 1)
    <3>1. t \in Seq(S) /\ Len(t) = n - 1 /\ s[n] \in S /\ s = Append(t, s[n])
      BY <2>2
    <3>2. t \in T
      <4>1. n - 1 \in N
        <5> HIDE DEF N
        <5>1. QED
          BY <1>1, <2>2
      <4> HIDE DEF t
      <4>2. QED
        BY <4>1, <3>1
    <3> HIDE DEF t
    <3>3. QED
      BY <3>1, <3>2
  <2>3. QED
    BY <2>1, <2>2
<1>2. Nat \subseteq N
  <2> HIDE DEF N
  <2> QED BY <1>1, Induct
<1>3. QED
  BY <1>2

\* A set of positions has a highest one.
LEMMA MaxOf ==
  ASSUME NEW n \in Nat, NEW s \in SUBSET (1 .. n), s # {}
  PROVE  Max(s) \in s /\ \A x \in s : x <= Max(s)
<1> DEFINE T == {n - x : x \in s}
<1>1. T \subseteq Nat /\ T # {}
  <2>1. \A x \in s : n - x \in Nat
    OBVIOUS
  <2>2. PICK x \in s : TRUE
    OBVIOUS
  <2>3. n - x \in T
    OBVIOUS
  <2>4. QED
    BY <2>1, <2>3
<1>2. PICK t \in T : \A y \in T : t <= y
  <2> HIDE DEF T
  <2> QED BY <1>1, Least
<1>3. PICK x \in s : t = n - x
  OBVIOUS
<1>4. \A y \in s : n - y \in T
  OBVIOUS
<1>5. \A y \in s : x >= y
  <2> HIDE DEF T
  <2> QED BY <1>2, <1>3, <1>4
<1>6. \E x_1 \in s : \A y \in s : x_1 >= y
  BY <1>5
<1>7. Max(s) \in s /\ \A y \in s : Max(s) >= y
  BY <1>6, Zenon DEF Max
<1>8. QED
  BY <1>7

\* The highest of the first k positions is k; the others are the first k - 1.
LEMMA Upto ==
  ASSUME NEW n \in Nat, NEW k \in 1 .. n
  PROVE  /\ 1 .. k \in SUBSET (1 .. n) /\ 1 .. k # {}
         /\ Max(1 .. k) = k /\ (1 .. k) \ {k} = 1 .. k - 1
<1>1. 1 .. k \in SUBSET (1 .. n) /\ k \in 1 .. k
  OBVIOUS
<1>2. Max(1 .. k) \in 1 .. k /\ \A x \in 1 .. k : x <= Max(1 .. k)
  BY <1>1, MaxOf
<1>3. Max(1 .. k) = k
  BY <1>1, <1>2
<1>4. QED
  BY <1>1, <1>3

\* A fold of a sequence has a value at each of its beginnings.
Folds(g, V, b, v0, op) ==
  /\ g \in [SUBSET (1 .. Len(b)) -> V]
  /\ g[{}] = v0
  /\ \A s \in SUBSET (1 .. Len(b)) : s # {} => g[s] = op[<<g[s \ {Max(s)}], b[Max(s)]>>]

\* Any fold has these values: it takes the highest position away, and there are fewer then.
LEMMA FoldSolution ==
  ASSUME NEW V, NEW E, NEW b, b \in Seq(E), NEW v0, v0 \in V, NEW op, op \in [V \X E -> V]
  PROVE  \E g : Folds(g, V, b, v0, op)
<1> DEFINE n == Len(b)
           D == SUBSET (1 .. n)
           rank == [s \in D |-> IF s = {} THEN 0 ELSE Max(s)]
           B == {{}}
           h == [s \in D |-> s \ {Max(s)}]
           first == [s \in D |-> v0]
           step == [p \in D \X V |-> IF p[1] = {} THEN v0 ELSE op[<<p[2], b[Max(p[1])]>>]]
<1>1. n \in Nat /\ \A i \in 1 .. n : b[i] \in E
  OBVIOUS
<1>2. \A s \in D : s # {} => Max(s) \in s /\ Max(s) \in 1 .. n /\ \A x \in s : x <= Max(s)
  <2> HIDE DEF n
  <2>1. QED
    BY <1>1, MaxOf
<1>3. Descends(D, V, rank, B, h, first, step)
  <2> HIDE DEF n
  <2>1. rank \in [D -> Nat]
    <3>1. \A s \in D : (IF s = {} THEN 0 ELSE Max(s)) \in Nat
      BY <1>1, <1>2
    <3> HIDE DEF D
    <3>2. QED
      BY <3>1
  <2>2. h \in [D -> D]
    OBVIOUS
  <2>3. step \in [D \X V -> V]
    <3> DEFINE P == D \X V
               value(p) == IF p[1] = {} THEN v0 ELSE op[<<p[2], b[Max(p[1])]>>]
    <3>1. ASSUME NEW p \in P PROVE value(p) \in V
      <4>1. p[1] \in D /\ p[2] \in V
        OBVIOUS
      <4>2. CASE p[1] # {}
        <5>1. b[Max(p[1])] \in E
          BY <1>1, <1>2, <4>1, <4>2
        <5>2. <<p[2], b[Max(p[1])]>> \in V \X E
          BY <4>1, <5>1
        <5> HIDE DEF P, D
        <5>3. QED
          BY <4>2, <5>2
      <4>3. QED
        BY <4>2
    <3> HIDE DEF P, value
    <3>2. [p \in P |-> value(p)] \in [P -> V]
      BY <3>1
    <3>3. QED
      BY <3>2 DEF P, value
  <2>4. \A s \in D \ B : rank[h[s]] < rank[s]
    <3> SUFFICES ASSUME NEW s \in D, s # {} PROVE rank[s \ {Max(s)}] < rank[s]
      OBVIOUS
    <3> DEFINE t == s \ {Max(s)}
    <3>1. t \in D
      OBVIOUS
    <3>2. rank[s] = Max(s) /\ rank[t] = IF t = {} THEN 0 ELSE Max(t)
      BY <3>1
    <3>3. Max(s) \in 1 .. n /\ \A x \in s : x <= Max(s)
      BY <1>2
    <3>4. t # {} => Max(t) \in s /\ Max(t) # Max(s) /\ Max(t) \in 1 .. n
      BY <1>2, <3>1
    <3> HIDE DEF t, D, rank
    <3>5. QED
      BY <1>1, <3>2, <3>3, <3>4 DEF t
  <2>5. B \in SUBSET D /\ first \in [D -> V]
    OBVIOUS
  <2> HIDE DEF D, B, rank, h, first, step
  <2>6. QED
    BY <2>1, <2>2, <2>3, <2>4, <2>5 DEF Descends
<1>4. PICK g : Solves(g, D, V, B, h, first, step)
  <2> HIDE DEF D, B, rank, h, first, step
  <2>1. QED
    BY <1>3, Recursion
<1>5. g \in [D -> V]
  BY <1>4 DEF Solves
<1>6. g[{}] = v0
  <2>1. {} \in D /\ {} \in B
    OBVIOUS
  <2>2. first[{}] = v0
    BY <2>1, Zenon
  <2> HIDE DEF D, B, first, step, h
  <2>3. QED
    BY <1>4, <2>1, <2>2 DEF Solves
<1>7. ASSUME NEW s \in D, s # {} PROVE g[s] = op[<<g[s \ {Max(s)}], b[Max(s)]>>]
  <2>1. s \notin B /\ h[s] = s \ {Max(s)} /\ h[s] \in D
    <3>1. s \notin B
      BY <1>7
    <3>2. h[s] = s \ {Max(s)}
      BY Zenon
    <3>3. s \ {Max(s)} \in D
      OBVIOUS
    <3> HIDE DEF h
    <3>4. QED
      BY <3>1, <3>2, <3>3
  <2>2. g[s] = step[<<s, g[h[s]]>>]
    <3> HIDE DEF D, B, first, step, h
    <3>1. QED
      BY <1>4, <2>1 DEF Solves
  <2>3. <<s, g[h[s]]>> \in D \X V
    <3> HIDE DEF D, h
    <3>1. QED
      BY <1>5, <2>1
  <2>4. step[<<s, g[h[s]]>>] = op[<<g[h[s]], b[Max(s)]>>]
    <3> HIDE DEF D, h
    <3>1. QED
      BY <1>7, <2>3
  <2> HIDE DEF D, h, step
  <2>5. QED
    BY <2>1, <2>2, <2>4
<1>8. QED
  <2> HIDE DEF D
  <2>1. QED
    BY <1>5, <1>6, <1>7 DEF D, Folds

\* The number that digits stand for, from those of the first k digits.
LEMMA NumberPrefixes ==
  ASSUME NEW base \in Nat, NEW b \in Seq(Int)
  PROVE  \E f : /\ Number(base, b) = f[1 .. Len(b)]
                /\ f[{}] = 0 /\ f[1 .. 0] = 0
                /\ \A k \in 1 .. Len(b) : f[1 .. k] = f[1 .. k - 1] * base + b[k]
                /\ \A k \in 0 .. Len(b) : f[1 .. k] \in Int
<1> DEFINE n == Len(b)
           D == SUBSET (1 .. n)
           op == [p \in Int \X Int |-> p[1] * base + p[2]]
           Rule(f, s) == f[s] = f[s \ {Max(s)}] * base + b[Max(s)]
           Fix(f) == f = [s \in D |-> IF s = {} THEN 0
                                      ELSE f[s \ {Max(s)}] * base + b[Max(s)]]
           f == CHOOSE f : Fix(f)
<1>1. Number(base, b) = f[1 .. n]
  <2>1. DOMAIN b = 1 .. n
    OBVIOUS
  <2>2. Number(base, b) = (CHOOSE g : g = [s \in SUBSET DOMAIN b |-> IF s = {} THEN 0
                                      ELSE g[s \ {Max(s)}] * base + b[Max(s)]])[DOMAIN b]
    BY DEF Number, FoldLeft, MapThenFoldSet
  <2>3. QED
    BY <2>1, <2>2, Zenon
<1>2. op \in [Int \X Int -> Int]
  OBVIOUS
<1>3. PICK g : Folds(g, Int, b, 0, op)
  <2> HIDE DEF op
  <2>1. b \in Seq(Int) /\ 0 \in Int
    OBVIOUS
  <2>2. QED
    BY <1>2, <2>1, FoldSolution, Zenon
<1>4. n \in Nat /\ \A i \in 1 .. n : b[i] \in Int
  OBVIOUS
<1>5. ASSUME NEW s \in D, s # {} PROVE Rule(g, s)
  <2>1. Max(s) \in 1 .. n
    <3> HIDE DEF n
    <3>1. QED
      BY <1>4, <1>5, MaxOf
  <2>2. b[Max(s)] \in Int
    BY <1>4, <2>1
  <2>3. s \ {Max(s)} \in D
    OBVIOUS
  <2>4. g[s \ {Max(s)}] \in Int
    <3> HIDE DEF op
    <3>1. g \in [D -> Int]
      BY <1>3 DEF Folds
    <3> HIDE DEF D
    <3>2. QED
      BY <2>3, <3>1
  <2>5. g[s] = op[<<g[s \ {Max(s)}], b[Max(s)]>>]
    <3> HIDE DEF op
    <3>1. QED
      BY <1>3, <1>5, Zenon DEF Folds
  <2>6. op[<<g[s \ {Max(s)}], b[Max(s)]>>] = g[s \ {Max(s)}] * base + b[Max(s)]
    BY <2>2, <2>4
  <2>7. QED
    BY <2>5, <2>6
<1>6. Fix(g)
  <2>1. g \in [D -> Int] /\ g[{}] = 0
    BY <1>3, Zenon DEF Folds
  <2> HIDE DEF D
  <2>2. QED
    BY <1>5, <2>1
<1>7. Fix(f)
  BY <1>6, Zenon
<1>8. f[{}] = 0
  BY <1>7, Zenon
<1>9. \A s \in D : s # {} => Rule(f, s)
  BY <1>7, Zenon
<1> HIDE DEF f
<1>10. ASSUME NEW k \in 1 .. n PROVE f[1 .. k] = f[1 .. k - 1] * base + b[k]
  <2>1. /\ 1 .. k \in D /\ 1 .. k # {}
        /\ Max(1 .. k) = k /\ (1 .. k) \ {k} = 1 .. k - 1
    <3> HIDE DEF n
    <3>1. QED
      BY <1>4, Upto
  <2>2. Rule(f, 1 .. k)
    <3> HIDE DEF D
    <3>1. QED
      BY <1>9, <2>1
  <2>3. QED
    BY <2>1, <2>2
<1>11. 1 .. 0 = {}
  OBVIOUS
<1>12. \A k \in 0 .. n : f[1 .. k] \in Int
  <2> DEFINE T == {k \in Nat : k <= n => f[1 .. k] \in Int}
  <2>1. ASSUME NEW k \in Nat, \A m \in Nat : m < k => m \in T PROVE k \in T
    <3>1. CASE k = 0
      BY <1>8, <1>11, <3>1
    <3>2. CASE k # 0 /\ k <= n
      <4>1. k - 1 \in Nat /\ k - 1 \in T
        BY <2>1, <3>2
      <4>2. f[1 .. k - 1] \in Int /\ b[k] \in Int
        BY <3>2, <4>1
      <4>3. f[1 .. k] \in Int
        BY <1>10, <3>2, <4>2
      <4>4. QED
        BY <4>3
    <3>3. QED
      BY <3>1, <3>2
  <2>2. Nat \subseteq T
    <3> HIDE DEF T
    <3> QED BY <2>1, Induct
  <2>3. QED
    BY <2>2
<1>13. QED
  BY <1>1, <1>8, <1>10, <1>11, <1>12

\* A digit at the end multiplies by the base and adds the digit.
LEMMA NumberRule ==
  ASSUME NEW base \in Nat
  PROVE  /\ Number(base, <<>>) = 0
         /\ \A b \in Seq(Int) : Number(base, b) \in Int
         /\ \A b \in Seq(Int), d \in Int :
              Number(base, Append(b, d)) = Number(base, b) * base + d
<1>1. Number(base, <<>>) = 0
  <2>1. <<>> \in Seq(Int) /\ Len(<<>>) = 0
    OBVIOUS
  <2>2. PICK f : Number(base, <<>>) = f[1 .. Len(<<>>)] /\ f[1 .. 0] = 0
    BY <2>1, NumberPrefixes
  <2>3. QED
    BY <2>1, <2>2
<1>2. ASSUME NEW b \in Seq(Int), NEW d \in Int
      PROVE  /\ Number(base, b) \in Int
             /\ Number(base, Append(b, d)) = Number(base, b) * base + d
  <2> DEFINE c == Append(b, d)
             n == Len(b)
  <2>1. /\ c \in Seq(Int) /\ n \in Nat /\ Len(c) = n + 1 /\ c[n + 1] = d
        /\ \A k \in 1 .. n : c[k] = b[k]
    OBVIOUS
  <2> HIDE DEF c
  <2>2. PICK f : /\ Number(base, b) = f[1 .. n] /\ f[1 .. 0] = 0
                 /\ \A k \in 1 .. n : f[1 .. k] = f[1 .. k - 1] * base + b[k]
                 /\ \A k \in 0 .. n : f[1 .. k] \in Int
    BY NumberPrefixes
  <2>3. PICK g : /\ Number(base, c) = g[1 .. Len(c)] /\ g[1 .. 0] = 0
                 /\ \A k \in 1 .. Len(c) : g[1 .. k] = g[1 .. k - 1] * base + c[k]
                 /\ \A k \in 0 .. Len(c) : g[1 .. k] \in Int
    BY <2>1, NumberPrefixes
  <2> DEFINE T == {k \in Nat : k <= n => f[1 .. k] = g[1 .. k]}
  <2>4. ASSUME NEW k \in Nat, \A m \in Nat : m < k => m \in T PROVE k \in T
    <3>1. CASE k = 0
      BY <2>2, <2>3, <3>1
    <3>2. CASE k # 0 /\ k <= n
      <4>1. k - 1 \in Nat /\ k - 1 \in T
        BY <2>4, <3>2
      <4>2. f[1 .. k - 1] = g[1 .. k - 1]
        BY <3>2, <4>1
      <4>3. f[1 .. k] = g[1 .. k]
        BY <2>1, <2>2, <2>3, <3>2, <4>2, SMTT(30)
      <4>4. QED
        BY <4>3
    <3>3. QED
      BY <3>1, <3>2
  <2>5. Nat \subseteq T
    <3> HIDE DEF T
    <3> QED BY <2>4, Induct
  <2>6. f[1 .. n] = g[1 .. n]
    BY <2>1, <2>5
  <2>7. g[1 .. n + 1] = g[1 .. n] * base + c[n + 1]
    <3>1. n + 1 \in 1 .. Len(c) /\ (n + 1) - 1 = n
      BY <2>1
    <3>2. QED
      BY <2>3, <3>1
  <2>8. Number(base, c) = g[1 .. n + 1] /\ f[1 .. n] \in Int
    BY <2>1, <2>2, <2>3
  <2>9. Number(base, c) = Number(base, b) * base + d
    BY <2>1, <2>2, <2>6, <2>7, <2>8
  <2>10. QED
    BY <2>2, <2>8, <2>9 DEF c
<1>3. QED
  BY <1>1, <1>2

\* A sequence over a set is one over a larger set.
LEMMA SubSequences ==
  ASSUME NEW S, NEW R, S \subseteq R, NEW s \in Seq(S)
  PROVE  s \in Seq(R)
OBVIOUS

\* Digits are integers.
LEMMA DigitsAreInts ==
  ASSUME NEW base \in Nat, NEW s \in Seq(0 .. base - 1)
  PROVE  s \in Seq(Int) /\ s \in Seq(Nat)
<1>1. 0 .. base - 1 \subseteq Int /\ 0 .. base - 1 \subseteq Nat
  OBVIOUS
<1>2. QED
  BY <1>1, SubSequences

\* The digits of n stand for n.
LEMMA NumberOfDigits ==
  ASSUME NEW base \in Nat, base >= 2, NEW n \in Nat
  PROVE  Number(base, Digits(base, n)) = n
<1> DEFINE T == {k \in Nat : Number(base, Digits(base, k)) = k}
<1>1. ASSUME NEW k \in Nat, \A m \in Nat : m < k => m \in T PROVE k \in T
  <2>1. CASE k = 0
    <3>1. Digits(base, 0) = <<>>
      BY DigitsRule
    <3>2. QED
      BY <2>1, <3>1, NumberRule
  <2>2. CASE k # 0
    <3> DEFINE q == k \div base
    <3>1. q \in Nat /\ q < k /\ k % base \in Int /\ k = q * base + (k % base)
      BY <2>2, Divides
    <3>2. Digits(base, k) = Append(Digits(base, q), k % base)
      BY <2>2, DigitsRule
    <3>3. Digits(base, q) \in Seq(Int)
      BY <3>1, DigitsRule, DigitsAreInts
    <3>4. Number(base, Digits(base, q)) = q
      BY <1>1, <3>1
    <3>5. Number(base, Append(Digits(base, q), k % base)) = q * base + (k % base)
      BY <3>1, <3>3, <3>4, NumberRule, ZenonT(40)
    <3> HIDE DEF q
    <3>6. QED
      BY <3>1, <3>2, <3>5
  <2>3. QED
    BY <2>1, <2>2
<1>2. Nat \subseteq T
  <2> HIDE DEF T
  <2> QED BY <1>1, Induct
<1>3. QED
  BY <1>2

\* A positive number has digits, and the first is not zero.
LEMMA DigitsLead ==
  ASSUME NEW base \in Nat, base >= 2, NEW n \in Nat, n > 0
  PROVE  Len(Digits(base, n)) > 0 /\ Digits(base, n)[1] # 0
<1> DEFINE T == {k \in Nat : k > 0 => Len(Digits(base, k)) > 0 /\ Digits(base, k)[1] # 0}
<1>1. ASSUME NEW k \in Nat, \A m \in Nat : m < k => m \in T PROVE k \in T
  <2> SUFFICES ASSUME k > 0 PROVE Len(Digits(base, k)) > 0 /\ Digits(base, k)[1] # 0
    OBVIOUS
  <2> DEFINE q == k \div base
  <2>1. q \in Nat /\ q < k /\ k % base \in Int /\ k = q * base + (k % base)
    BY Divides
  <2>2. Digits(base, k) = Append(Digits(base, q), k % base)
    <3>1. k # 0
      OBVIOUS
    <3>2. QED
      BY <3>1, DigitsRule
  <2>3. Digits(base, q) \in Seq(Int)
    BY <2>1, DigitsRule, DigitsAreInts
  <2>4. CASE q = 0
    <3>1. Digits(base, q) = <<>>
      BY <2>1, <2>4, DigitsRule
    <3>2. k % base = k
      <4> HIDE DEF q
      <4>1. QED
        BY <2>1, <2>4
    <3>3. Digits(base, k) = Append(<<>>, k)
      BY <2>2, <3>1, <3>2
    <3>4. Append(<<>>, k) = <<k>>
      OBVIOUS
    <3>5. Digits(base, k) = <<k>>
      BY <3>3, <3>4, Zenon
    <3>6. QED
      BY <3>5
  <2>5. CASE q # 0
    <3>1. Len(Digits(base, q)) > 0 /\ Digits(base, q)[1] # 0
      BY <1>1, <2>1, <2>5
    <3> HIDE DEF q
    <3>2. QED
      BY <2>2, <2>3, <3>1
  <2>6. QED
    BY <2>4, <2>5
<1>2. Nat \subseteq T
  <2> HIDE DEF T
  <2> QED BY <1>1, Induct
<1>3. QED
  BY <1>2

\* Division keeps the order.
LEMMA DivMono ==
  ASSUME NEW base \in Nat, base >= 2, NEW m \in Nat, NEW n \in Nat, m <= n
  PROVE  m \div base <= n \div base
<1> DEFINE p == m \div base
           q == n \div base
<1>1. /\ p \in Nat /\ q \in Nat /\ m % base \in 0 .. base - 1 /\ n % base \in 0 .. base - 1
      /\ m = p * base + (m % base) /\ n = q * base + (n % base)
  BY Divides
<1> HIDE DEF p, q
<1>2. SUFFICES ASSUME p >= q + 1 PROVE FALSE
  BY <1>1 DEF p, q
<1>3. p * base >= (q + 1) * base
  BY <1>1, <1>2
<1>4. (q + 1) * base = q * base + base
  BY <1>1
<1>5. QED
  BY <1>1, <1>3, <1>4

\* A smaller number has no more digits.
LEMMA DigitsMono ==
  ASSUME NEW base \in Nat, base >= 2, NEW m \in Nat, NEW n \in Nat, m <= n
  PROVE  Len(Digits(base, m)) <= Len(Digits(base, n))
<1> DEFINE T == {k \in Nat : \A l \in 0 .. k : Len(Digits(base, l)) <= Len(Digits(base, k))}
<1>1. ASSUME NEW k \in Nat, \A j \in Nat : j < k => j \in T PROVE k \in T
  <2> SUFFICES ASSUME NEW l \in 0 .. k PROVE Len(Digits(base, l)) <= Len(Digits(base, k))
    OBVIOUS
  <2> DEFINE p == l \div base
             q == k \div base
  <2>1. CASE l = 0
    <3>1. Len(Digits(base, 0)) = 0
      BY DigitsRule
    <3>2. Len(Digits(base, k)) \in Nat
      BY DigitsRule
    <3>3. QED
      BY <2>1, <3>1, <3>2
  <2>2. CASE l # 0
    <3>1. l \in Nat /\ k \in Nat /\ k # 0 /\ l <= k
      BY <2>2
    <3>2. p \in Nat /\ q \in Nat /\ q < k /\ p <= q
      BY <3>1, Divides, DivMono
    <3>3. q \in T
      <4> HIDE DEF T, q
      <4>1. QED
        BY <1>1, <3>2
    <3>4. Len(Digits(base, p)) <= Len(Digits(base, q))
      <4> HIDE DEF p, q
      <4>1. QED
        BY <3>2, <3>3
    <3>5. Digits(base, l) = Append(Digits(base, p), l % base)
      BY <3>1, <2>2, DigitsRule
    <3>6. Digits(base, k) = Append(Digits(base, q), k % base)
      BY <3>1, DigitsRule
    <3>7. Digits(base, p) \in Seq(0 .. base - 1) /\ Digits(base, q) \in Seq(0 .. base - 1)
      BY <3>2, DigitsRule
    <3> HIDE DEF p, q
    <3>8. QED
      BY <3>4, <3>5, <3>6, <3>7
  <2>3. QED
    BY <2>1, <2>2
<1>2. Nat \subseteq T
  <2> HIDE DEF T
  <2> QED BY <1>1, Induct
<1>3. n \in T /\ m \in 0 .. n
  <2> HIDE DEF T
  <2> QED BY <1>2
<1>4. QED
  BY <1>3

\* One more zero.
LEMMA ZerosGrow ==
  ASSUME NEW k \in Nat
  PROVE  /\ ZeroBytes(k) \in Seq(Int) /\ Len(ZeroBytes(k)) = k
         /\ Append(ZeroBytes(k), 0) = ZeroBytes(k + 1)
         /\ ZeroBytes(0) = <<>>
BY DEF ZeroBytes

\* Zeros stand for zero.
LEMMA NumberOfZeros ==
  ASSUME NEW base \in Nat, NEW k \in Nat
  PROVE  Number(base, ZeroBytes(k)) = 0
<1> DEFINE T == {j \in Nat : Number(base, ZeroBytes(j)) = 0}
<1>1. ASSUME NEW j \in Nat, \A m \in Nat : m < j => m \in T PROVE j \in T
  <2>1. CASE j = 0
    <3>1. ZeroBytes(0) = <<>>
      BY ZerosGrow
    <3>2. Number(base, ZeroBytes(0)) = 0
      BY <3>1, NumberRule
    <3>3. QED
      BY <2>1, <3>2
  <2>2. CASE j # 0
    <3> DEFINE z == ZeroBytes(j - 1)
    <3>1. j - 1 \in Nat /\ j - 1 \in T
      BY <1>1, <2>2
    <3>2. z \in Seq(Int) /\ Append(z, 0) = ZeroBytes((j - 1) + 1) /\ (j - 1) + 1 = j
      BY <3>1, ZerosGrow
    <3>3. Number(base, z) = 0
      BY <3>1
    <3> HIDE DEF z
    <3>4. Number(base, Append(z, 0)) = Number(base, z) * base + 0
      BY <3>2, NumberRule
    <3>5. Number(base, Append(z, 0)) = 0
      BY <3>3, <3>4
    <3>6. Number(base, ZeroBytes(j)) = 0
      BY <3>2, <3>5
    <3>7. QED
      BY <3>6
  <2>3. QED
    BY <2>1, <2>2
<1>2. Nat \subseteq T
  <2> HIDE DEF T
  <2> QED BY <1>1, Induct
<1>3. QED
  BY <1>2

\* Zeros before a number are worth nothing (the padding of derToRawP256).
LEMMA NumberSkipsZeros ==
  ASSUME NEW base \in Nat, NEW k \in Nat, NEW b, b \in Seq(Int)
  PROVE  Number(base, ZeroBytes(k) \o b) = Number(base, b)
<1> DEFINE z == ZeroBytes(k)
           T == {s \in Seq(Int) : Number(base, z \o s) = Number(base, s)}
<1>1. z \in Seq(Int) /\ Number(base, z) = 0
  BY ZerosGrow, NumberOfZeros
<1> HIDE DEF z
<1>2. <<>> \in T
  <2>1. z \o <<>> = z /\ <<>> \in Seq(Int)
    BY <1>1
  <2>2. Number(base, <<>>) = 0
    BY NumberRule
  <2>3. QED
    BY <1>1, <2>1, <2>2
<1>3. ASSUME NEW s \in Seq(Int), NEW e \in Int, s \in T PROVE Append(s, e) \in T
  <2>1. z \o Append(s, e) = Append(z \o s, e) /\ z \o s \in Seq(Int) /\ Append(s, e) \in Seq(Int)
    BY <1>1
  <2>2. Number(base, Append(z \o s, e)) = Number(base, z \o s) * base + e
    BY <2>1, NumberRule
  <2>3. Number(base, Append(s, e)) = Number(base, s) * base + e
    BY NumberRule
  <2>4. QED
    BY <1>3, <2>1, <2>2, <2>3
<1>4. Seq(Int) \subseteq T
  <2> HIDE DEF T
  <2>1. QED
    BY <1>2, <1>3, SeqInduct
<1>5. QED
  BY <1>4 DEF z

\* The quotient and the remainder of q * base + r.
LEMMA Divided ==
  ASSUME NEW base \in Nat, base >= 2, NEW q \in Nat, NEW r \in Nat, r < base
  PROVE  (q * base + r) \div base = q /\ (q * base + r) % base = r
<1> DEFINE n == q * base + r
           p == n \div base
           t == n % base
<1>1. n \in Nat
  OBVIOUS
<1> HIDE DEF n
<1>2. p \in Nat /\ t \in 0 .. base - 1 /\ n = p * base + t
  BY <1>1, Divides
<1> HIDE DEF p, t
<1>3. n = q * base + r
  BY DEF n
<1>4. ~(p > q)
  <2> SUFFICES ASSUME p >= q + 1 PROVE FALSE
    BY <1>2
  <2>1. p * base >= (q + 1) * base /\ (q + 1) * base = q * base + base
    BY <1>2
  <2>2. QED
    BY <1>2, <1>3, <2>1
<1>5. ~(q > p)
  <2> SUFFICES ASSUME q >= p + 1 PROVE FALSE
    BY <1>2
  <2>1. q * base >= (p + 1) * base /\ (p + 1) * base = p * base + base
    BY <1>2
  <2>2. QED
    BY <1>2, <1>3, <2>1
<1>6. p = q
  BY <1>2, <1>4, <1>5
<1>7. t = r
  BY <1>2, <1>3, <1>6
<1>8. QED
  BY <1>6, <1>7 DEF n, p, t

\* The remainder of a digit, with or without the bit above it.
LEMMA Remainder ==
  ASSUME NEW base \in Nat, base >= 2, NEW r \in Nat, r < base
  PROVE  r % base = r /\ (r + base) % base = r
<1>1. (0 * base + r) % base = r /\ (1 * base + r) % base = r
  BY Divided
<1>2. 0 * base + r = r /\ 1 * base + r = r + base
  OBVIOUS
<1>3. QED
  BY <1>1, <1>2

\* Digits that are natural numbers stand for one.
LEMMA NumberIsNat ==
  ASSUME NEW base \in Nat, NEW b, b \in Seq(Nat)
  PROVE  Number(base, b) \in Nat
<1> DEFINE T == {s \in Seq(Nat) : Number(base, s) \in Nat}
<1>1. <<>> \in T
  <2>1. Number(base, <<>>) \in Nat
    BY NumberRule
  <2>2. <<>> \in Seq(Nat)
    OBVIOUS
  <2>3. QED
    BY <2>1, <2>2
<1>2. ASSUME NEW s \in Seq(Nat), NEW e \in Nat, s \in T PROVE Append(s, e) \in T
  <2>1. s \in Seq(Int)
    OBVIOUS
  <2>2. Number(base, Append(s, e)) = Number(base, s) * base + e
    BY <2>1, NumberRule
  <2>3. Number(base, s) \in Nat /\ Append(s, e) \in Seq(Nat)
    BY <1>2
  <2>4. Number(base, s) * base + e \in Nat
    <3>1. \A m, n \in Nat : m * n + e \in Nat
      OBVIOUS
    <3>2. QED
      BY <2>3, <3>1
  <2>5. QED
    BY <2>2, <2>3, <2>4
<1>3. Seq(Nat) \subseteq T
  <2> HIDE DEF T
  <2>1. QED
    BY <1>1, <1>2, SeqInduct
<1>4. QED
  BY <1>3

\* No digits, or some of which the first is not zero.
Led(b) == Len(b) > 0 => b[1] # 0

\* Digits that start with no zero are the digits of the number they stand for.
LEMMA DigitsOfNumber ==
  ASSUME NEW base \in Nat, base >= 2, NEW b, b \in Seq(0 .. base - 1), Led(b)
  PROVE  /\ Digits(base, Number(base, b)) = b
         /\ Number(base, b) \in Nat /\ (b # <<>> => Number(base, b) > 0)
<1> DEFINE D == 0 .. base - 1
           T == {s \in Seq(D) : Led(s) =>
                   /\ Digits(base, Number(base, s)) = s
                   /\ Number(base, s) \in Nat /\ (s # <<>> => Number(base, s) > 0)}
<1>1. <<>> \in T
  <2>1. Number(base, <<>>) = 0
    BY NumberRule
  <2>2. Digits(base, 0) = <<>>
    BY DigitsRule
  <2>3. <<>> \in Seq(D)
    OBVIOUS
  <2>4. QED
    BY <2>1, <2>2, <2>3
<1>2. ASSUME NEW s \in Seq(D), NEW e \in D, s \in T PROVE Append(s, e) \in T
  <2> DEFINE c == Append(s, e)
             q == Number(base, s)
  <2>1. c \in Seq(D)
    OBVIOUS
  <2> SUFFICES ASSUME Led(c)
               PROVE  /\ Digits(base, Number(base, c)) = c
                      /\ Number(base, c) \in Nat /\ Number(base, c) > 0
    BY <2>1
  <2>2. s \in Seq(Int) /\ e \in Int
    BY DigitsAreInts
  <2>3. Number(base, c) = q * base + e
    BY <2>2, NumberRule
  <2>4. q \in Nat /\ Digits(base, q) = s /\ q * base + e > 0
    <3>1. CASE s = <<>>
      <4>1. q = 0
        BY <3>1, NumberRule
      <4>2. Digits(base, 0) = <<>>
        BY DigitsRule
      <4>3. e # 0
        BY <3>1 DEF Led
      <4> HIDE DEF q
      <4>4. QED
        BY <3>1, <4>1, <4>2, <4>3
    <3>2. CASE s # <<>>
      <4>1. Led(s)
        BY <3>2 DEF Led
      <4>2. q \in Nat /\ Digits(base, q) = s /\ q > 0
        BY <1>2, <3>2, <4>1
      <4> HIDE DEF q
      <4>3. q * base > 0
        BY <4>2
      <4>4. QED
        BY <4>2, <4>3
    <3>3. QED
      BY <3>1, <3>2
  <2> HIDE DEF c, q
  <2>5. Number(base, c) \in Nat /\ Number(base, c) > 0
    BY <2>3, <2>4
  <2>6. Number(base, c) \div base = q /\ Number(base, c) % base = e
    <3>1. e \in Nat /\ e < base
      OBVIOUS
    <3>2. QED
      BY <2>3, <2>4, <3>1, Divided
  <2>7. Digits(base, Number(base, c)) = Append(Digits(base, q), e)
    <3>1. Number(base, c) # 0
      BY <2>5
    <3>2. QED
      BY <2>5, <2>6, <3>1, DigitsRule
  <2>8. QED
    BY <2>4, <2>5, <2>7 DEF c
<1>3. Seq(D) \subseteq T
  <2> HIDE DEF T, D
  <2>1. QED
    BY <1>1, <1>2, SeqInduct
<1>4. QED
  BY <1>3

-------------------------------------------------------------------------------
(***************************************************************************)
(* DER.  The bytes of r and s keep their value whatever becomes of their   *)
(* length.                                                                 *)
(***************************************************************************)

\* What the constants of the scaled-down P-256 are.
LEMMA BaseFacts == Base \in Nat /\ Base >= 2 /\ Width \in Nat /\ Order \in Nat /\ Order > 1
<1>1. PICK b \in 1 .. 128 : Base = 2 * b
  BY EncodingsAssumption
<1>2. QED
  BY <1>1, EncodingsAssumption

\* The two parts of a sequence that was put together.
LEMMA Parts ==
  ASSUME NEW S, NEW a, a \in Seq(S), NEW c, c \in Seq(S)
  PROVE  /\ SubSeq(a \o c, 1, Len(a)) = a
         /\ SubSeq(a \o c, Len(a) + 1, Len(a) + Len(c)) = c
<1>1. Len(a) \in Nat /\ Len(c) \in Nat /\ a \o c \in Seq(S) /\ Len(a \o c) = Len(a) + Len(c)
  OBVIOUS
<1>2. \A i \in 1 .. Len(a) : SubSeq(a \o c, 1, Len(a))[i] = a[i]
  OBVIOUS
<1>3. SubSeq(a \o c, 1, Len(a)) \in Seq(S) /\ Len(SubSeq(a \o c, 1, Len(a))) = Len(a)
  BY <1>1
<1> DEFINE t == SubSeq(a \o c, Len(a) + 1, Len(a) + Len(c))
<1>4. t \in Seq(S) /\ Len(t) = Len(c)
  BY <1>1
<1>5. \A i \in 1 .. Len(c) : t[i] = c[i]
  <2> SUFFICES ASSUME NEW i \in 1 .. Len(c) PROVE t[i] = c[i]
    OBVIOUS
  <2>1. t[i] = (a \o c)[Len(a) + i]
    BY <1>1
  <2>2. (a \o c)[Len(a) + i] = c[i]
    BY <1>1
  <2>3. QED
    BY <2>1, <2>2
<1> HIDE DEF t
<1>6. t = c
  BY <1>4, <1>5
<1>7. SubSeq(a \o c, 1, Len(a)) = a
  BY <1>2, <1>3
<1>8. QED
  BY <1>6, <1>7 DEF t

\* A zero before a number, and without it again.
LEMMA ZeroThen ==
  ASSUME NEW base \in Nat, NEW b, b \in Seq(Int)
  PROVE  /\ <<0>> \o b \in Seq(Int) /\ Number(base, <<0>> \o b) = Number(base, b)
         /\ Tail(<<0>> \o b) = b
<1>1. <<0>> = ZeroBytes(1)
  BY DEF ZeroBytes
<1>2. Number(base, ZeroBytes(1) \o b) = Number(base, b)
  BY NumberSkipsZeros
<1>3. Tail(<<0>> \o b) = b /\ <<0>> \o b \in Seq(Int)
  OBVIOUS
<1>4. QED
  BY <1>1, <1>2, <1>3

\* A DER integer is the number it was made of, with or without its sign byte.
LEMMA StrippedInt ==
  ASSUME NEW n \in Nat, n > 0
  PROVE  Strip(DerInt(n)) \in Seq(Int) /\ Number(Base, Strip(DerInt(n))) = n
<1> DEFINE d == Digits(Base, n)
<1>1. d \in Seq(Int) /\ Number(Base, d) = n /\ Len(d) > 0 /\ d[1] # 0
  BY BaseFacts, DigitsRule, DigitsAreInts, NumberOfDigits, DigitsLead
<1>2. /\ <<0>> \o d \in Seq(Int) /\ Number(Base, <<0>> \o d) = n
      /\ Tail(<<0>> \o d) = d
  BY <1>1, BaseFacts, ZeroThen, SMTT(30)
<1>3. DerInt(n) = <<0>> \o d \/ DerInt(n) = d
  BY DEF DerInt
<1> HIDE DEF d
<1>4. Strip(d) = d
  BY <1>1 DEF Strip
<1>5. Strip(<<0>> \o d) \in {<<0>> \o d, d}
  BY <1>2 DEF Strip
<1>6. QED
  BY <1>1, <1>2, <1>3, <1>4, <1>5

\* A number up to the order fits in the width, and keeps its value there.
LEMMA PaddedNumber ==
  ASSUME NEW n \in Nat, n <= Order
  PROVE  Padded(n) \in Seq(Int) /\ Len(Padded(n)) = Width /\ Number(Base, Padded(n)) = n
<1> DEFINE d == Digits(Base, n)
           k == Width - Len(d)
<1>1. d \in Seq(Int) /\ Number(Base, d) = n
  BY BaseFacts, DigitsRule, DigitsAreInts, NumberOfDigits
<1>2. Len(d) <= Len(Digits(Base, Order)) /\ Len(Digits(Base, Order)) <= Width
  BY BaseFacts, DigitsMono, EncodingsAssumption
<1>3. Len(Digits(Base, Order)) \in Nat
  BY BaseFacts, DigitsRule
<1> HIDE DEF d
<1>4. k \in Nat
  BY <1>1, <1>2, <1>3, BaseFacts
<1>5. Padded(n) = ZeroBytes(k) \o d
  BY DEF Padded, ZeroBytes, d
<1>6. ZeroBytes(k) \in Seq(Int) /\ Len(ZeroBytes(k)) = k
  BY <1>4, ZerosGrow
<1>7. Number(Base, ZeroBytes(k) \o d) = n
  BY <1>1, <1>4, BaseFacts, NumberSkipsZeros
<1>8. Len(ZeroBytes(k) \o d) = Width /\ ZeroBytes(k) \o d \in Seq(Int)
  BY <1>1, <1>6, BaseFacts
<1>9. QED
  BY <1>5, <1>7, <1>8

\* What becomes of s: itself, or Order - s when it is above half the order.
LEMMA LowSNumber ==
  ASSUME NEW n \in 1 .. Order - 1, NEW s, s \in Seq(Int), Len(s) = Width, Number(Base, s) = n
  PROVE  /\ LowS(s) \in Seq(Int) /\ Len(LowS(s)) = Width
         /\ Number(Base, LowS(s)) = IF n <= Order \div 2 THEN n ELSE Order - n
<1>1. Order - n \in Nat /\ Order - n <= Order
  BY BaseFacts
<1>2. Order \div 2 \in Nat
  BY BaseFacts
<1>3. QED
  BY <1>1, <1>2, PaddedNumber DEF LowS

\* A signature that is converted is the same signature (derToRawP256).
LEMMA DerKept ==
  ASSUME NEW r \in 1 .. Order - 1, NEW s \in 1 .. Order - 1,
         NEW raw, raw = DerToRaw(DerInt(r), DerInt(s)), raw # <<>>
  PROVE  /\ Len(raw) = 2 * Width
         /\ Number(Base, SubSeq(raw, 1, Width)) = r
         /\ Number(Base, SubSeq(raw, Width + 1, 2 * Width)) =
              IF s <= Order \div 2 THEN s ELSE Order - s
<1> DEFINE a == Strip(DerInt(r))
           b == Strip(DerInt(s))
<1>1. a \in Seq(Int) /\ Number(Base, a) = r /\ b \in Seq(Int) /\ Number(Base, b) = s
  BY StrippedInt
<1>2. raw = a \o LowS(b) /\ Len(a) = Width /\ Len(b) = Width
  BY DEF DerToRaw
<1> HIDE DEF a, b
<1> DEFINE c == LowS(b)
<1>3. /\ c \in Seq(Int) /\ Len(c) = Width
      /\ Number(Base, c) = IF s <= Order \div 2 THEN s ELSE Order - s
  BY <1>1, <1>2, LowSNumber
<1> HIDE DEF c
<1>4. /\ Len(a \o c) = 2 * Width /\ SubSeq(a \o c, 1, Width) = a
      /\ SubSeq(a \o c, Width + 1, 2 * Width) = c
  <2>1. a \in Seq(Int) /\ c \in Seq(Int) /\ Len(a) = Width /\ Len(c) = Width /\ Width \in Nat
    BY <1>1, <1>2, <1>3, BaseFacts
  <2>2. Len(a \o c) = 2 * Width /\ Len(a) + Len(c) = 2 * Width
    BY <2>1, SMTT(30)
  <2>3. SubSeq(a \o c, 1, Len(a)) = a /\ SubSeq(a \o c, Len(a) + 1, Len(a) + Len(c)) = c
    BY <2>1, Parts
  <2>4. QED
    BY <2>1, <2>2, <2>3
<1>5. QED
  BY <1>1, <1>2, <1>3, <1>4 DEF c

-------------------------------------------------------------------------------
(***************************************************************************)
(* Compact integers, of one, two or three bytes.                           *)
(***************************************************************************)

\* An integer below 65536 is made of two digits of seven bits and one of two.
LEMMA CompactParts ==
  ASSUME NEW n \in Nat, n < 65536
  PROVE  \E a, b, c \in Nat :
           /\ a < 128 /\ b < 128 /\ c < 4
           /\ n = (c * 128 + b) * 128 + a
           /\ a = n % 128 /\ b = (n \div 128) % 128 /\ c = (n \div 16384) % 4
<1> DEFINE q == n \div 128
           a == n % 128
           c == q \div 128
           b == q % 128
<1>1. q \in Nat /\ a \in Nat /\ a < 128 /\ n = q * 128 + a
  BY Divides
<1>2. c \in Nat /\ b \in Nat /\ b < 128 /\ q = c * 128 + b
  BY <1>1, Divides
<1> HIDE DEF a, b, c, q
<1>3. c < 4 /\ b * 128 + a \in Nat /\ b * 128 + a < 16384 /\ n = c * 16384 + (b * 128 + a)
  BY <1>1, <1>2
<1>4. n \div 16384 = c
  <2>1. \A r \in Nat : r < 16384 => (c * 16384 + r) \div 16384 = c
    BY <1>2, Divided
  <2>2. QED
    BY <1>3, <2>1
<1>5. c % 4 = c
  BY <1>2, <1>3, Remainder
<1>6. a = n % 128 /\ b = (n \div 128) % 128 /\ c = (n \div 16384) % 4
  BY <1>4, <1>5 DEF a, b, q
<1>7. n = (c * 128 + b) * 128 + a
  BY <1>1, <1>2
<1>8. QED
  BY <1>1, <1>2, <1>3, <1>6, <1>7

\* Numbers of one, two and three digits.
LEMMA ShortNumbers ==
  ASSUME NEW base \in Nat, NEW s, s \in Seq(Int)
  PROVE  /\ Len(s) = 1 => Number(base, s) = s[1]
         /\ Len(s) = 2 => Number(base, s) = s[1] * base + s[2]
         /\ Len(s) = 3 => Number(base, s) = (s[1] * base + s[2]) * base + s[3]
<1>1. PICK f : /\ Number(base, s) = f[1 .. Len(s)]
               /\ f[{}] = 0 /\ f[1 .. 0] = 0
               /\ \A k \in 1 .. Len(s) : f[1 .. k] = f[1 .. k - 1] * base + s[k]
               /\ \A k \in 0 .. Len(s) : f[1 .. k] \in Int
  BY NumberPrefixes
<1> DEFINE F(k) == f[1 .. k]
<1>2. \A j, k \in 0 .. Len(s) : k = j + 1 => F(k) = F(j) * base + s[k]
  BY <1>1
<1>3. /\ F(0) = 0 /\ Number(base, s) = F(Len(s))
      /\ Len(s) \in Nat /\ \A i \in 1 .. Len(s) : s[i] \in Int
  BY <1>1
<1> HIDE DEF F
<1>4. Len(s) >= 1 => F(1) = s[1]
  <2> SUFFICES ASSUME Len(s) >= 1 PROVE F(1) = s[1]
    OBVIOUS
  <2>1. F(1) = 0 * base + s[1] /\ s[1] \in Int
    BY <1>2, <1>3
  <2>2. QED
    BY <2>1
<1>5. Len(s) >= 2 => F(2) = s[1] * base + s[2]
  BY <1>2, <1>3, <1>4
<1>6. Len(s) = 3 => F(3) = (s[1] * base + s[2]) * base + s[3]
  <2> SUFFICES ASSUME Len(s) = 3 PROVE F(3) = (s[1] * base + s[2]) * base + s[3]
    OBVIOUS
  <2>1. F(3) = F(2) * base + s[3]
    BY <1>2, <1>3
  <2>2. QED
    BY <1>5, <2>1
<1>7. Len(s) = 1 => Number(base, s) = s[1]
  BY <1>3, <1>4
<1>8. Len(s) = 2 => Number(base, s) = s[1] * base + s[2]
  BY <1>3, <1>5
<1>9. Len(s) = 3 => Number(base, s) = (s[1] * base + s[2]) * base + s[3]
  BY <1>3, <1>6
<1>10. QED
  BY <1>7, <1>8, <1>9

\* A compact integer is read back (encodeCompactU16): the length of an instruction's data and the
\* number of its accounts.
LEMMA CompactKept ==
  ASSUME NEW n \in Nat, n < 65536
  PROVE  FromCompact(CompactU16(n)) = n
<1>1. PICK a \in Nat, b \in Nat, c \in Nat :
         /\ a < 128 /\ b < 128 /\ c < 4
         /\ n = (c * 128 + b) * 128 + a
         /\ a = n % 128 /\ b = (n \div 128) % 128 /\ c = (n \div 16384) % 4
  BY CompactParts
<1> DEFINE low(s) == [k \in DOMAIN s |-> s[k] % 128]
<1>2. \A s : FromCompact(s) = Number(128, Reverse(low(s)))
  BY DEF FromCompact
<1>3. a % 128 = a /\ (a + 128) % 128 = a /\ b % 128 = b /\ (b + 128) % 128 = b /\ c % 128 = c
  BY <1>1, Remainder
<1>4. CASE n < 128
  <2>1. CompactU16(n) = <<a>> /\ n = a
    <3>1. n = a
      BY <1>1, <1>4
    <3>2. QED
      BY <3>1, <1>4 DEF CompactU16
  <2>2. low(<<a>>) = <<a>>
    BY <1>3
  <2> HIDE DEF low
  <2>3. Reverse(<<a>>) = <<a>>
    BY DEF Reverse
  <2>4. Number(128, <<a>>) = a
    <3> DEFINE t == <<a>>
    <3>1. t \in Seq(Int) /\ Len(t) = 1 /\ t[1] = a
      OBVIOUS
    <3> HIDE DEF t
    <3>2. Number(128, t) = a
      BY <3>1, ShortNumbers, SMT
    <3>3. QED
      BY <3>2 DEF t
  <2>5. QED
    BY <1>2, <2>1, <2>2, <2>3, <2>4
<1>5. CASE n >= 128 /\ n < 16384
  <2>1. CompactU16(n) = <<a + 128, b>> /\ n = b * 128 + a
    <3>1. c = 0
      BY <1>1, <1>5
    <3>2. n = b * 128 + a
      <4>1. n = (c * 128 + b) * 128 + a
        BY <1>1
      <4>2. QED
        BY <3>1, <4>1, SMT
    <3>3. CompactU16(n) = <<(n % 128) + 128, (n \div 128) % 128>>
      BY <1>5 DEF CompactU16
    <3>4. QED
      BY <1>1, <3>2, <3>3
  <2>2. low(<<a + 128, b>>) = <<a, b>>
    BY <1>3
  <2> HIDE DEF low
  <2>3. Reverse(<<a, b>>) = <<b, a>>
    BY DEF Reverse
  <2>4. Number(128, <<b, a>>) = b * 128 + a
    <3> DEFINE t == <<b, a>>
    <3>1. t \in Seq(Int) /\ Len(t) = 2 /\ t[1] = b /\ t[2] = a
      OBVIOUS
    <3> HIDE DEF t
    <3>2. Number(128, t) = b * 128 + a
      BY <3>1, ShortNumbers, SMT
    <3>3. QED
      BY <3>2 DEF t
  <2>5. QED
    BY <1>2, <2>1, <2>2, <2>3, <2>4
<1>6. CASE n >= 16384
  <2>1. CompactU16(n) = <<a + 128, b + 128, c>>
    <3>1. CompactU16(n) = <<(n % 128) + 128, ((n \div 128) % 128) + 128, (n \div 16384) % 4>>
      BY <1>6 DEF CompactU16
    <3>2. QED
      BY <1>1, <3>1
  <2>2. low(<<a + 128, b + 128, c>>) = <<a, b, c>>
    BY <1>3
  <2> HIDE DEF low
  <2>3. Reverse(<<a, b, c>>) = <<c, b, a>>
    BY DEF Reverse
  <2>4. Number(128, <<c, b, a>>) = (c * 128 + b) * 128 + a
    <3> DEFINE t == <<c, b, a>>
    <3>1. t \in Seq(Int) /\ Len(t) = 3 /\ t[1] = c /\ t[2] = b /\ t[3] = a
      OBVIOUS
    <3> HIDE DEF t
    <3> DEFINE base == 128
    <3>2. base \in Nat
      OBVIOUS
    <3> HIDE DEF base
    <3>3. Number(base, t) = (c * base + b) * base + a
      <4>1. t \in Seq(Int) /\ Len(t) = 3
        BY <3>1
      <4>2. Number(base, t) = (t[1] * base + t[2]) * base + t[3]
        BY <3>2, <4>1, ShortNumbers
      <4>3. t[1] = c /\ t[2] = b /\ t[3] = a
        BY <3>1
      <4>4. QED
        BY <4>2, <4>3
    <3>4. QED
      BY <3>3 DEF t, base
  <2>5. QED
    BY <1>1, <1>2, <2>1, <2>2, <2>3, <2>4
<1>7. QED
  BY <1>4, <1>5, <1>6

-------------------------------------------------------------------------------
(***************************************************************************)
(* Base58.  The zeros in front are counted and written again; the rest     *)
(* has no zero in front, and its digits are the only ones of its number.   *)
(***************************************************************************)

\* The zeros before what starts with none are counted (base58Encode, base58Decode).
LEMMA ZerosOf ==
  ASSUME NEW k \in Nat, NEW d, d \in Seq(Int), Led(d)
  PROVE  Zeros(ZeroBytes(k) \o d) = k
<1> DEFINE b == ZeroBytes(k) \o d
           S == {i \in DOMAIN b : \A j \in 1 .. i : b[j] = 0}
<1>1. ZeroBytes(k) \in Seq(Int) /\ Len(ZeroBytes(k)) = k
  BY ZerosGrow
<1>2. b \in Seq(Int) /\ DOMAIN b = 1 .. k + Len(d) /\ Len(d) \in Nat
  BY <1>1
<1>3. \A i \in 1 .. k : b[i] = 0
  BY <1>1 DEF ZeroBytes
<1>4. Len(d) > 0 => b[k + 1] # 0
  BY <1>1 DEF Led
<1> HIDE DEF b
<1>5. S = 1 .. k
  <2>1. ASSUME NEW i \in S PROVE i \in 1 .. k
    <3>1. i \in 1 .. k + Len(d) /\ \A j \in 1 .. i : b[j] = 0
      BY <1>2
    <3>2. i > k => k + 1 \in 1 .. i /\ Len(d) > 0
      BY <1>2, <3>1
    <3>3. QED
      BY <1>2, <1>4, <3>1, <3>2
  <2>2. ASSUME NEW i \in 1 .. k PROVE i \in S
    <3>1. i \in DOMAIN b /\ \A j \in 1 .. i : j \in 1 .. k
      BY <1>2
    <3>2. QED
      BY <1>3, <3>1
  <2> HIDE DEF S
  <2>3. QED
    BY <2>1, <2>2
<1>6. Cardinality(1 .. k) = k
  BY FS_Interval
<1>7. QED
  BY <1>5, <1>6 DEF Zeros, b

\* Every sequence is some zeros and what starts with none.
LEMMA LeadingZeros ==
  ASSUME NEW S, 0 \in S, NEW b, b \in Seq(S)
  PROVE  \E k \in Nat, d \in Seq(S) : b = ZeroBytes(k) \o d /\ Led(d)
<1> DEFINE T == {s \in Seq(S) : \E k \in Nat, d \in Seq(S) : s = ZeroBytes(k) \o d /\ Led(d)}
<1>1. \A k \in Nat : ZeroBytes(k) \in Seq(S)
  BY DEF ZeroBytes
<1>2. \A k \in Nat : Append(ZeroBytes(k), 0) = ZeroBytes(k + 1) /\ ZeroBytes(0) = <<>>
  BY ZerosGrow
<1>3. <<>> \in T
  <2>1. <<>> \in Seq(S) /\ <<>> = ZeroBytes(0) \o <<>> /\ Led(<<>>)
    BY <1>2 DEF Led
  <2>2. QED
    BY <2>1
<1>4. ASSUME NEW s \in Seq(S), NEW e \in S, s \in T PROVE Append(s, e) \in T
  <2>1. PICK k \in Nat, d \in Seq(S) : s = ZeroBytes(k) \o d /\ Led(d)
    BY <1>4
  <2>2. Append(s, e) \in Seq(S)
    OBVIOUS
  <2>3. CASE d = <<>> /\ e = 0
    <3>1. Append(s, e) = ZeroBytes(k + 1)
      <4>1. ZeroBytes(k) \o <<>> = ZeroBytes(k)
        BY <1>1
      <4>2. QED
        BY <1>2, <2>1, <2>3, <4>1, Zenon
    <3>2. ZeroBytes(k + 1) = ZeroBytes(k + 1) \o <<>> /\ Led(<<>>) /\ <<>> \in Seq(S)
      BY <1>1 DEF Led
    <3>3. k + 1 \in Nat /\ Append(s, e) = ZeroBytes(k + 1) \o <<>>
      BY <3>1, <3>2
    <3>4. QED
      BY <2>2, <3>2, <3>3, Zenon
  <2>4. CASE ~(d = <<>> /\ e = 0)
    <3>1. Append(d, e) \in Seq(S) /\ Append(s, e) = ZeroBytes(k) \o Append(d, e)
      <4> DEFINE z == ZeroBytes(k)
      <4>1. z \in Seq(S)
        BY <1>1
      <4> HIDE DEF z
      <4>2. Append(z \o d, e) = z \o Append(d, e)
        <5>1. z \o d \in Seq(S) /\ <<e>> \in Seq(S)
          BY <4>1
        <5>2. Append(z \o d, e) = (z \o d) \o <<e>>
          BY <5>1, AppendIsConcat
        <5>3. Append(d, e) = d \o <<e>>
          BY AppendIsConcat
        <5>4. (z \o d) \o <<e>> = z \o (d \o <<e>>)
          BY <4>1, <5>1, ConcatAssociative, SMTT(30)
        <5>5. QED
          BY <5>2, <5>3, <5>4
      <4>3. Append(s, e) = Append(z \o d, e)
        BY <2>1 DEF z
      <4>4. Append(d, e) \in Seq(S)
        OBVIOUS
      <4>5. QED
        BY <4>2, <4>3, <4>4 DEF z
    <3>2. Led(Append(d, e))
      BY <2>1, <2>4 DEF Led
    <3>3. QED
      BY <2>2, <3>1, <3>2
  <2>5. QED
    BY <2>3, <2>4
<1>5. Seq(S) \subseteq T
  <2> HIDE DEF T
  <2>1. QED
    BY <1>3, <1>4, SeqInduct
<1>6. QED
  BY <1>5

\* From base p to base q, the zeros in front kept.
Rebase(p, q, b) == ZeroBytes(Zeros(b)) \o Digits(q, Number(p, b))

\* From base p to base q and back: the zeros in front are kept, the rest is a number.
LEMMA Rebased ==
  ASSUME NEW p \in Nat, p >= 2, NEW q \in Nat, q >= 2, NEW b, b \in Seq(0 .. p - 1)
  PROVE  Rebase(q, p, Rebase(p, q, b)) = b
<1> DEFINE D == 0 .. p - 1
           t == Rebase(p, q, b)
<1>1. PICK k \in Nat, d \in Seq(D) : b = ZeroBytes(k) \o d /\ Led(d)
  <2>1. 0 \in D
    OBVIOUS
  <2> HIDE DEF D
  <2>2. QED
    BY <2>1, LeadingZeros DEF D
<1>2. d \in Seq(Int)
  BY DigitsAreInts
<1>3. Number(p, b) = Number(p, d)
  BY <1>1, <1>2, NumberSkipsZeros
<1>4. Zeros(b) = k
  BY <1>1, <1>2, ZerosOf
<1>5. Digits(p, Number(p, d)) = d /\ Number(p, d) \in Nat
  BY <1>1, DigitsOfNumber
<1> DEFINE N == Number(p, d)
           e == Digits(q, N)
<1>6. N \in Nat /\ Digits(p, N) = d
  BY <1>5
<1> HIDE DEF N
<1>7. e \in Seq(0 .. q - 1) /\ Number(q, e) = N
  BY <1>6, DigitsRule, NumberOfDigits
<1>8. e \in Seq(Int)
  BY <1>7, DigitsAreInts
<1>9. Led(e)
  <2>1. CASE N = 0
    <3>1. Digits(q, 0) = <<>>
      BY DigitsRule
    <3>2. Led(<<>>)
      BY DEF Led
    <3>3. QED
      BY <2>1, <3>1, <3>2, Zenon
  <2>2. CASE N # 0
    <3>1. N > 0
      BY <1>6, <2>2
    <3>2. Len(e) > 0 /\ e[1] # 0
      BY <1>6, <3>1, DigitsLead
    <3> HIDE DEF e
    <3>3. QED
      BY <3>2 DEF Led
  <2>3. QED
    BY <2>1, <2>2
<1>10. t = ZeroBytes(k) \o e
  BY <1>3, <1>4 DEF N, Rebase
<1> HIDE DEF e, t
<1>11. Zeros(t) = k
  BY <1>8, <1>9, <1>10, ZerosOf
<1>12. Number(q, t) = N
  BY <1>7, <1>8, <1>10, NumberSkipsZeros
<1>13. QED
  BY <1>1, <1>6, <1>11, <1>12 DEF Rebase, t

\* Base58 text is read back, the zero bytes that a key begins with included.
LEMMA Base58Kept ==
  ASSUME NEW b, b \in Seq(0 .. 255)
  PROVE  FromBase58(Base58(b)) = b
<1> DEFINE p == 256
           q == 58
<1>1. p \in Nat /\ p >= 2 /\ q \in Nat /\ q >= 2 /\ p - 1 = 255
  OBVIOUS
<1>2. FromBase58(Base58(b)) = Rebase(q, p, Rebase(p, q, b))
  BY DEF Base58, FromBase58, Rebase
<1> HIDE DEF p, q
<1>3. b \in Seq(0 .. p - 1)
  BY <1>1
<1>4. Rebase(q, p, Rebase(p, q, b)) = b
  BY <1>1, <1>3, Rebased
<1>5. QED
  BY <1>2, <1>4

-------------------------------------------------------------------------------
(***************************************************************************)
(* RLP.  What is put together is held by the result part after part; the   *)
(* decoder stops at the places where the parts begin.                      *)
(***************************************************************************)

\* s is in data from i on.
Holds(data, i, s) ==
  /\ i \in Nat \ {0}
  /\ i + Len(s) <= Len(data) + 1
  /\ \A j \in 1 .. Len(s) : data[i + j - 1] = s[j]

\* What data holds from i on is what is cut out there.
LEMMA HeldPart ==
  ASSUME NEW S, NEW data, data \in Seq(S), NEW s, s \in Seq(S), NEW i, Holds(data, i, s),
         NEW m, m = i + Len(s) - 1
  PROVE  SubSeq(data, i, m) = s
<1>1. /\ i \in Nat /\ i > 0 /\ Len(s) \in Nat /\ Len(data) \in Nat
      /\ i + Len(s) <= Len(data) + 1
  BY DEF Holds
<1> DEFINE t == SubSeq(data, i, m)
<1>2. m \in Int /\ m - i + 1 = Len(s) /\ i \in Int
  BY <1>1
<1>3. \A k \in i .. m : data[k] \in S
  BY <1>1
<1>4. /\ t \in Seq(S) /\ Len(t) = (IF i <= m THEN m - i + 1 ELSE 0)
      /\ \A k \in 1 .. m - i + 1 : t[k] = data[i + k - 1]
  BY <1>2, <1>3, SubSeqProperties
<1> HIDE DEF t
<1>5. Len(t) = Len(s)
  BY <1>1, <1>2, <1>4
<1>6. \A k \in 1 .. Len(s) : t[k] = s[k]
  BY <1>2, <1>4 DEF Holds
<1>7. t = s
  BY <1>4, <1>5, <1>6, SeqEqual
<1>8. QED
  BY <1>7 DEF t

\* What is put together is held part after part.
LEMMA HeldParts ==
  ASSUME NEW S, NEW data, data \in Seq(S), NEW s, s \in Seq(S), NEW t, t \in Seq(S),
         NEW i, Holds(data, i, s \o t)
  PROVE  Holds(data, i, s) /\ Holds(data, i + Len(s), t)
<1>1. /\ Len(s) \in Nat /\ Len(t) \in Nat /\ Len(s \o t) = Len(s) + Len(t)
      /\ \A j \in 1 .. Len(s) : (s \o t)[j] = s[j]
      /\ \A j \in 1 .. Len(t) : (s \o t)[Len(s) + j] = t[j]
  OBVIOUS
<1>2. /\ i \in Nat \ {0} /\ i + Len(s \o t) <= Len(data) + 1 /\ Len(data) \in Nat
      /\ \A j \in 1 .. Len(s \o t) : data[i + j - 1] = (s \o t)[j]
  BY DEF Holds
<1> DEFINE u == s \o t
           p == Len(s)
           q == Len(t)
<1>3. p \in Nat /\ q \in Nat /\ Len(u) = p + q
  BY <1>1
<1>4. Holds(data, i, s)
  <2>1. ASSUME NEW j \in 1 .. p PROVE data[i + j - 1] = s[j]
    <3>1. j \in 1 .. Len(u) /\ u[j] = s[j]
      BY <1>1
    <3>2. QED
      BY <1>2, <3>1
  <2>2. QED
    BY <1>1, <1>2, <2>1 DEF Holds
<1>5. \A j \in 1 .. q : data[i + p + j - 1] = t[j]
  <2> SUFFICES ASSUME NEW j \in 1 .. q PROVE data[i + p + j - 1] = t[j]
    OBVIOUS
  <2>1. u[p + j] = t[j]
    BY <1>1
  <2>2. p + j \in 1 .. Len(u) /\ i + (p + j) - 1 = i + p + j - 1
    <3> HIDE DEF p, q, u
    <3> QED BY <1>2, <1>3
  <2>3. data[i + (p + j) - 1] = u[p + j]
    BY <1>2, <2>2
  <2>4. QED
    BY <2>1, <2>2, <2>3
<1>6. Holds(data, i + p, t)
  BY <1>1, <1>2, <1>5 DEF Holds
<1>7. QED
  BY <1>4, <1>6

\* The bytes of a length.
LEMMA ByteDigits ==
  ASSUME NEW n \in Nat
  PROVE  /\ Digits(256, n) \in Seq(Nat) /\ Number(256, Digits(256, n)) = n
         /\ n > 0 => Len(Digits(256, n)) > 0
<1> DEFINE p == 256
<1>1. p \in Nat /\ p >= 2
  OBVIOUS
<1> HIDE DEF p
<1>2. Digits(p, n) \in Seq(Nat) /\ Number(p, Digits(p, n)) = n
  BY <1>1, DigitsRule, DigitsAreInts, NumberOfDigits
<1>3. n > 0 => Len(Digits(p, n)) > 0
  BY <1>1, DigitsLead
<1>4. QED
  BY <1>2, <1>3 DEF p

\* A prefix is at least one byte.
LEMMA PrefixIsBytes ==
  ASSUME NEW base \in Nat, NEW n \in Nat
  PROVE  RlpPrefix(base, n) \in Seq(Nat) /\ Len(RlpPrefix(base, n)) > 0
<1> DEFINE d == Digits(256, n)
<1>1. d \in Seq(Nat)
  BY ByteDigits
<1>2. RlpPrefix(base, n) = <<base + n>> \/ RlpPrefix(base, n) = <<base + 55 + Len(d)>> \o d
  BY DEF RlpPrefix
<1>3. <<base + n>> \in Seq(Nat) /\ Len(<<base + n>>) > 0
  OBVIOUS
<1> HIDE DEF d
<1>4. <<base + 55 + Len(d)>> \o d \in Seq(Nat) /\ Len(<<base + 55 + Len(d)>> \o d) > 0
  BY <1>1
<1>5. QED
  BY <1>2, <1>3, <1>4

\* The bounds of a string or list, short or long, are read as its prefix was written
\* (rlpDecodeAt, readBeInt).
LEMMA BoundsRead ==
  ASSUME NEW data, data \in Seq(Nat), NEW base \in Nat, NEW n \in Nat, NEW i,
         Holds(data, i, RlpPrefix(base, n))
  PROVE  /\ RlpPrefix(base, n) \in Seq(Nat) /\ Len(RlpPrefix(base, n)) > 0
         /\ data[i] >= base /\ (n < 56 \/ data[i] = base + 55 + Len(Digits(256, n)))
         /\ n < 56 => data[i] = base + n
         /\ Bounds(data, i, base) = [from |-> i + Len(RlpPrefix(base, n)),
                                     to |-> i + Len(RlpPrefix(base, n)) + n]
<1> DEFINE prefix == RlpPrefix(base, n)
           d == Digits(256, n)
           k == Len(d)
<1>1. i \in Nat /\ i > 0
  BY DEF Holds
<1>2. d \in Seq(Nat) /\ Number(256, d) = n /\ (n > 0 => k > 0) /\ k \in Nat
  BY ByteDigits
<1>3. CASE n < 56
  <2>1. prefix = <<base + n>>
    BY <1>3 DEF RlpPrefix
  <2>2. prefix \in Seq(Nat) /\ Len(prefix) = 1 /\ prefix[1] = base + n
    BY <2>1
  <2>3. data[i + 1 - 1] = base + n
    BY <2>2 DEF Holds
  <2>4. data[i] = base + n
    BY <1>1, <2>3
  <2>5. Bounds(data, i, base) = [from |-> i + 1, to |-> i + 1 + n]
    <3>1. data[i] <= base + 55 /\ i + 1 + data[i] - base = i + 1 + n
      BY <1>1, <1>3, <2>4
    <3>2. QED
      BY <3>1 DEF Bounds
  <2> HIDE DEF prefix, d
  <2>6. QED
    BY <1>3, <2>2, <2>4, <2>5 DEF prefix
<1>4. CASE n >= 56
  <2> DEFINE b == base + 55 + k
  <2>1. prefix = <<b>> \o d
    BY <1>4 DEF RlpPrefix
  <2>2. b \in Nat /\ k > 0
    BY <1>2, <1>4
  <2> HIDE DEF d
  <2>3. <<b>> \in Seq(Nat) /\ Len(<<b>>) = 1
    BY <2>2
  <2>4. Holds(data, i, <<b>>) /\ Holds(data, i + 1, d)
    <3>1. Holds(data, i, <<b>> \o d)
      BY <2>1 DEF d
    <3> DEFINE s == <<b>>
    <3>2. s \in Seq(Nat) /\ Len(s) = 1
      BY <2>3
    <3>3. Holds(data, i, s \o d)
      BY <3>1
    <3> HIDE DEF s
    <3>4. Holds(data, i, s) /\ Holds(data, i + Len(s), d)
      BY <1>2, <3>2, <3>3, HeldParts
    <3>5. QED
      BY <3>2, <3>4 DEF s
  <2>5. data[i] = b
    <3>1. data[i + 1 - 1] = b
      BY <2>3, <2>4 DEF Holds
    <3>2. QED
      BY <1>1, <3>1
  <2>6. SubSeq(data, i + 1, i + 1 + k - 1) = d
    BY <1>2, <2>4, HeldPart
  <2>7. ReadInt(data, i + 1, k) = n
    <3>1. ~(i + 1 + k > Len(data) + 1)
      BY <1>1, <1>2, <2>4 DEF Holds
    <3>2. QED
      BY <1>2, <2>6, <3>1 DEF ReadInt
  <2>8. Bounds(data, i, base) = [from |-> i + 1 + k, to |-> i + 1 + k + n]
    <3>1. ~(data[i] <= base + 55) /\ data[i] - base - 55 = k
      BY <1>2, <2>2, <2>5
    <3>2. QED
      BY <2>7, <3>1 DEF Bounds
  <2>9. prefix \in Seq(Nat) /\ Len(prefix) = 1 + k
    <3> HIDE DEF prefix
    <3>1. QED
      BY <1>2, <2>1, <2>3
  <2>10. i + Len(prefix) = i + 1 + k
    BY <1>1, <1>2, <2>9
  <2> HIDE DEF prefix, b, k
  <2>11. data[i] >= base
    BY <1>2, <2>5 DEF b
  <2>12. QED
    BY <1>2, <1>4, <2>2, <2>5, <2>8, <2>9, <2>10, <2>11 DEF prefix, b, k, d
<1>5. QED
  BY <1>3, <1>4

\* A string in data is read as it was written, a single byte included.
LEMMA ExtentRead ==
  ASSUME NEW data, data \in Seq(Nat), NEW x, x \in Seq(Nat), Len(Digits(256, Len(x))) <= 8,
         NEW i, Holds(data, i, RlpBytes(x))
  PROVE  /\ RlpBytes(x) \in Seq(Nat) /\ Len(RlpBytes(x)) > 0 /\ data[i] < 192
         /\ Extent(data, i).to = i + Len(RlpBytes(x))
         /\ SubSeq(data, Extent(data, i).from, Extent(data, i).to - 1) = x
<1>1. i \in Nat /\ i > 0 /\ Len(x) \in Nat
  BY DEF Holds
<1>2. CASE Len(x) = 1 /\ x[1] < 128
  <2>1. RlpBytes(x) = x
    BY <1>2 DEF RlpBytes
  <2>2. Holds(data, i, x)
    BY <2>1
  <2>3. data[i + 1 - 1] = x[1]
    BY <1>2, <2>2 DEF Holds
  <2>4. data[i] < 128
    BY <1>1, <1>2, <2>3
  <2>5. Extent(data, i) = [from |-> i, to |-> i + 1]
    BY <2>4 DEF Extent
  <2>6. data[i] \in Nat
    <3>1. i \in 1 .. Len(data)
      BY <1>1, <1>2, <2>2 DEF Holds
    <3>2. QED
      BY <3>1
  <2>7. data[i] < 192
    BY <2>4, <2>6
  <2> DEFINE e == Extent(data, i)
  <2>8. e.from = i /\ e.to = i + 1
    BY <2>5
  <2> HIDE DEF e
  <2>9. e.to = i + Len(RlpBytes(x))
    BY <1>2, <2>1, <2>8
  <2>10. SubSeq(data, e.from, e.to - 1) = x
    <3>1. Holds(data, e.from, x)
      BY <2>2, <2>8
    <3>2. e.to - 1 = e.from + Len(x) - 1
      BY <1>1, <1>2, <2>8
    <3>3. QED
      BY <3>1, <3>2, HeldPart
  <2>11. Len(RlpBytes(x)) > 0 /\ RlpBytes(x) \in Seq(Nat)
    <3>1. Len(x) > 0
      BY <1>2
    <3>2. QED
      BY <2>1, <3>1, Zenon
  <2>12. QED
    BY <2>7, <2>9, <2>10, <2>11 DEF e
<1>3. CASE ~(Len(x) = 1 /\ x[1] < 128)
  <2> DEFINE base == 128
             prefix == RlpPrefix(base, Len(x))
             e == Extent(data, i)
  <2>1. RlpBytes(x) = prefix \o x
    BY <1>3 DEF RlpBytes
  <2>2. base \in Nat /\ base = 128
    OBVIOUS
  <2> HIDE DEF base
  <2>3. prefix \in Seq(Nat) /\ Len(prefix) > 0
    BY <1>1, <2>2, PrefixIsBytes
  <2>4. Holds(data, i, prefix) /\ Holds(data, i + Len(prefix), x)
    <3>1. Holds(data, i, prefix \o x)
      BY <2>1
    <3> HIDE DEF prefix
    <3>2. QED
      BY <2>3, <3>1, HeldParts
  <2>5. /\ data[i] >= base
        /\ (Len(x) < 56 \/ data[i] = base + 55 + Len(Digits(256, Len(x))))
        /\ (Len(x) < 56 => data[i] = base + Len(x))
        /\ Bounds(data, i, base) = [from |-> i + Len(prefix), to |-> i + Len(prefix) + Len(x)]
    BY <1>1, <2>2, <2>4, BoundsRead
  <2> HIDE DEF prefix
  <2>6. data[i] < 192
    <3>1. Len(Digits(256, Len(x))) \in Nat
      BY <1>1, ByteDigits
    <3> DEFINE k == Len(Digits(256, Len(x)))
    <3>2. k \in Nat /\ k <= 8 /\ (Len(x) < 56 \/ data[i] = base + 55 + k)
      BY <2>5, <3>1
    <3> HIDE DEF k
    <3>3. QED
      BY <1>1, <2>2, <2>5, <3>2
  <2>7. e = [from |-> i + Len(prefix), to |-> i + Len(prefix) + Len(x)]
    <3>1. i \in 1 .. Len(data)
      BY <1>1, <2>3, <2>4 DEF Holds
    <3>2. data[i] \in Nat
      BY <3>1
    <3>3. ~(data[i] < 128)
      BY <2>2, <2>5, <3>2
    <3>4. e = Bounds(data, i, 128)
      BY <3>3 DEF Extent
    <3>5. QED
      BY <2>2, <2>5, <3>4
  <2>8. RlpBytes(x) \in Seq(Nat) /\ Len(RlpBytes(x)) = Len(prefix) + Len(x)
    BY <2>1, <2>3
  <2> DEFINE l == Len(prefix)
             m == Len(x)
  <2>9. l \in Nat /\ l > 0 /\ m \in Nat
    BY <1>1, <2>3
  <2> HIDE DEF l, e
  <2>10. Len(RlpBytes(x)) > 0 /\ e.to = i + Len(RlpBytes(x))
    BY <1>1, <2>7, <2>8, <2>9 DEF l
  <2>11. SubSeq(data, e.from, e.to - 1) = x
    <3>1. Holds(data, e.from, x)
      BY <2>4, <2>7
    <3>2. e.to - 1 = e.from + Len(x) - 1
      BY <1>1, <2>7, <2>9 DEF l
    <3>3. QED
      BY <3>1, <3>2, HeldPart
  <2>12. QED
    BY <2>6, <2>8, <2>10, <2>11 DEF e
<1>4. QED
  BY <1>2, <1>3

\* The beginnings of sequences put together.
LEMMA Flattened ==
  ASSUME NEW S, NEW s, s \in Seq(Seq(S)), Len(s) > 0
  PROVE  \E f : /\ FlattenSeq(s) = f[Len(s)] /\ f[1] = s[1]
                /\ \A k \in 1 .. Len(s) : f[k] \in Seq(S)
                /\ \A k \in 1 .. Len(s) : k # 1 => f[k] = f[k - 1] \o s[k]
<1> DEFINE n == Len(s)
           D == 1 .. n
           V == Seq(S)
           before(k) == IF k = 1 THEN 1 ELSE k - 1
           Fix(f) == f = [k \in D |-> IF k = 1 THEN s[k] ELSE f[k - 1] \o s[k]]
<1>1. n \in Nat /\ n > 0 /\ \A k \in D : s[k] \in V
  OBVIOUS
<1>2. FlattenSeq(s) = (CHOOSE f : Fix(f))[n]
  <2>1. Len(s) # 0
    BY <1>1
  <2>2. QED
    BY <2>1, Zenon DEF FlattenSeq
<1> HIDE DEF n, V
<1>3. \A k \in D : before(k) \in D /\ (k # 1 => before(k) < k)
  BY <1>1
<1> DEFINE rank == [k \in D |-> k]
           B == {1}
           h == [k \in D |-> before(k)]
           first == [k \in D |-> s[k]]
           step == [p \in D \X V |-> p[2] \o s[p[1]]]
<1>4. rank \in [D -> Nat] /\ B \in SUBSET D
  BY <1>1
<1>5. h \in [D -> D] /\ \A k \in D \ B : rank[h[k]] < rank[k]
  <2>1. \A k \in D : h[k] = before(k) /\ rank[k] = k
    OBVIOUS
  <2>2. h \in [D -> D]
    BY <1>3
  <2> HIDE DEF D, before, h, rank
  <2>3. QED
    BY <1>3, <2>1, <2>2
<1>6. first \in [D -> V]
  BY <1>1
<1>7. step \in [D \X V -> V]
  <2> DEFINE P == D \X V
  <2>1. ASSUME NEW p \in P PROVE p[2] \o s[p[1]] \in V
    <3>1. p[1] \in D /\ p[2] \in V
      OBVIOUS
    <3>2. s[p[1]] \in V
      BY <1>1, <3>1
    <3> HIDE DEF P, D
    <3>3. QED
      BY <3>1, <3>2 DEF V
  <2> HIDE DEF P
  <2>2. [p \in P |-> p[2] \o s[p[1]]] \in [P -> V]
    BY <2>1
  <2>3. QED
    BY <2>2 DEF P
<1>8. PICK g : Solves(g, D, V, B, h, first, step)
  <2> HIDE DEF D, rank, B, h, first, step
  <2>1. Descends(D, V, rank, B, h, first, step)
    BY <1>4, <1>5, <1>6, <1>7 DEF Descends
  <2>2. QED
    BY <2>1, Recursion
<1>9. g \in [D -> V]
  BY <1>8 DEF Solves
<1>10. ASSUME NEW k \in D PROVE g[k] = IF k = 1 THEN s[k] ELSE g[k - 1] \o s[k]
  <2>1. g[k] = IF k \in B THEN first[k] ELSE step[<<k, g[h[k]]>>]
    <3> HIDE DEF D, B, h, first, step
    <3>1. QED
      BY <1>8 DEF Solves
  <2>2. first[k] = s[k]
    OBVIOUS
  <2>3. CASE k # 1
    <3>1. h[k] = k - 1 /\ k - 1 \in D
      BY <1>3, <2>3
    <3>2. <<k, g[k - 1]>> \in D \X V
      BY <1>9, <3>1
    <3>3. step[<<k, g[k - 1]>>] = <<k, g[k - 1]>>[2] \o s[<<k, g[k - 1]>>[1]]
      BY <3>2, Zenon
    <3>4. step[<<k, g[k - 1]>>] = g[k - 1] \o s[k]
      <4> HIDE DEF step
      <4>1. QED
        BY <3>3
    <3> HIDE DEF step, h, first
    <3>5. QED
      BY <2>1, <2>3, <3>1, <3>4
  <2>4. CASE k = 1
    <3> HIDE DEF step, h, first
    <3>1. QED
      BY <2>1, <2>2, <2>4
  <2>5. QED
    BY <2>3, <2>4
<1>11. Fix(g)
  BY <1>9, <1>10
<1> DEFINE f == CHOOSE f : Fix(f)
<1>12. Fix(f)
  BY <1>11, Zenon
<1> HIDE DEF f
<1>13. \A k \in D : f[k] = IF k = 1 THEN s[k] ELSE f[k - 1] \o s[k]
  BY <1>12, Zenon
<1>14. D \subseteq {k \in D : f[k] \in V}
  <2> DEFINE T == {k \in D : f[k] \in V}
  <2>1. ASSUME NEW k \in D, \A m \in D : rank[m] < rank[k] => m \in T PROVE k \in T
    <3>1. s[k] \in V
      BY <1>1
    <3>2. CASE k = 1
      <4>1. f[k] = s[k]
        BY <1>13, <3>2
      <4>2. QED
        BY <3>1, <4>1
    <3>3. CASE k # 1
      <4>1. k - 1 \in D /\ rank[k - 1] < rank[k]
        BY <1>1, <3>3
      <4>2. f[k - 1] \in V
        <5> HIDE DEF rank, D
        <5>1. QED
          BY <2>1, <4>1
      <4>3. f[k] = f[k - 1] \o s[k]
        BY <1>13, <3>3
      <4>4. f[k - 1] \o s[k] \in V
        BY <3>1, <4>2 DEF V
      <4>5. QED
        BY <4>3, <4>4, Zenon
    <3>4. QED
      BY <3>2, <3>3
  <2> HIDE DEF T, D, rank
  <2>2. D \subseteq T
    BY <1>4, <2>1, InductOn
  <2>3. QED
    BY <2>2 DEF T
<1>15. FlattenSeq(s) = f[n]
  BY <1>2 DEF f
<1>16. f[1] = s[1]
  <2>1. 1 \in D
    BY <1>1
  <2> HIDE DEF D
  <2>2. QED
    BY <1>13, <2>1
<1>17. \A k \in D : k # 1 => f[k] = f[k - 1] \o s[k]
  BY <1>13, Zenon
<1>18. \A k \in D : f[k] \in V
  BY <1>14
<1>19. QED
  <2> HIDE DEF D
  <2>1. QED
    BY <1>15, <1>16, <1>17, <1>18, Zenon DEF D, n, V

\* at[k] is where the k-th of the sequences s starts in data, when s starts at i.
Places(at, data, i, s) ==
  /\ at \in [1 .. Len(s) + 1 -> Nat]
  /\ at[1] = i /\ at[Len(s) + 1] = i + Len(FlattenSeq(s))
  /\ \A k \in 1 .. Len(s) : Holds(data, at[k], s[k]) /\ at[k + 1] = at[k] + Len(s[k])

\* Sequences put together have places where data holds them.
LEMMA Placed ==
  ASSUME NEW S, NEW data, data \in Seq(S), NEW s, s \in Seq(Seq(S)), NEW i,
         Holds(data, i, FlattenSeq(s))
  PROVE  \E at : Places(at, data, i, s)
<1> DEFINE n == Len(s)
<1>1. n \in Nat /\ i \in Nat /\ \A k \in 1 .. n : s[k] \in Seq(S) /\ Len(s[k]) \in Nat
  BY DEF Holds
<1>2. CASE n = 0
  <2>1. FlattenSeq(s) = s
    BY <1>2 DEF FlattenSeq
  <2> DEFINE at == [k \in 1 .. n + 1 |-> i]
  <2>2. at \in [1 .. n + 1 -> Nat] /\ at[1] = i /\ at[n + 1] = i
    BY <1>1, <1>2
  <2>3. at[n + 1] = i + Len(FlattenSeq(s))
    BY <1>1, <1>2, <2>1, <2>2
  <2>4. \A k \in 1 .. n : FALSE
    BY <1>2
  <2> HIDE DEF at
  <2>5. Places(at, data, i, s)
    BY <2>2, <2>3, <2>4 DEF Places
  <2>6. QED
    BY <2>5
<1>3. CASE n > 0
  <2>1. PICK f : /\ FlattenSeq(s) = f[n] /\ f[1] = s[1]
                 /\ \A k \in 1 .. n : f[k] \in Seq(S)
                 /\ \A k \in 1 .. n : k # 1 => f[k] = f[k - 1] \o s[k]
    BY <1>3, Flattened, ZenonT(40)
  <2>2. \A k \in 1 .. n : Len(f[k]) \in Nat
    BY <2>1
  <2>3. ASSUME NEW k \in 1 .. n, k # 1, Holds(data, i, f[k])
        PROVE  /\ Holds(data, i, f[k - 1])
               /\ Holds(data, i + Len(f[k - 1]), s[k])
               /\ Len(f[k]) = Len(f[k - 1]) + Len(s[k])
    <3> DEFINE a == f[k - 1]
               b == s[k]
    <3>1. k - 1 \in 1 .. n
      BY <1>1, <2>3
    <3>2. a \in Seq(S) /\ b \in Seq(S) /\ f[k] = a \o b
      BY <1>1, <2>1, <2>3, <3>1
    <3> HIDE DEF a, b
    <3>3. Holds(data, i, a \o b)
      BY <2>3, <3>2
    <3>4. Len(a \o b) = Len(a) + Len(b)
      BY <3>2
    <3>5. Holds(data, i, a) /\ Holds(data, i + Len(a), b)
      BY <3>2, <3>3, HeldParts
    <3>6. Len(f[k]) = Len(a) + Len(b)
      BY <3>2, <3>4
    <3>7. QED
      BY <3>5, <3>6 DEF a, b
  <2>4. \A k \in 1 .. n : Holds(data, i, f[k])
    <3> DEFINE T == {m \in Nat : m < n => Holds(data, i, f[n - m])}
    <3>1. ASSUME NEW m \in Nat, \A l \in Nat : l < m => l \in T PROVE m \in T
      <4> SUFFICES ASSUME m < n PROVE Holds(data, i, f[n - m])
        OBVIOUS
      <4>1. CASE m = 0
        <5>1. n - m = n
          BY <1>1, <4>1
        <5>2. QED
          BY <2>1, <5>1
      <4>2. CASE m # 0
        <5> DEFINE k == n - (m - 1)
        <5>1. m - 1 \in Nat /\ m - 1 < m /\ m - 1 < n /\ k \in 1 .. n /\ k # 1 /\ k - 1 = n - m
          BY <1>1, <4>2
        <5>2. Holds(data, i, f[k])
          BY <3>1, <5>1
        <5> HIDE DEF k
        <5>3. Holds(data, i, f[k - 1])
          BY <2>3, <5>1, <5>2
        <5>4. QED
          BY <5>1, <5>3
      <4>3. QED
        BY <4>1, <4>2
    <3>2. Nat \subseteq T
      <4> HIDE DEF T
      <4>1. QED
        BY <3>1, Induct
    <3>3. ASSUME NEW k \in 1 .. n PROVE Holds(data, i, f[k])
      <4>1. n - k \in Nat /\ n - k < n /\ n - (n - k) = k
        BY <1>1
      <4>2. QED
        BY <3>2, <4>1
    <3>4. QED
      BY <3>3
  <2> DEFINE start(k) == IF k = 1 THEN i ELSE i + Len(f[k - 1])
             at == [k \in 1 .. n + 1 |-> start(k)]
  <2>5. at \in [1 .. n + 1 -> Nat]
    <3>1. ASSUME NEW k \in 1 .. n + 1 PROVE start(k) \in Nat
      <4>1. k # 1 => k - 1 \in 1 .. n
        BY <1>1
      <4>2. QED
        BY <1>1, <2>2, <4>1
    <3>2. QED
      BY <3>1
  <2>6. at[1] = i /\ at[n + 1] = i + Len(FlattenSeq(s))
    <3>1. 1 \in 1 .. n + 1 /\ n + 1 \in 1 .. n + 1 /\ n + 1 # 1 /\ (n + 1) - 1 = n
      BY <1>1, <1>3
    <3>2. at[1] = i /\ at[n + 1] = i + Len(f[n])
      BY <3>1
    <3>3. QED
      BY <2>1, <3>2
  <2>7. ASSUME NEW k \in 1 .. n
        PROVE  Holds(data, at[k], s[k]) /\ at[k + 1] = at[k] + Len(s[k])
    <3>1. at[k + 1] = i + Len(f[k])
      <4>1. k + 1 \in 1 .. n + 1 /\ k + 1 # 1 /\ (k + 1) - 1 = k
        BY <1>1
      <4>2. QED
        BY <4>1
    <3>2. k \in 1 .. n + 1
      BY <1>1
    <3>3. CASE k = 1
      <4>1. at[k] = i
        BY <3>2, <3>3
      <4>2. f[k] = s[k]
        BY <2>1, <3>3
      <4> HIDE DEF at
      <4>3. QED
        BY <2>4, <3>1, <4>1, <4>2
    <3>4. CASE k # 1
      <4>1. at[k] = i + Len(f[k - 1])
        BY <3>2, <3>4
      <4>2. /\ Holds(data, i + Len(f[k - 1]), s[k])
            /\ Len(f[k]) = Len(f[k - 1]) + Len(s[k])
        BY <2>3, <2>4, <3>4
      <4>3. Len(f[k - 1]) \in Nat
        <5>1. k - 1 \in 1 .. n
          BY <1>1, <3>4
        <5>2. QED
          BY <2>2, <5>1
      <4> HIDE DEF at
      <4>4. Holds(data, at[k], s[k])
        BY <4>1, <4>2
      <4> DEFINE a == Len(f[k - 1])
                 b == Len(s[k])
      <4>5. /\ a \in Nat /\ b \in Nat
            /\ at[k] = i + a /\ at[k + 1] = i + Len(f[k]) /\ Len(f[k]) = a + b
        BY <1>1, <3>1, <4>1, <4>2, <4>3
      <4> HIDE DEF a, b
      <4>6. at[k + 1] = at[k] + b
        BY <1>1, <4>5
      <4>7. QED
        BY <4>4, <4>6 DEF b
    <3>5. QED
      BY <3>3, <3>4
  <2> HIDE DEF at
  <2>8. Places(at, data, i, s)
    BY <2>5, <2>6, <2>7 DEF Places
  <2>9. QED
    BY <2>8
<1>4. QED
  BY <1>1, <1>2, <1>3

\* Where a string of a list ends is after where it starts, whatever data is: the decoder advances.
LEMMA ExtentGrows ==
  ASSUME NEW data, data \in Seq(Nat), NEW i \in 1 .. Len(data)
  PROVE  /\ Extent(data, i).to \in Nat /\ Extent(data, i).to > i
         /\ Extent(data, i).from \in Nat /\ Extent(data, i).from >= i
<1> DEFINE b == data[i]
<1>1. i \in Nat /\ i > 0 /\ b \in Nat /\ Len(data) \in Nat
  OBVIOUS
<1>2. CASE b < 128
  <2>1. Extent(data, i) = [from |-> i, to |-> i + 1]
    BY <1>2 DEF Extent
  <2>2. QED
    BY <1>1, <2>1
<1>3. CASE b >= 128 /\ b <= 128 + 55
  <2>1. Extent(data, i) = [from |-> i + 1, to |-> i + 1 + b - 128]
    BY <1>1, <1>3 DEF Extent, Bounds
  <2>2. QED
    BY <1>1, <1>3, <2>1
<1>4. CASE b > 128 + 55
  <2> DEFINE n == b - 128 - 55
             l == ReadInt(data, i + 1, n)
  <2>1. Extent(data, i) = [from |-> i + 1 + n, to |-> i + 1 + n + l]
    BY <1>1, <1>4 DEF Extent, Bounds
  <2>2. n \in Nat
    BY <1>1, <1>4
  <2> HIDE DEF n
  <2>3. l \in Nat
    <3>1. CASE i + 1 + n > Len(data) + 1
      BY <1>1, <3>1 DEF ReadInt
    <3>2. CASE ~(i + 1 + n > Len(data) + 1)
      <4> DEFINE s == SubSeq(data, i + 1, i + 1 + n - 1)
                 base == 256
      <4>1. i + 1 \in Int /\ i + 1 + n - 1 \in Int /\ i + 1 + n - 1 <= Len(data)
        BY <1>1, <2>2, <3>2
      <4>2. \A k \in i + 1 .. i + 1 + n - 1 : data[k] \in Nat
        BY <1>1, <4>1
      <4>3. s \in Seq(Nat)
        BY <4>1, <4>2, SubSeqProperties
      <4>4. base \in Nat /\ l = Number(base, s)
        BY <3>2 DEF ReadInt
      <4> HIDE DEF s, base, l
      <4>5. QED
        BY <4>3, <4>4, NumberIsNat
    <3>3. QED
      BY <3>1, <3>2
  <2> HIDE DEF l
  <2>4. QED
    BY <1>1, <2>1, <2>2, <2>3
<1>5. QED
  BY <1>1, <1>2, <1>3, <1>4

\* The items that rlpDecodeAt reads from each place of a list that ends where data ends.
Reads(f, data) ==
  /\ f[Len(data) + 1] = <<>>
  /\ \A i \in 1 .. Len(data) :
       data[i] < 192 /\ Extent(data, i).to <= Len(data) + 1 =>
         f[i] = <<SubSeq(data, Extent(data, i).from, Extent(data, i).to - 1)>>
                \o f[Extent(data, i).to]

\* rlpDecodeAt reads item after item, as it advances.
LEMMA Decoded ==
  ASSUME NEW data, data \in Seq(Nat), data # <<>>, data[1] >= 192,
         Bounds(data, 1, 192).to = Len(data) + 1
  PROVE  \E f : RlpDecode(data) = f[Bounds(data, 1, 192).from] /\ Reads(f, data)
<1> DEFINE N == Len(data)
           D == 1 .. N + 1
           V == Seq(Seq(Int))
           to(i) == Extent(data, i).to
           item(i) == SubSeq(data, Extent(data, i).from, Extent(data, i).to - 1)
           none(i) == IF i = N + 1 THEN <<>> ELSE <<<<-1>>>>
           stops(i) == i = N + 1 \/ i > N \/ data[i] >= 192 \/ to(i) > N + 1
           Rule(f, i) == f[i] = IF stops(i) THEN none(i) ELSE <<item(i)>> \o f[to(i)]
           Fix(f) == f = [i \in D |->
                            IF i = N + 1 THEN <<>>
                            ELSE IF i > N \/ data[i] >= 192 THEN <<<<-1>>>>
                            ELSE LET e == Extent(data, i) IN
                                 IF e.to > N + 1 THEN <<<<-1>>>>
                                 ELSE <<SubSeq(data, e.from, e.to - 1)>> \o f[e.to]]
           Fixed(f) == f = [i \in D |-> IF stops(i) THEN none(i) ELSE <<item(i)>> \o f[to(i)]]
<1>1. N \in Nat /\ \A i \in 1 .. N : data[i] \in Nat
  OBVIOUS
<1>2. RlpDecode(data) = (CHOOSE f : Fix(f))[Bounds(data, 1, 192).from]
  <2>1. /\ ~(data = <<>> \/ data[1] < 192 \/ Bounds(data, 1, 192).to # N + 1)
        /\ Bounds(data, 1, 192).to = N + 1
    <3>1. N > 0
      BY <1>1
    <3>2. data[1] \in Nat
      BY <1>1, <3>1
    <3>3. QED
      BY <3>2
  <2> DEFINE end == Bounds(data, 1, 192).to
             Choice(last) ==
               CHOOSE f : f = [i \in D |->
                                 IF i = last THEN <<>>
                                 ELSE IF i > N \/ data[i] >= 192 THEN <<<<-1>>>>
                                 ELSE LET e == Extent(data, i) IN
                                      IF e.to > last THEN <<<<-1>>>>
                                      ELSE <<SubSeq(data, e.from, e.to - 1)>> \o f[e.to]]
  <2>2. RlpDecode(data) = Choice(end)[Bounds(data, 1, 192).from]
    BY <2>1, Zenon DEF RlpDecode
  <2>3. Choice(N + 1) = CHOOSE f : Fix(f)
    OBVIOUS
  <2> HIDE DEF Choice, Fix
  <2>4. Choice(end) = Choice(N + 1)
    BY <2>1
  <2> HIDE DEF end
  <2>5. QED
    BY <2>2, <2>3, <2>4
<1>3. ASSUME NEW i \in D, ~stops(i)
      PROVE  to(i) \in D /\ to(i) > i /\ item(i) \in Seq(Int)
  <2>1. i \in 1 .. N
    BY <1>1, <1>3
  <2> DEFINE a == Extent(data, i).from
             m == Extent(data, i).to - 1
  <2>2. to(i) \in Nat /\ to(i) > i /\ a \in Nat /\ a >= i
    BY <2>1, ExtentGrows
  <2>3. to(i) <= N + 1
    BY <1>1, <1>3, <2>2
  <2>4. to(i) \in D /\ m \in Int /\ m <= N /\ a > 0
    BY <1>1, <2>1, <2>2, <2>3
  <2>5. \A k \in a .. m : data[k] \in Int
    <3> HIDE DEF a, m, N
    <3>1. QED
      BY <1>1, <2>2, <2>4
  <2> HIDE DEF a, m
  <2>6. SubSeq(data, a, m) \in Seq(Int)
    BY <2>2, <2>4, <2>5, SubSeqProperties
  <2>7. QED
    BY <2>2, <2>4, <2>6 DEF a, m
<1>4. \A i : none(i) \in V
  <2>1. <<>> \in V
    OBVIOUS
  <2>2. <<-1>> \in Seq(Int)
    OBVIOUS
  <2>3. <<<<-1>>>> \in V
    BY <2>2
  <2> HIDE DEF V
  <2>4. QED
    BY <2>1, <2>3
<1> HIDE DEF N, V
<1> DEFINE rank == [i \in D |-> N + 1 - i]
           B == {i \in D : stops(i)}
           h == [i \in D |-> IF stops(i) THEN i ELSE to(i)]
           first == [i \in D |-> none(i)]
           value(p) == IF stops(p[1]) THEN <<>> ELSE <<item(p[1])>> \o p[2]
           step == [p \in D \X V |-> value(p)]
<1> HIDE DEF to, item, none, stops
<1>5. rank \in [D -> Nat] /\ B \in SUBSET D
  BY <1>1
<1>6. h \in [D -> D] /\ \A i \in D \ B : rank[h[i]] < rank[i]
  <2>1. h \in [D -> D]
    BY <1>3
  <2>2. ASSUME NEW i \in D \ B PROVE rank[h[i]] < rank[i]
    <3>1. ~stops(i) /\ h[i] = to(i)
      OBVIOUS
    <3>2. to(i) \in D /\ to(i) > i
      BY <1>3, <3>1
    <3>3. rank[to(i)] = N + 1 - to(i) /\ rank[i] = N + 1 - i
      BY <3>2
    <3> HIDE DEF rank, h
    <3>4. QED
      BY <1>1, <3>1, <3>2, <3>3
  <2>3. QED
    BY <2>1, <2>2
<1>7. first \in [D -> V]
  BY <1>4
<1>8. step \in [D \X V -> V]
  <2> DEFINE P == D \X V
  <2>1. ASSUME NEW p \in P PROVE value(p) \in V
    <3>1. p[1] \in D /\ p[2] \in V
      OBVIOUS
    <3>2. CASE stops(p[1])
      <4>1. <<>> \in V
        BY DEF V
      <4> HIDE DEF P
      <4>2. QED
        BY <3>2, <4>1
    <3>3. CASE ~stops(p[1])
      <4>1. item(p[1]) \in Seq(Int)
        BY <1>3, <3>1, <3>3
      <4> DEFINE a == <<item(p[1])>>
                 b == p[2]
      <4>2. a \in V /\ b \in V
        BY <3>1, <4>1 DEF V
      <4>3. value(p) = a \o b
        BY <3>3, Zenon
      <4> HIDE DEF a, b, value, P
      <4>4. a \o b \in V
        BY <4>2 DEF V
      <4>5. QED
        BY <4>3, <4>4, Zenon
    <3>4. QED
      BY <3>2, <3>3
  <2> HIDE DEF P, value
  <2>2. [p \in P |-> value(p)] \in [P -> V]
    BY <2>1
  <2>3. QED
    BY <2>2 DEF P
<1>9. PICK g : Solves(g, D, V, B, h, first, step)
  <2> HIDE DEF D, rank, B, h, first, step
  <2>1. Descends(D, V, rank, B, h, first, step)
    BY <1>5, <1>6, <1>7, <1>8 DEF Descends
  <2>2. QED
    BY <2>1, Recursion
<1>10. g \in [D -> V]
  BY <1>9 DEF Solves
<1>11. ASSUME NEW i \in D PROVE Rule(g, i)
  <2>1. g[i] = IF i \in B THEN first[i] ELSE step[<<i, g[h[i]]>>]
    <3> HIDE DEF D, B, h, first, step
    <3>1. QED
      BY <1>9 DEF Solves
  <2>2. CASE stops(i)
    <3>1. i \in B /\ first[i] = none(i)
      BY <2>2, Zenon
    <3> HIDE DEF step, B, first
    <3>2. QED
      BY <2>1, <2>2, <3>1, Zenon
  <2>3. CASE ~stops(i)
    <3>1. h[i] = to(i) /\ i \notin B /\ to(i) \in D
      BY <1>3, <2>3
    <3>2. <<i, g[to(i)]>> \in D \X V
      BY <1>10, <3>1
    <3>3. step[<<i, g[to(i)]>>] = value(<<i, g[to(i)]>>)
      <4> HIDE DEF value
      <4>1. QED
        BY <3>2, Zenon
    <3>4. <<i, g[to(i)]>>[1] = i /\ <<i, g[to(i)]>>[2] = g[to(i)]
      BY <3>2
    <3>5. value(<<i, g[to(i)]>>) = <<item(i)>> \o g[to(i)]
      BY <2>3, <3>4, Zenon
    <3> HIDE DEF step, B, first, h, value
    <3>6. QED
      BY <2>1, <2>3, <3>1, <3>3, <3>5, Zenon
  <2>4. QED
    BY <2>2, <2>3
<1>12. Fixed(g)
  BY <1>10, <1>11, Zenon
<1>13. \A f : Fix(f) <=> Fixed(f)
  BY Zenon DEF stops, none, to, item
<1> DEFINE f == CHOOSE f : Fix(f)
<1>14. Fixed(f)
  <2>1. Fix(g)
    <3> HIDE DEF Fix, Fixed
    <3>1. QED
      BY <1>12, <1>13
  <2>2. Fix(f)
    <3> HIDE DEF Fix
    <3>1. QED
      BY <2>1, Zenon
  <2> HIDE DEF Fix, Fixed, f
  <2>3. QED
    BY <1>13, <2>2
<1>15. RlpDecode(data) = f[Bounds(data, 1, 192).from]
  BY <1>2
<1> HIDE DEF f
<1>16. \A i \in D : Rule(f, i)
  BY <1>14, Zenon
<1>17. f[N + 1] = <<>>
  <2>1. N + 1 \in D
    BY <1>1
  <2>2. stops(N + 1) /\ none(N + 1) = <<>>
    BY DEF stops, none
  <2> HIDE DEF D
  <2>3. QED
    BY <1>16, <2>1, <2>2, Zenon
<1>18. ASSUME NEW i \in 1 .. N, data[i] < 192, to(i) <= N + 1
       PROVE  f[i] = <<item(i)>> \o f[to(i)]
  <2>1. i \in D /\ ~stops(i)
    <3>1. to(i) \in Nat
      BY ExtentGrows DEF to, N
    <3>2. QED
      BY <1>1, <1>18, <3>1 DEF stops
  <2> HIDE DEF D
  <2>2. QED
    BY <1>16, <2>1, Zenon
<1>19. Reads(f, data)
  BY <1>17, <1>18, Zenon DEF Reads, N, to, item
<1>20. QED
  BY <1>15, <1>19

\* An encoded string is bytes.
LEMMA RlpBytesIsBytes ==
  ASSUME NEW x, x \in Seq(Nat)
  PROVE  RlpBytes(x) \in Seq(Nat)
<1> DEFINE base == 128
           p == RlpPrefix(base, Len(x))
<1>1. RlpBytes(x) = x \/ RlpBytes(x) = p \o x
  BY DEF RlpBytes
<1>2. base \in Nat /\ Len(x) \in Nat
  OBVIOUS
<1> HIDE DEF base
<1>3. p \in Seq(Nat)
  BY <1>2, PrefixIsBytes
<1> HIDE DEF p
<1>4. p \o x \in Seq(Nat)
  BY <1>3
<1>5. QED
  BY <1>1, <1>4

\* Sequences put together are over the same set.
LEMMA FlatIsBytes ==
  ASSUME NEW S, NEW s, s \in Seq(Seq(S))
  PROVE  FlattenSeq(s) \in Seq(S)
<1>1. CASE Len(s) = 0
  <2>1. FlattenSeq(s) = s
    BY <1>1 DEF FlattenSeq
  <2>2. s = <<>>
    BY <1>1
  <2>3. <<>> \in Seq(S)
    OBVIOUS
  <2>4. QED
    BY <2>1, <2>2, <2>3, Zenon
<1>2. CASE Len(s) > 0
  <2>1. PICK f : FlattenSeq(s) = f[Len(s)] /\ \A k \in 1 .. Len(s) : f[k] \in Seq(S)
    BY <1>2, Flattened
  <2>2. Len(s) \in 1 .. Len(s)
    BY <1>2
  <2>3. QED
    BY <2>1, <2>2
<1>3. QED
  BY <1>1, <1>2

\* A list of strings, short or long, in any number, is read back as it was.
LEMMA RlpKept ==
  ASSUME NEW S, \A x \in S : x \in Seq(Nat) /\ Len(Digits(256, Len(x))) <= 8,
         NEW seq, seq \in Seq(S)
  PROVE  RlpDecode(RlpList([i \in DOMAIN seq |-> RlpBytes(seq[i])])) = seq
<1> DEFINE n == Len(seq)
           items == [i \in DOMAIN seq |-> RlpBytes(seq[i])]
           flat == FlattenSeq(items)
           base == 192
           prefix == RlpPrefix(base, Len(flat))
           data == prefix \o flat
           start == 1 + Len(prefix)
<1>1. n \in Nat /\ DOMAIN seq = 1 .. n /\ \A k \in 1 .. n : seq[k] \in S /\ seq[k] \in Seq(Nat)
  OBVIOUS
<1>2. items \in Seq(Seq(Nat)) /\ Len(items) = n /\ \A k \in 1 .. n : items[k] = RlpBytes(seq[k])
  <2>1. \A k \in 1 .. n : RlpBytes(seq[k]) \in Seq(Nat)
    BY <1>1, RlpBytesIsBytes
  <2> HIDE DEF n
  <2>2. items = [k \in 1 .. n |-> RlpBytes(seq[k])]
    BY <1>1
  <2>3. items \in [1 .. n -> Seq(Nat)]
    BY <2>1, <2>2
  <2> HIDE DEF items
  <2>4. items \in Seq(Seq(Nat)) /\ Len(items) = n
    BY <1>1, <2>3
  <2>5. QED
    BY <2>2, <2>4
<1>3. base \in Nat /\ base = 192
  OBVIOUS
<1>4. RlpList(items) = data
  BY DEF RlpList
<1> HIDE DEF items, base
<1>5. flat \in Seq(Nat) /\ Len(flat) \in Nat
  <2>1. flat \in Seq(Nat)
    BY <1>2, FlatIsBytes
  <2> HIDE DEF flat
  <2>2. QED
    BY <2>1
<1> HIDE DEF flat
<1>6. prefix \in Seq(Nat) /\ Len(prefix) \in Nat /\ Len(prefix) > 0
  <2>1. prefix \in Seq(Nat) /\ Len(prefix) > 0
    BY <1>3, <1>5, PrefixIsBytes
  <2> HIDE DEF prefix
  <2>2. QED
    BY <2>1
<1> HIDE DEF prefix
<1>7. /\ data \in Seq(Nat) /\ Len(data) = Len(prefix) + Len(flat) /\ data # <<>>
      /\ Holds(data, 1, prefix) /\ Holds(data, start, flat)
  <2>1. data \in Seq(Nat) /\ Len(data) = Len(prefix) + Len(flat)
    BY <1>5, <1>6
  <2>2. data # <<>>
    BY <1>5, <1>6, <2>1
  <2>3. Holds(data, 1, data)
    <3> HIDE DEF data
    <3>1. Len(data) \in Nat
      BY <2>1
    <3>2. QED
      BY <3>1 DEF Holds
  <2>4. Holds(data, 1, prefix \o flat)
    BY <2>3
  <2> HIDE DEF data
  <2>5. QED
    BY <1>5, <1>6, <2>1, <2>2, <2>4, HeldParts
<1> HIDE DEF data
<1>8. /\ data[1] >= base
      /\ Bounds(data, 1, base).from = start /\ Bounds(data, 1, base).to = Len(data) + 1
  <2>1. /\ data[1] >= base
        /\ Bounds(data, 1, base) = [from |-> 1 + Len(prefix), to |-> 1 + Len(prefix) + Len(flat)]
    BY <1>3, <1>5, <1>7, BoundsRead DEF prefix
  <2>2. QED
    BY <1>5, <1>6, <1>7, <2>1
<1>9. PICK f : RlpDecode(data) = f[start] /\ Reads(f, data)
  BY <1>3, <1>7, <1>8, Decoded
<1>10. PICK at : Places(at, data, start, items)
  BY <1>2, <1>7, Placed DEF flat
<1> HIDE DEF start
<1>11. ASSUME NEW k \in 1 .. n
       PROVE  f[at[k]] = <<seq[k]>> \o f[at[k + 1]]
  <2> DEFINE i == at[k]
             e == Extent(data, i)
             x == seq[k]
  <2>1. Holds(data, i, RlpBytes(x)) /\ at[k + 1] = i + Len(RlpBytes(x))
    BY <1>2, <1>10 DEF Places
  <2>2. x \in Seq(Nat) /\ Len(Digits(256, Len(x))) <= 8
    BY <1>1
  <2> HIDE DEF i, x
  <2>3. /\ RlpBytes(x) \in Seq(Nat) /\ Len(RlpBytes(x)) > 0 /\ data[i] < 192
        /\ e.to = i + Len(RlpBytes(x)) /\ SubSeq(data, e.from, e.to - 1) = x
    BY <1>7, <2>1, <2>2, ExtentRead
  <2> HIDE DEF e
  <2>4. i \in 1 .. Len(data) /\ e.to <= Len(data) + 1
    <3>1. Len(RlpBytes(x)) \in Nat /\ Len(data) \in Nat
      BY <1>7, <2>3
    <3> DEFINE l == Len(RlpBytes(x))
    <3>2. i \in Nat \ {0} /\ i + l <= Len(data) + 1 /\ l > 0 /\ e.to = i + l /\ l \in Nat
      BY <2>1, <2>3, <3>1 DEF Holds
    <3> HIDE DEF l
    <3>3. QED
      BY <3>1, <3>2
  <2>5. f[i] = <<SubSeq(data, e.from, e.to - 1)>> \o f[e.to]
    BY <1>9, <2>3, <2>4 DEF Reads, e
  <2>6. e.to = at[k + 1]
    BY <2>1, <2>3
  <2>7. f[i] = <<x>> \o f[at[k + 1]]
    BY <2>3, <2>5, <2>6, Zenon
  <2>8. QED
    BY <2>7 DEF i, x
<1>12. f[at[n + 1]] = <<>>
  <2>1. at[n + 1] = Len(data) + 1
    BY <1>2, <1>5, <1>6, <1>7, <1>10 DEF Places, flat, start
  <2>2. QED
    BY <1>9, <2>1 DEF Reads
<1> DEFINE T == {m \in Nat : m <= n => f[at[n + 1 - m]] = SubSeq(seq, n + 1 - m, n)}
<1>13. ASSUME NEW m \in Nat, \A l \in Nat : l < m => l \in T PROVE m \in T
  <2> SUFFICES ASSUME m <= n PROVE f[at[n + 1 - m]] = SubSeq(seq, n + 1 - m, n)
    OBVIOUS
  <2> DEFINE k == n + 1 - m
  <2>1. CASE m = 0
    <3>1. k = n + 1 /\ k \in Int /\ n \in Int /\ n < k
      BY <1>1, <2>1
    <3>2. f[at[k]] = <<>>
      BY <1>12, <3>1
    <3>3. SubSeq(seq, k, n) = <<>>
      <4> HIDE DEF k, n
      <4>1. QED
        BY <3>1, SubSeqEmpty
    <3>4. QED
      BY <3>2, <3>3, Zenon
  <2>2. CASE m # 0
    <3>1. m - 1 \in Nat /\ m - 1 < m /\ m - 1 <= n /\ n + 1 - (m - 1) = k + 1
      BY <1>1, <2>2
    <3>2. k \in 1 .. n /\ n \in k .. n
      BY <1>1, <2>2
    <3>3. m - 1 \in T
      <4> HIDE DEF T
      <4>1. QED
        BY <1>13, <3>1
    <3>4. f[at[n + 1 - (m - 1)]] = SubSeq(seq, n + 1 - (m - 1), n)
      BY <3>1, <3>3
    <3> HIDE DEF k
    <3>5. f[at[k + 1]] = SubSeq(seq, k + 1, n)
      BY <3>1, <3>4
    <3>6. SubSeq(seq, k, n) = <<seq[k]>> \o SubSeq(seq, k + 1, n)
      BY <3>2, SubSeqRecursiveFirst DEF n
    <3>7. f[at[k]] = <<seq[k]>> \o f[at[k + 1]]
      BY <1>11, <3>2
    <3>8. f[at[k]] = SubSeq(seq, k, n)
      BY <3>5, <3>6, <3>7, Zenon
    <3>9. QED
      BY <3>8, Zenon DEF k
  <2>3. QED
    BY <2>1, <2>2
<1>14. f[at[1]] = SubSeq(seq, 1, n)
  <2>1. Nat \subseteq T
    <3> HIDE DEF T
    <3>1. QED
      BY <1>13, Induct
  <2> DEFINE z == n + 1 - n
  <2>2. f[at[z]] = SubSeq(seq, z, n)
    <3>1. \A m \in T : m <= n => f[at[n + 1 - m]] = SubSeq(seq, n + 1 - m, n)
      BY Zenon
    <3>2. n \in T /\ n <= n
      <4> HIDE DEF T
      <4>1. QED
        BY <1>1, <2>1
    <3> HIDE DEF T
    <3>3. QED
      BY <3>1, <3>2, Zenon
  <2>3. z = 1
    BY <1>1
  <2> HIDE DEF z
  <2>4. QED
    BY <2>2, <2>3, Zenon
<1>15. SubSeq(seq, 1, n) = seq
  BY SubSeqFull
<1>16. at[1] = start
  BY <1>10 DEF Places
<1>17. RlpDecode(data) = seq
  BY <1>9, <1>14, <1>15, <1>16, Zenon
<1>18. QED
  BY <1>4, <1>17 DEF items

-------------------------------------------------------------------------------
(***************************************************************************)
(* Payment codes.  SplitAt is a fold as Number is.  What Joined puts       *)
(* together it takes apart again, one text more at a time (SplitLast).     *)
(***************************************************************************)

\* A step of SplitAt.
Split(parts, c, x) ==
  IF x = c THEN Append(parts, <<>>) ELSE [parts EXCEPT ![Len(parts)] = Append(@, x)]

\* The outcome t of such a step, for texts in E.
Splits(t, E, parts, c, x) ==
  /\ t \in Seq(Seq(E)) /\ t # <<>>
  /\ x = c => /\ Len(t) = Len(parts) + 1 /\ t[Len(parts) + 1] = <<>>
              /\ \A i \in 1 .. Len(parts) : t[i] = parts[i]
  /\ x # c => /\ Len(t) = Len(parts) /\ t[Len(parts)] = Append(parts[Len(parts)], x)
              /\ \A i \in 1 .. Len(parts) - 1 : t[i] = parts[i]

\* What a step of SplitAt does to the parts: a new one, or one more text in the last.
LEMMA SplitRule ==
  ASSUME NEW E, NEW parts, parts \in Seq(Seq(E)), parts # <<>>, NEW c, NEW x, x \in E
  PROVE  Splits(Split(parts, c, x), E, parts, c, x)
<1> DEFINE n == Len(parts)
           V == Seq(E)
           t == Split(parts, c, x)
<1>1. n \in Nat /\ n > 0 /\ n \in 1 .. n /\ \A i \in 1 .. n : parts[i] \in V
  OBVIOUS
<1>2. CASE x = c
  <2>1. t = Append(parts, <<>>)
    BY <1>2 DEF Split
  <2>2. <<>> \in V
    OBVIOUS
  <2> HIDE DEF V
  <2> DEFINE u == Append(parts, <<>>)
  <2>3. /\ u \in Seq(V) /\ u # <<>> /\ Len(u) = n + 1
        /\ \A i \in 1 .. n : u[i] = parts[i]
        /\ u[n + 1] = <<>>
    BY <2>2, AppendProperties DEF V
  <2> HIDE DEF u, t
  <2>4. QED
    BY <1>2, <2>1, <2>3 DEF t, u, V, Splits
<1>3. CASE x # c
  <2> DEFINE y == Append(parts[n], x)
             u == [parts EXCEPT ![n] = y]
  <2>1. t = u
    BY <1>3 DEF Split
  <2>2. y \in V
    BY <1>1
  <2> HIDE DEF V, y
  <2>3. /\ u \in Seq(V) /\ Len(u) = n
        /\ \A i \in 1 .. n : u[i] = IF i = n THEN y ELSE parts[i]
    BY <1>1, <2>2, ExceptSeq DEF V
  <2> HIDE DEF u, t, n
  <2>4. u[n] = y /\ \A i \in 1 .. n - 1 : u[i] = parts[i]
    BY <1>1, <2>3
  <2>5. u # <<>>
    BY <1>1, <2>3
  <2>6. QED
    BY <1>3, <2>1, <2>3, <2>4, <2>5 DEF t, V, n, y, Splits
<1>4. QED
  BY <1>2, <1>3

\* f has the parts of SplitAt after each text of s.
SplitSteps(f, s, c) ==
  /\ SplitAt(s, c) = f[1 .. Len(s)] /\ f[1 .. 0] = <<<<>>>>
  /\ \A k \in 1 .. Len(s) : f[1 .. k] = Split(f[1 .. k - 1], c, s[k])

\* SplitAt takes these steps, text after text.
LEMMA SplitPrefixes ==
  ASSUME NEW E, NEW s, s \in Seq(E), NEW c
  PROVE  \E f : SplitSteps(f, s, c)
<1> DEFINE n == Len(s)
           D == SUBSET (1 .. n)
           V == {p \in Seq(Seq(E)) : p # <<>>}
           op == [p \in V \X E |-> Split(p[1], c, p[2])]
           Rule(f, d) == f[d] = Split(f[d \ {Max(d)}], c, s[Max(d)])
           Fix(f) == f = [d \in D |-> IF d = {} THEN <<<<>>>>
                                      ELSE Split(f[d \ {Max(d)}], c, s[Max(d)])]
           f == CHOOSE f : Fix(f)
<1>1. SplitAt(s, c) = f[1 .. n]
  <2>1. DOMAIN s = 1 .. n
    OBVIOUS
  <2>2. SplitAt(s, c) = (CHOOSE g : g = [d \in SUBSET DOMAIN s |-> IF d = {} THEN <<<<>>>>
                                      ELSE Split(g[d \ {Max(d)}], c, s[Max(d)])])[DOMAIN s]
    BY Zenon DEF SplitAt, FoldLeft, MapThenFoldSet, Split
  <2>3. QED
    BY <2>1, <2>2, Zenon
<1>2. op \in [V \X E -> V]
  <2> DEFINE P == V \X E
  <2>1. ASSUME NEW p \in P PROVE Split(p[1], c, p[2]) \in V
    <3>1. p[1] \in Seq(Seq(E)) /\ p[1] # <<>> /\ p[2] \in E
      OBVIOUS
    <3> HIDE DEF P
    <3>2. QED
      BY <3>1, SplitRule DEF Splits
  <2> HIDE DEF P, V
  <2>2. [p \in P |-> Split(p[1], c, p[2])] \in [P -> V]
    BY <2>1
  <2>3. QED
    BY <2>2 DEF P
<1>3. <<<<>>>> \in V
  <2>1. <<>> \in Seq(E)
    OBVIOUS
  <2>2. <<<<>>>> \in Seq(Seq(E))
    BY <2>1
  <2>3. <<<<>>>> # <<>>
    OBVIOUS
  <2>4. QED
    BY <2>2, <2>3
<1> HIDE DEF V
<1>4. PICK g : Folds(g, V, s, <<<<>>>>, op)
  <2> HIDE DEF op
  <2>1. QED
    BY <1>2, <1>3, FoldSolution, Zenon
<1>5. n \in Nat /\ \A i \in 1 .. n : s[i] \in E
  OBVIOUS
<1>6. ASSUME NEW d \in D, d # {} PROVE Rule(g, d)
  <2>1. Max(d) \in 1 .. n
    <3> HIDE DEF n
    <3>1. QED
      BY <1>5, <1>6, MaxOf
  <2>2. s[Max(d)] \in E
    BY <1>5, <2>1
  <2>3. d \ {Max(d)} \in D
    OBVIOUS
  <2>4. g[d \ {Max(d)}] \in V
    <3> HIDE DEF op
    <3>1. g \in [D -> V]
      BY <1>4 DEF Folds
    <3> HIDE DEF D
    <3>2. QED
      BY <2>3, <3>1
  <2>5. g[d] = op[<<g[d \ {Max(d)}], s[Max(d)]>>]
    <3> HIDE DEF op
    <3>1. QED
      BY <1>4, <1>6, Zenon DEF Folds
  <2>6. op[<<g[d \ {Max(d)}], s[Max(d)]>>] = Split(g[d \ {Max(d)}], c, s[Max(d)])
    BY <2>2, <2>4
  <2>7. QED
    BY <2>5, <2>6
<1>7. Fix(g)
  <2>1. g \in [D -> V] /\ g[{}] = <<<<>>>>
    BY <1>4, Zenon DEF Folds
  <2> HIDE DEF D
  <2>2. QED
    BY <1>6, <2>1, Zenon
<1>8. Fix(f)
  BY <1>7, Zenon
<1>9. f[{}] = <<<<>>>>
  BY <1>8, Zenon
<1>10. \A d \in D : d # {} => Rule(f, d)
  BY <1>8, Zenon
<1> HIDE DEF f
<1>11. ASSUME NEW k \in 1 .. n PROVE f[1 .. k] = Split(f[1 .. k - 1], c, s[k])
  <2>1. /\ 1 .. k \in D /\ 1 .. k # {}
        /\ Max(1 .. k) = k /\ (1 .. k) \ {k} = 1 .. k - 1
    <3> HIDE DEF n
    <3>1. QED
      BY <1>5, Upto
  <2>2. Rule(f, 1 .. k)
    <3> HIDE DEF D
    <3>1. QED
      BY <1>10, <2>1
  <2>3. QED
    BY <2>1, <2>2
<1>12. 1 .. 0 = {}
  OBVIOUS
<1>13. f[1 .. 0] = <<<<>>>>
  BY <1>9, <1>12, Zenon
<1>14. SplitSteps(f, s, c)
  BY <1>1, <1>11, <1>13 DEF SplitSteps
<1>15. QED
  BY <1>14

\* A text put into an empty part.
LEMMA OneText ==
  ASSUME NEW E, NEW t, t \in Seq(E), t = <<>>, NEW x, x \in E, NEW u, u = Append(t, x)
  PROVE  u \in Seq(E) /\ Len(u) = 1 /\ u[1] = x
<1>1. u \in Seq(E) /\ Len(u) = Len(t) + 1 /\ u[Len(t) + 1] = x
  BY AppendProperties
<1>2. Len(t) = 0
  OBVIOUS
<1>3. QED
  BY <1>1, <1>2

\* A single text is one part; three texts with separators between them are three.
LEMMA SplitTexts ==
  ASSUME NEW E, NEW s, s \in Seq(E), NEW c, NEW r, r = SplitAt(s, c)
  PROVE  /\ Len(s) = 1 /\ s[1] # c => Len(r) = 1 /\ r[1][1] = s[1]
         /\ /\ Len(s) = 5 /\ s[2] = c /\ s[4] = c
            /\ s[1] # c /\ s[3] # c /\ s[5] # c
            => /\ r[1][1] = s[1] /\ r[2][1] = s[3]
               /\ r[3] \in Seq(E) /\ Len(r[3]) = 1 /\ r[3][1] = s[5]
<1> DEFINE V == Seq(Seq(E))
<1>1. PICK f : /\ r = f[1 .. Len(s)] /\ f[1 .. 0] = <<<<>>>>
               /\ \A k \in 1 .. Len(s) : f[1 .. k] = Split(f[1 .. k - 1], c, s[k])
  <2>1. PICK f : SplitSteps(f, s, c)
    BY SplitPrefixes
  <2>2. QED
    BY <2>1 DEF SplitSteps
<1> DEFINE F(k) == f[1 .. k]
<1>2. F(0) = <<<<>>>> /\ r = F(Len(s))
  BY <1>1
<1>3. \A k \in 1 .. Len(s) : F(k) = Split(F(k - 1), c, s[k])
  BY <1>1, Zenon
<1>4. \A k \in 1 .. Len(s) : s[k] \in E
  OBVIOUS
<1> HIDE DEF F
<1>5. \A j, k \in 0 .. Len(s) : k = j + 1 => F(k) = Split(F(j), c, s[k])
  <2> SUFFICES ASSUME NEW j \in 0 .. Len(s), NEW k \in 0 .. Len(s), k = j + 1
               PROVE  F(k) = Split(F(j), c, s[k])
    OBVIOUS
  <2>1. k \in 1 .. Len(s) /\ k - 1 = j
    OBVIOUS
  <2>2. QED
    BY <1>3, <2>1
<1> DEFINE p0 == F(0)
           p1 == F(1)
           p2 == F(2)
           p3 == F(3)
           p4 == F(4)
           p5 == F(5)
<1>6. p0 \in V /\ p0 # <<>> /\ Len(p0) = 1 /\ p0[1] = <<>> /\ <<>> \in Seq(E)
  <2>1. <<>> \in Seq(E)
    OBVIOUS
  <2>2. <<<<>>>> \in V
    BY <2>1
  <2>3. <<<<>>>> # <<>> /\ Len(<<<<>>>>) = 1 /\ <<<<>>>>[1] = <<>>
    OBVIOUS
  <2>4. QED
    BY <1>2, <2>1, <2>2, <2>3, Zenon
<1> HIDE DEF V, p0, p1, p2, p3, p4, p5
<1>7. ASSUME Len(s) >= 1, s[1] # c
      PROVE  /\ p1 \in V /\ p1 # <<>> /\ Len(p1) = 1
             /\ p1[1] \in Seq(E) /\ Len(p1[1]) = 1 /\ p1[1][1] = s[1]
  <2>1. Splits(p1, E, p0, c, s[1])
    <3>1. p1 = Split(p0, c, s[1])
      BY <1>5, <1>7 DEF p0, p1
    <3>2. QED
      BY <1>4, <1>6, <1>7, <3>1, SplitRule DEF V
  <2>2. p1 \in V /\ p1 # <<>>
    BY <2>1 DEF Splits, V
  <2>3. Len(p1) = 1 /\ p1[1] = Append(p0[1], s[1])
    BY <1>6, <1>7, <2>1 DEF Splits
  <2>4. p1[1] \in Seq(E) /\ Len(p1[1]) = 1 /\ p1[1][1] = s[1]
    BY <1>4, <1>6, <1>7, <2>3, OneText
  <2>5. QED
    BY <2>2, <2>3, <2>4
<1>8. ASSUME Len(s) = 1, s[1] # c
      PROVE  Len(r) = 1 /\ r[1][1] = s[1]
  BY <1>2, <1>7, <1>8 DEF p1
<1>9. ASSUME Len(s) = 5, s[2] = c, s[4] = c, s[1] # c, s[3] # c, s[5] # c
      PROVE  /\ r[1][1] = s[1] /\ r[2][1] = s[3]
             /\ r[3] \in Seq(E) /\ Len(r[3]) = 1 /\ r[3][1] = s[5]
  <2>1. s[1] \in E /\ s[2] \in E /\ s[3] \in E /\ s[4] \in E /\ s[5] \in E
    BY <1>4, <1>9
  <2>2. /\ p1 \in V /\ p1 # <<>> /\ Len(p1) = 1 /\ p1[1][1] = s[1]
    BY <1>7, <1>9
  <2>3. p2 \in V /\ p2 # <<>> /\ Len(p2) = 2 /\ p2[1] = p1[1] /\ p2[2] = <<>>
    <3>1. Splits(p2, E, p1, c, s[2])
      <4>1. p2 = Split(p1, c, s[2])
        BY <1>5, <1>9 DEF p1, p2
      <4>2. QED
        BY <2>1, <2>2, <4>1, SplitRule DEF V
    <3>2. p2 \in V /\ p2 # <<>>
      BY <3>1 DEF Splits, V
    <3>3. Len(p2) = 2 /\ p2[2] = <<>>
      BY <1>9, <2>2, <3>1 DEF Splits
    <3>4. p2[1] = p1[1]
      BY <1>9, <2>2, <3>1 DEF Splits
    <3>5. QED
      BY <3>2, <3>3, <3>4
  <2>4. p3 \in V /\ p3 # <<>> /\ Len(p3) = 2 /\ p3[1] = p1[1] /\ p3[2][1] = s[3]
    <3>1. Splits(p3, E, p2, c, s[3])
      <4>1. p3 = Split(p2, c, s[3])
        BY <1>5, <1>9 DEF p2, p3
      <4>2. QED
        BY <2>1, <2>3, <4>1, SplitRule DEF V
    <3>2. p3 \in V /\ p3 # <<>>
      BY <3>1 DEF Splits, V
    <3>3. Len(p3) = 2 /\ p3[2] = Append(p2[2], s[3])
      BY <1>9, <2>3, <3>1 DEF Splits
    <3>4. p3[1] = p2[1]
      BY <1>9, <2>3, <3>1 DEF Splits
    <3>5. p3[2][1] = s[3]
      BY <2>1, <1>6, <2>3, <3>3, OneText
    <3>6. QED
      BY <2>3, <3>2, <3>3, <3>4, <3>5
  <2>5. /\ p4 \in V /\ p4 # <<>> /\ Len(p4) = 3
        /\ p4[1] = p3[1] /\ p4[2] = p3[2] /\ p4[3] = <<>>
    <3>1. Splits(p4, E, p3, c, s[4])
      <4>1. p4 = Split(p3, c, s[4])
        BY <1>5, <1>9 DEF p3, p4
      <4>2. QED
        BY <2>1, <2>4, <4>1, SplitRule DEF V
    <3>2. p4 \in V /\ p4 # <<>>
      BY <3>1 DEF Splits, V
    <3>3. Len(p4) = 3 /\ p4[3] = <<>>
      BY <1>9, <2>4, <3>1 DEF Splits
    <3>4. p4[1] = p3[1] /\ p4[2] = p3[2]
      BY <1>9, <2>4, <3>1 DEF Splits
    <3>5. QED
      BY <3>2, <3>3, <3>4
  <2>6. /\ p5[1] = p4[1] /\ p5[2] = p4[2]
        /\ p5[3] \in Seq(E) /\ Len(p5[3]) = 1 /\ p5[3][1] = s[5]
    <3>1. Splits(p5, E, p4, c, s[5])
      <4>1. p5 = Split(p4, c, s[5])
        BY <1>5, <1>9 DEF p4, p5
      <4>2. QED
        BY <2>1, <2>5, <4>1, SplitRule DEF V
    <3>2. p5[3] = Append(p4[3], s[5])
      BY <1>9, <2>5, <3>1 DEF Splits
    <3>3. p5[1] = p4[1] /\ p5[2] = p4[2]
      BY <1>9, <2>5, <3>1 DEF Splits
    <3>4. p5[3] \in Seq(E) /\ Len(p5[3]) = 1 /\ p5[3][1] = s[5]
      BY <2>1, <1>6, <2>5, <3>2, OneText
    <3>5. QED
      BY <3>3, <3>4
  <2>7. r = p5
    BY <1>2, <1>9 DEF p5
  <2>8. QED
    BY <2>2, <2>4, <2>5, <2>6, <2>7
<1>10. QED
  BY <1>8, <1>9

\* SplitAt of one more text takes one more step.
LEMMA SplitAppend ==
  ASSUME NEW E, NEW s, s \in Seq(E), NEW x, x \in E, NEW c
  PROVE  SplitAt(Append(s, x), c) = Split(SplitAt(s, c), c, x)
<1> DEFINE n == Len(s)
           t == Append(s, x)
<1>1. /\ t \in Seq(E) /\ n \in Nat /\ Len(t) = n + 1 /\ t[n + 1] = x
      /\ \A k \in 1 .. n : t[k] = s[k]
  BY AppendProperties
<1> HIDE DEF t
<1>2. PICK f : SplitSteps(f, s, c)
  BY SplitPrefixes
<1>3. PICK g : SplitSteps(g, t, c)
  BY <1>1, SplitPrefixes
<1> HIDE DEF n
<1>4. /\ SplitAt(s, c) = f[1 .. n] /\ f[1 .. 0] = <<<<>>>>
      /\ \A k \in 1 .. n : f[1 .. k] = Split(f[1 .. k - 1], c, s[k])
  BY <1>2 DEF SplitSteps, n
<1>5. /\ SplitAt(t, c) = g[1 .. n + 1] /\ g[1 .. 0] = <<<<>>>>
      /\ \A k \in 1 .. n + 1 : g[1 .. k] = Split(g[1 .. k - 1], c, t[k])
  <2>1. /\ SplitAt(t, c) = g[1 .. Len(t)] /\ g[1 .. 0] = <<<<>>>>
        /\ \A k \in 1 .. Len(t) : g[1 .. k] = Split(g[1 .. k - 1], c, t[k])
    BY <1>3 DEF SplitSteps
  <2>2. Len(t) = n + 1
    BY <1>1
  <2>3. QED
    BY <2>1, <2>2, Zenon
<1> DEFINE T == {k \in Nat : k <= n => f[1 .. k] = g[1 .. k]}
<1>6. ASSUME NEW k \in Nat, \A m \in Nat : m < k => m \in T PROVE k \in T
  <2>1. CASE k = 0
    <3>1. f[1 .. 0] = g[1 .. 0]
      BY <1>4, <1>5, Zenon
    <3>2. QED
      BY <2>1, <3>1
  <2>2. CASE k # 0 /\ k <= n
    <3>1. k - 1 \in Nat /\ k - 1 \in T
      BY <1>6, <2>2
    <3>2. f[1 .. k - 1] = g[1 .. k - 1]
      BY <1>1, <2>2, <3>1
    <3>3. k \in 1 .. n /\ k \in 1 .. n + 1 /\ t[k] = s[k]
      BY <1>1, <2>2
    <3>4. f[1 .. k] = Split(f[1 .. k - 1], c, s[k])
      BY <1>4, <3>3, Zenon
    <3>5. g[1 .. k] = Split(g[1 .. k - 1], c, t[k])
      BY <1>5, <3>3, Zenon
    <3>6. f[1 .. k] = g[1 .. k]
      BY <3>2, <3>3, <3>4, <3>5, Zenon
    <3>7. QED
      BY <3>6
  <2>3. QED
    BY <2>1, <2>2
<1>7. Nat \subseteq T
  <2> HIDE DEF T
  <2> QED BY <1>6, Induct
<1>8. f[1 .. n] = g[1 .. n]
  BY <1>1, <1>7
<1>9. g[1 .. n + 1] = Split(g[1 .. n], c, t[n + 1])
  <2>1. n + 1 \in 1 .. n + 1 /\ (n + 1) - 1 = n
    BY <1>1
  <2>2. g[1 .. n + 1] = Split(g[1 .. (n + 1) - 1], c, t[n + 1])
    BY <1>5, <2>1, Zenon
  <2>3. QED
    BY <2>1, <2>2
<1>10. SplitAt(t, c) = Split(SplitAt(s, c), c, x)
  BY <1>1, <1>4, <1>5, <1>8, <1>9, Zenon
<1>11. QED
  BY <1>10 DEF t

\* No text is one empty part.
LEMMA SplitNothing ==
  ASSUME NEW c
  PROVE  SplitAt(<<>>, c) = <<<<>>>>
<1>1. <<>> \in Seq({}) /\ Len(<<>>) = 0
  OBVIOUS
<1>2. PICK f : SplitSteps(f, <<>>, c)
  BY <1>1, SplitPrefixes
<1>3. SplitAt(<<>>, c) = f[1 .. Len(<<>>)] /\ f[1 .. 0] = <<<<>>>>
  BY <1>2, Zenon DEF SplitSteps
<1>4. QED
  BY <1>1, <1>3, Zenon

\* One more text in the last of the parts.
LEMMA LongerLast ==
  ASSUME NEW E, NEW p, p \in Seq(Seq(E)), NEW t, t \in Seq(E), NEW x, x \in E, NEW c, x # c,
         NEW q, q = Append(p, t), NEW u, u = Append(t, x), NEW r, r = Append(p, u)
  PROVE  Split(q, c, x) = r
<1> DEFINE V == Seq(E)
           d == Split(q, c, x)
           n == Len(p)
<1>1. u \in V
  BY AppendProperties
<1> HIDE DEF V
<1>2. /\ q \in Seq(V) /\ q # <<>> /\ n \in Nat /\ Len(q) = n + 1 /\ q[n + 1] = t
      /\ \A i \in 1 .. n : q[i] = p[i]
  BY AppendProperties DEF V
<1>3. /\ r \in Seq(V) /\ Len(r) = n + 1 /\ r[n + 1] = u /\ \A i \in 1 .. n : r[i] = p[i]
  BY <1>1, AppendProperties DEF V
<1>4. Splits(d, E, q, c, x)
  BY <1>2, SplitRule DEF V
<1> HIDE DEF d, n
<1>5. /\ d \in Seq(V) /\ Len(d) = n + 1 /\ d[n + 1] = Append(q[n + 1], x)
      /\ \A i \in 1 .. (n + 1) - 1 : d[i] = q[i]
  BY <1>2, <1>4 DEF Splits, V
<1>6. d[n + 1] = r[n + 1]
  BY <1>2, <1>3, <1>5, Zenon
<1>7. \A i \in 1 .. n + 1 : d[i] = r[i]
  <2> SUFFICES ASSUME NEW i \in 1 .. n + 1 PROVE d[i] = r[i]
    OBVIOUS
  <2>1. CASE i = n + 1
    BY <1>6, <2>1
  <2>2. CASE i # n + 1
    <3>1. i \in 1 .. n /\ i \in 1 .. (n + 1) - 1
      BY <1>2, <2>2
    <3>2. QED
      BY <1>2, <1>3, <1>5, <3>1
  <2>3. QED
    BY <2>1, <2>2
<1>8. d = r
  BY <1>3, <1>5, <1>7, SeqEqual
<1>9. QED
  BY <1>8 DEF d

\* u ends with a separator, after the parts p; t follows as one more part.
Ends(u, p, c) == SplitAt(u, c) = Append(p, <<>>)
EndsWith(u, t, p, c) == SplitAt(u \o t, c) = Append(p, t)

\* A text without separators becomes the last part.
LEMMA SplitLast ==
  ASSUME NEW E, NEW c, NEW u, u \in Seq(E), NEW p, p \in Seq(Seq(E)), Ends(u, p, c),
         NEW t, t \in Seq(E \ {c})
  PROVE  EndsWith(u, t, p, c)
<1> DEFINE C == E \ {c}
           T == {w \in Seq(C) : SplitAt(u \o w, c) = Append(p, w)}
<1>1. <<>> \in T
  <2>1. <<>> \in Seq(C)
    OBVIOUS
  <2>2. u \o <<>> = u
    BY ConcatEmptySeq
  <2>3. SplitAt(u \o <<>>, c) = Append(p, <<>>)
    BY <2>2, Zenon DEF Ends
  <2>4. QED
    BY <2>1, <2>3, Zenon
<1>2. ASSUME NEW w \in Seq(C), NEW x \in C, w \in T PROVE Append(w, x) \in T
  <2> DEFINE v == Append(w, x)
             s == u \o w
  <2>1. v \in Seq(C) /\ v = w \o <<x>> /\ <<x>> \in Seq(C)
    BY AppendProperties, AppendIsConcat
  <2>2. C \subseteq E
    OBVIOUS
  <2>3. x \in E /\ x # c
    OBVIOUS
  <2> HIDE DEF C
  <2>4. w \in Seq(E) /\ <<x>> \in Seq(E)
    BY <2>1, <2>2, SubSequences
  <2>5. s \in Seq(E)
    BY <2>4, ConcatProperties
  <2>6. u \o v = Append(s, x)
    <3>1. u \o (w \o <<x>>) = (u \o w) \o <<x>>
      BY <2>4, ConcatAssociative
    <3> HIDE DEF s
    <3>2. s \o <<x>> = Append(s, x)
      BY <2>3, <2>5, AppendIsConcat
    <3>3. QED
      BY <2>1, <3>1, <3>2, Zenon DEF s
  <2>7. SplitAt(s, c) = Append(p, w)
    BY <1>2
  <2> HIDE DEF s, v
  <2>8. SplitAt(u \o v, c) = Split(SplitAt(s, c), c, x)
    <3>1. SplitAt(Append(s, x), c) = Split(SplitAt(s, c), c, x)
      BY <2>3, <2>5, SplitAppend
    <3>2. QED
      BY <2>6, <3>1, Zenon
  <2>9. Split(SplitAt(s, c), c, x) = Append(p, v)
    <3> DEFINE q == Append(p, w)
               r == Append(p, v)
    <3>1. q = Append(p, w) /\ r = Append(p, v) /\ v = Append(w, x)
      BY DEF v
    <3> HIDE DEF q, r
    <3>2. Split(q, c, x) = r
      BY <2>3, <2>4, <3>1, LongerLast
    <3>3. QED
      BY <2>7, <3>1, <3>2, Zenon
  <2>10. SplitAt(u \o v, c) = Append(p, v)
    BY <2>8, <2>9, Zenon
  <2>11. QED
    BY <2>1, <2>10 DEF v
<1>3. Seq(C) \subseteq T
  <2> HIDE DEF C, T
  <2> QED BY <1>1, <1>2, SeqInduct
<1>4. QED
  BY <1>3 DEF EndsWith

\* What is joined and split is as it was: at least one text, and none with a separator in it.
LEMMA SplitJoined ==
  ASSUME NEW E, NEW c, c \in E, NEW texts, texts \in Seq(Seq(E \ {c})), Len(texts) > 0
  PROVE  SplitAt(Joined(texts, c), c) = texts
<1> DEFINE n == Len(texts)
           V == Seq(E \ {c})
           W == Seq(E)
           s == [i \in 1 .. n |-> IF i = 1 THEN texts[i] ELSE <<c>> \o texts[i]]
           first(k) == SubSeq(texts, 1, k)
<1>1. n \in Nat /\ n > 0 /\ DOMAIN texts = 1 .. n /\ \A i \in 1 .. n : texts[i] \in V
  OBVIOUS
<1>2. V \subseteq W
  <2>1. E \ {c} \subseteq E
    OBVIOUS
  <2>2. QED
    BY <2>1, SubSequences
<1>3. <<c>> \in W
  OBVIOUS
<1>4. \A i \in 1 .. n : <<c>> \o texts[i] \in W
  <2> SUFFICES ASSUME NEW i \in 1 .. n PROVE <<c>> \o texts[i] \in W
    OBVIOUS
  <2>1. texts[i] \in W
    BY <1>1, <1>2
  <2> HIDE DEF n
  <2>2. QED
    BY <1>3, <2>1, ConcatProperties
<1> HIDE DEF n, W
<1>5. s \in Seq(W) /\ Len(s) = n
  <2>1. \A i \in 1 .. n : texts[i] \in W
    BY <1>1, <1>2
  <2> DEFINE e(i) == IF i = 1 THEN texts[i] ELSE <<c>> \o texts[i]
  <2>2. \A i \in 1 .. n : e(i) \in W
    BY <1>4, <2>1, Zenon
  <2> HIDE DEF e
  <2>3. [i \in 1 .. n |-> e(i)] \in Seq(W)
    BY <1>1, <2>2, IsASeq
  <2>4. [i \in 1 .. n |-> e(i)] \in Seq(W) /\ Len([i \in 1 .. n |-> e(i)]) = n
    BY <1>1, <2>3
  <2>5. QED
    BY <2>4 DEF e
<1>6. \A i \in 1 .. n : s[i] = IF i = 1 THEN texts[i] ELSE <<c>> \o texts[i]
  BY Zenon
<1>7. Joined(texts, c) = FlattenSeq(s)
  BY <1>1, Zenon DEF Joined
<1> HIDE DEF s
<1>8. PICK f : /\ FlattenSeq(s) = f[n] /\ f[1] = s[1]
               /\ \A k \in 1 .. n : f[k] \in W
               /\ \A k \in 1 .. n : k # 1 => f[k] = f[k - 1] \o s[k]
  <2>1. s \in Seq(Seq(E)) /\ Len(s) > 0
    BY <1>1, <1>5 DEF W
  <2>2. \E f : /\ FlattenSeq(s) = f[Len(s)] /\ f[1] = s[1]
               /\ \A k \in 1 .. Len(s) : f[k] \in Seq(E)
               /\ \A k \in 1 .. Len(s) : k # 1 => f[k] = f[k - 1] \o s[k]
    BY <2>1, Flattened, ZenonT(40)
  <2>3. QED
    BY <1>5, <2>2, Zenon DEF W
<1> HIDE DEF V
<1>9. \A k \in 1 .. n : first(k) \in Seq(V)
  BY <1>1, SubSeqProperties DEF n, V
<1>10. first(1) = Append(<<>>, texts[1])
  <2> DEFINE a == Append(<<>>, texts[1])
  <2>1. texts[1] \in V /\ texts \in Seq(V)
    BY <1>1 DEF V
  <2>2. a \in Seq(V) /\ Len(a) = 1 /\ a[1] = texts[1]
    BY <2>1, AppendProperties
  <2>3. first(1) \in Seq(V) /\ Len(first(1)) = 1 /\ first(1)[1] = texts[1]
    BY <1>1, <2>1, SubSeqProperties DEF n
  <2> HIDE DEF a, first
  <2>4. QED
    BY <2>2, <2>3, SeqEqual DEF a
<1>11. \A k \in 1 .. n : k # 1 => first(k) = Append(first(k - 1), texts[k])
  BY <1>1 DEF n
<1> HIDE DEF first
<1>12. SplitAt(f[1], c) = first(1)
  <2>1. texts[1] \in V
    BY <1>1
  <2>2. f[1] = texts[1]
    BY <1>1, <1>6, <1>8
  <2>3. <<>> \in W /\ <<>> \in Seq(W)
    BY DEF W
  <2>4. <<>> \o texts[1] = texts[1]
    BY <2>1, ConcatEmptySeq DEF V
  <2>5. Ends(<<>>, <<>>, c)
    <3>1. Append(<<>>, <<>>) = <<<<>>>>
      OBVIOUS
    <3>2. QED
      BY <3>1, SplitNothing, Zenon DEF Ends
  <2>6. SplitAt(<<>> \o texts[1], c) = Append(<<>>, texts[1])
    <3>1. <<>> \in Seq(E) /\ <<>> \in Seq(Seq(E)) /\ texts[1] \in Seq(E \ {c})
      BY <2>1, <2>3 DEF V, W
    <3>2. EndsWith(<<>>, texts[1], <<>>, c)
      BY <2>5, <3>1, SplitLast
    <3>3. QED
      BY <3>2, Zenon DEF EndsWith
  <2>7. QED
    BY <1>10, <2>2, <2>4, <2>6, Zenon
<1>13. ASSUME NEW k \in 1 .. n, k # 1, SplitAt(f[k - 1], c) = first(k - 1)
       PROVE  SplitAt(f[k], c) = first(k)
  <2> DEFINE g == f[k - 1]
             p == first(k - 1)
             t == texts[k]
             u == Append(g, c)
  <2>1. k - 1 \in 1 .. n
    BY <1>1, <1>13
  <2>2. g \in W /\ p \in Seq(V) /\ t \in V
    BY <1>1, <1>8, <1>9, <2>1
  <2>3. p \in Seq(W)
    BY <1>2, <2>2, SubSequences
  <2>4. f[k] = g \o (<<c>> \o t)
    <3>1. f[k] = g \o s[k] /\ s[k] = <<c>> \o t
      BY <1>6, <1>8, <1>13, Zenon
    <3>2. QED
      BY <3>1, Zenon
  <2>5. SplitAt(g, c) = p
    BY <1>13
  <2>6. first(k) = Append(p, t)
    BY <1>11, <1>13
  <2> HIDE DEF g, p, t
  <2>7. u \in W /\ u = g \o <<c>>
    BY <2>2, AppendProperties, AppendIsConcat DEF W
  <2>8. SplitAt(u, c) = Split(p, c, c)
    BY <2>2, <2>5, SplitAppend DEF W
  <2>9. Ends(u, p, c)
    BY <2>8, Zenon DEF Ends, Split
  <2> HIDE DEF u
  <2>10. SplitAt(u \o t, c) = Append(p, t)
    <3>1. u \in Seq(E) /\ p \in Seq(Seq(E)) /\ t \in Seq(E \ {c})
      BY <2>2, <2>3, <2>7 DEF V, W
    <3>2. EndsWith(u, t, p, c)
      BY <2>9, <3>1, SplitLast
    <3>3. QED
      BY <3>2, Zenon DEF EndsWith
  <2>11. f[k] = u \o t
    <3>1. t \in W
      BY <1>2, <2>2
    <3>2. g \o (<<c>> \o t) = (g \o <<c>>) \o t
      <4>1. g \in Seq(E) /\ t \in Seq(E)
        BY <2>2, <3>1 DEF W
      <4>2. <<c>> \in Seq(E)
        BY <1>3 DEF W
      <4>3. QED
        BY <4>1, <4>2, ConcatAssociative, SMTT(30)
    <3>3. QED
      BY <2>4, <2>7, <3>2, Zenon
  <2>12. QED
    BY <2>6, <2>10, <2>11, Zenon
<1> DEFINE T == {k \in Nat : k \in 1 .. n => SplitAt(f[k], c) = first(k)}
<1>14. ASSUME NEW k \in Nat, \A m \in Nat : m < k => m \in T PROVE k \in T
  <2>1. CASE k = 1
    BY <1>12, <2>1
  <2>2. CASE k # 1 /\ k \in 1 .. n
    <3>1. k - 1 \in Nat /\ k - 1 < k /\ k - 1 \in 1 .. n
      BY <1>1, <2>2
    <3>2. SplitAt(f[k - 1], c) = first(k - 1)
      BY <1>14, <3>1
    <3>3. QED
      BY <1>13, <2>2, <3>2
  <2>3. QED
    BY <2>1, <2>2
<1>15. Nat \subseteq T
  <2> HIDE DEF T
  <2> QED BY <1>14, Induct
<1>16. SplitAt(f[n], c) = first(n)
  BY <1>1, <1>15
<1>17. first(n) = texts
  BY SubSeqFull DEF first, n
<1>18. QED
  BY <1>7, <1>8, <1>16, <1>17, Zenon

\* What an accepted currency without an asset is written as.
LEMMA AcceptedParts ==
  ASSUME NEW a \in Accept, NEW E, E = {a.currency, a.chain, a.depositAddress, ":"}
  PROVE  /\ Accepted(a) \in Seq(E) /\ Len(Accepted(a)) = 5
         /\ Accepted(a)[1] = a.currency /\ Accepted(a)[2] = ":" /\ Accepted(a)[3] = a.chain
         /\ Accepted(a)[4] = ":" /\ Accepted(a)[5] = a.depositAddress
<1> DEFINE s == <<a.currency, ":", a.chain, ":", a.depositAddress>>
<1>1. "assetId" \notin DOMAIN a
  BY DEF Accept
<1>2. /\ s \in Seq(E) /\ Len(s) = 5 /\ s[1] = a.currency /\ s[2] = ":"
      /\ s[3] = a.chain /\ s[4] = ":" /\ s[5] = a.depositAddress
  <2>1. a.currency \in E /\ a.chain \in E /\ a.depositAddress \in E
    OBVIOUS
  <2>2. ":" \in E
    OBVIOUS
  <2>3. s \in Seq(E)
    BY <2>1, <2>2
  <2>4. /\ Len(s) = 5 /\ s[1] = a.currency /\ s[2] = ":"
        /\ s[3] = a.chain /\ s[4] = ":" /\ s[5] = a.depositAddress
    OBVIOUS
  <2>5. QED
    BY <2>3, <2>4
<1>3. Accepted(a) = s \o <<>>
  BY <1>1, Zenon DEF Accepted
<1> HIDE DEF s
<1>4. s \o <<>> = s
  BY <1>2
<1>5. QED
  BY <1>2, <1>3, <1>4

\* A currency without an asset is read back, chain and address included.
LEMMA AcceptedRead ==
  ASSUME NEW a \in Accept
  PROVE  ReadAccepted(Accepted(a)) = a
<1> DEFINE E == {a.currency, a.chain, a.depositAddress, ":"}
           s == Accepted(a)
           parts == SplitAt(s, ":")
           last == SplitAt(parts[3], "@")
           read == [currency |-> parts[1][1], chain |-> parts[2][1],
                    depositAddress |-> last[1][1]]
<1>1. /\ s \in Seq(E) /\ Len(s) = 5
      /\ s[1] = a.currency /\ s[2] = ":" /\ s[3] = a.chain
      /\ s[4] = ":" /\ s[5] = a.depositAddress
  BY AcceptedParts
<1>2. /\ a.currency = "USDC" /\ a.chain \in {"base", "sol"} /\ a.depositAddress = "0x1"
      /\ a = [currency |-> a.currency, chain |-> a.chain, depositAddress |-> a.depositAddress]
  BY DEF Accept
<1> HIDE DEF s, E
<1>3. /\ parts[1][1] = s[1] /\ parts[2][1] = s[3]
      /\ parts[3] \in Seq(E) /\ Len(parts[3]) = 1 /\ parts[3][1] = s[5]
  <2>1. s[1] # ":" /\ s[3] # ":" /\ s[5] # ":"
    BY <1>1, <1>2
  <2>2. QED
    BY <1>1, <2>1, SplitTexts
<1> HIDE DEF parts
<1>4. Len(last) = 1 /\ last[1][1] = parts[3][1]
  <2>1. parts[3][1] # "@"
    BY <1>1, <1>2, <1>3
  <2>2. QED
    BY <1>3, <2>1, SplitTexts
<1> HIDE DEF last
<1>5. read = a
  BY <1>1, <1>2, <1>3, <1>4
<1>6. ~(Len(last) > 1)
  BY <1>4
<1> HIDE DEF read
<1>7. ReadAccepted(s) = read
  BY <1>6, Zenon DEF ReadAccepted, read, last, parts
<1>8. QED
  BY <1>5, <1>7 DEF s

\* The texts of the currencies have no comma in them, which separates them.
LEMMA AcceptedText ==
  ASSUME NEW a \in Accept, NEW E, E = {"USDC", "base", "sol", "0x1", ":", ","}
  PROVE  Accepted(a) \in Seq(E \ {","})
<1> DEFINE S == {a.currency, a.chain, a.depositAddress, ":"}
<1>1. S \subseteq E \ {","}
  BY DEF Accept
<1> HIDE DEF S
<1>2. Accepted(a) \in Seq(S)
  BY AcceptedParts DEF S
<1>3. QED
  BY <1>1, <1>2, SubSequences

\* The currencies of seq after they are joined and split, and after they are read.
Texts(seq) == SplitAt(Joined([i \in DOMAIN seq |-> Accepted(seq[i])], ","), ",")
Currencies(texts) == [i \in DOMAIN texts |-> ReadAccepted(texts[i])]

\* The currencies, any number but none, are joined, split and read.
LEMMA CurrenciesKept ==
  ASSUME NEW seq, seq \in Seq(Accept), Len(seq) > 0
  PROVE  Currencies(Texts(seq)) = seq
<1> DEFINE texts == Texts(seq)
           E == {"USDC", "base", "sol", "0x1", ":", ","}
           V == Seq(E \ {","})
           n == Len(seq)
           written == [i \in 1 .. n |-> Accepted(seq[i])]
<1>1. n \in Nat /\ n > 0 /\ DOMAIN seq = 1 .. n /\ \A i \in 1 .. n : seq[i] \in Accept
  OBVIOUS
<1>2. \A i \in 1 .. n : Accepted(seq[i]) \in V
  <2> HIDE DEF E, n
  <2> QED BY <1>1, AcceptedText DEF E
<1>3. "," \in E
  OBVIOUS
<1> HIDE DEF E, V, n
<1>4. written \in Seq(V) /\ Len(written) = n /\ DOMAIN written = 1 .. n
  <2> DEFINE e(i) == Accepted(seq[i])
  <2>1. \A i \in 1 .. n : e(i) \in V
    BY <1>2
  <2> HIDE DEF e
  <2>2. [i \in 1 .. n |-> e(i)] \in Seq(V)
    BY <1>1, <2>1, IsASeq
  <2>3. [i \in 1 .. n |-> e(i)] \in Seq(V) /\ Len([i \in 1 .. n |-> e(i)]) = n
    BY <1>1, <2>2
  <2>4. QED
    BY <2>3 DEF e
<1>5. texts = SplitAt(Joined(written, ","), ",")
  BY <1>1, Zenon DEF Texts
<1>6. \A i \in 1 .. n : written[i] = Accepted(seq[i])
  BY Zenon
<1> HIDE DEF written, texts
<1>7. SplitAt(Joined(written, ","), ",") = written
  <2>1. written \in Seq(Seq(E \ {","})) /\ Len(written) > 0
    BY <1>1, <1>4 DEF V
  <2>2. QED
    BY <1>3, <2>1, SplitJoined
<1>8. texts = written /\ DOMAIN texts = 1 .. n
  BY <1>4, <1>5, <1>7, Zenon
<1>9. \A i \in 1 .. n : ReadAccepted(texts[i]) = seq[i]
  BY <1>1, <1>6, <1>8, AcceptedRead, Zenon
<1>10. [i \in 1 .. n |-> ReadAccepted(texts[i])] = [i \in 1 .. n |-> seq[i]]
  BY <1>9, Zenon
<1>11. seq = [i \in 1 .. n |-> seq[i]]
  BY DEF n
<1>12. QED
  BY <1>8, <1>10, <1>11, Zenon DEF texts, Currencies

\* A payment that names no asset is read back: on Base when it names no chain, and without an
\* empty list of currencies.
LEMMA PaymentKept ==
  ASSUME NEW seq, seq \in Seq(Accept),
         NEW q, q \in {[amount |-> 1, accepts |-> seq, logo |-> "l"],
                       [amount |-> 1, accepts |-> seq, chain |-> "sol"]}
  PROVE  ParsePaymentQr(CreatePaymentQr(q)) = Meaning(q)
<1> DEFINE named == DOMAIN q
           keys == IF Len(seq) > 0 THEN named ELSE named \ {"accepts"}
           text == Joined([i \in DOMAIN seq |-> Accepted(seq[i])], ",")
           uri == CreatePaymentQr(q)
           value(k) == IF k \in keys THEN q[k] ELSE "base"
<1>1. /\ named = {"amount", "accepts", "logo"} \/ named = {"amount", "accepts", "chain"}
      /\ q.accepts = seq /\ "accepts" \in named
  OBVIOUS
<1>2. Meaning(q) = [k \in keys \union {"chain"} |-> value(k)]
  BY <1>1, Zenon DEF Meaning
<1>3. uri = [k \in keys |-> IF k = "accepts" THEN text ELSE q[k]]
  <2>1. uri = [k \in {k \in named : k = "accepts" => Len(seq) > 0} |->
                 IF k = "accepts" THEN text ELSE q[k]]
    BY <1>1, Zenon DEF CreatePaymentQr
  <2>2. {k \in named : k = "accepts" => Len(seq) > 0} = keys
    <3> HIDE DEF named
    <3> QED OBVIOUS
  <2>3. QED
    BY <2>1, <2>2, Zenon
<1> HIDE DEF text, uri
<1>4. Len(seq) > 0 => Currencies(SplitAt(text, ",")) = seq
  BY CurrenciesKept, Zenon DEF Texts, text
<1> DEFINE other(k) == IF k = "chain" THEN (IF "chain" \in DOMAIN uri THEN uri.chain ELSE "base")
                       ELSE IF k = "accepts"
                       THEN Currencies(SplitAt(uri.accepts, ","))
                       ELSE uri[k]
<1>5. DOMAIN uri = keys /\ \A k \in keys : uri[k] = IF k = "accepts" THEN text ELSE q[k]
  BY <1>3, Zenon
<1>6. ParsePaymentQr(uri) = [k \in keys \union {"chain"} |-> other(k)]
  BY <1>5, Zenon DEF ParsePaymentQr, Currencies
<1>7. ASSUME NEW k \in keys \union {"chain"} PROVE other(k) = value(k)
  <2>1. CASE k = "chain"
    <3>1. k # "accepts"
      BY <2>1
    <3> HIDE DEF keys
    <3>2. QED
      BY <1>5, <2>1, <3>1, Zenon
  <2>2. CASE k = "accepts"
    <3>1. k \in keys /\ k # "chain" /\ Len(seq) > 0
      BY <1>7, <2>2
    <3> HIDE DEF keys
    <3>2. uri.accepts = text
      BY <1>5, <2>2, <3>1, Zenon
    <3>3. other(k) = seq
      BY <1>4, <2>2, <3>1, <3>2, Zenon
    <3>4. QED
      BY <1>1, <2>2, <3>1, <3>3, Zenon
  <2>3. CASE k # "chain" /\ k # "accepts"
    <3>1. k \in keys
      BY <1>7, <2>3
    <3> HIDE DEF keys
    <3>2. QED
      BY <1>5, <2>3, <3>1, Zenon
  <2>4. QED
    BY <2>1, <2>2, <2>3
<1> HIDE DEF value, other, keys
<1>8. ParsePaymentQr(uri) = Meaning(q)
  BY <1>2, <1>6, <1>7, Zenon
<1>9. QED
  BY <1>8 DEF uri

-------------------------------------------------------------------------------
(***************************************************************************)
(* The requests that the wallet and the executor sign, for any texts,      *)
(* amounts and number of actions or operations: what is signed is what the *)
(* contract encodes after it has parsed the JSON that it is sent.          *)
(***************************************************************************)

\* An action that a dApp asks for, and the wallet sends to the contract.
LEMMA ActionAgrees ==
  ASSUME NEW a \in DappAction
  PROVE  BorshAction(Flat(DagAction(a))) = ContractAction(DagAction(a))
<1>1. CASE a.type = "FunctionCall"
  BY <1>1, ZenonT(40) DEF DappAction, DagAction, Flat, BorshAction, ContractAction,
              Field, Base64, FromBase64
<1>2. CASE a.type \in {"Transfer", "Stake"}
  BY <1>2 DEF DappAction, DagAction, Flat, BorshAction, ContractAction,
              Field
<1>3. QED
  BY <1>1, <1>2, SMTT(30) DEF DappAction

\* The executor's transfers are not covered: the contract does not parse them.
LEMMA LocalCallAgrees ==
  ASSUME NEW a \in DappAction, a.type = "FunctionCall"
  PROVE  BorshLocalAction(LocalAction(a)) = ContractAction(LocalAction(a))
BY DEF DappAction, LocalAction, BorshLocalAction, ContractAction,
       Field, Base64, FromBase64

\* An operation on the sessions or the backup key.
LEMMA OpAgrees ==
  ASSUME NEW op \in WalletOp
  PROVE  BorshOp(op) = ContractOp(OpJson(op))
BY DEF WalletOp, OpJson, BorshOp, ContractOp

\* A message to one receiver is the header and the contract's encoding of the actions.
LEMMA MessageToOne ==
  ASSUME NEW json, NEW receiver, NEW actions,
         json.ops = <<>>, json.receiver_id = <<receiver>>, json.actions = actions
  PROVE  ContractMessage(json) =
           <<Header(json.timeout_secs), Vec(<<>>), Vec(<<>>),
             Vec(<<BorshPromise(receiver,
                       [i \in DOMAIN actions |-> ContractAction(actions[i])])>>)>>
<1>1. [i \in DOMAIN <<>> |-> ContractOp(json.ops[i])] = <<>>
  OBVIOUS
<1>2. ContractPromise(receiver, actions) =
        BorshPromise(receiver, [i \in DOMAIN actions |-> ContractAction(actions[i])])
  BY DEF ContractPromise, BorshPromise
<1>3. [i \in DOMAIN <<receiver>> |-> ContractPromise(<<receiver>>[i], actions)]
        = <<ContractPromise(receiver, actions)>>
  OBVIOUS
<1>4. QED
  BY <1>1, <1>2, <1>3 DEF ContractMessage

(***************************************************************************)
(* handleSendNearTransaction: whatever a dApp or the user asks for, the    *)
(* contract verifies the signature on the bytes that were signed.          *)
(***************************************************************************)
THEOREM TransactionsVerify ==
  ASSUME NEW receiver, NEW actions \in Seq(DappAction)
  PROVE  BorshActions(receiver, actions) =
           ContractMessage(TransactionJson(receiver, actions))
<1> DEFINE json == TransactionJson(receiver, actions)
           sent == [i \in DOMAIN actions |-> DagAction(actions[i])]
<1>1. \A i \in DOMAIN actions : actions[i] \in DappAction
  OBVIOUS
<1>2. [i \in DOMAIN actions |-> BorshAction(Flat(DagAction(actions[i])))]
        = [i \in DOMAIN sent |-> ContractAction(sent[i])]
  BY <1>1, ActionAgrees
<1>3. /\ json.ops = <<>> /\ json.receiver_id = <<receiver>>
      /\ json.actions = sent /\ json.timeout_secs = 600
  BY DEF TransactionJson
<1>4. ContractMessage(json) =
        <<Header(600), Vec(<<>>), Vec(<<>>),
          Vec(<<BorshPromise(receiver,
                    [i \in DOMAIN sent |-> ContractAction(sent[i])])>>)>>
  BY <1>3, MessageToOne
<1>5. QED
  BY <1>2, <1>4 DEF BorshActions

(***************************************************************************)
(* The executor's own function calls verify in the same way.               *)
(***************************************************************************)
THEOREM LocalCallsVerify ==
  ASSUME NEW receiver, NEW actions \in Seq(DappAction),
         \A i \in DOMAIN actions : actions[i].type = "FunctionCall"
  PROVE  BorshLocal(receiver, actions) = ContractMessage(LocalJson(receiver, actions))
<1> DEFINE json == LocalJson(receiver, actions)
           sent == [i \in DOMAIN actions |-> LocalAction(actions[i])]
<1>1. \A i \in DOMAIN actions : actions[i] \in DappAction
  OBVIOUS
<1>2. [i \in DOMAIN actions |-> BorshLocalAction(LocalAction(actions[i]))]
        = [i \in DOMAIN sent |-> ContractAction(sent[i])]
  BY <1>1, LocalCallAgrees
<1>3. /\ json.ops = <<>> /\ json.receiver_id = <<receiver>>
      /\ json.actions = sent /\ json.timeout_secs = 300
  BY DEF LocalJson
<1>4. ContractMessage(json) =
        <<Header(300), Vec(<<>>), Vec(<<>>),
          Vec(<<BorshPromise(receiver,
                    [i \in DOMAIN sent |-> ContractAction(sent[i])])>>)>>
  BY <1>3, MessageToOne
<1>5. QED
  BY <1>2, <1>4 DEF BorshLocal

(***************************************************************************)
(* The operations on sessions and the backup key, in any number.           *)
(***************************************************************************)
THEOREM OperationsVerify ==
  ASSUME NEW ops \in Seq(WalletOp)
  PROVE  BorshOps(ops) = ContractMessage(OpsJson(ops))
<1> DEFINE json == OpsJson(ops)
           sent == [i \in DOMAIN ops |-> OpJson(ops[i])]
<1>1. \A i \in DOMAIN ops : ops[i] \in WalletOp
  OBVIOUS
<1>2. [i \in DOMAIN ops |-> BorshOp(ops[i])] = [i \in DOMAIN sent |-> ContractOp(sent[i])]
  BY <1>1, OpAgrees
<1>3. /\ json.ops = sent /\ json.receiver_id = <<>>
      /\ json.actions = <<>> /\ json.timeout_secs = 600
  BY DEF OpsJson
<1>4. [i \in DOMAIN json.receiver_id |-> ContractPromise(json.receiver_id[i], json.actions)]
        = <<>>
  BY <1>3
<1>5. QED
  BY <1>2, <1>3, <1>4 DEF BorshOps, ContractMessage

(***************************************************************************)
(* The requests for a signature by the MPC contract.                       *)
(***************************************************************************)
THEOREM SignaturesVerify ==
  ASSUME NEW args \in Text
  PROVE  BorshSign(args) = ContractMessage(SignJson(args))
<1>1. ContractAction(SignActionJson(args))
        = <<U8(2), Str("sign"), Data(args), U128(1), U64(2), U64(0)>>
  BY DEF SignActionJson, ContractAction, Field, Base64, FromBase64
<1> DEFINE json == SignJson(args)
           sent == <<SignActionJson(args)>>
<1>2. /\ json.ops = <<>> /\ json.receiver_id = <<"mpc">>
      /\ json.actions = sent /\ json.timeout_secs = 600
  BY DEF SignJson
<1>3. [i \in DOMAIN sent |-> ContractAction(sent[i])]
        = <<<<U8(2), Str("sign"), Data(args), U128(1), U64(2), U64(0)>>>>
  BY <1>1
<1>4. ContractMessage(json) =
        <<Header(600), Vec(<<>>), Vec(<<>>),
          Vec(<<BorshPromise("mpc",
                    [i \in DOMAIN sent |-> ContractAction(sent[i])])>>)>>
  BY <1>2, MessageToOne
<1>5. QED
  BY <1>3, <1>4 DEF BorshSign

-------------------------------------------------------------------------------
(***************************************************************************)
(* What Codec's input is made of: a list of one kind, of any length, or    *)
(* the numbers of another, within their range.                             *)
(***************************************************************************)
Lists(kind, S) == {[kind |-> kind, seq |-> s] : s \in Seq(S)}
Compacts == [kind : {"compact"}, n : 0 .. MaxU16]
Signatures == [kind : {"der"}, r : 1 .. Order - 1, s : 1 .. Order - 1]

InputOK ==
  \/ input \in Lists("actions", DappAction) \/ input \in Lists("ops", WalletOp)
  \/ input \in Lists("accepts", Accept)
  \/ input \in Lists("rlp", Element) \/ input \in Lists("base58", Byte)
  \/ input \in [kind : {"sign"}, args : Text]
  \/ input \in Compacts \/ input \in Signatures
  \/ input \in [kind : {"eth"}, nonce : Int, value : Int]

\* The range of the compact integers.
LEMMA MaxU16Facts ==
  /\ MaxU16 \in Nat
  /\ \A n \in 0 .. MaxU16 : n \in Nat /\ n < 65536
<1>1. MaxU16 \in Nat /\ MaxU16 < 65536
  BY SMT DEF MaxU16
<1>2. ASSUME NEW n \in 0 .. MaxU16
      PROVE  n \in Nat /\ n < 65536
  BY <1>1, SMT
<1>3. QED
  BY <1>1, <1>2, SMT

\* An input is of the kind it says.
LEMMA InputKinds ==
  ASSUME InputOK
  PROVE  /\ input.kind = "actions" => input \in Lists("actions", DappAction)
         /\ input.kind = "ops" => input \in Lists("ops", WalletOp)
         /\ input.kind = "accepts" => input \in Lists("accepts", Accept)
         /\ input.kind = "rlp" => input \in Lists("rlp", Element)
         /\ input.kind = "base58" => input \in Lists("base58", Byte)
         /\ input.kind = "sign" => input \in [kind : {"sign"}, args : Text]
         /\ input.kind = "compact" => input \in Compacts
         /\ input.kind = "der" => input \in Signatures
<1>1. ASSUME NEW kind, NEW S, input \in Lists(kind, S)
      PROVE  input.kind = kind
  BY <1>1 DEF Lists
<1>2. /\ input \in Lists("actions", DappAction) => input.kind = "actions"
      /\ input \in Lists("ops", WalletOp) => input.kind = "ops"
      /\ input \in Lists("accepts", Accept) => input.kind = "accepts"
      /\ input \in Lists("rlp", Element) => input.kind = "rlp"
      /\ input \in Lists("base58", Byte) => input.kind = "base58"
  BY <1>1
<1>3. /\ input \in [kind : {"sign"}, args : Text] => input.kind = "sign"
      /\ input \in [kind : {"eth"}, nonce : Int, value : Int] => input.kind = "eth"
  OBVIOUS
<1>4. input \in Compacts => input.kind = "compact"
  BY DEF Compacts
<1>5. input \in Signatures => input.kind = "der"
  BY DEF Signatures
<1>6. QED
  BY <1>2, <1>3, <1>4, <1>5, Zenon DEF InputOK

\* A list of a kind.
LEMMA ListOf ==
  ASSUME NEW kind, NEW S, input \in Lists(kind, S)
  PROVE  input.seq \in Seq(S)
BY DEF Lists

\* The inputs that Codec starts with: every list is empty.
LEMMA InputStarts == InputInit => InputOK
<1> SUFFICES ASSUME InputInit PROVE InputOK
  OBVIOUS
<1>1. ASSUME NEW S, NEW kind, input = [kind |-> kind, seq |-> <<>>]
      PROVE  input \in Lists(kind, S)
  <2>1. <<>> \in Seq(S)
    OBVIOUS
  <2>2. QED
    BY <1>1, <2>1, Zenon DEF Lists
<1>2. CASE input \in {[kind |-> kind, seq |-> <<>>] : kind \in Growing}
  <2>1. PICK kind \in Growing : input = [kind |-> kind, seq |-> <<>>]
    BY <1>2
  <2>2. \A S : input \in Lists(kind, S)
    BY <1>1, <2>1
  <2>3. QED
    BY <2>1, <2>2, Zenon DEF InputOK, Growing
<1>3. CASE input = [kind |-> "compact", n |-> 0]
  <2>1. 0 \in 0 .. MaxU16
    BY MaxU16Facts
  <2>2. input \in Compacts
    BY <1>3, <2>1, Zenon DEF Compacts
  <2>3. QED
    BY <2>2, Zenon DEF InputOK
<1>4. CASE input = [kind |-> "der", r |-> 1, s |-> 1]
  <2>1. 1 \in 1 .. Order - 1
    BY BaseFacts
  <2>2. input \in Signatures
    BY <1>4, <2>1, Zenon DEF Signatures
  <2>3. QED
    BY <2>2, Zenon DEF InputOK
<1>5. CASE input \in [kind : {"sign"}, args : Text]
  BY <1>5, Zenon DEF InputOK
<1>6. CASE input \in [kind : {"eth"}, nonce : {0, 1, 128}, value : {0, 127, 256}]
  <2>1. input \in [kind : {"eth"}, nonce : Int, value : Int]
    BY <1>6
  <2>2. QED
    BY <2>1, Zenon DEF InputOK
<1>7. QED
  BY <1>2, <1>3, <1>4, <1>5, <1>6, Zenon DEF InputInit

\* A list that grows by an element is a list of the same kind.
LEMMA InputGrows ==
  ASSUME InputOK, NEW kind, NEW S, Grows(kind, S),
         input.kind = kind => input \in Lists(kind, S)
  PROVE  input' \in Lists(kind, S)
<1>1. input \in Lists(kind, S)
  BY DEF Grows, Kind
<1>2. PICK s \in Seq(S) : input = [kind |-> kind, seq |-> s]
  BY <1>1 DEF Lists
<1>3. PICK x \in S : input' = [input EXCEPT !.seq = Append(@, x)]
  BY DEF Grows
<1>4. input' = [kind |-> kind, seq |-> Append(s, x)]
  BY <1>2, <1>3
<1>5. Append(s, x) \in Seq(S)
  OBVIOUS
<1>6. QED
  BY <1>4, <1>5 DEF Lists

\* A number that grows stays in its range.
LEMMA InputCounts ==
  ASSUME InputOK, Counts
  PROVE  input' \in Compacts \/ input' \in Signatures
<1>1. CASE /\ Kind({"compact"}) /\ input.n < MaxU16 /\ input' = [input EXCEPT !.n = @ + 1]
  <2>1. input \in Compacts
    BY <1>1, InputKinds DEF Kind
  <2>2. PICK n \in 0 .. MaxU16 : input = [kind |-> "compact", n |-> n]
    BY <2>1 DEF Compacts
  <2>3. n < MaxU16 /\ input' = [kind |-> "compact", n |-> n + 1]
    BY <1>1, <2>2
  <2>4. n + 1 \in 0 .. MaxU16
    BY <2>3, MaxU16Facts
  <2>5. QED
    BY <2>3, <2>4, Zenon DEF Compacts
<1>2. CASE /\ Kind({"der"})
           /\ \/ input.r < Order - 1 /\ input' = [input EXCEPT !.r = @ + 1]
              \/ input.s < Order - 1 /\ input' = [input EXCEPT !.s = @ + 1]
  <2>1. input \in Signatures
    BY <1>2, InputKinds DEF Kind
  <2>2. QED
    BY <1>2, <2>1, BaseFacts DEF Signatures
<1>3. QED
  BY <1>1, <1>2, Zenon DEF Counts

\* Every step takes an input to one of the same kind.
LEMMA InputStep == InputOK /\ [InputNext]_input => InputOK'
<1> SUFFICES ASSUME InputOK, [InputNext]_input PROVE InputOK'
  OBVIOUS
<1>1. CASE Counts
  BY <1>1, InputCounts, Zenon DEF InputOK, Compacts, Signatures
<1>2. CASE UNCHANGED input
  BY <1>2, Zenon DEF InputOK, Lists, Compacts, Signatures
<1>3. CASE Grows("actions", DappAction)
  BY <1>3, InputKinds, InputGrows DEF InputOK
<1>4. CASE Grows("ops", WalletOp)
  BY <1>4, InputKinds, InputGrows DEF InputOK
<1>5. CASE Grows("accepts", Accept)
  BY <1>5, InputKinds, InputGrows DEF InputOK
<1>6. CASE Grows("rlp", Element)
  BY <1>6, InputKinds, InputGrows DEF InputOK
<1>7. CASE Grows("base58", Byte)
  BY <1>7, InputKinds, InputGrows DEF InputOK
<1>8. QED
  BY <1>1, <1>2, <1>3, <1>4, <1>5, <1>6, <1>7, Zenon DEF InputNext

(***************************************************************************)
(* Whatever the input has become, what was signed for it is what the       *)
(* contract encodes: no request is refused for its signature.              *)
(***************************************************************************)
THEOREM RequestsAlwaysVerify == InputSpec => []RequestsVerify
<1>1. InputOK => RequestsVerify
  <2> SUFFICES ASSUME InputOK PROVE RequestsVerify
    OBVIOUS
  <2>1. CASE input.kind = "actions"
    <3>1. input.seq \in Seq(DappAction)
      BY <2>1, InputKinds, ListOf
    <3>2. QED
      BY <2>1, <3>1, TransactionsVerify, LocalCallsVerify DEF RequestsVerify, Kind
  <2>2. CASE input.kind = "ops"
    <3>1. input.seq \in Seq(WalletOp)
      BY <2>2, InputKinds, ListOf
    <3>2. QED
      BY <2>2, <3>1, OperationsVerify DEF RequestsVerify, Kind
  <2>3. CASE input.kind = "sign"
    <3>1. input.args \in Text
      BY <2>3, InputKinds
    <3>2. QED
      BY <2>3, <3>1, SignaturesVerify DEF RequestsVerify, Kind
  <2>4. CASE input.kind \notin {"actions", "ops", "sign"}
    BY <2>4 DEF RequestsVerify, Kind
  <2>5. QED
    BY <2>1, <2>2, <2>3, <2>4
<1>2. QED
  BY <1>1, InputStarts, InputStep, PTL DEF InputSpec

(***************************************************************************)
(* A passkey's signature that the wallet converts is the same signature,   *)
(* whatever the order: r is kept, and s is s or Order - s (derToRawP256).  *)
(***************************************************************************)
THEOREM DerIsKept == InputSpec => []DerKeepsSignature
<1>1. InputOK => DerKeepsSignature
  <2> SUFFICES ASSUME InputOK, input.kind = "der" PROVE DerKeepsSignature
    BY Zenon DEF DerKeepsSignature, Kind
  <2>1. input.r \in 1 .. Order - 1 /\ input.s \in 1 .. Order - 1
    BY InputKinds DEF Signatures
  <2> DEFINE raw == DerToRaw(DerInt(input.r), DerInt(input.s))
             s == IF input.s <= Order \div 2 THEN input.s ELSE Order - input.s
  <2>2. ASSUME raw # <<>>
        PROVE  /\ Len(raw) = 2 * Width
               /\ Number(Base, SubSeq(raw, 1, Width)) = input.r
               /\ Number(Base, SubSeq(raw, Width + 1, 2 * Width)) = s
    BY <2>1, <2>2, DerKept
  <2>3. QED
    BY <2>2, Zenon DEF DerKeepsSignature
<1>2. QED
  BY <1>1, InputStarts, InputStep, PTL DEF InputSpec

(***************************************************************************)
(* What is encoded is read back, for every input: RLP lists of any number  *)
(* of strings of any length that a prefix has room for, every compact      *)
(* integer, base58 text of any length, and payments with the currencies    *)
(* that they accept, however many; an empty list of them is read back as   *)
(* none (createPaymentQr, parsePaymentQr).                                 *)
(***************************************************************************)
THEOREM EncodingsAreRead == InputSpec => []EncodingsRoundTrip
<1>1. InputOK => EncodingsRoundTrip
  <2> SUFFICES ASSUME InputOK PROVE EncodingsRoundTrip
    OBVIOUS
  <2> DEFINE seq == input.seq
  <2>1. ASSUME input.kind = "rlp"
        PROVE  RlpDecode(RlpList([i \in DOMAIN seq |-> RlpBytes(seq[i])])) = seq
    <3>1. seq \in Seq(Element)
      BY <2>1, InputKinds, ListOf
    <3>2. \A x \in Element : x \in Seq(Nat) /\ Len(Digits(256, Len(x))) <= 8
      <4> SUFFICES ASSUME NEW x \in Element
                   PROVE  x \in Seq(Nat) /\ Len(Digits(256, Len(x))) <= 8
        OBVIOUS
      <4>1. x \in Seq(0 .. 255) /\ Len(Digits(256, Len(x))) <= 8
        BY CodecAssumption, Zenon
      <4>2. 0 .. 255 \subseteq Nat
        OBVIOUS
      <4>3. x \in Seq(Nat)
        BY <4>1, <4>2, SubSequences
      <4>4. QED
        BY <4>1, <4>3
    <3> HIDE DEF seq
    <3>3. QED
      BY <3>1, <3>2, RlpKept
  <2>2. ASSUME input.kind = "compact"
        PROVE  FromCompact(CompactU16(input.n)) = input.n
    <3>1. input.n \in 0 .. MaxU16
      BY <2>2, InputKinds, Zenon DEF Compacts
    <3>2. input.n \in Nat /\ input.n < 65536
      BY <3>1, MaxU16Facts, SMT
    <3>3. QED
      BY <3>2, CompactKept, SMT
  <2>3. ASSUME input.kind = "base58"
        PROVE  FromBase58(Base58(seq)) = seq
    <3>1. seq \in Seq(Byte)
      BY <2>3, InputKinds, ListOf
    <3> DEFINE bytes == 0 .. 255
    <3>2. Byte \subseteq bytes
      BY CodecAssumption
    <3> HIDE DEF bytes, seq
    <3>3. seq \in Seq(bytes)
      BY <3>1, <3>2, SubSequences
    <3>4. QED
      BY <3>3, Base58Kept DEF bytes
  <2>4. ASSUME input.kind = "accepts"
        PROVE  \A q \in {[amount |-> 1, accepts |-> seq, logo |-> "l"],
                         [amount |-> 1, accepts |-> seq, chain |-> "sol"]} :
                 ParsePaymentQr(CreatePaymentQr(q)) = Meaning(q)
    <3>1. seq \in Seq(Accept)
      BY <2>4, InputKinds, ListOf
    <3> HIDE DEF seq
    <3>2. QED
      BY <3>1, PaymentKept, Zenon
  <2>5. QED
    BY <2>1, <2>2, <2>3, <2>4, Zenon DEF EncodingsRoundTrip, Kind
<1>2. QED
  BY <1>1, InputStarts, InputStep, PTL DEF InputSpec
===============================================================================
