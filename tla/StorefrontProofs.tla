--------------------------- MODULE StorefrontProofs ---------------------------
(***************************************************************************)
(* Proofs about Storefront, for every set of clicks, every catalog, all    *)
(* retry counts and every choice of faults.  They stand on the inductive   *)
(* invariant of order-service.                                             *)
(***************************************************************************)
EXTENDS Storefront, TLAPS

\* order-service as its own proofs see it.
OP == INSTANCE OrderServiceProofs WITH
    Calls   <- Requests,
    Invalid <- {r \in Requests : r[1] \in ClickInvalid},
    UserOf  <- [r \in Requests |-> ClickUser[r[1]]],
    ItemsOf <- [r \in Requests |-> ClickItems[r[1]]]

LEMMA Assumptions ==
    /\ OP!CallsAssumption /\ OP!CatalogAssumption /\ OP!RetryAssumption
BY StorefrontAssumption
   DEF Orders!CallsAssumption, Orders!CatalogAssumption, Orders!RetryAssumption,
       OP!CallsAssumption, OP!CatalogAssumption, OP!RetryAssumption,
       Orders!Listing, OP!Listing

LEMMA OrderInit == Orders!Init => OP!Init
BY DEF Orders!Init, OP!Init, Orders!EmptyOrder, OP!EmptyOrder, Orders!NoRow, OP!NoRow

LEMMA OrderActions ==
    ASSUME NEW c \in Requests
    PROVE  /\ Orders!Place(c) <=> OP!Place(c)
           /\ Orders!LocalStep(c) => OP!LocalStep(c)
           /\ Orders!LocalFailure(c) => OP!LocalFailure(c)
           /\ Orders!AnyCharge(c) => OP!AnyCharge(c)
           /\ Orders!Disconnect(c) => OP!Disconnect(c)
<1> USE DEF Orders!At, OP!At, Orders!GoTo, OP!GoTo, Orders!Finish, OP!Finish,
            Orders!Conclude, OP!Conclude, Orders!Answer, OP!Answer,
            Orders!Pending, OP!Pending, Orders!MayFail, OP!MayFail,
            Orders!DatabaseMayFail, OP!DatabaseMayFail, Orders!Upstream, OP!Upstream,
            Orders!Working, OP!Working
<1>1. Orders!Place(c) <=> OP!Place(c)
  BY DEF Orders!Place, OP!Place
<1>2. Orders!LocalStep(c) => OP!LocalStep(c)
  BY DEF Orders!LocalStep, OP!LocalStep, Orders!VerifyUser, OP!VerifyUser,
         Orders!ItemRefused, OP!ItemRefused, Orders!ItemPriced, OP!ItemPriced,
         Orders!Current, OP!Current, Orders!Available, OP!Available,
         Orders!Persist, OP!Persist, Orders!UpdateStatus, OP!UpdateStatus
<1>3. Orders!AttemptFailed(c) => OP!AttemptFailed(c)
  BY DEF Orders!AttemptFailed, OP!AttemptFailed, Orders!Retry, OP!Retry,
         Orders!GiveUp, OP!GiveUp
<1>4. Orders!LocalFailure(c) => OP!LocalFailure(c)
  BY <1>3 DEF Orders!LocalFailure, OP!LocalFailure, Orders!PersistFails, OP!PersistFails,
              Orders!UpdateFails, OP!UpdateFails, Orders!UpstreamError, OP!UpstreamError
<1>5. Orders!AnyCharge(c) => OP!AnyCharge(c)
  BY <1>3 DEF Orders!AnyCharge, OP!AnyCharge, Orders!ChargeAnswered, OP!ChargeAnswered,
              Orders!ChargeBodyLost, OP!ChargeBodyLost
<1>6. Orders!Disconnect(c) => OP!Disconnect(c)
  BY DEF Orders!Disconnect, OP!Disconnect
<1> QED
  BY <1>1, <1>2, <1>4, <1>5, <1>6

\* What every step of Storefront is to order-service.
LEMMA OrderSide ==
    ASSUME [Next]_vars
    PROVE  [OP!Next]_(OP!vars)
<1>1. ASSUME NEW r \in Requests, Deliver(r) \/ Disconnect(r) \/ OrderStep(r)
      PROVE  OP!Next
  BY <1>1, OrderActions DEF Deliver, Disconnect, OrderStep, OP!Next
<1>2. CASE CatalogStep
  BY <1>2 DEF CatalogStep, OP!Next, Orders!EditProduct, OP!EditProduct
<1>3. CASE OrderCrash
  BY <1>3 DEF OrderCrash, OP!Next, Orders!Crash, OP!Crash, Orders!Stop, OP!Stop,
              Orders!Working, OP!Working, Orders!Upstream, OP!Upstream
<1>4. UNCHANGED orderVars => UNCHANGED OP!vars
  BY DEF orderVars, OP!vars
<1>5. \/ \E c \in Clicks : ClickStep(c) \/ AnswerArrives(c) \/ TimesOut(c) \/ Unreachable(c)
      \/ WindowStep
      \/ UNCHANGED vars
      => UNCHANGED orderVars
  BY DEF ClickStep, AnswerArrives, TimesOut, Unreachable, WindowStep, vars
<1> QED
  BY <1>1, <1>2, <1>3, <1>4, <1>5 DEF Next

-----------------------------------------------------------------------------
(***************************************************************************)
(* The invariant: that of order-service, and what connects it with clicks. *)
(***************************************************************************)

\* What a click was told is what its last attempt was answered; its earlier
\* attempts were given up or answered 502; and it made no later ones.
ClickSound(c) ==
    /\ at[c] = "unsent" => sent[c] = 0
    /\ at[c] = "waiting" => sent[c] >= 1
    /\ at[c] # "done" => answer[c] = "none"
    /\ answer[c] \in {"201", "402"} => sent[c] >= 1
    /\ answer[c] \in {"201", "400", "402", "404", "409"} /\ sent[c] >= 1 =>
          reply[Current(c)] = answer[c]
    /\ \A n \in 1 .. sent[c] - 1 : <<c, n>> \in abandoned \/ reply[<<c, n>>] = "502"
    /\ \A r \in Requests : r[1] = c /\ r[2] > sent[c] => pc[r] = "unsent"

FInv ==
    /\ Edge!TypeOK
    /\ OP!IInv
    /\ \A c \in Clicks : ClickSound(c)

LEMMA AttemptIsRequest ==
    ASSUME FInv, NEW c \in Clicks, NEW n \in 1 .. sent[c]
    PROVE  <<c, n>> \in Requests
<1>1. sent[c] \in 0 .. GatewayRetries + 1 /\ GatewayRetries \in Nat
  BY StorefrontAssumption DEF FInv, Edge!TypeOK, Edge!GatewayAssumption
<1> QED
  BY <1>1 DEF Requests

\* What every step of the gateway at click c does: it sends the first attempt,
\* it sends another one because the last was answered 502 or given up, or it
\* answers the client, who was not answered before.
EdgeMove(c) ==
    /\ \/ /\ at[c] = "unsent"
          /\ sent' = [sent EXCEPT ![c] = @ + 1]
          /\ at' = [at EXCEPT ![c] = "waiting"]
          /\ UNCHANGED <<answer, abandoned>>
       \/ /\ at[c] = "waiting"
          /\ sent[c] <= GatewayRetries
          /\ sent' = [sent EXCEPT ![c] = @ + 1]
          /\ UNCHANGED <<at, answer>>
          /\ \/ reply[Current(c)] = "502" /\ UNCHANGED abandoned
             \/ abandoned' = abandoned \cup {Current(c)}
       \/ /\ at' = [at EXCEPT ![c] = "done"]
          /\ \/ /\ at[c] = "unsent"
                /\ \E code \in {"400", "401", "429", "500"} : answer' = [answer EXCEPT ![c] = code]
             \/ /\ at[c] = "waiting"
                /\ \E code \in {"502", "504"} : answer' = [answer EXCEPT ![c] = code]
             \/ /\ at[c] = "waiting"
                /\ reply[Current(c)] \notin {"none", "lost"}
                /\ answer' = [answer EXCEPT ![c] = reply[Current(c)]]
          /\ UNCHANGED sent
          /\ abandoned \subseteq abandoned'
    /\ hits' \in {hits, hits + 1}
    /\ hits' = hits + 1 => hits # RateLimit

LEMMA EdgeMoves ==
    ASSUME FInv, NEW c \in Clicks,
           ClickStep(c) \/ AnswerArrives(c) \/ TimesOut(c) \/ Unreachable(c)
    PROVE  EdgeMove(c)
<1> USE DEF Edge!Finish, Edge!Send
<1>1. at \in [Clicks -> {"unsent", "waiting", "done"}] /\ hits \in 0 .. RateLimit
  BY DEF FInv, Edge!TypeOK
<1>2. CASE ClickStep(c)
  BY <1>1, <1>2 DEF ClickStep, Edge!Arrive, Edge!Limited, Edge!Authenticated, Edge!Rejection,
                    EdgeMove
<1>3. CASE TimesOut(c) \/ Unreachable(c)
  BY <1>1, <1>3 DEF TimesOut, Unreachable, Edge!AttemptTimesOut, Edge!AttemptUnreachable,
                    Edge!RetryOr, Edge!Waiting, Abandon, EdgeMove
<1>4. CASE AnswerArrives(c)
  <2>1. at[c] = "waiting" /\ reply[Current(c)] \notin {"none", "lost", "503", "504"}
    <3>1. at[c] = "waiting"
      BY <1>4 DEF AnswerArrives, Edge!Waiting
    <3>2. sent[c] \in 1 .. sent[c]
      BY <3>1, StorefrontAssumption DEF FInv, ClickSound, Edge!TypeOK, Edge!GatewayAssumption
    <3>3. Current(c) \in Requests
      BY <3>2, AttemptIsRequest DEF Current
    <3>4. reply[Current(c)] \in {"none", "lost", "201", "400", "402", "404", "409", "500", "502"}
      BY <3>3 DEF FInv, OP!IInv, OP!TypeOK
    <3> QED
      BY <1>4, <3>1, <3>4 DEF AnswerArrives
  <2> QED
    BY <1>1, <1>4, <2>1 DEF AnswerArrives, Edge!ServiceAnswers, Edge!RetryOr, EdgeMove,
                            Edge!Retryable
<1> QED
  BY <1>2, <1>3, <1>4

LEMMA EdgeMoveTyped ==
    ASSUME FInv, NEW c \in Clicks, EdgeMove(c)
    PROVE  Edge!TypeOK'
<1> USE DEF Edge!TypeOK, Edge!Retryable
<1>1. GatewayRetries \in Nat /\ RateLimit \in Nat
  BY StorefrontAssumption DEF Edge!GatewayAssumption
<1>2. at' \in [Clicks -> {"unsent", "waiting", "done"}]
  BY DEF EdgeMove, FInv
<1>3. sent' \in [Clicks -> 0 .. GatewayRetries + 1]
  <2>1. at[c] = "unsent" => sent[c] = 0
    BY DEF FInv, ClickSound
  <2>2. sent[c] + 1 \in 0 .. GatewayRetries + 1 \/ UNCHANGED sent
    BY <1>1, <2>1 DEF EdgeMove, FInv
  <2> QED
    BY <2>2 DEF EdgeMove, FInv
<1>4. hits' \in 0 .. RateLimit
  BY <1>1 DEF EdgeMove, FInv
<1>5. answer' \in [Clicks -> {"none", "429", "200", "201", "400", "401", "402", "404", "409", "500"}
                                 \cup Edge!Retryable]
  <2>1. ASSUME at[c] = "waiting"
        PROVE  reply[Current(c)] \in {"none", "lost", "201", "400", "402", "404", "409", "500", "502"}
    <3>1. sent[c] \in 1 .. sent[c]
      BY <2>1, <1>1 DEF FInv, ClickSound
    <3>2. Current(c) \in Requests
      BY <3>1, AttemptIsRequest DEF Current
    <3> QED
      BY <3>2 DEF FInv, OP!IInv, OP!TypeOK
  <2> QED
    BY <2>1 DEF EdgeMove, FInv
<1> QED
  BY <1>2, <1>3, <1>4, <1>5

LEMMA EdgeMoveSound ==
    ASSUME FInv, NEW c \in Clicks, EdgeMove(c), UNCHANGED orderVars
    PROVE  \A d \in Clicks : ClickSound(d)'
<1> SUFFICES ASSUME NEW d \in Clicks
             PROVE  ClickSound(d)'
  OBVIOUS
<1>1. /\ ClickSound(d) /\ ClickSound(c)
      /\ reply' = reply /\ pc' = pc
      /\ abandoned \subseteq abandoned'
  BY DEF FInv, orderVars, EdgeMove
<1>2. CASE d # c
  <2>1. at'[d] = at[d] /\ sent'[d] = sent[d] /\ answer'[d] = answer[d]
    BY <1>2 DEF EdgeMove, FInv, Edge!TypeOK
  <2> QED
    BY <1>1, <2>1 DEF ClickSound, Current
<1>3. CASE d = c
  <2>1. sent[c] \in Nat
    BY StorefrontAssumption DEF FInv, Edge!TypeOK, Edge!GatewayAssumption
  <2>2. CASE at'[c] = "waiting"
    <3>1. /\ answer'[c] = "none"
          /\ sent'[c] = sent[c] + 1
          /\ sent[c] >= 1 => Current(c) \in abandoned' \/ reply[Current(c)] = "502"
      BY <1>1, <2>1, <2>2 DEF EdgeMove, ClickSound, FInv, Edge!TypeOK
    <3>2. \A n \in 1 .. sent'[c] - 1 : <<c, n>> \in abandoned' \/ reply'[<<c, n>>] = "502"
      <4> SUFFICES ASSUME NEW n \in 1 .. sent'[c] - 1
                   PROVE  <<c, n>> \in abandoned' \/ reply'[<<c, n>>] = "502"
        OBVIOUS
      <4>1. n \in 1 .. sent[c] - 1 \/ (n = sent[c] /\ sent[c] >= 1)
        BY <2>1, <3>1
      <4> QED
        BY <1>1, <3>1, <4>1 DEF ClickSound, Current
    <3>3. \A r \in Requests : r[1] = c /\ r[2] > sent'[c] => pc'[r] = "unsent"
      <4>1. \A r \in Requests : r[2] \in Nat
        <5>1. \A r \in Clicks \X (1 .. GatewayRetries + 1) : r[2] \in Nat
          BY StorefrontAssumption DEF Edge!GatewayAssumption
        <5> QED
          BY <5>1 DEF Requests
      <4> QED
        BY <1>1, <2>1, <3>1, <4>1 DEF ClickSound
    <3> QED
      BY <1>3, <2>1, <2>2, <3>1, <3>2, <3>3 DEF ClickSound
  <2>3. CASE at'[c] = "done"
    <3>1. /\ sent'[c] = sent[c]
          /\ \/ answer'[c] \in {"400", "401", "429", "500"} /\ sent[c] = 0
             \/ answer'[c] \in {"502", "504"}
             \/ answer'[c] = reply[Current(c)] /\ sent[c] >= 1
      BY <1>1, <2>3 DEF EdgeMove, ClickSound, FInv, Edge!TypeOK
    <3> QED
      BY <1>1, <1>3, <2>1, <2>3, <3>1 DEF ClickSound, Current
  <2> QED
    BY <2>2, <2>3 DEF EdgeMove, FInv, Edge!TypeOK
<1> QED
  BY <1>2, <1>3

LEMMA InitFInv == Init => FInv
<1> SUFFICES ASSUME Init
             PROVE  FInv
  OBVIOUS
<1>1. OP!IInv
  BY Assumptions, OrderInit, OP!InitIInv DEF Init
<1>2. Edge!TypeOK
  BY StorefrontAssumption DEF Init, Edge!Init, Edge!TypeOK, Edge!GatewayAssumption
<1>3. \A c \in Clicks : ClickSound(c)
  BY DEF Init, Edge!Init, Orders!Init, ClickSound
<1> QED
  BY <1>1, <1>2, <1>3 DEF FInv

\* A step of order-service leaves true what was said of a click: answers stay,
\* and an attempt that was not sent does not arrive.
LEMMA OrdersMoveSound ==
    ASSUME FInv, UNCHANGED <<gatewayVars, abandoned>>,
           \/ \E r \in Requests : Deliver(r) \/ Disconnect(r) \/ OrderStep(r)
           \/ CatalogStep
           \/ OrderCrash
    PROVE  \A c \in Clicks : ClickSound(c)'
<1>1. [OP!Next]_(OP!vars)
  BY OrderSide DEF Next
<1>2. \A r \in Requests : reply[r] # "none" => reply'[r] = reply[r]
  BY <1>1, Assumptions, OP!AnswersStay DEF FInv
<1>3. pc \in [Requests -> OP!Working \cup {"unsent", "done"}]
  BY DEF FInv, OP!IInv, OP!TypeOK
<1>4. ASSUME NEW r \in Requests, pc[r] = "unsent", pc'[r] # "unsent"
      PROVE  r[2] <= sent[r[1]]
  <2>1. ASSUME NEW q \in Requests, Deliver(q)
        PROVE  q = r
    <3>1. \E label : pc' = [pc EXCEPT ![q] = label]
      BY <2>1, OrderActions DEF Deliver, OP!Place, OP!GoTo, OP!Finish
    <3> QED
      BY <1>3, <1>4, <3>1
  <2>2. ASSUME NEW q \in Requests, Disconnect(q) \/ OrderStep(q)
        PROVE  FALSE
    <3>1. OP!LocalStep(q) \/ OP!LocalFailure(q) \/ OP!AnyCharge(q) \/ OP!Disconnect(q)
      BY <2>2, OrderActions DEF Disconnect, OrderStep
    <3>2. /\ pc[q] # "unsent"
          /\ pc' = pc \/ \E label : pc' = [pc EXCEPT ![q] = label]
      BY <3>1, Assumptions, OP!HandlerMoves
    <3> QED
      BY <1>3, <1>4, <3>2
  <2>3. ~CatalogStep /\ ~OrderCrash
    BY <1>4 DEF CatalogStep, OrderCrash, Orders!EditProduct, Orders!Crash, Orders!Stop,
                Orders!Working, Orders!Upstream
  <2> QED
    BY <2>1, <2>2, <2>3 DEF Deliver
<1> SUFFICES ASSUME NEW c \in Clicks
             PROVE  ClickSound(c)'
  OBVIOUS
<1>5. /\ ClickSound(c)
      /\ UNCHANGED <<at, sent, answer, abandoned>>
      /\ sent[c] \in Nat
  BY StorefrontAssumption DEF FInv, gatewayVars, Edge!TypeOK, Edge!GatewayAssumption
<1>6. \A n \in 1 .. sent[c] : <<c, n>> \in Requests
  BY AttemptIsRequest
<1>7. answer[c] \in {"201", "400", "402", "404", "409"} /\ sent[c] >= 1 =>
          reply'[Current(c)] = answer[c]
  BY <1>2, <1>5, <1>6 DEF ClickSound, Current
<1>8. \A n \in 1 .. sent[c] - 1 : <<c, n>> \in abandoned \/ reply'[<<c, n>>] = "502"
  BY <1>2, <1>5, <1>6 DEF ClickSound
<1>9. ASSUME NEW r \in Requests, r[1] = c, r[2] > sent[c]
      PROVE  pc'[r] = "unsent"
  <2>1. r[2] \in Nat
    <3>1. \A q \in Clicks \X (1 .. GatewayRetries + 1) : q[2] \in Nat
      BY StorefrontAssumption DEF Edge!GatewayAssumption
    <3> QED
      BY <3>1 DEF Requests
  <2> QED
    BY <1>4, <1>5, <1>9, <2>1 DEF ClickSound
<1> QED
  BY <1>5, <1>7, <1>8, <1>9 DEF ClickSound, Current

LEMMA StepFInv == FInv /\ [Next]_vars => FInv'
<1> SUFFICES ASSUME FInv, [Next]_vars
             PROVE  FInv'
  OBVIOUS
<1>1. OP!IInv'
  BY Assumptions, OrderSide, OP!StepIInv DEF FInv
<1>2. ASSUME NEW c \in Clicks,
             ClickStep(c) \/ AnswerArrives(c) \/ TimesOut(c) \/ Unreachable(c)
      PROVE  FInv'
  <2>1. EdgeMove(c) /\ UNCHANGED orderVars
    BY <1>2, EdgeMoves DEF ClickStep, AnswerArrives, TimesOut, Unreachable
  <2> QED
    BY <1>1, <2>1, EdgeMoveTyped, EdgeMoveSound DEF FInv
<1>3. CASE \/ \E r \in Requests : Deliver(r) \/ Disconnect(r) \/ OrderStep(r)
           \/ CatalogStep
           \/ OrderCrash
  <2>1. UNCHANGED <<gatewayVars, abandoned>>
    BY <1>3 DEF Deliver, Disconnect, OrderStep, CatalogStep, OrderCrash
  <2>2. Edge!TypeOK'
    BY <2>1 DEF FInv, Edge!TypeOK, gatewayVars
  <2> QED
    BY <1>1, <1>3, <2>1, <2>2, OrdersMoveSound DEF FInv
<1>4. CASE WindowStep \/ UNCHANGED vars
  <2>1. UNCHANGED <<at, sent, answer, abandoned, pc, reply>> /\ hits' \in 0 .. RateLimit
    BY <1>4, StorefrontAssumption
       DEF WindowStep, Edge!NewWindow, vars, gatewayVars, orderVars, FInv, Edge!TypeOK,
           Edge!GatewayAssumption
  <2> QED
    BY <1>1, <2>1 DEF FInv, Edge!TypeOK, ClickSound, Current
<1> QED
  BY <1>2, <1>3, <1>4 DEF Next

LEMMA Invariant == Spec => []FInv
BY InitFInv, StepFInv, PTL DEF Spec

-----------------------------------------------------------------------------
(***************************************************************************)
(* The theorems.                                                           *)
(***************************************************************************)

\* An attempt that was answered has stored nothing by the time it is retried:
\* what a click stores twice is stored by attempts that were given up.
THEOREM DuplicatesAreLost == Spec => []OnlyLostAnswersDuplicate
<1>1. FInv => OnlyLostAnswersDuplicate
  <2> SUFFICES ASSUME FInv, NEW c \in Clicks, NEW n \in 1 .. sent[c] - 1, Stored(<<c, n>>)
               PROVE  <<c, n>> \in abandoned
    BY DEF OnlyLostAnswersDuplicate
  <2>1. n \in 1 .. sent[c]
    BY StorefrontAssumption DEF FInv, Edge!TypeOK, Edge!GatewayAssumption
  <2>2. <<c, n>> \in Requests
    BY <2>1, AttemptIsRequest
  <2>3. reply[<<c, n>>] # "502"
    BY <2>2 DEF FInv, OP!IInv, OP!CallSound, OP!AnswerSound, Stored
  <2> QED
    BY <2>3 DEF FInv, ClickSound
<1> QED
  BY <1>1, Invariant, PTL

\* A client is told of the order of its last attempt, and a click that was
\* turned away reached nobody.
THEOREM ClicksAreToldTheTruth == Spec => []AnswersAgreeWithOrders
<1>1. FInv => AnswersAgreeWithOrders
  <2> SUFFICES ASSUME FInv, NEW c \in Clicks
               PROVE  /\ answer[c] = "201" => table[Current(c)].status \in {"PENDING", "CONFIRMED"}
                      /\ answer[c] = "402" => table[Current(c)].status \in {"PENDING", "FAILED"}
                      /\ answer[c] \in {"400", "404", "409"} /\ sent[c] > 0 => ~Stored(Current(c))
                      /\ sent[c] = 0 => \A r \in Requests : r[1] = c => pc[r] = "unsent"
    BY DEF AnswersAgreeWithOrders
  <2>1. sent[c] \in Nat /\ ClickSound(c)
    BY StorefrontAssumption DEF FInv, Edge!TypeOK, Edge!GatewayAssumption
  <2>2. sent[c] >= 1 => Current(c) \in Requests
    BY <2>1, AttemptIsRequest DEF Current
  <2>3. sent[c] = 0 => \A r \in Requests : r[1] = c => pc[r] = "unsent"
    <3>1. \A q \in Clicks \X (1 .. GatewayRetries + 1) : q[2] > 0
      BY StorefrontAssumption DEF Edge!GatewayAssumption
    <3> QED
      BY <2>1, <3>1 DEF ClickSound, Requests
  <2> QED
    BY <2>1, <2>2, <2>3
       DEF FInv, ClickSound, OP!IInv, OP!CallSound, OP!AnswerSound, Stored
<1> QED
  BY <1>1, Invariant, PTL
=============================================================================
