---------------------------- MODULE CheckoutProofs ----------------------------
(***************************************************************************)
(* Proofs about Checkout, for every set of calls, every catalog, both      *)
(* gateway modes, all retry counts and every choice of faults.  They stand *)
(* on the inductive invariants of the two services.                        *)
(***************************************************************************)
EXTENDS Checkout, TLAPS

\* Each service as its own proofs see it.  To order-service an answer of
\* payment-service may always be a failure; to payment-service its caller may
\* always hang up.
OP == INSTANCE OrderServiceProofs WITH
    pc     <- opc,
    reply  <- oreply,
    Flaky  <- Flaky \cup {"charge"},
    Faults <- OrderFaults

PP == INSTANCE PaymentServiceProofs WITH
    Keys          <- Calls,
    Header        <- [r \in Requests |-> r[1]],
    OrderId       <- [r \in Requests |-> r[1]],
    BadModel      <- {},
    Malformed     <- {},
    Declines      <- {r \in Requests : r[1] \in TooExpensive},
    RetryAttempts <- GatewayRetries,
    Faults        <- PaymentFaults \cup {"hangup"},
    pc            <- ppc,
    reply         <- preply

LEMMA Assumptions ==
    /\ OP!CallsAssumption /\ OP!CatalogAssumption /\ OP!RetryAssumption
    /\ PP!KeysAssumption /\ PP!GatewayAssumption /\ PP!FaultsAssumption
BY CheckoutAssumption
   DEF Orders!CallsAssumption, Orders!CatalogAssumption, Orders!RetryAssumption,
       OP!CallsAssumption, OP!CatalogAssumption, OP!RetryAssumption,
       Orders!Listing, OP!Listing,
       Payments!KeysAssumption, Payments!GatewayAssumption,
       PP!KeysAssumption, PP!GatewayAssumption, PP!FaultsAssumption

-----------------------------------------------------------------------------
(***************************************************************************)
(* The steps of Checkout are steps of the two services.                    *)
(***************************************************************************)
LEMMA OrderActions ==
    ASSUME NEW c \in Calls
    PROVE  /\ Orders!Place(c) => OP!Place(c)
           /\ Orders!LocalStep(c) => OP!LocalStep(c)
           /\ Orders!LocalFailure(c) => OP!LocalFailure(c)
           /\ Orders!Disconnect(c) => OP!Disconnect(c)
           /\ Orders!AttemptFailed(c) => OP!AttemptFailed(c)
           /\ Orders!ChargeBodyLost(c) => OP!ChargeBodyLost(c)
           /\ \A code : Orders!ChargeAnswered(c, code) => OP!ChargeAnswered(c, code)
<1> USE DEF Orders!At, OP!At, Orders!GoTo, OP!GoTo, Orders!Finish, OP!Finish,
            Orders!Conclude, OP!Conclude, Orders!Answer, OP!Answer
<1>1. Orders!Place(c) => OP!Place(c)
  BY DEF Orders!Place, OP!Place
<1>2. Orders!LocalStep(c) => OP!LocalStep(c)
  <2>1. Orders!VerifyUser(c) => OP!VerifyUser(c)
    BY DEF Orders!VerifyUser, OP!VerifyUser
  <2>2. Orders!ItemRefused(c) => OP!ItemRefused(c)
    BY DEF Orders!ItemRefused, OP!ItemRefused, Orders!Current, OP!Current,
           Orders!Available, OP!Available
  <2>3. Orders!ItemPriced(c) => OP!ItemPriced(c)
    BY DEF Orders!ItemPriced, OP!ItemPriced, Orders!Current, OP!Current,
           Orders!Available, OP!Available
  <2>4. Orders!Persist(c) => OP!Persist(c)
    BY DEF Orders!Persist, OP!Persist, Orders!Pending, OP!Pending
  <2>5. Orders!UpdateStatus(c) => OP!UpdateStatus(c)
    BY DEF Orders!UpdateStatus, OP!UpdateStatus
  <2> QED
    BY <2>1, <2>2, <2>3, <2>4, <2>5 DEF Orders!LocalStep, OP!LocalStep
<1>3. Orders!AttemptFailed(c) => OP!AttemptFailed(c)
  BY DEF Orders!AttemptFailed, OP!AttemptFailed, Orders!Retry, OP!Retry,
         Orders!GiveUp, OP!GiveUp, Orders!Upstream, OP!Upstream
<1>4. Orders!LocalFailure(c) => OP!LocalFailure(c)
  <2>1. Orders!PersistFails(c) => OP!PersistFails(c)
    BY DEF Orders!PersistFails, OP!PersistFails, Orders!Pending, OP!Pending,
           Orders!DatabaseMayFail, OP!DatabaseMayFail
  <2>2. Orders!UpdateFails(c) => OP!UpdateFails(c)
    BY DEF Orders!UpdateFails, OP!UpdateFails, Orders!DatabaseMayFail, OP!DatabaseMayFail
  <2>3. Orders!UpstreamError(c) => OP!UpstreamError(c)
    BY DEF Orders!UpstreamError, OP!UpstreamError
  <2>4. Orders!MayFail(c) => OP!MayFail(c)
    BY DEF Orders!MayFail, OP!MayFail
  <2> QED
    BY <1>3, <2>1, <2>2, <2>3, <2>4 DEF Orders!LocalFailure, OP!LocalFailure
<1>5. Orders!Disconnect(c) => OP!Disconnect(c)
  BY DEF Orders!Disconnect, OP!Disconnect, Orders!Working, OP!Working,
         Orders!Upstream, OP!Upstream
<1>6. Orders!ChargeBodyLost(c) => OP!ChargeBodyLost(c)
  BY DEF Orders!ChargeBodyLost, OP!ChargeBodyLost
<1>7. \A code : Orders!ChargeAnswered(c, code) => OP!ChargeAnswered(c, code)
  BY DEF Orders!ChargeAnswered, OP!ChargeAnswered
<1> QED
  BY <1>1, <1>2, <1>3, <1>4, <1>5, <1>6, <1>7

LEMMA PaymentActions ==
    ASSUME NEW r \in Requests
    PROVE  /\ Payments!Send(r) => PP!Send(r)
           /\ Payments!Handler(r) => PP!Handler(r)
           /\ Payments!LateCapture(r) => PP!LateCapture(r)
           /\ Payments!Cancelled(r) => PP!Cancelled(r)
           /\ Payments!DbFailure(r) => PP!DbFailure(r)
<1> USE DEF Payments!At, PP!At, Payments!GoTo, PP!GoTo, Payments!Finish, PP!Finish,
            Payments!RowsFor, PP!RowsFor, Payments!IdempotencyKey, PP!IdempotencyKey,
            Payments!IndexAdmits, PP!IndexAdmits, Payments!StatusCode, PP!StatusCode
<1>1. Payments!Send(r) => PP!Send(r)
  BY DEF Payments!Send, PP!Send
<1>2. Payments!Replay(r) => PP!Replay(r)
  BY DEF Payments!Replay, PP!Replay
<1>3. /\ Payments!LookupMiss(r) => PP!LookupMiss(r)
      /\ Payments!Insert(r) => PP!Insert(r)
      /\ Payments!InsertConflict(r) => PP!InsertConflict(r)
  BY DEF Payments!LookupMiss, PP!LookupMiss, Payments!Insert, PP!Insert,
         Payments!InsertConflict, PP!InsertConflict
<1>4. Payments!Charge(r) => PP!Charge(r)
  <2> USE DEF Payments!Decide, PP!Decide, Payments!Capture, PP!Capture,
              Payments!GiveUpCall, PP!GiveUpCall
  <2>1. Payments!SimulatedCharge(r) => PP!SimulatedCharge(r)
    BY DEF Payments!SimulatedCharge, PP!SimulatedCharge
  <2>2. /\ Payments!LiveVerdict(r) => PP!LiveVerdict(r)
        /\ Payments!LiveEmptyBody(r) => PP!LiveEmptyBody(r)
        /\ Payments!LiveUnavailable(r) => PP!LiveUnavailable(r)
        /\ Payments!LiveUnreadableBody(r) => PP!LiveUnreadableBody(r)
    BY DEF Payments!LiveVerdict, PP!LiveVerdict, Payments!LiveEmptyBody, PP!LiveEmptyBody,
           Payments!LiveUnavailable, PP!LiveUnavailable,
           Payments!LiveUnreadableBody, PP!LiveUnreadableBody
  <2>3. Payments!LiveTransientError(r) => PP!LiveTransientError(r)
    BY DEF Payments!LiveTransientError, PP!LiveTransientError
  <2> QED
    BY <2>1, <2>2, <2>3 DEF Payments!Charge, PP!Charge
<1>5. Payments!Record(r) => PP!Record(r)
  BY DEF Payments!Record, PP!Record
<1>6. Payments!Cancelled(r) => PP!Cancelled(r)
  BY DEF Payments!Cancelled, PP!Cancelled, Payments!Awaiting, PP!Awaiting
<1>7. Payments!DbFailure(r) => PP!DbFailure(r)
  BY DEF Payments!DbFailure, PP!DbFailure
<1>8. Payments!LateCapture(r) => PP!LateCapture(r)
  BY DEF Payments!LateCapture, PP!LateCapture, Payments!Chargeable, PP!Chargeable,
         Payments!Capture, PP!Capture
<1> QED
  BY <1>1, <1>2, <1>3, <1>4, <1>5, <1>6, <1>7, <1>8 DEF Payments!Handler, PP!Handler

LEMMA Crashes ==
    /\ Orders!Crash => OP!Crash
    /\ Payments!Crash => PP!Crash
BY DEF Orders!Crash, OP!Crash, Orders!Stop, OP!Stop, Orders!Working, OP!Working,
       Orders!Upstream, OP!Upstream,
       Payments!Crash, PP!Crash, Payments!InFlight, PP!InFlight, Payments!Awaiting, PP!Awaiting

-----------------------------------------------------------------------------
(***************************************************************************)
(* The invariant: those of the services, and what connects their tables.   *)
(***************************************************************************)

\* An order counts as confirmed only on the word of a row of its key, and
\* payment-service hears of an order only after it was stored.
BooksConnected ==
    \A c \in Calls :
        /\ \/ final[c] = "CONFIRMED"
           \/ table[c].status = "CONFIRMED"
           \/ oreply[c] = "201"
           => Paid(c)
        /\ \A r \in Requests : r[1] = c /\ ppc[r] # "unsent" => table[c].status # "absent"

PInv == PP!IInv /\ PP!AnswersAreLast

CInv == OP!IInv /\ PInv /\ BooksConnected

LEMMA RequestTyped == OP!IInv => \A c \in Calls : Request(c) \in Requests
BY DEF OP!IInv, OP!TypeOK, Request, Requests

LEMMA ChargeCodes ==
    ASSUME CInv, NEW c \in Calls, ChargeAnswered(c)
    PROVE  /\ preply[Request(c)] \in {"200", "400", "402", "500"}
           /\ OP!ChargeAnswered(c, preply[Request(c)])
<1>1. Request(c) \in Requests
  BY RequestTyped DEF CInv
<1>2. preply[Request(c)] # "none"
  BY <1>1 DEF ChargeAnswered, CInv, PInv, PP!AnswersAreLast
<1> QED
  BY <1>1, <1>2, OrderActions
     DEF ChargeAnswered, CInv, PInv, PP!IInv, PP!TypeOK, PP!HttpCodes

\* What every step of Checkout is to order-service.
LEMMA OrderSide ==
    ASSUME CInv, [Next]_vars
    PROVE  [OP!Next]_(OP!vars)
<1>1. ASSUME NEW c \in Calls, CallerStep(c) \/ OrderStep(c)
      PROVE  OP!Next
  BY <1>1, OrderActions DEF CallerStep, OrderStep, OP!Next
<1>2. ASSUME NEW c \in Calls, ChargeRetried(c) \/ AttemptAbandoned(c)
      PROVE  OP!Next
  BY <1>2, OrderActions
     DEF ChargeRetried, AttemptAbandoned, OP!Next, OP!AnyCharge, OP!MayFail, Orders!At
<1>3. ASSUME NEW c \in Calls, ChargeAnswered(c)
      PROVE  OP!Next
  BY <1>3, ChargeCodes DEF OP!Next, OP!AnyCharge
<1>4. ASSUME NEW c \in Calls, ChargeBodyLost(c)
      PROVE  OP!Next
  BY <1>4, OrderActions DEF ChargeBodyLost, OP!Next, OP!AnyCharge
<1>5. CASE CatalogStep
  BY <1>5 DEF CatalogStep, OP!Next, Orders!EditProduct, OP!EditProduct
<1>6. CASE OrderCrash
  BY <1>6, Crashes DEF OrderCrash, OP!Next
<1>7. UNCHANGED orderVars => UNCHANGED OP!vars
  BY DEF orderVars, OP!vars
<1>8. \/ \E c \in Calls : PostCharge(c)
      \/ \E r \in Requests : PaymentStep(r)
      \/ PaymentCrash
      \/ UNCHANGED vars
      => UNCHANGED orderVars
  BY DEF PostCharge, PaymentStep, PaymentCrash, vars
<1> QED
  BY <1>1, <1>2, <1>3, <1>4, <1>5, <1>6, <1>7, <1>8 DEF Next

\* A step that changes nothing of payment-service but whom it believes gone.
OnlyHangUps ==
    /\ UNCHANGED <<ppc, row, decision, unheard, captured, preply>>
    /\ aborted' \in SUBSET Requests

LEMMA PaymentSide ==
    ASSUME CInv, [Next]_vars
    PROVE  PP!Next \/ OnlyHangUps
<1>1. ASSUME NEW c \in Calls, PostCharge(c)
      PROVE  PP!Next
  <2>1. Request(c) \in Requests
    BY RequestTyped DEF CInv
  <2> QED
    BY <1>1, <2>1, PaymentActions DEF PostCharge, PP!Next
<1>2. ASSUME NEW r \in Requests, PaymentStep(r)
      PROVE  PP!Next
  BY <1>2, PaymentActions DEF PaymentStep, PP!Next
<1>3. CASE PaymentCrash
  BY <1>3, Crashes DEF PaymentCrash, PP!Next
<1>4. aborted \in SUBSET Requests
  BY DEF CInv, PInv, PP!IInv, PP!TypeOK
<1>5. UNCHANGED paymentVars => OnlyHangUps
  BY <1>4 DEF paymentVars, OnlyHangUps
<1>6. ASSUME NEW c \in Calls, AttemptAbandoned(c)
      PROVE  OnlyHangUps
  <2>1. Request(c) \in Requests
    BY RequestTyped DEF CInv
  <2> QED
    BY <1>4, <1>6, <2>1 DEF AttemptAbandoned, OnlyHangUps
<1>7. CASE OrderCrash
  BY <1>4, <1>7 DEF OrderCrash, OnlyHangUps
<1>8. ASSUME NEW c \in Calls,
             \/ CallerStep(c) \/ OrderStep(c) \/ ChargeAnswered(c) \/ ChargeRetried(c)
             \/ ChargeBodyLost(c)
      PROVE  OnlyHangUps
  BY <1>5, <1>8 DEF CallerStep, OrderStep, ChargeAnswered, ChargeRetried, ChargeBodyLost
<1>9. CatalogStep \/ UNCHANGED vars => UNCHANGED paymentVars
  BY DEF CatalogStep, vars
<1> QED
  BY <1>1, <1>2, <1>3, <1>5, <1>6, <1>7, <1>8, <1>9 DEF Next

LEMMA PaymentsKeep == CInv /\ [Next]_vars => PInv'
<1> SUFFICES ASSUME CInv, [Next]_vars
             PROVE  PInv'
  OBVIOUS
<1>1. CASE PP!Next
  BY <1>1, Assumptions, PP!TypeStep, PP!HandlerInvariantStep, PP!AnswersAreLastStep
     DEF CInv, PInv, PP!IInv
<1>2. CASE OnlyHangUps
  BY <1>2 DEF OnlyHangUps, CInv, PInv, PP!IInv, PP!TypeOK, PP!HandlerInvariant,
              PP!AnswersAreLast, PP!OneOwnerPerKey, PP!CapturesAreBooked,
              PP!AnswersAgreeWithBooks, PP!MoneyAccounted, PP!Chargeable, PP!Owns, PP!SameKey,
              PP!IdempotencyKey
<1> QED
  BY <1>1, <1>2, PaymentSide

LEMMA OrdersKeep == CInv /\ [Next]_vars => OP!IInv'
BY Assumptions, OrderSide, OP!StepIInv DEF CInv

-----------------------------------------------------------------------------
(***************************************************************************)
(* The inductive step of BooksConnected.                                   *)
(***************************************************************************)

\* A payment that succeeded stays so, and a request that was sent stays sent.
LEMMA PaymentsLast ==
    ASSUME CInv, [Next]_vars, NEW r \in Requests
    PROVE  /\ row[r] = "Succeeded" => row'[r] = "Succeeded"
           /\ ppc[r] # "unsent" => ppc'[r] # "unsent"
<1>1. CASE PP!Next
  BY <1>1, Assumptions, PP!SettledRowsStay DEF CInv, PInv, PP!Settled
<1>2. CASE OnlyHangUps
  BY <1>2 DEF OnlyHangUps
<1> QED
  BY <1>1, <1>2, PaymentSide

\* Only an attempt to charge an order sends a charge request.
LEMMA OnlyAttemptsSend ==
    ASSUME CInv, [Next]_vars, NEW r \in Requests, ppc[r] = "unsent", ppc'[r] # "unsent"
    PROVE  \E c \in Calls : PostCharge(c) /\ r = Request(c)
<1>1. ppc \in [Requests -> PP!Awaiting \cup {"unsent", "done"}]
  BY DEF CInv, PInv, PP!IInv, PP!TypeOK
<1>2. ASSUME NEW q \in Requests, PaymentStep(q)
      PROVE  FALSE
  <2>1. CASE PP!LateCapture(q)
    BY <2>1 DEF PP!LateCapture
  <2>2. CASE PP!Handler(q) \/ PP!Cancelled(q) \/ PP!DbFailure(q)
    <3>1. /\ ppc[q] # "unsent"
          /\ ppc' = ppc \/ \E label : ppc' = [ppc EXCEPT ![q] = label]
      BY <2>2 DEF PP!Handler, PP!Replay, PP!LookupMiss, PP!Insert, PP!InsertConflict, PP!Charge,
                  PP!SimulatedCharge, PP!LiveVerdict, PP!LiveEmptyBody, PP!LiveTransientError,
                  PP!LiveUnavailable, PP!LiveUnreadableBody, PP!Record, PP!Cancelled, PP!DbFailure,
                  PP!Decide, PP!GoTo, PP!Finish, PP!At, PP!Awaiting
    <3> QED
      BY <1>1, <3>1
  <2> QED
    BY <1>2, <2>1, <2>2, PaymentActions DEF PaymentStep
<1>3. ~PaymentCrash
  BY Crashes DEF PaymentCrash, PP!Crash, PP!InFlight, PP!Awaiting
<1>4. ASSUME NEW c \in Calls, PostCharge(c)
      PROVE  r = Request(c)
  <2>1. PP!Send(Request(c))
    BY <1>4, RequestTyped, PaymentActions DEF PostCharge, CInv
  <2> QED
    BY <1>1, <2>1 DEF PP!Send, PP!GoTo, PP!Finish
<1>5. ASSUME \/ \E c \in Calls : \/ CallerStep(c) \/ OrderStep(c) \/ ChargeAnswered(c)
                                 \/ ChargeRetried(c) \/ AttemptAbandoned(c) \/ ChargeBodyLost(c)
             \/ CatalogStep \/ OrderCrash \/ UNCHANGED vars
      PROVE  FALSE
  BY <1>5 DEF CallerStep, OrderStep, ChargeAnswered, ChargeRetried, AttemptAbandoned,
              ChargeBodyLost, CatalogStep, OrderCrash, vars, paymentVars
<1> QED
  BY <1>2, <1>3, <1>4, <1>5 DEF Next

\* An order counts as confirmed only when payment-service says 200, and it
\* says so only of a row of the order's key.
LEMMA ConfirmedOnPayment ==
    ASSUME CInv, [Next]_vars, NEW c \in Calls, final'[c] = "CONFIRMED"
    PROVE  final[c] = "CONFIRMED" \/ Paid(c)
<1>1. ASSUME NEW d \in Calls, ChargeAnswered(d), final[c] # "CONFIRMED"
      PROVE  Paid(c)
  <2>1. OP!ChargeAnswered(d, preply[Request(d)])
    BY <1>1, ChargeCodes
  <2>2. final \in [Calls -> {"none", "CONFIRMED", "FAILED"}]
    BY DEF CInv, OP!IInv, OP!TypeOK
  <2>3. c = d /\ preply[Request(c)] = "200"
    BY <1>1, <2>1, <2>2 DEF OP!ChargeAnswered, OP!Conclude
  <2>4. Request(c) \in Requests /\ Request(c)[1] = c
    BY RequestTyped DEF CInv, Request
  <2>5. PICK s \in Requests : PP!SameKey(Request(c), s) /\ row[s] = "Succeeded"
    BY <2>3, <2>4 DEF CInv, PInv, PP!IInv, PP!HandlerInvariant, PP!AnswersAgreeWithBooks
  <2>6. s[1] = c
    BY <2>4, <2>5 DEF PP!SameKey, PP!IdempotencyKey
  <2> QED
    BY <2>5, <2>6 DEF Paid
<1>2. ASSUME NEW d \in Calls, CallerStep(d) \/ OrderStep(d) \/ ChargeRetried(d)
                              \/ AttemptAbandoned(d) \/ ChargeBodyLost(d)
      PROVE  final[c] = "CONFIRMED"
  BY <1>2, Assumptions, OrderActions, OP!FinalKept
     DEF CallerStep, OrderStep, ChargeRetried, AttemptAbandoned, ChargeBodyLost, CInv
<1>3. ASSUME \/ \E d \in Calls : PostCharge(d)
             \/ \E r \in Requests : PaymentStep(r)
             \/ CatalogStep \/ OrderCrash \/ PaymentCrash \/ UNCHANGED vars
      PROVE  final[c] = "CONFIRMED"
  BY <1>3 DEF PostCharge, PaymentStep, CatalogStep, OrderCrash, PaymentCrash, vars, orderVars,
              Orders!EditProduct, Orders!Crash, Orders!Stop
<1> QED
  BY <1>1, <1>2, <1>3 DEF Next

LEMMA BooksConnectedStep == CInv /\ [Next]_vars => BooksConnected'
<1> SUFFICES ASSUME CInv, [Next]_vars, NEW c \in Calls
             PROVE  /\ \/ final'[c] = "CONFIRMED"
                       \/ table'[c].status = "CONFIRMED"
                       \/ oreply'[c] = "201"
                       => Paid(c)'
                    /\ \A r \in Requests :
                          r[1] = c /\ ppc'[r] # "unsent" => table'[c].status # "absent"
  BY DEF BooksConnected
<1>1. Paid(c) => Paid(c)'
  BY PaymentsLast DEF Paid
<1>2. final'[c] = "CONFIRMED" => Paid(c)
  BY ConfirmedOnPayment DEF CInv, BooksConnected
<1>3. table'[c].status = "CONFIRMED" \/ oreply'[c] = "201" => Paid(c)
  BY Assumptions, OrderSide, OP!OutcomesHaveCauses DEF CInv, BooksConnected
<1>4. ASSUME NEW r \in Requests, r[1] = c, ppc'[r] # "unsent"
      PROVE  table'[c].status # "absent"
  <2>1. table[c].status # "absent" => table'[c].status # "absent"
    BY Assumptions, OrderSide, OP!OutcomesHaveCauses DEF CInv
  <2>2. CASE ppc[r] # "unsent"
    BY <1>4, <2>1, <2>2 DEF CInv, BooksConnected
  <2>3. CASE ppc[r] = "unsent"
    <3>1. PICK d \in Calls : PostCharge(d) /\ r = Request(d)
      BY <1>4, <2>3, OnlyAttemptsSend
    <3>2. d = c /\ opc[c] = "charge"
      BY <1>4, <3>1 DEF Request, PostCharge, Orders!At
    <3> QED
      BY <2>1, <3>2 DEF CInv, OP!IInv, OP!CallSound, OP!StageSound
  <2> QED
    BY <2>2, <2>3
<1> QED
  BY <1>1, <1>2, <1>3, <1>4

-----------------------------------------------------------------------------
(***************************************************************************)
(* The theorems.                                                           *)
(***************************************************************************)
LEMMA InitCInv == Init => CInv
<1> SUFFICES ASSUME Init
             PROVE  CInv
  OBVIOUS
<1>1. OP!IInv
  <2>1. OP!Init
    BY DEF Init, Orders!Init, OP!Init, Orders!EmptyOrder, OP!EmptyOrder, Orders!NoRow, OP!NoRow
  <2> QED
    BY <2>1, Assumptions, OP!InitIInv
<1>2. PInv
  <2>1. PP!Init
    BY DEF Init, Payments!Init, PP!Init
  <2>2. PP!IInv
    BY <2>1, Assumptions, PP!InitIInv
  <2> QED
    BY <2>1, <2>2 DEF PInv, PP!AnswersAreLast, PP!Init
<1>3. BooksConnected
  BY DEF Init, Orders!Init, Orders!NoRow, Payments!Init, BooksConnected
<1> QED
  BY <1>1, <1>2, <1>3 DEF CInv

LEMMA CInvStep == CInv /\ [Next]_vars => CInv'
BY OrdersKeep, PaymentsKeep, BooksConnectedStep DEF CInv

LEMMA Invariant == Spec => []CInv
BY InitCInv, CInvStep, PTL DEF Spec

\* Whichever attempt, replay or late answer confirmed an order, its money was
\* taken and its payment has succeeded.
THEOREM ConfirmationsArePaid == Spec => []ConfirmedOrdersArePaid
<1>1. CInv => ConfirmedOrdersArePaid
  BY DEF CInv, PInv, PP!IInv, PP!HandlerInvariant, BooksConnected, ConfirmedOrdersArePaid,
         Charged, Paid
<1> QED
  BY <1>1, Invariant, PTL

\* Money is only ever taken for an order that the database has.
THEOREM ChargesHaveOrders == Spec => []ChargedOrdersExist
<1>1. CInv => ChargedOrdersExist
  BY DEF CInv, PInv, PP!IInv, PP!HandlerInvariant, PP!CapturesAreBooked, PP!Owns,
         BooksConnected, ChargedOrdersExist, Charged
<1> QED
  BY <1>1, Invariant, PTL

LEMMA SimulatedKept ==
    ASSUME Live = {}, CInv, PP!SimulatedSound, [Next]_vars
    PROVE  PP!SimulatedSound'
<1>1. CASE PP!Next
  BY <1>1, Assumptions, PP!SimulatedStep DEF CInv, PInv
<1>2. CASE OnlyHangUps
  BY <1>2 DEF OnlyHangUps, PP!SimulatedSound
<1> QED
  BY <1>1, <1>2, PaymentSide

\* What a settled payment says of the money of an order is true, whichever
\* attempt was given up, as long as the gateway is the simulated one.
THEOREM SettledPaymentsAreTrue ==
    ASSUME Live = {}
    PROVE  Spec => []SettledRowsTellTheTruth
<1>1. Init => PP!SimulatedSound
  BY DEF Init, Payments!Init, PP!SimulatedSound, PP!Settled
<1>2. CInv /\ PP!SimulatedSound /\ [Next]_vars => PP!SimulatedSound'
  BY SimulatedKept
<1>3. PP!SimulatedSound => SettledRowsTellTheTruth
  BY DEF PP!SimulatedSound, PP!Settled, SettledRowsTellTheTruth,
         Payments!SettledRowsTellTheTruth, Payments!Settled
<1> QED
  BY <1>1, <1>2, <1>3, Invariant, PTL DEF Spec

\* Every behaviour of the two services together is one that OrderService
\* allows to order-service alone, once its charges may fail: a 502 of
\* payment-service and a dropped connection are such failures.
THEOREM OrdersImplemented ==
    ASSUME "charge" \in Flaky
    PROVE  Spec => RefinesOrderService
<1>1. Init => Orders!Init
  BY DEF Init
<1>2. CInv /\ [Next]_vars => [Orders!Next]_(Orders!vars)
  <2> SUFFICES ASSUME CInv, [Next]_vars
               PROVE  [Orders!Next]_(Orders!vars)
    OBVIOUS
  <2>1. ASSUME NEW c \in Calls, CallerStep(c) \/ OrderStep(c)
        PROVE  Orders!Next
    BY <2>1 DEF CallerStep, OrderStep, Orders!Next
  <2>2. ASSUME NEW c \in Calls, ChargeAnswered(c)
        PROVE  Orders!Next
    BY <2>2, ChargeCodes DEF ChargeAnswered, Orders!Next, Orders!AnyCharge
  <2>3. ASSUME NEW c \in Calls, ChargeRetried(c) \/ AttemptAbandoned(c)
        PROVE  Orders!Next
    BY <2>3 DEF ChargeRetried, AttemptAbandoned, Orders!Next, Orders!AnyCharge, Orders!MayFail,
                Orders!At
  <2>4. ASSUME NEW c \in Calls, ChargeBodyLost(c)
        PROVE  Orders!Next
    BY <2>4 DEF ChargeBodyLost, Orders!Next, Orders!AnyCharge
  <2>5. CatalogStep \/ OrderCrash => Orders!Next
    BY DEF CatalogStep, OrderCrash, Orders!Next
  <2>6. \/ \E c \in Calls : PostCharge(c)
        \/ \E r \in Requests : PaymentStep(r)
        \/ PaymentCrash
        \/ UNCHANGED vars
        => UNCHANGED Orders!vars
    BY DEF PostCharge, PaymentStep, PaymentCrash, vars, orderVars, Orders!vars
  <2> QED
    BY <2>1, <2>2, <2>3, <2>4, <2>5, <2>6 DEF Next
<1> QED
  BY <1>1, <1>2, Invariant, PTL DEF Spec, RefinesOrderService, Orders!Spec

-----------------------------------------------------------------------------
(***************************************************************************)
(* Without faults, and with the simulated gateway, the books agree.        *)
(***************************************************************************)
FaultsOff == Flaky = {} /\ OrderFaults = {} /\ PaymentFaults = {} /\ Live = {}

First(c) == <<c, 0>>

\* Only first attempts are made, and each ends in a verdict.
RequestCalm(r) ==
    /\ ppc[r] # "unsent" => r[2] = 0
    /\ ppc[r] = "record" => decision[r] \in {"Succeeded", "Declined"}
    /\ ppc[r] = "done" => <<row[r], preply[r]>> \in {<<"Succeeded", "200">>, <<"Declined", "402">>}

\* A call is over when its payment is, and says the same.
CallCalm(c) ==
    /\ attempt[c] = 0
    /\ opc[c] \in {"unsent", "verify", "product", "persist"} => ppc[First(c)] = "unsent"
    /\ opc[c] = "update" =>
          /\ ppc[First(c)] = "done"
          /\ final[c] = IF preply[First(c)] = "200" THEN "CONFIRMED" ELSE "FAILED"
    /\ opc[c] = "done" =>
          \/ ppc[First(c)] = "unsent" /\ table[c].status = "absent"
          \/ /\ ppc[First(c)] = "done"
             /\ table[c].status = IF preply[First(c)] = "200" THEN "CONFIRMED" ELSE "FAILED"

Calm ==
    /\ gone = {} /\ aborted = {}
    /\ \A r \in Requests : RequestCalm(r)
    /\ \A c \in Calls : CallCalm(c)

LEMMA FirstIsRequest ==
    /\ \A c \in Calls : First(c) \in Requests
    /\ \A r \in Requests : r[2] = 0 => r = First(r[1])
BY CheckoutAssumption DEF Requests, First, Orders!RetryAssumption

\* With one request per key a handler never meets the row of another.
LEMMA NothingToReplay ==
    ASSUME CInv, Calm, NEW r \in Requests, ppc[r] \in {"lookup", "insert"}
    PROVE  PP!RowsFor(PP!IdempotencyKey(r)) = {}
<1> SUFFICES ASSUME NEW s \in Requests, row[s] # "absent",
                    PP!IdempotencyKey(s) = PP!IdempotencyKey(r)
             PROVE  FALSE
  BY DEF PP!RowsFor
<1>1. ppc[s] # "unsent" /\ ~(ppc[s] \in {"lookup", "insert"})
  BY DEF CInv, PInv, PP!IInv, PP!HandlerInvariant, PP!Owns
<1>2. s[2] = 0 /\ r[2] = 0
  BY <1>1 DEF Calm, RequestCalm
<1>3. s[1] = r[1]
  <2>1. NoHeader \notin Calls
    BY CheckoutAssumption DEF Payments!KeysAssumption
  <2>2. r[1] \in Calls /\ s[1] \in Calls
    <3>1. \A q \in Calls \X (0 .. RetryAttempts) : q[1] \in Calls
      OBVIOUS
    <3> QED
      BY <3>1 DEF Requests
  <2> QED
    BY <2>1, <2>2 DEF PP!IdempotencyKey
<1>4. s = r
  BY <1>2, <1>3, FirstIsRequest
<1> QED
  BY <1>1, <1>4

\* The simulated gateway captures while the handler waits for it, or never.
LEMMA NothingLate ==
    ASSUME CInv, PP!SimulatedSound, NEW r \in Requests
    PROVE  ~PP!LateCapture(r)
BY DEF CInv, PInv, PP!IInv, PP!TypeOK, PP!SimulatedSound, PP!LateCapture, PP!Chargeable

\* What a step of payment-service is then.
LEMMA CalmPaymentStep ==
    ASSUME FaultsOff, CInv, Calm, PP!SimulatedSound, NEW r \in Requests, PaymentStep(r)
    PROVE  /\ UNCHANGED <<orderVars, aborted>>
           /\ ppc[r] \notin {"unsent", "done"}
           /\ \/ /\ \E label \in {"insert", "charge"} : ppc' = [ppc EXCEPT ![r] = label]
                 /\ row' = row \/ row' = [row EXCEPT ![r] = "Pending"]
                 /\ UNCHANGED <<decision, preply>>
              \/ /\ ppc' = [ppc EXCEPT ![r] = "record"]
                 /\ \E d \in {"Succeeded", "Declined"} : decision' = [decision EXCEPT ![r] = d]
                 /\ UNCHANGED <<row, preply>>
              \/ /\ ppc[r] = "record"
                 /\ ppc' = [ppc EXCEPT ![r] = "done"]
                 /\ row' = [row EXCEPT ![r] = decision[r]]
                 /\ preply' = [preply EXCEPT ![r] =
                                 IF decision[r] = "Succeeded" THEN "200" ELSE "402"]
                 /\ UNCHANGED decision
<1>1. PP!Handler(r)
  <2>1. ~Payments!Cancelled(r) /\ ~Payments!DbFailure(r) /\ ~Payments!LateCapture(r)
    BY NothingLate, PaymentActions DEF Payments!Cancelled, Payments!DbFailure, Calm, FaultsOff
  <2> QED
    BY <2>1, PaymentActions DEF PaymentStep
<1>2. UNCHANGED orderVars
  BY DEF PaymentStep
<1>3. ~PP!Replay(r) /\ ~PP!InsertConflict(r)
  BY NothingToReplay DEF PP!Replay, PP!InsertConflict, PP!IndexAdmits, PP!At
<1>4. CASE PP!LookupMiss(r) \/ PP!Insert(r)
  BY <1>2, <1>4 DEF PP!LookupMiss, PP!Insert, PP!At, PP!GoTo
<1>5. CASE PP!Charge(r)
  <2>1. PP!SimulatedCharge(r)
    BY <1>5 DEF FaultsOff, PP!Charge, PP!LiveVerdict, PP!LiveEmptyBody, PP!LiveTransientError,
                PP!LiveUnavailable, PP!LiveUnreadableBody
  <2> QED
    BY <1>2, <2>1 DEF PP!SimulatedCharge, PP!Decide, PP!At, PP!GoTo
<1>6. CASE PP!Record(r)
  <2>1. ppc[r] = "record" /\ decision[r] \in {"Succeeded", "Declined"}
    BY <1>6 DEF PP!Record, PP!At, Calm, RequestCalm
  <2>2. PP!StatusCode(decision[r]) = IF decision[r] = "Succeeded" THEN "200" ELSE "402"
    BY <2>1 DEF PP!StatusCode
  <2> QED
    BY <1>2, <1>6, <2>1, <2>2 DEF PP!Record, PP!Finish, PP!At
<1> QED
  BY <1>1, <1>3, <1>4, <1>5, <1>6 DEF PP!Handler

\* What a step of order-service is then.
LEMMA CalmOrderStep ==
    ASSUME FaultsOff, CInv, Calm, NEW c \in Calls,
           CallerStep(c) \/ OrderStep(c) \/ ChargeAnswered(c)
    PROVE  /\ UNCHANGED paymentVars /\ UNCHANGED gone
           /\ attempt' = attempt \/ attempt' = [attempt EXCEPT ![c] = 0]
           /\ \/ /\ opc[c] \in {"unsent", "verify", "product", "persist"}
                 /\ \/ /\ \E label \in {"verify", "product", "persist", "charge"} :
                             opc' = [opc EXCEPT ![c] = label]
                       /\ table' = table \/ table' = [table EXCEPT ![c] = OP!Pending(order[c])]
                    \/ opc' = [opc EXCEPT ![c] = "done"] /\ UNCHANGED table
                 /\ UNCHANGED final
              \/ /\ opc[c] = "charge"
                 /\ ppc[First(c)] = "done"
                 /\ opc' = [opc EXCEPT ![c] = "update"]
                 /\ final' = [final EXCEPT ![c] =
                                 IF preply[First(c)] = "200" THEN "CONFIRMED" ELSE "FAILED"]
                 /\ UNCHANGED table
              \/ /\ opc[c] = "update"
                 /\ opc' = [opc EXCEPT ![c] = "done"]
                 /\ table' = [table EXCEPT ![c].status = final[c]]
                 /\ UNCHANGED final
<1>1. ~Orders!MayFail(c) /\ ~Orders!Disconnect(c) /\ ~Orders!LocalFailure(c)
  BY DEF FaultsOff, Calm, Orders!MayFail, Orders!Disconnect, Orders!LocalFailure,
         Orders!PersistFails, Orders!UpdateFails, Orders!DatabaseMayFail, Orders!UpstreamError
<1>p. UNCHANGED paymentVars
  BY DEF CallerStep, OrderStep, ChargeAnswered
<1>g. UNCHANGED gone
  BY <1>1 DEF CallerStep, OrderStep, ChargeAnswered, Orders!Place, Orders!LocalStep, Orders!VerifyUser,
              Orders!ItemRefused, Orders!ItemPriced, Orders!Persist, Orders!UpdateStatus,
              Orders!ChargeAnswered
<1>2. CASE OP!Place(c)
  BY <1>2, <1>p, <1>g DEF OP!Place, OP!Finish, OP!GoTo, OP!At
<1>3. CASE OP!LocalStep(c)
  <2>1. CASE OP!VerifyUser(c) \/ OP!ItemRefused(c)
    BY <2>1, <1>p, <1>g DEF OP!VerifyUser, OP!ItemRefused, OP!Finish, OP!GoTo, OP!At
  <2>2. CASE OP!ItemPriced(c)
    BY <2>2, <1>p, <1>g DEF OP!ItemPriced, OP!GoTo, OP!At
  <2>3. CASE OP!Persist(c)
    BY <2>3, <1>p, <1>g DEF OP!Persist, OP!Finish, OP!GoTo, OP!At
  <2>4. CASE OP!UpdateStatus(c)
    BY <2>4, <1>p, <1>g DEF OP!UpdateStatus, OP!Answer, OP!Finish, OP!At
  <2> QED
    BY <1>3, <2>1, <2>2, <2>3, <2>4 DEF OP!LocalStep
<1>4. CASE ChargeAnswered(c)
  <2>1. Request(c) = First(c)
    BY DEF Calm, CallCalm, Request, First
  <2>2. OP!ChargeAnswered(c, preply[First(c)]) /\ ppc[First(c)] = "done"
    BY <1>4, <2>1, ChargeCodes DEF ChargeAnswered
  <2> QED
    BY <2>2, <1>p, <1>g DEF OP!ChargeAnswered, OP!Conclude, OP!GoTo, OP!At
<1>5. OP!Place(c) \/ OP!LocalStep(c) \/ ChargeAnswered(c)
  BY <1>1, OrderActions DEF CallerStep, OrderStep
<1> QED
  BY <1>2, <1>3, <1>4, <1>5

LEMMA CalmStep ==
    ASSUME FaultsOff, CInv, Calm, PP!SimulatedSound, [Next]_vars
    PROVE  Calm'
<1>1. ASSUME NEW c \in Calls, CallerStep(c) \/ OrderStep(c) \/ ChargeAnswered(c)
      PROVE  Calm'
  <2>1. UNCHANGED <<ppc, row, decision, preply, gone, aborted>>
    BY <1>1, CalmOrderStep DEF paymentVars
  <2>2. \A r \in Requests : RequestCalm(r)'
    BY <2>1 DEF Calm, RequestCalm
  <2>t. /\ opc \in [Calls -> OP!Working \cup {"unsent", "done"}]
        /\ attempt \in [Calls -> 0 .. RetryAttempts]
        /\ final \in [Calls -> {"none", "CONFIRMED", "FAILED"}]
        /\ table \in [Calls -> [status : {"absent", "PENDING", "CONFIRMED", "FAILED"},
                                items : OP!Lines, total : Nat]]
    BY DEF CInv, OP!IInv, OP!TypeOK
  <2>a. attempt' = attempt \/ attempt' = [attempt EXCEPT ![c] = 0]
    BY <1>1, CalmOrderStep
  <2>o. \E label : opc' = [opc EXCEPT ![c] = label]
    BY <1>1, CalmOrderStep
  <2>f. final' = final \/ \E label : final' = [final EXCEPT ![c] = label]
    BY <1>1, CalmOrderStep
  <2>r. table' = table \/ \E stored : table' = [table EXCEPT ![c] = stored]
    <3>1. \/ table' = table
          \/ table' = [table EXCEPT ![c] = OP!Pending(order[c])]
          \/ table' = [table EXCEPT ![c].status = final[c]]
      BY <1>1, CalmOrderStep
    <3> QED
      BY <3>1
  <2>3. ASSUME NEW d \in Calls \ {c}
        PROVE  CallCalm(d)'
    <3>1. /\ opc'[d] = opc[d] /\ attempt'[d] = attempt[d]
          /\ final'[d] = final[d] /\ table'[d] = table[d]
      BY <2>t, <2>a, <2>o, <2>f, <2>r
    <3> QED
      BY <2>1, <3>1 DEF Calm, CallCalm, First
  <2>4. CallCalm(c)'
    <3>1. /\ attempt'[c] = 0
          /\ CallCalm(c)
          /\ opc[c] \in OP!Working \cup {"unsent", "done"}
      BY <2>t, <2>a DEF Calm, CallCalm
    <3>2. CASE opc[c] \in {"unsent", "verify", "product", "persist"}
      <4>1. ppc[First(c)] = "unsent" /\ table[c].status = "absent"
        BY <3>1, <3>2 DEF CallCalm, CInv, OP!IInv, OP!CallSound, OP!StageSound
      <4>2. \/ \E label \in {"verify", "product", "persist", "charge"} :
                   opc' = [opc EXCEPT ![c] = label]
            \/ opc' = [opc EXCEPT ![c] = "done"] /\ table' = table
        BY <1>1, <3>2, CalmOrderStep
      <4>3. \/ opc'[c] \in {"verify", "product", "persist", "charge"}
            \/ opc'[c] = "done" /\ table' = table
        BY <2>t, <4>2
      <4> QED
        BY <2>1, <3>1, <4>1, <4>3 DEF CallCalm, First
    <3>3. CASE opc[c] = "charge"
      <4>1. /\ ppc[First(c)] = "done"
            /\ opc'[c] = "update"
            /\ final'[c] = IF preply[First(c)] = "200" THEN "CONFIRMED" ELSE "FAILED"
        <5>1. /\ ppc[First(c)] = "done"
              /\ opc' = [opc EXCEPT ![c] = "update"]
              /\ final' = [final EXCEPT ![c] =
                              IF preply[First(c)] = "200" THEN "CONFIRMED" ELSE "FAILED"]
          BY <1>1, <3>3, CalmOrderStep
        <5> QED
          BY <2>t, <5>1
      <4> QED
        BY <2>1, <3>1, <4>1 DEF CallCalm, First
    <3>4. CASE opc[c] = "update"
      <4>1. opc'[c] = "done" /\ table'[c].status = final[c]
        <5>1. /\ opc' = [opc EXCEPT ![c] = "done"]
              /\ table' = [table EXCEPT ![c].status = final[c]]
          BY <1>1, <3>4, CalmOrderStep
        <5> QED
          BY <2>t, <5>1
      <4> QED
        BY <2>1, <3>1, <3>4, <4>1 DEF CallCalm, First
    <3>5. opc[c] # "done"
      BY <1>1, CalmOrderStep
    <3> QED
      BY <3>1, <3>2, <3>3, <3>4, <3>5 DEF OP!Working, OP!Upstream
  <2> QED
    BY <2>1, <2>2, <2>3, <2>4 DEF Calm
<1>2. ASSUME NEW c \in Calls, PostCharge(c)
      PROVE  Calm'
  <2>1. Request(c) = First(c) /\ First(c) \in Requests /\ opc[c] = "charge" /\ UNCHANGED orderVars
    BY <1>2, FirstIsRequest DEF Calm, CallCalm, Request, First, PostCharge, Orders!At
  <2>2. ppc' = [ppc EXCEPT ![First(c)] = "lookup"] /\ UNCHANGED <<row, decision, preply, aborted>>
    BY <1>2, <2>1, PaymentActions DEF PostCharge, PP!Send, PP!GoTo
  <2>3. ppc \in [Requests -> PP!Awaiting \cup {"unsent", "done"}]
    BY DEF CInv, PInv, PP!IInv, PP!TypeOK
  <2>4. \A r \in Requests : RequestCalm(r)'
    BY <2>1, <2>2, <2>3 DEF Calm, RequestCalm, First
  <2>5. \A d \in Calls \ {c} : ppc'[First(d)] = ppc[First(d)]
    BY <2>2, <2>3, FirstIsRequest DEF First
  <2>6. \A d \in Calls : CallCalm(d)'
    BY <2>1, <2>2, <2>5 DEF Calm, CallCalm, orderVars, First
  <2> QED
    BY <2>1, <2>2, <2>4, <2>6 DEF Calm, orderVars
<1>3. ASSUME NEW r \in Requests, PaymentStep(r)
      PROVE  Calm'
  <2> DEFINE c == r[1]
  <2>1. /\ UNCHANGED <<opc, attempt, final, table, gone, aborted>>
        /\ ppc[r] \notin {"unsent", "done"}
    BY <1>3, CalmPaymentStep DEF orderVars
  <2>2. r = First(c) /\ c \in Calls
    BY <2>1, FirstIsRequest DEF Calm, RequestCalm, Requests
  <2>3. opc[c] = "charge"
    BY <2>1, <2>2 DEF Calm, CallCalm, CInv, OP!IInv, OP!TypeOK, OP!Working, OP!Upstream
  <2>4. \A q \in Requests \ {r} : /\ ppc'[q] = ppc[q] /\ row'[q] = row[q]
                                  /\ decision'[q] = decision[q] /\ preply'[q] = preply[q]
    BY <1>3, CalmPaymentStep DEF CInv, PInv, PP!IInv, PP!TypeOK
  <2>5. RequestCalm(r)'
    <3> USE DEF CInv, PInv, PP!IInv, PP!TypeOK
    <3>1. CASE ppc'[r] \in {"insert", "charge"}
      BY <2>1, <3>1 DEF Calm, RequestCalm
    <3>2. CASE ppc'[r] = "record"
      BY <1>3, <2>1, <3>2, CalmPaymentStep DEF Calm, RequestCalm
    <3>3. CASE ppc'[r] = "done"
      <4>1. /\ ppc[r] = "record"
            /\ row'[r] = decision[r]
            /\ preply'[r] = IF decision[r] = "Succeeded" THEN "200" ELSE "402"
        BY <1>3, <3>3, CalmPaymentStep
      <4> QED
        BY <2>1, <3>3, <4>1 DEF Calm, RequestCalm
    <3> QED
      BY <1>3, <3>1, <3>2, <3>3, CalmPaymentStep
  <2>6. \A q \in Requests : RequestCalm(q)'
    BY <2>4, <2>5 DEF Calm, RequestCalm
  <2>7. ASSUME NEW d \in Calls
        PROVE  CallCalm(d)'
    <3>1. CASE d = c
      BY <2>1, <2>3, <3>1 DEF Calm, CallCalm
    <3>2. CASE d # c
      <4>1. First(d) \in Requests \ {r}
        BY <2>2, <3>2, FirstIsRequest DEF First
      <4> QED
        BY <2>1, <2>4, <4>1 DEF Calm, CallCalm, First
    <3> QED
      BY <3>1, <3>2
  <2> QED
    BY <2>1, <2>6, <2>7 DEF Calm
<1>4. ASSUME NEW c \in Calls
      PROVE  ~ChargeRetried(c) /\ ~AttemptAbandoned(c) /\ ~ChargeBodyLost(c)
  <2>1. ~ChargeRetried(c)
    BY RequestTyped DEF ChargeRetried, CInv, Calm, RequestCalm
  <2> QED
    BY <2>1 DEF AttemptAbandoned, ChargeBodyLost, Orders!MayFail, Orders!ChargeBodyLost, FaultsOff,
                Calm
<1>5. ~OrderCrash /\ ~PaymentCrash
  BY DEF OrderCrash, PaymentCrash, Orders!Crash, Payments!Crash, FaultsOff
<1>6. CASE CatalogStep \/ UNCHANGED vars
  BY <1>6 DEF CatalogStep, Orders!EditProduct, vars, orderVars, paymentVars, Calm, RequestCalm,
              CallCalm, First
<1> QED
  BY <1>1, <1>2, <1>3, <1>4, <1>5, <1>6 DEF Next

\* Without faults an order is CONFIRMED exactly when its money was taken, and
\* no finished call leaves one PENDING.
THEOREM BooksAgreeWithoutFaults ==
    ASSUME FaultsOff
    PROVE  Spec => []BooksAgree
<1>1. Init => Calm /\ PP!SimulatedSound
  BY FirstIsRequest DEF Init, Orders!Init, Payments!Init, Calm, RequestCalm, CallCalm,
                        PP!SimulatedSound, PP!Settled
<1>2. CInv /\ PP!SimulatedSound /\ [Next]_vars => PP!SimulatedSound'
  BY SimulatedKept DEF FaultsOff
<1>3. CInv /\ Calm /\ PP!SimulatedSound /\ [Next]_vars => Calm'
  BY CalmStep
<1>4. CInv /\ Calm /\ PP!SimulatedSound => BooksAgree
  <2> SUFFICES ASSUME CInv, Calm, PP!SimulatedSound, NEW c \in Calls, opc[c] = "done"
               PROVE  /\ table[c].status = "CONFIRMED" <=> Charged(c)
                      /\ table[c].status # "PENDING"
    BY DEF BooksAgree
  <2>1. Charged(c) <=> captured[First(c)] > 0
    <3>1. ASSUME NEW r \in Requests, r[1] = c, captured[r] > 0
          PROVE  r = First(c)
      <4>1. ppc[r] # "unsent"
        BY <3>1 DEF CInv, PInv, PP!IInv, PP!HandlerInvariant, PP!CapturesAreBooked
      <4> QED
        BY <3>1, <4>1, FirstIsRequest DEF Calm, RequestCalm
    <3> QED
      BY <3>1, FirstIsRequest DEF Charged, First
  <2>2. CASE ppc[First(c)] = "unsent" /\ table[c].status = "absent"
    BY <2>1, <2>2, FirstIsRequest DEF PP!SimulatedSound
  <2>3. CASE /\ ppc[First(c)] = "done"
             /\ table[c].status = IF preply[First(c)] = "200" THEN "CONFIRMED" ELSE "FAILED"
    <3>1. <<row[First(c)], preply[First(c)]>> \in {<<"Succeeded", "200">>, <<"Declined", "402">>}
      BY <2>3, FirstIsRequest DEF Calm, RequestCalm
    <3>2. captured[First(c)] = IF row[First(c)] = "Succeeded" THEN 1 ELSE 0
      BY <3>1, FirstIsRequest DEF PP!SimulatedSound, PP!Settled
    <3> QED
      BY <2>1, <2>3, <3>1, <3>2
  <2> QED
    BY <2>2, <2>3 DEF Calm, CallCalm
<1> QED
  BY <1>1, <1>2, <1>3, <1>4, Invariant, PTL DEF Spec
=============================================================================
