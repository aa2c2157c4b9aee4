------------------------------ MODULE Checkout ------------------------------
(***************************************************************************)
(* order-service charging its orders at payment-service: OrderService and  *)
(* PaymentService composed over the HTTP calls of PaymentClient.Charge.    *)
(*                                                                         *)
(* The n-th attempt of the ResilientClient to charge an order is a charge  *)
(* request of its own with the order id as its Idempotency-Key.  An        *)
(* attempt that order-service gives up on closes its connection, and       *)
(* payment-service may notice at any later moment, or never.               *)
(***************************************************************************)
EXTENDS Naturals, Sequences, FiniteSets

CONSTANTS
    Calls, Invalid, UserOf, UserStatus, ItemsOf, Products, Missing, Catalogs,
    Listings, MaxInt, RetryAttempts, Flaky,     \* as in OrderService
    OrderFaults,        \* Faults of OrderService
    NoHeader,           \* as in PaymentService
    TooExpensive,       \* calls whose total the simulated gateway declines
    Live,               \* as in PaymentService
    GatewayRetries,     \* RetryAttempts of PaymentService
    PaymentFaults       \* Faults of PaymentService

VARIABLES
    opc, attempt, order, final, table, gone, oreply, catalog,
    ppc, row, decision, unheard, captured, preply, aborted

orderVars   == <<opc, attempt, order, final, table, gone, oreply, catalog>>
paymentVars == <<ppc, row, decision, unheard, captured, preply, aborted>>
vars        == <<orderVars, paymentVars>>

Requests == Calls \X (0 .. RetryAttempts)

Orders == INSTANCE OrderService WITH
    pc     <- opc,
    reply  <- oreply,
    Faults <- OrderFaults

Payments == INSTANCE PaymentService WITH
    Keys          <- Calls,
    Header        <- [r \in Requests |-> r[1]],
    OrderId       <- [r \in Requests |-> r[1]],
    BadModel      <- {},
    Malformed     <- {},
    Declines      <- {r \in Requests : r[1] \in TooExpensive},
    RetryAttempts <- GatewayRetries,
    Faults        <- PaymentFaults,
    pc            <- ppc,
    reply         <- preply

ASSUME CheckoutAssumption ==
    /\ Orders!CallsAssumption
    /\ Orders!CatalogAssumption
    /\ Orders!RetryAssumption
    /\ Payments!KeysAssumption
    /\ Payments!GatewayAssumption
    /\ PaymentFaults \subseteq {"db", "crash"}

Init == Orders!Init /\ Payments!Init

\* The charge request of the attempt that a handler of order-service is at.
Request(c) == <<c, attempt[c]>>

Open(r) == ppc[r] \in Payments!Awaiting

\* The attempt builds its request, with the order id as Idempotency-Key.
PostCharge(c) ==
    /\ Orders!At(c, "charge")
    /\ c \notin gone
    /\ Payments!Send(Request(c))
    /\ UNCHANGED orderVars

\* The answer of payment-service reaches the handler that waits for it.
ChargeAnswered(c) ==
    /\ ppc[Request(c)] = "done"
    /\ preply[Request(c)] \notin {"lost", "502"}
    /\ Orders!ChargeAnswered(c, preply[Request(c)])
    /\ UNCHANGED paymentVars

\* Variant: payment-service says 502 for a payment it knows, so it failed.
ChargeRetried_NotOn502(c) ==
    /\ Orders!At(c, "charge")
    /\ ppc[Request(c)] = "done"
    /\ \/ preply[Request(c)] = "lost" /\ Orders!AttemptFailed(c)
       \/ /\ preply[Request(c)] = "502"
          /\ Orders!Finish(c, "502")
          /\ UNCHANGED <<order, final, table, gone, catalog>>
    /\ UNCHANGED paymentVars

\* A 502, for a Failed or Pending payment, and a dropped connection are
\* failures of the attempt.
ChargeRetried(c) ==
    /\ Orders!At(c, "charge")
    /\ ppc[Request(c)] = "done"
    /\ preply[Request(c)] \in {"lost", "502"}
    /\ Orders!AttemptFailed(c)
    /\ UNCHANGED paymentVars

\* The attempt times out, loses its connection or has its context cancelled:
\* before payment-service has the request, while it works on it, or with the
\* answer already on its way.
AttemptAbandoned(c) ==
    /\ Orders!At(c, "charge")
    /\ Orders!MayFail(c)
    /\ Orders!AttemptFailed(c)
    /\ aborted' = aborted \cup {r \in {Request(c)} : Open(r)}
    /\ UNCHANGED <<ppc, row, decision, unheard, captured, preply>>

\* The status line of the answer arrives, its body does not.
ChargeBodyLost(c) ==
    /\ ppc[Request(c)] = "done"
    /\ preply[Request(c)] \in {"200", "402"}
    /\ Orders!ChargeBodyLost(c)
    /\ UNCHANGED paymentVars

\* A crash of order-service closes every connection it had.
OrderCrash ==
    /\ Orders!Crash
    /\ aborted' = aborted \cup {r \in Requests : Open(r)}
    /\ UNCHANGED <<ppc, row, decision, unheard, captured, preply>>

OrderStep(c) ==
    /\ Orders!LocalStep(c) \/ Orders!LocalFailure(c)
    /\ UNCHANGED paymentVars

CallerStep(c) ==
    /\ Orders!Place(c) \/ Orders!Disconnect(c)
    /\ UNCHANGED paymentVars

CatalogStep ==
    /\ \E p \in Products : Orders!EditProduct(p)
    /\ UNCHANGED paymentVars

\* payment-service and the card processor go on by themselves.
PaymentStep(r) ==
    /\ \/ Payments!Handler(r)
       \/ Payments!LateCapture(r)
       \/ Payments!Cancelled(r)
       \/ Payments!DbFailure(r)
    /\ UNCHANGED orderVars

PaymentCrash == Payments!Crash /\ UNCHANGED orderVars

Next ==
    \/ \E c \in Calls :
          \/ CallerStep(c)
          \/ OrderStep(c)
          \/ PostCharge(c)
          \/ ChargeAnswered(c)
          \/ ChargeRetried(c)
          \/ AttemptAbandoned(c)
          \/ ChargeBodyLost(c)
    \/ \E r \in Requests : PaymentStep(r)
    \/ CatalogStep
    \/ OrderCrash
    \/ PaymentCrash

\* Both services run their handlers, and an answer that was written arrives.
Fairness ==
    /\ \A c \in Calls :
          /\ WF_vars(OrderStep(c))
          /\ WF_vars(PostCharge(c) \/ ChargeAnswered(c) \/ ChargeRetried(c))
    /\ \A r \in Requests : WF_vars(Payments!Handler(r) /\ UNCHANGED orderVars)

Spec == Init /\ [][Next]_vars

FairSpec == Spec /\ Fairness

-----------------------------------------------------------------------------
(***************************************************************************)
(* Promises.                                                               *)
(***************************************************************************)
Charged(c) == \E r \in Requests : r[1] = c /\ captured[r] > 0

Paid(c) == \E r \in Requests : r[1] = c /\ row[r] = "Succeeded"

\* Whatever attempt was given up, and wherever payment-service dropped it, a
\* settled row tells the truth about the money.
SettledRowsTellTheTruth == Payments!SettledRowsTellTheTruth

\* No order is stored or answered as confirmed without its money, whatever
\* attempt, replay or late answer confirmed it.
ConfirmedOrdersArePaid ==
    \A c \in Calls :
        table[c].status = "CONFIRMED" \/ oreply[c] = "201" => Charged(c) /\ Paid(c)

\* No money is taken for an order the database does not have, so that a crash
\* of either service leaves something to reconcile the capture with.
ChargedOrdersExist == \A c \in Calls : Charged(c) => table[c].status # "absent"

\* Without faults the two databases agree on every finished call.
BooksAgree ==
    \A c \in Calls : opc[c] = "done" =>
        /\ table[c].status = "CONFIRMED" <=> Charged(c)
        /\ table[c].status # "PENDING"

\* Without faults every stored order is settled.
OrdersSettle ==
    \A c \in Calls : table[c].status = "PENDING" ~> table[c].status \in {"CONFIRMED", "FAILED"}

\* order-service in this composition is the one OrderService describes, with
\* payment-service as a source of answers.
RefinesOrderService == Orders!Spec

\* PaymentProcessingService.cs and payment_client.go: a repeated key returns
\* the original result, which makes it safe to retry a charge after an
\* ambiguous timeout.  An order whose retry was told that the payment did not
\* succeed would then not be stored as FAILED with its money taken.
RetriedChargesAreSafe ==
    \A c \in Calls :
        /\ table[c].status = "FAILED"
        /\ \E r \in Requests :
              /\ r[1] = c /\ r[2] > 0
              /\ r \notin aborted
              /\ preply[r] = "502"
        => ~Charged(c)

\* docs/FAILURE_SCENARIOS.md, row 8: with payment-service stopped order-service
\* returns 502 upstream_unavailable and leaves the order FAILED.  So a caller
\* whose order failed although no attempt reached payment-service is told 502.
UnreachablePaymentsAreReported ==
    \A c \in Calls :
        /\ opc[c] = "done" /\ oreply[c] # "lost"
        /\ final[c] = "FAILED"
        /\ \A r \in Requests : r[1] = c => ppc[r] = "unsent"
        => oreply[c] = "502"
=============================================================================
