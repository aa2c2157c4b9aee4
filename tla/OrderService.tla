---------------------------- MODULE OrderService ----------------------------
(***************************************************************************)
(* POST /api/v1/orders of order-service: OrderHandler.CreateOrder,         *)
(* OrderService.CreateOrder, the clients of user-service, product-service  *)
(* and payment-service with the retries of their ResilientClient, and the  *)
(* orders and order_items tables.                                          *)
(*                                                                         *)
(* A call is one POST; CreateOrder draws a new order id for each, so an    *)
(* order is named by its call.  user-service and product-service appear as *)
(* what their GET endpoints answer; the catalog changes under the handlers *)
(* as product-service is edited.  payment-service is any answer here; the  *)
(* module Checkout puts PaymentService in its place.                       *)
(***************************************************************************)
EXTENDS Naturals, Sequences, FiniteSets

CONSTANTS
    Calls,          \* POST /api/v1/orders calls
    Invalid,        \* calls whose body or userId does not parse
    UserOf,         \* the userId of a call
    UserStatus,     \* users table: "ACTIVE", "SUSPENDED" or "missing"
    ItemsOf,        \* the items of a call: sequence of [product, quantity]
    Products,       \* products of the catalog
    Missing,        \* products that product-service does not know
    Catalogs,       \* the catalogs the system may start with
    Listings,       \* what an edit may turn a product into
    MaxInt,         \* largest value of a PostgreSQL INTEGER
    RetryAttempts,  \* HTTP_CLIENT_RETRY_ATTEMPTS
    Flaky,          \* the calls, "verify", "product" or "charge", that may time
                    \* out, lose their connection or be answered 502, 503, 504
    Faults          \* further faults the environment may inject

Listing == [price : Nat \ {0}, stock : Nat, active : BOOLEAN]

ASSUME CallsAssumption ==
    /\ Invalid \subseteq Calls
    /\ \A c \in Calls : UserStatus[UserOf[c]] \in {"ACTIVE", "SUSPENDED", "missing"}
    /\ ItemsOf \in [Calls -> Seq([product : Products \cup Missing, quantity : Nat \ {0}])]
    /\ \A c \in Calls : Len(ItemsOf[c]) >= 1

ASSUME CatalogAssumption ==
    /\ Catalogs \subseteq [Products -> Listing]
    /\ Listings \subseteq Listing
    /\ Products \cap Missing = {}
    /\ MaxInt \in Nat

ASSUME RetryAssumption ==
    /\ RetryAttempts \in Nat
    /\ Flaky \subseteq {"verify", "product", "charge"}
    /\ Faults \subseteq {"disconnect", "db", "crash"}

VARIABLES
    pc,         \* where the handler of a call stands
    attempt,    \* attempt of the ResilientClient in the call it makes now
    order,      \* the order the handler builds: [items, total]
    final,      \* finalStatus, once the charge is over
    table,      \* tables orders and order_items
    gone,       \* calls whose request context is cancelled: the caller left
    reply,      \* the HTTP status written to the caller
    catalog     \* products as product-service would answer them

vars == <<pc, attempt, order, final, table, gone, reply, catalog>>

Upstream == {"verify", "product", "charge"}
Working  == Upstream \cup {"persist", "update"}

NoRow == [status |-> "absent", items |-> <<>>, total |-> 0]

EmptyOrder == [items |-> <<>>, total |-> 0]

Lines == Seq([product : Products, quantity : Nat \ {0}, price : Nat \ {0}])

TypeOK ==
    /\ pc      \in [Calls -> Working \cup {"unsent", "done"}]
    /\ attempt \in [Calls -> 0 .. RetryAttempts]
    /\ order   \in [Calls -> [items : Lines, total : Nat]]
    /\ final   \in [Calls -> {"none", "CONFIRMED", "FAILED"}]
    /\ table   \in [Calls -> [status : {"absent", "PENDING", "CONFIRMED", "FAILED"},
                              items : Lines, total : Nat]]
    /\ gone    \subseteq Calls
    /\ reply   \in [Calls -> {"none", "lost", "201", "400", "402", "404", "409", "500", "502"}]
    /\ catalog \in [Products -> Listing]

Init ==
    /\ pc      = [c \in Calls |-> "unsent"]
    /\ attempt = [c \in Calls |-> 0]
    /\ order   = [c \in Calls |-> EmptyOrder]
    /\ final   = [c \in Calls |-> "none"]
    /\ table   = [c \in Calls |-> NoRow]
    /\ gone    = {}
    /\ reply   = [c \in Calls |-> "none"]
    /\ catalog \in Catalogs

-----------------------------------------------------------------------------
(***************************************************************************)
(* The handler up to the charge.                                           *)
(***************************************************************************)
At(c, label) == pc[c] = label

\* The handler goes on, and the next client starts with its first attempt.
GoTo(c, label) ==
    /\ pc' = [pc EXCEPT ![c] = label]
    /\ attempt' = [attempt EXCEPT ![c] = 0]
    /\ UNCHANGED reply

Finish(c, status) ==
    /\ pc'    = [pc EXCEPT ![c] = "done"]
    /\ reply' = [reply EXCEPT ![c] = status]
    /\ UNCHANGED attempt

Place(c) ==
    /\ At(c, "unsent")
    /\ IF c \in Invalid THEN Finish(c, "400") ELSE GoTo(c, "verify")
    /\ UNCHANGED <<order, final, table, gone, catalog>>

\* user-service answers: any account it finds will do, whatever its status.
VerifyUser(c) ==
    /\ At(c, "verify")
    /\ IF UserStatus[UserOf[c]] = "missing" THEN Finish(c, "404") ELSE GoTo(c, "product")
    /\ UNCHANGED <<order, final, table, gone, catalog>>

\* The item the loop of CreateOrder is at.
Current(c) == ItemsOf[c][Len(order[c].items) + 1]

Available(i) == catalog[i.product].active /\ catalog[i.product].stock >= i.quantity

\* product-service answers for an item it cannot sell.
ItemRefused(c) ==
    /\ At(c, "product")
    /\ LET i == Current(c) IN
          \/ i.product \in Missing /\ Finish(c, "404")
          \/ i.product \in Products /\ ~Available(i) /\ Finish(c, "409")
    /\ UNCHANGED <<order, final, table, gone, catalog>>

\* The item is priced as the catalog stands now, and the loop moves on.
ItemPriced(c) ==
    /\ At(c, "product")
    /\ LET i == Current(c)
           line(p) == [product |-> i.product, quantity |-> i.quantity, price |-> p]
       IN  /\ i.product \in Products
           /\ Available(i)
           /\ order' = [order EXCEPT ![c] =
                 [items |-> Append(@.items, line(catalog[i.product].price)),
                  total |-> @.total + catalog[i.product].price * i.quantity]]
           /\ GoTo(c, IF Len(order[c].items) + 1 = Len(ItemsOf[c]) THEN "persist" ELSE "product")
    /\ UNCHANGED <<final, table, gone, catalog>>

Pending(o) == [status |-> "PENDING", items |-> o.items, total |-> o.total]

\* Variant: the order is written once its charge is known.
Persist_AfterCharge(c) ==
    /\ At(c, "persist")
    /\ GoTo(c, "charge")
    /\ UNCHANGED <<order, final, table, gone, catalog>>

\* One transaction writes the order and its items; an INTEGER column refuses
\* a total that does not fit.
Persist(c) ==
    /\ At(c, "persist")
    /\ IF order[c].total <= MaxInt
       THEN /\ table' = [table EXCEPT ![c] = Pending(order[c])]
            /\ GoTo(c, "charge")
       ELSE Finish(c, "500") /\ UNCHANGED table
    /\ UNCHANGED <<order, final, gone, catalog>>

-----------------------------------------------------------------------------
(***************************************************************************)
(* The charge and what follows it.                                         *)
(***************************************************************************)
Conclude(c, status) ==
    /\ final' = [final EXCEPT ![c] = status]
    /\ GoTo(c, "update")

\* Variant: an answer that is no error counts as paid.
ChargeAnswered_AnyAnswerPays(c, code) ==
    /\ At(c, "charge")
    /\ code # "502"
    /\ Conclude(c, IF code \in {"200", "402"} THEN "CONFIRMED" ELSE "FAILED")
    /\ UNCHANGED <<order, table, gone, catalog>>

\* payment-service answers with a status that ResilientClient passes on:
\* 200 carries SUCCEEDED, 402 DECLINED, and any other status is an error.
ChargeAnswered(c, code) ==
    /\ At(c, "charge")
    /\ code # "502"
    /\ Conclude(c, IF code = "200" THEN "CONFIRMED" ELSE "FAILED")
    /\ UNCHANGED <<order, table, gone, catalog>>

\* The answer arrives but its body cannot be read to the end: no retry.
ChargeBodyLost(c) ==
    /\ At(c, "charge")
    /\ "charge" \in Flaky \/ c \in gone
    /\ Conclude(c, "FAILED")
    /\ UNCHANGED <<order, table, gone, catalog>>

\* The caller is told the final status even when the table was not updated.
Answer(c) == Finish(c, IF final[c] = "CONFIRMED" THEN "201" ELSE "402")

\* Variant: the answer is written, the table is not.
UpdateStatus_NotSaved(c) ==
    /\ At(c, "update")
    /\ Answer(c)
    /\ UNCHANGED <<order, final, table, gone, catalog>>

UpdateStatus(c) ==
    /\ At(c, "update")
    /\ table' = [table EXCEPT ![c].status = final[c]]
    /\ Answer(c)
    /\ UNCHANGED <<order, final, gone, catalog>>

-----------------------------------------------------------------------------
(***************************************************************************)
(* ResilientClient.Do.                                                     *)
(***************************************************************************)

\* After a backoff the request is built and sent again, unless the caller of
\* the handler left meanwhile.
Retry(c) ==
    /\ attempt[c] < RetryAttempts
    /\ c \notin gone
    /\ attempt' = [attempt EXCEPT ![c] = @ + 1]
    /\ UNCHANGED <<pc, final, reply>>

\* Variant: a charge that cannot be made is reported like any other upstream.
GiveUp_BadGateway(c) ==
    /\ attempt[c] = RetryAttempts \/ c \in gone
    /\ Finish(c, "502")
    /\ UNCHANGED final

\* The call has failed: an error before the order exists, a FAILED order after.
GiveUp(c) ==
    /\ attempt[c] = RetryAttempts \/ c \in gone
    /\ IF At(c, "charge")
       THEN Conclude(c, "FAILED")
       ELSE Finish(c, "502") /\ UNCHANGED final

\* An attempt ends in a network error, a timeout, or 502, 503 or 504.  With
\* the context cancelled every attempt fails.
MayFail(c) == pc[c] \in Flaky \/ c \in gone

AttemptFailed(c) ==
    /\ pc[c] \in Upstream
    /\ Retry(c) \/ GiveUp(c)
    /\ UNCHANGED <<order, table, gone, catalog>>

\* user-service or product-service answers with another status, or with a
\* body that does not decode: an error at once, without a retry.
UpstreamError(c) ==
    /\ pc[c] \in Flaky \ {"charge"}
    /\ Finish(c, "502")
    /\ UNCHANGED <<order, final, table, gone, catalog>>

-----------------------------------------------------------------------------
(***************************************************************************)
(* The environment: callers, operators, faults.                            *)
(***************************************************************************)

\* A product is edited or deactivated while orders are placed.
EditProduct(p) ==
    /\ \E l \in Listings : catalog' = [catalog EXCEPT ![p] = l]
    /\ UNCHANGED <<pc, attempt, order, final, table, gone, reply>>

\* The caller closes its connection: the request context is cancelled.
Disconnect(c) ==
    /\ "disconnect" \in Faults
    /\ pc[c] \in Working
    /\ c \notin gone
    /\ gone' = gone \cup {c}
    /\ UNCHANGED <<pc, attempt, order, final, table, reply, catalog>>

\* A statement fails, because the database does or because its context is
\* cancelled; its effect may have been committed all the same.
DatabaseMayFail(c) == "db" \in Faults \/ c \in gone

\* Variant: the order and its items are not written in one transaction.
PersistFails_NoTransaction(c) ==
    /\ At(c, "persist")
    /\ DatabaseMayFail(c)
    /\ table' = [table EXCEPT ![c] = [Pending(order[c]) EXCEPT !.items = Tail(@)]]
    /\ Finish(c, "500")
    /\ UNCHANGED <<order, final, gone, catalog>>

PersistFails(c) ==
    /\ At(c, "persist")
    /\ DatabaseMayFail(c)
    /\ \/ UNCHANGED table
       \/ order[c].total <= MaxInt /\ table' = [table EXCEPT ![c] = Pending(order[c])]
    /\ Finish(c, "500")
    /\ UNCHANGED <<order, final, gone, catalog>>

\* Variant: an update that failed is answered as a failed order.
UpdateFails_FailsOrder(c) ==
    /\ At(c, "update")
    /\ DatabaseMayFail(c)
    /\ UNCHANGED table \/ table' = [table EXCEPT ![c].status = final[c]]
    /\ Finish(c, "402")
    /\ UNCHANGED <<order, final, gone, catalog>>

\* The error of UpdateStatus is logged and nothing else.
UpdateFails(c) ==
    /\ At(c, "update")
    /\ DatabaseMayFail(c)
    /\ UNCHANGED table \/ table' = [table EXCEPT ![c].status = final[c]]
    /\ Answer(c)
    /\ UNCHANGED <<order, final, gone, catalog>>

\* The process ends, and every handler in it.
Stop ==
    /\ pc'    = [c \in Calls |-> IF pc[c] \in Working THEN "done" ELSE pc[c]]
    /\ reply' = [c \in Calls |-> IF pc[c] \in Working THEN "lost" ELSE reply[c]]
    /\ UNCHANGED <<attempt, order, final, table, gone, catalog>>

Crash ==
    /\ "crash" \in Faults
    /\ \E c \in Calls : pc[c] \in Working
    /\ Stop

\* The steps of a handler that do not wait for payment-service, and the ways
\* they fail.
LocalStep(c) ==
    \/ VerifyUser(c)
    \/ ItemRefused(c)
    \/ ItemPriced(c)
    \/ Persist(c)
    \/ UpdateStatus(c)

LocalFailure(c) ==
    \/ PersistFails(c)
    \/ UpdateFails(c)
    \/ UpstreamError(c)
    \/ pc[c] # "charge" /\ MayFail(c) /\ AttemptFailed(c)

\* With payment-service unconstrained, any answer may come.
AnyCharge(c) ==
    \/ \E code \in {"200", "400", "402", "500"} : ChargeAnswered(c, code)
    \/ ChargeBodyLost(c)
    \/ MayFail(c) /\ AttemptFailed(c)

Next ==
    \/ \E c \in Calls :
          \/ Place(c)
          \/ LocalStep(c)
          \/ LocalFailure(c)
          \/ AnyCharge(c)
          \/ Disconnect(c)
    \/ \E p \in Products : EditProduct(p)
    \/ Crash

Spec == Init /\ [][Next]_vars

-----------------------------------------------------------------------------
(***************************************************************************)
(* Promises.                                                               *)
(***************************************************************************)
Total(items) ==
    LET sum[n \in 0 .. Len(items)] ==
            IF n = 0 THEN 0 ELSE sum[n - 1] + items[n].price * items[n].quantity
    IN  sum[Len(items)]

\* A stored order has every item that was asked for, in full, and its total
\* is the sum of the prices stored with the items, although the catalog was
\* edited between two items and whatever failed while it was written.
OrdersAreComplete ==
    \A c \in Calls : table[c].status # "absent" =>
        /\ Len(table[c].items) = Len(ItemsOf[c])
        /\ \A i \in 1 .. Len(ItemsOf[c]) :
              /\ table[c].items[i].product  = ItemsOf[c][i].product
              /\ table[c].items[i].quantity = ItemsOf[c][i].quantity
        /\ table[c].total = Total(table[c].items)

\* A 502 upstream_unavailable leaves no order behind.  api-gateway posts the
\* order again when it sees one, so anything else would place it twice.  This
\* rests on the 402 that CreateOrder answers for a charge that failed; the 502
\* that docs/FAILURE_SCENARIOS.md describes for it would break the promise.
RetriedAnswersLeaveNoOrder ==
    \A c \in Calls : reply[c] \in {"400", "404", "409", "502"} =>
        table[c].status = "absent"

\* The caller is never told 201 for an order that is stored as FAILED, or 402
\* for one that is stored as CONFIRMED; the table may be behind the answer,
\* never against it.
AnswersNeverContradictTable ==
    \A c \in Calls :
        /\ reply[c] = "201" => table[c].status \in {"PENDING", "CONFIRMED"}
        /\ reply[c] = "402" => table[c].status \in {"PENDING", "FAILED"}

\* order-service/README.md: with the payment declined or payment-service
\* unreachable the order is left in the database as FAILED.
FailedChargesAreRecorded ==
    \A c \in Calls : pc[c] = "done" /\ final[c] = "FAILED" => table[c].status = "FAILED"
=============================================================================
