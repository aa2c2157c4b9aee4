----------------------------- MODULE Storefront -----------------------------
(***************************************************************************)
(* POST /api/v1/orders through api-gateway: Gateway over OrderService.     *)
(*                                                                         *)
(* The n-th attempt of a click is the call <<click, n>> of order-service,  *)
(* which draws a new order id for it: nothing tells order-service that two *)
(* calls are attempts of one click.  An attempt the gateway gives up on    *)
(* closes its connection, and order-service may notice that at any later   *)
(* moment, or never.                                                       *)
(***************************************************************************)
EXTENDS Naturals, Sequences, FiniteSets

CONSTANTS
    Clicks, Garbled, Signed, Secretless,        \* as in Gateway
    RateLimit, GatewayRetries,
    ClickInvalid,       \* clicks whose body order-service refuses
    ClickUser,          \* the subject of the token of a click
    ClickItems,         \* the items of a click
    UserStatus, Products, Missing, Catalogs, Listings, MaxInt,
    RetryAttempts, Flaky, Faults                \* as in OrderService

VARIABLES
    at, sent, hits, answer,
    pc, attempt, order, final, table, gone, reply, catalog,
    abandoned       \* attempts that ended for the gateway without an answer

gatewayVars == <<at, sent, hits, answer>>
orderVars   == <<pc, attempt, order, final, table, gone, reply, catalog>>
vars        == <<gatewayVars, orderVars, abandoned>>

Requests == Clicks \X (1 .. GatewayRetries + 1)

Edge == INSTANCE Gateway WITH
    Guarded       <- Clicks,
    RetryAttempts <- GatewayRetries

\* The gateway puts the subject of the token in the place of any userId that
\* the client sent.
Orders == INSTANCE OrderService WITH
    Calls   <- Requests,
    Invalid <- {r \in Requests : r[1] \in ClickInvalid},
    UserOf  <- [r \in Requests |-> ClickUser[r[1]]],
    ItemsOf <- [r \in Requests |-> ClickItems[r[1]]]

ASSUME StorefrontAssumption ==
    /\ Edge!GatewayAssumption
    /\ Orders!CallsAssumption
    /\ Orders!CatalogAssumption
    /\ Orders!RetryAssumption

Init == Edge!Init /\ Orders!Init /\ abandoned = {}

\* The attempt the gateway waits for.
Current(c) == <<c, sent[c]>>

ClickStep(c) ==
    /\ Edge!Arrive(c)
    /\ UNCHANGED <<orderVars, abandoned>>

WindowStep == Edge!NewWindow /\ UNCHANGED <<orderVars, abandoned>>

\* A request that was sent arrives, even when the gateway has given it up.
Deliver(r) ==
    /\ r[2] <= sent[r[1]]
    /\ Orders!Place(r)
    /\ UNCHANGED <<gatewayVars, abandoned>>

\* Variant: the answer to an earlier attempt is taken for the one awaited.
AnswerArrives_AnyAttempt(c) ==
    /\ Edge!Waiting(c)
    /\ \E n \in 1 .. sent[c] :
          /\ reply[<<c, n>>] \notin {"none", "lost"}
          /\ Edge!ServiceAnswers(c, reply[<<c, n>>])
    /\ UNCHANGED <<orderVars, abandoned>>

AnswerArrives(c) ==
    /\ Edge!Waiting(c)
    /\ reply[Current(c)] \notin {"none", "lost"}
    /\ Edge!ServiceAnswers(c, reply[Current(c)])
    /\ UNCHANGED <<orderVars, abandoned>>

Abandon(c) == abandoned' = abandoned \cup {Current(c)}

\* No answer within HTTP_TIMEOUT_MS: order-service may retry its own calls
\* for longer than that.
TimesOut(c) ==
    /\ Edge!AttemptTimesOut(c)
    /\ Abandon(c)
    /\ UNCHANGED orderVars

\* order-service was not there, or died with the request.
Unreachable(c) ==
    /\ Edge!Waiting(c)
    /\ pc[Current(c)] = "unsent" \/ reply[Current(c)] = "lost"
    /\ Edge!AttemptUnreachable(c)
    /\ Abandon(c)
    /\ UNCHANGED orderVars

\* order-service notices that the gateway closed the connection.
Disconnect(r) ==
    /\ r \in abandoned
    /\ Orders!Disconnect(r)
    /\ UNCHANGED <<gatewayVars, abandoned>>

OrderStep(r) ==
    /\ Orders!LocalStep(r) \/ Orders!LocalFailure(r) \/ Orders!AnyCharge(r)
    /\ UNCHANGED <<gatewayVars, abandoned>>

CatalogStep ==
    /\ \E p \in Products : Orders!EditProduct(p)
    /\ UNCHANGED <<gatewayVars, abandoned>>

OrderCrash == Orders!Crash /\ UNCHANGED <<gatewayVars, abandoned>>

Next ==
    \/ \E c \in Clicks :
          \/ ClickStep(c)
          \/ AnswerArrives(c)
          \/ TimesOut(c)
          \/ Unreachable(c)
    \/ \E r \in Requests : Deliver(r) \/ Disconnect(r) \/ OrderStep(r)
    \/ WindowStep
    \/ CatalogStep
    \/ OrderCrash

Spec == Init /\ [][Next]_vars

-----------------------------------------------------------------------------
(***************************************************************************)
(* Promises.                                                               *)
(***************************************************************************)
Stored(r) == table[r].status # "absent"

\* One click can store several orders, since every attempt is an order of its
\* own; but only an attempt whose answer the gateway never saw leaves one
\* behind.  What order-service answers and the gateway retries, a 502, has
\* stored nothing: this rests on the 402 of the code for every charge that
\* fails.  With the 502 after a FAILED order that docs/FAILURE_SCENARIOS.md
\* describes, the gateway would store one order per attempt.
OnlyLostAnswersDuplicate ==
    \A c \in Clicks : \A n \in 1 .. sent[c] - 1 :
        Stored(<<c, n>>) => <<c, n>> \in abandoned

\* The answer of a click tells of the order of its last attempt and never of
\* another one: 201 and 402 agree with the table, a refusal stored nothing,
\* and a click turned away at the gateway reached nobody.
AnswersAgreeWithOrders ==
    \A c \in Clicks :
        /\ answer[c] = "201" => table[Current(c)].status \in {"PENDING", "CONFIRMED"}
        /\ answer[c] = "402" => table[Current(c)].status \in {"PENDING", "FAILED"}
        /\ answer[c] \in {"400", "404", "409"} /\ sent[c] > 0 => ~Stored(Current(c))
        /\ sent[c] = 0 => \A r \in Requests : r[1] = c => pc[r] = "unsent"
=============================================================================
