# A TLA+ development of the ShopStream services

This directory holds the specification of the services of this repository:
TLA+ modules translated from the source, TLC configurations that check them on
small instances, and proofs for TLAPS.  `PROJECT.json` maps every definition to
the lines it stands for, lists every run with its properties, and lists the
hazards the properties are aimed at.

    tlc -workers 2 -config PaymentRaces.cfg MCPaymentService.tla
    tlapm CheckoutProofs.tla

## 1. The system

Clients talk to **api-gateway** (Node).  It calls **user-service** (Java,
PostgreSQL), **product-service** (Python, PostgreSQL) and **order-service** (Go,
PostgreSQL).  order-service calls user-service, product-service and
**payment-service** (C#, PostgreSQL), which calls a card gateway, simulated or
live.  **notification-service** (TypeScript, MongoDB) has an API that no other
service calls.  Everything is synchronous HTTP; there is no message broker, no
distributed transaction and no background job, so all coordination is in the
handlers, their retries, and the constraints of the databases.

| component | state | operations that change state | what is hard |
|---|---|---|---|
| api-gateway | the counters of the rate limiter; per request the attempt it is at | forward `POST /auth/register`, `/auth/login`, `/orders` | every attempt is a new request downstream; attempts given up on go on being worked on |
| user-service | `users`, unique email | register, login | check-then-insert; the token is made before the commit |
| product-service | `products`, unique sku | create, patch, (soft) delete | load and commit interleave between threads; nulls and numbers out of range reach the database |
| order-service | `orders`, `order_items` | create an order | four calls with retries and one transaction; the caller may leave at any point; the catalog changes meanwhile |
| order-service, the process | the phase of `main()`, the connections of its pool | start, signals, shutdown; every statement takes and returns a connection; reads of orders, readiness | bounded connections; reads of two statements; shutdown while handlers are at any point; waits without a deadline |
| payment-service | `payments`, unique idempotency key | charge | two saves around a call that moves money; replays at any point; Polly retries |
| notification-service | `notifications` collection | send | two saves around a call that sends an email; retries |
| card gateway, email provider | external | | any answer, or an effect whose answer is lost |

What makes each correct:

- payment-service: one key, one capturing request (in live mode that request may
  capture more than once, since Polly posts the charge again); a capture always has a
  durable row; a `200` or `402` agrees with that row for good; a row stays open only
  when its handler ended in a `500` or without an answer.
- order-service: an order is stored with all its items and their sum or not at
  all; an answer that the caller retries leaves no order; an answer never
  contradicts the table.
- the process of order-service: a read is whole and never takes back an answer; a
  clean exit drops no request; shutdown and probes keep their deadlines although
  the database hangs; no handler waits for ever for a connection; and all that is
  still the order-service of the previous point.
- the two together: confirmed orders are paid; money is taken only for orders
  that exist; without faults both databases agree.
- product-service: one sku, one product; an acknowledged column stays; a PATCH
  is all or nothing; products never go away.
- user-service behind the gateway: one account per email; tokens name stored
  accounts; a conflict is real; every click is answered.
- order-service behind the gateway: only a lost answer can duplicate an order;
  the answer tells of the last attempt's order.
- notification-service: no email without a document; documents and answers say
  what happened; PENDING documents settle unless a fault cut their handler short.

## 2. The modules

    ChargeOnce  <-refines-  PaymentService  ---+
                                               +-- Checkout
    OrderServer --refines-> OrderService    ---+
                                 |
                                 +------------- Storefront
                            Gateway   ---------+
                                 +------------- Signup
                            UserService -------+
    ProductService            NotificationService

Each `MC<module>` gives the constants of `<module>` their values for TLC.
Operators named `X_Something` next to an operator `X` are variants: `X` with a
plausible mistake.  They are used by no specification; they are there to see
that a property notices the mistake (`PROJECT.json`, "mutants").

The conventions are the same everywhere.  `pc[r]` is the await, statement or
call that the handler of request `r` stands before; one action is the code from
there to the next such point, with its guard from the conditions and early
returns.  A row, document or account is named by the request that creates it,
since every handler draws its own id.  `Faults` names what the environment may
do: `"db"` fails a statement, before or after it took effect; `"crash"` ends the
process with all its handlers and keeps only the database; `"hangup"` or
`"disconnect"` lets the caller leave.  `reply = "lost"` is an answer that was
never written.

### PaymentService (`payment-service`)

`Send` is the arrival and model validation; `Replay` and `LookupMiss` are the
`FindByIdempotencyKey` of `ChargeAsync` with its two outcomes; `Insert` and
`InsertConflict` the first `SaveChanges` against the unique index; `SimulatedCharge`
and the five `Live...` actions the two gateway clients (the approval, the Polly
retries, the timeout over all of them, a `null` body, a body that does not
parse); `Record` the second `SaveChanges` and the answer.  `Cancelled` is the
`RequestAborted` token, which every await observes.  `StatusCode` is the switch
of the controller.  `captured[r]` counts what the processor took on behalf of a
handler, an effect outside of the program that the properties need.  `unheard[r]`
counts the calls that the client gave up without a verdict: for a lost answer, at
`HttpClient.Timeout`, or because the body says nothing.  For each of them the
processor may capture at any later time (`LateCapture`): while the handler retries,
after `Record` stored Failed, or when the process is gone.  Several
processes may share the database: `Live` are the requests that reach one in live
mode, and `Crash` takes the handlers of any of the processes with it.

`ChargeOnce` states what callers may rely on, per key: a payment is opened
once, captured by one session, settled once, and every final answer is its status.
What it says of money depends on whether the payment is in *doubt*, that is, whether a
call of the processor was given up.  If not, money moves only while the payment is
open, and it settles as Succeeded exactly when money moved.  If it is, Succeeded still
means money, but the capture may come after the payment settled as Failed (or, after
a `null` body, as Declined); Failed is said of payments in doubt only.  `ChargesOnce`
says that PaymentService implements this: the payment of a key is the row the index
let in, a session is a request that captured, a key is in doubt when a request of it
has `unheard` calls, and the answers are the `200`s and `402`s written for the key.

### OrderService (`order-service`)

`Place` validates; `VerifyUser`, `ItemRefused`/`ItemPriced` (one item per step:
the catalog may be edited between two items), `Persist`, `ChargeAnswered`,
`UpdateStatus` are the lines of `CreateOrder` in order.  `AttemptFailed` is the
loop of `ResilientClient.Do`: retry while attempts are left and the context is
alive, otherwise give up; giving up is a `502` before the order exists and
`finalStatus = FAILED` after.  `UpstreamError` and `ChargeBodyLost` are errors
without a retry.  `Disconnect` cancels the request context, after which every
call fails and every statement may.  `PersistFails` and `UpdateFails` follow the
code: the second is logged and the answer is given as if it had not happened.
The range of the `INTEGER` total appears as `MaxInt`.

### OrderServer (the process of `order-service`)

`OrderServer` is `OrderService` inside `cmd/server/main.go`.  `phase` is where
`main()` stands: `Start` reads the environment (`getEnvInt` makes 10 of an absent or
unreadable `DB_MAX_OPEN_CONNS`), `StartFails` is any of the early exits, `Listen` and
`Notify` are two steps because the goroutine that accepts requests is started
before `signal.Notify`, `Terminate` is the signal in every phase, `Drained` and
`ForceExit` the two ways out of `srv.Shutdown`, `Close` the deferred `pool.Close`,
`Kill` a crash.  `Exit` is what all ends have in common: handlers and connections
are gone, the tables stay.  A new process may be started after any of them.

`conns` are the connections in use.  `Acquire` gives one to a handler that stands
before a statement; `Transact` runs the whole transaction of `Create` or the `UPDATE`
on it and gives it back; `AcquireFails` is a statement that got none because its
caller left or the database cannot be reached.  The calls of other services hold
none (`CallUpstream`).

A reader asks again and again.  `GetByID` is two steps, `ScanOrders` and `ScanItems`,
each with a connection of its own, because `QueryRow(...).Scan` returns the first
before `getItems` asks for the second; `ListByUser` is `ScanOrders` alone.  `Ping` is
the readiness probe and `PingTimesOut` its 1.5 s.  A read that fails is a `500`, or a
`503` of the probe (`ReadFails`, `ReaderLeaves`).  `view` is what the read returned and
`known` the answers to `POST /orders` that were out when it was asked: the property
`ReadsFollowAnswers` compares the two.  `RefinesOrderService` is the refinement, with
the variables of OrderService mapped to themselves: it says that waiting for
connections, reads and every kind of exit add no outcome to `POST /orders`.

### Checkout (order-service over payment-service)

The n-th attempt to charge order `c` is the request `<<c, n>>` of
PaymentService, with the order id as key.  `PostCharge` lets it arrive,
`ChargeAnswered` and `ChargeRetried` bring the answer back, `AttemptAbandoned` is
a timeout or lost connection at any moment: before arrival, while payment-service
works, after it answered.  payment-service learns of it through `aborted`, at any
later moment or never.  `RefinesOrderService` shows that the composition is the
order-service described in OrderService, with payment-service as one possible
source of answers.

### Gateway, UserService, Signup, Storefront

`Gateway` has the body parser, the rate limiter, `authenticate` (with the
`500 server_misconfigured` of a gateway without `JWT_SECRET`: `Secretless` are the
clicks with a bearer token that meet one), the retry interceptor of `httpClient.js` (`RetryOr`) and the error handler's codes, for
any service behind it.  `UserService` has `existsByEmail`, the token that is made
before anything is stored (`MakeToken`), the insert at commit (`Commit`), `findByEmail`, the comparison, and operators that suspend accounts in the
table.  `Signup` and `Storefront` put UserService and OrderService behind the
gateway: attempt `n` of a click is `<<click, n>>`; `Deliver` lets an attempt arrive
even when it has been given up; only the answer to the attempt awaited counts.
`abandoned` in Storefront remembers the attempts whose answer the gateway never
saw; `OnlyLostAnswersDuplicate` and the guard of `Disconnect` use it.

### ProductService

`Insert` (INSERT and COMMIT of `create_product`), `Load` and `Commit` (of `update_product`
and `delete_product`) and `Refresh`.  What matters is what SQLAlchemy writes:
`Dirty` is the set of columns whose value differs from the one *loaded*, and
`Updated` applies only those to the row *as it is by then*.

### NotificationService

`Create` (the first save), `SmsUnsupported`, `SimulatedSend`, the `Live...` outcomes
of `HttpEmailProvider.send` with its loop, `Record` (the second save).  The
provider mode is chosen in `Init` and never changes.  `mailed[r]` counts the
emails the provider took.

## 3. The runs

| run | instance | what it shows |
|---|---|---|
| payment_races | 4 requests of one key: the charge at a process in live mode, two more of its order in simulated mode, one without a header and one declined, one refused by validation; 2 Polly retries; hangups, db, crashes of some or all handlers | one request captures, although calls that were given up may still be captured for at any time; captures have rows, answers agree with the table; ChargeOnce is implemented; every request ends, rows settle |
| order_faults | an order of two items and one whose second product does not exist; 1 retry; prices, stock and availability edited in between; a total that overflows; disconnects, db, crash | orders are complete, retried answers leave nothing, answers never contradict the table |
| order_server | one order of two pieces that may be sold out, 1 charge retry; a browser that asks for the order and for the list, a prober; pools of 0 (refused), 1, 2 and the fallback of 10; disconnects, db, crash, any number of restarts | see the properties in section 1; `TypeOK` includes the one of OrderService and the limit of the pool |
| checkout_retries | 1 order, 3 attempts, all faults of both services | settled rows tell the truth about the money; confirmed orders are paid; charged orders exist; the composition implements OrderService |
| checkout_fault_free | 4 calls: paid, declined, without account, unreadable; no faults | the databases agree; every order settles |
| signup | one registration and one login of the same email, 1 gateway retry, limit 1, suspensions, db, crash | see the properties in section 1 |
| storefront | one order, a guest, a token for a gateway without `JWT_SECRET`, an unreadable body; 1 gateway retry over 2 retries in order-service; disconnects, db, crash | see section 1 |
| catalog | 4 changes of one product (two of them bad), 3 creations (two of one sku, one out of range), db, crash | see section 1 |
| notifications | 5 requests, both provider modes, 1 retry, all faults | see section 1 |
| checkout_retry_unsafe, checkout_unreachable, order_records_failure | see section 5 | three statements of the documentation that the code does not keep |

**Bounds.** The interesting races are between two handlers of one key, one
email, one sku or one product; a third (payments) or a fourth (catalog) is there
so that an old and a new race overlap.  One key, one email and one address of
the limiter suffice because keys, emails and addresses never interact.  Retry
counts of 1 or 2 tell "first", "again" and "last" apart; the code treats every
attempt between alike.  Numbers are prices of 1 to 3 against a `MaxInt` of 2 or
8, so that both a value and a sum can overflow.  A pool of one connection is the smallest in
which a handler that held one while asking for the next would hang, and with two
three handlers still compete; the fallback of 10 never runs out.  In OrderServer the
catalog does not change, since OrderService covers its edits and no statement
reads it; one order is enough because handlers meet only in the pool, where the two
readers compete with it.  In the payment run no id
fails to be a GUID: such a request is refused (`400`) where it would insert and meets the others
only as a reader, and the theorems cover it (`Malformed` is any set there).  The counter of the limiter
stops at its maximum, past which counting makes no difference.  Deadlock is not
checked, since all runs end when all requests have been handled.

**Fairness.** Safety assumes none.  For liveness each handler is weakly fair on
the disjunction of *all* outcomes of what it waits for, so that something
happens and nothing is forced to succeed:

- PaymentService: Npgsql commands and `HttpClient` have timeouts, and the thread
  pool runs continuations that are ready.  Faults are not fair.
- OrderServer: the specification is fair only to what the program times itself
  (`Timers`): the deadline of the ping, that of the shutdown, and the close of the
  pool.  `TimeoutsHold` needs no more, so the database and every caller may hang for
  ever.  `HandlersEnd` states what it needs beyond that as its premise (`HandlersRun`):
  the database answers a statement that has its connection (statements have no
  deadline of their own), an HTTP attempt ends by the timeout of its `http.Client`,
  and the pool is strongly fair to those who wait, for pgxpool serves them in their
  order (a semaphore with a queue).  Weak fairness would not do: probes that come
  again and again take and return the last connection, which disables and enables
  the wait of a read for ever.  OrderService itself is only checked for safety.
- NotificationService: the event loop; `fetch` ends by its `AbortSignal` or the
  body timeout of the runtime.
- Signup: *only* the timer of the gateway; user-service may hang for ever and the
  click is still answered.
- Checkout without faults: both services run, and an answer that is written
  arrives.

**Liveness is not unconditional.**  After a crash or a database failure a Pending
payment, a PENDING order and a PENDING notification stay as they are: no service
looks for them on startup.  `RowsSettle` and `PendingSettles` say exactly this.

## 4. The proofs

Every theorem holds for all values of the constants that satisfy the assumptions
of the modules: all sets of requests, calls, clicks and products, every catalog,
mode, pool size, retry count and set of faults.  Where a theorem needs more it
says so in its hypotheses, listed here.  The parts of a system are proved in
modules of their own, `<module>Proofs`.  Every invariant that a run checks is
proved, and every action property and refinement.

| module | theorem | says |
|---|---|---|
| PaymentServiceProofs | `TypeCorrect` | `Spec => []TypeOK` |
| | `HandlersSound` | `Spec => [](TypeOK /\ HandlerInvariant)` |
| | `ChargesOncePerKey` | `Spec => []NoDoubleCharge` |
| | `NoUnbookedCapture` | `Spec => []CapturesAreBooked` |
| | `AnswersSound` | `Spec => []AnswersAgreeWithBooks` |
| | `ImplementsChargeOnce` | `Spec => ChargesOnce` |
| | `SimulatedRowsSound` | `Spec => []SettledRowsTellTheTruth`, if `Live = {}` |
| OrderServiceProofs | `TypeCorrect` | `Spec => []TypeOK` |
| | `RefusedCallsStoreNothing` | `Spec => []RetriedAnswersLeaveNoOrder` |
| | `AnswersSound` | `Spec => []AnswersNeverContradictTable` |
| | `StoredOrdersAreComplete` | `Spec => []OrdersAreComplete` |
| OrderServerProofs | `TypeCorrect` | `Spec => []TypeOK` |
| | `CleanExitsSound` | `Spec => CleanExitsDropNothing` |
| | `ReadsAgree` | `Spec => []ReadsFollowAnswers` |
| | `ReadsSound` | `Spec => []ReadsAreWhole` |
| | `ImplementsOrderService` | `Spec => RefinesOrderService`, if `"crash" \in Faults` |
| CheckoutProofs | `ConfirmationsArePaid` | `Spec => []ConfirmedOrdersArePaid` |
| | `ChargesHaveOrders` | `Spec => []ChargedOrdersExist` |
| | `SettledPaymentsAreTrue` | `Spec => []SettledRowsTellTheTruth`, if `Live = {}` |
| | `OrdersImplemented` | `Spec => RefinesOrderService`, if `"charge" \in Flaky` |
| | `BooksAgreeWithoutFaults` | `Spec => []BooksAgree`, if `FaultsOff` |
| ProductServiceProofs | `TypeCorrect` | `Spec => []TypeOK` |
| | `SkusStayUnique` | `Spec => []SkusUnique` |
| | `NoLostUpdates` | `Spec => []AcknowledgedWritesStick` |
| | `ChangesAreWhole` | `Spec => []ColumnsHaveAuthors` |
| | `ProductsRemain` | `Spec => ProductsStay` |
| SignupProofs | `TypeCorrect` | `Spec => []TypeOK` |
| | `EmailsAreUnique` | `Spec => []OneAccountPerEmail` |
| | `TokensAreHonest` | `Spec => []TokensNameStoredAccounts` |
| | `ConflictsAreHonest` | `Spec => []ConflictsAreReal` |
| StorefrontProofs | `DuplicatesAreLost` | `Spec => []OnlyLostAnswersDuplicate` |
| | `ClicksAreToldTheTruth` | `Spec => []AnswersAgreeWithOrders` |
| NotificationServiceProofs | `TypeCorrect` | `Spec => []TypeOK` |
| | `EmailsAreRecorded` | `Spec => []MailIsRecorded` |
| | `DocumentsSound` | `Spec => []StatusTellsTheTruth` |
| | `AnswersSound` | `Spec => []AnswersAgreeWithCollection` |

**The hypotheses.**  None of them hides a case a run checks.
`Live = {}` is every process in simulated mode, the default of the
configuration.  In live mode `SettledRowsTellTheTruth` is false and not claimed: a
call of the processor that was given up leaves a `Failed` row for which money may be taken,
before or after it is stored; `ChargesOnce` says what holds then.
`"charge" \in Flaky` and `"crash" \in Faults` say that the abstract order-service
admits what the concrete one cannot exclude: that a charge fails (a `502` of
payment-service while it works is enough), and that a process is killed.  `FaultsOff`
is no faults and simulated mode, which is what the claim of `BooksAgree` is about.

**Assumptions on constants.**  `SchemaAssumption` of ProductService is what the
schemas of `app/schemas/product.py` let through: a creation names a price and a stock,
a change any columns, each of which may be null; the seeded rows are rows.
`CheckoutAssumption`, `StorefrontAssumption`, `SignupAssumption` and
`OrdersAssumption` repeat those of the services composed.

**Payments.**  `NoDoubleCharge` is not inductive: a state in which two handlers of one key both
stand before the gateway satisfies it and the next two steps break it.
`HandlerInvariant` adds why that cannot be: (1) `OneOwnerPerKey`, the unique index;
(2) a handler before its insert owns no row; (3) a handler at the gateway or
before the second save owns a row, and it is Pending; (4) what such a handler
holds is a settled decision; (5) a `Succeeded` row has a capture; (6) the money is
accounted for (`MoneyAccounted`): a request captures at most once for each call given up
and once for an approval, only the owner of a row has called the processor, and
`Succeeded` is decided with a capture, `Failed` only after a call was given up.  With (1) and "captures are booked" two
capturing requests of one key are both its owner, hence one.  That the answers
agree with the table *for good* needs (3): a row that is no longer Pending has
no handler left to change it.  The steps are grouped by what they disturb:
`ReplayStep`, `InsertStep`, `ChargeStep`, `LateCaptureStep`, `RecordStep`, `DbFailureStep`, and
`QuietStep` for the ones that touch neither table nor money.  The invariant was
checked with TLC before it was proved; no run repeats it, since the runs check what
follows from it.  These five need none of the
assumptions on the constants: the index and the handlers compare keys, whatever
they are.

`ImplementsChargeOnce` stands on the same invariant and on one more,
`AnswersAreLast`: a handler that is not done has not answered, so that no answer
is ever taken back.  `LedgerMoves` and `AnswersGrow` say what a step does to the
mapped variables, at the key of the request and at no other; this is where
`KeysAssumption` is needed.  Then every step is matched: an insert that takes
effect is `Open`, the first capture of a handler `Capture` (`CaptureMoves`; a later one is
invisible: the processor may charge again, the session is the same), a call given
up `Doubt` (`DoubtStep`), the second save `Settle`, a replay of a settled row `Answer`, and
everything else a stutter.  A late capture comes when the row may be settled and the
handler gone (`LateCaptureOfContract`): (6) is why its payment is in doubt, and (1) why no
other session has captured for the key.  That `Settle` is justified is (4) to (6) again.  A
database failure is `Open`, `Settle` or a stutter, by what it committed.

`SimulatedRowsSound` counts the captures along a handler: none before the gateway, as many
as its decision says before the second save, and as many as the row says afterwards; no
call is ever given up, so that none comes late.

**Orders.**  Neither the types nor the answers are inductive alone: that the index
of the next item is in range follows from the stage of the handler, and what an
answer says from what was stored when it was given.  `IInv` adds, per call,
`StageSound`: no item is priced before the user is verified, the loop is never past
the last item, nothing is stored before the transaction, the order is PENDING until
its charge is over, `finalStatus` is one of two values at the update, and nobody has an
answer while the handler runs; and `AnswerSound`, which implies both properties.
The steps of one call leave the others alone (`OnlyAt`, `OthersKeep`), so
each lemma speaks of one call.  The proofs use the three assumptions of
OrderService on calls, catalog and retries (`TypeOK` needs the prices to be naturals).

`StoredOrdersAreComplete` speaks of a total that a recursive function sums over a list of
any length, and needs no induction over lists: the handler builds the list line by line, so the
induction over its steps is the one that is needed.  `SummedTo` says of a list and a number that
partial sums exist and that whatever they are, the last one is the number; `NothingSums`
and `AppendSums` are the two steps, and `TotalIsSum` brings `Total` back.
`CompleteInv` carries it from the loop (`Lists`) through the transaction into the table
(`Complete`), where only the status changes any more (`RowsKept`).

**The process.**  `SInv` says that `pc`, `rpc`, the answers and what readers know are functions and
that nobody works once the server is shut down or the process gone (`QuietWhenClosed`).  It is kept because
handlers start only while requests are accepted and `Drained` waits for the last of them;
that a clean exit takes no answer away and gives none follows.  For the refinement, every step of a
call (`CallStep`) is one of the disjuncts of OrderService's `Next`; `Acquire`, the steps of
readers and those of `main()` that end nothing leave its variables alone; an exit is its
`Crash`, or changes nothing when no call was in flight (`ExitStep`).  This is where
`"crash" \in Faults` is needed: the SIGTERM and SIGKILL of the environment are always
possible here and are crashes to OrderService.

The reads stand on `PInv`, which adds the invariant of the order-service inside, `PoolInv` and
`ReadSound`.  The limit of the pool is not inductive without knowing that no connection
outlives its process, for the next one may have a smaller limit.  A reader knows answers that
are still the answers, since nobody is answered twice; at the moment of the query the row
agrees with the answer (`RowsFollowAnswers`); and what was read does not change afterwards.
Between its two statements a reader holds a row without items (`HasHeader`): its total is still the
stored one when the items arrive, because a stored order only ever changes its status.

**Checkout.**  The services keep their own invariants here, by the lemmas of their own
modules: `OrderSide` and `PaymentSide` show that every step of Checkout is a step of each of them or
leaves it alone, if an attempt given up is a charge that failed to the one and a caller that
hung up to the other.  For that the instances `OP` and `PP` widen `Flaky` and `Faults` by these
two; an invariant for more faults is one for fewer.  `BooksConnected` is what
relates the two databases: an order counts as confirmed only when a row of its key has
succeeded, and payment-service hears of an order only after it was stored.  The two safety
theorems follow from it and `HandlerInvariant`.  `OrdersImplemented` needs no
widening of its own, only the hypothesis.  `BooksAgreeWithoutFaults` needs the most: `Calm` says
that nobody left, that only first attempts exist, that each ends in a verdict which its row
and its answer agree on, and where the payment stands for each stage of the call;
`NothingToReplay` is why no handler then meets the row of another, and `NothingLate`
why no capture comes late.

**Storefront and Signup.**  `ClickSound` says of a click that its answer is the one of its last attempt,
that no later attempt has arrived, and (Storefront) that each earlier one was given up or
answered `502`.  An order of an earlier attempt is then of one given up, since a `502` leaves no
order: that is `RefusedCallsStoreNothing` of OrderService again, through its invariant.  In Signup
`AccountSound` follows a request through user-service, the token that names an account
before it is stored included; `OneAccountPerEmail` is kept by the
index at commit and not by `existsByEmail`, which the proof never uses, and accounts never
go away, so that tokens and conflicts stay true.

**Products.**  `AcknowledgedWritesStick` is about values, and its inductive form is about what a
handler has *loaded*: `RequestSound` says that a column which no other request sets has in the
loaded object the value it has in the table.  Then `Dirty` either writes the column with the value asked for or
leaves it because it has it.  That a 409 is right for good needs `ProductsStay`'s argument,
that a sku in use stays in use.

**Notifications.**  `StageSound` follows a document through its handler: new and unsent
before the first save; stored as new while the provider is asked, counted only in memory,
with at most as many emails as attempts; a `Verdict` at the second save, that is, a status
which agrees with its reason and with the emails.  `RecordSound` is what stays when the
handler is gone, and implies the three properties.

**Model-checked only**: all liveness (`EveryRequestEnds`, `RowsSettle`, `OrdersSettle`,
`EveryClickIsAnswered`, `PendingSettles`, `TimeoutsHold`, `HandlersEnd`), which needs fairness and `ENABLED`
and is out of the prover's reach; and the violations of section 5, which are counterexamples.

**A caution for who extends the proofs.**  The SMT translation of this prover states for every value
that its domain is `1 .. Len` of it as soon as `Len` occurs in an obligation.  A function on
`0 .. n` in the same obligation makes it contradictory, and provable whatever it says.  The lemmas
about sums are therefore in terms of `n`; where both must occur, Zenon is named.

## 5. Where the documentation and the code disagree

1. **A retried charge** (`RetriedChargesAreSafe`, checkout_retry_unsafe).
   `PaymentProcessingService.cs:20-26` and `payment_client.go:32-35` say that a
   repeated key returns the original result, which makes a retry after a timeout
   safe.  The lookup returns a row in *any* status: a retry that arrives while
   the first handler is at the card gateway reads Pending and is told `502`.
   order-service counts that as a failure, stores the order as FAILED and answers
   `402`; the first handler then captures the money.
2. **Failed charges** (`FailedChargesAreRecorded`, order_records_failure).
   `order-service/README.md:125-128` says a declined or unreachable payment
   leaves the order as FAILED.  `UpdateStatus` runs on the context of the
   request; once the caller has left it fails, the error is logged, and the order
   stays PENDING.
3. **An unreachable payment-service** (`UnreachablePaymentsAreReported`,
   checkout_unreachable).  `docs/FAILURE_SCENARIOS.md:18` (scenario 8) says that
   order-service returns `502 upstream_unavailable` when it cannot reach user-service,
   product-service or payment-service, and that the order of a failed charge is left
   `FAILED`; line 17 says `upstream_unavailable` of a slow one as well.  `CreateOrder` makes
   `ErrPaymentDeclined` of every charge that fails (`order_service.go:108-123`), which is
   answered with `402`: the caller is told that the payment was declined.  The code
   should not simply be made to follow the document: the gateway posts an order again
   when it sees a `502`, so a `502` after a stored order would place it once per attempt.
   `RetriedAnswersLeaveNoOrder` and `OnlyLostAnswersDuplicate` hold because of the `402`,
   and the variant `GiveUp_BadGateway`, which is the documented answer, breaks both.

Two more that the models contain and no run repeats, since a single step shows them:

- **Active users.**  `user_client.go:19-20` says that the user is confirmed to be active.
  `VerifyUser` accepts any `200`, and `UserService.getById` (`UserService.java:73-76`)
  answers `200` for a suspended account, so a suspended user can place orders; `noItem`
  in order_faults is suspended and gets past `VerifyUser`.
- **An early SIGTERM.**  `README.md:157-158` says that every service drains its requests
  on SIGTERM before it exits, and `docs/FAILURE_SCENARIOS.md:34-36` that they complete.
  order-service starts the goroutine that accepts requests (`main.go:95`) before
  `signal.Notify` (line 108): a SIGTERM in between (`Terminate` in phase `listening`)
  ends the process at once and drops what was accepted.  To OrderService it is a crash.

Oddities that no run checks, because nothing moves in them: the test
`cfg.DBUser == ""` (`config.go:60`) never holds, for `getEnv` replaces an empty `DB_USER` by
its default; order-service accepts and returns an `X-Request-Id` but its clients do
not send it on; a user without orders is listed as `"items": null`.

Behaviour the models show that no document speaks of: one click can store
several orders (each attempt of the gateway draws a new id and thereby a new
payment key), though only when an answer was lost; live Polly retries post a
capture again without a key; a login may be granted on a status read before a
suspension; a duplicate email found at commit, and a body that is no JSON, are
answered `500` by user-service; an explicit `null` in a PATCH is answered `500`;
FAILED with `provider_unavailable` may belong to an email that was delivered; a
payment that is stored as Failed may be captured afterwards; `pool.Close` has no deadline, which does no harm because it only
runs when no handler is left; with a negative `HTTP_CLIENT_RETRY_ATTEMPTS` no call is
made and the handler panics on the missing response (`RetryAttempts` is a natural
number here).

## 6. What is abstracted, and what is left out

- A fault *between* two steps stands for one inside a statement: "committed, but
  the caller never learnt it" is the step followed by the fault, or the second
  disjunct of a failing statement.
- A call of the live card gateway that was given up may be captured for at once, later or
  never, at most once per call (`LateCapture`).  A handler that is cancelled or killed while
  it waits for the processor is one whose call was given up just before.  Which of its
  calls a late capture belongs to is not told apart.
- `JWT_SECRET` is read when the gateway starts; a gateway that runs without it appears as
  the clicks it receives (`Secretless`), with the limiter shared with the others.
- Go's `http.Transport` may itself resend a request that carries an
  Idempotency-Key when its connection breaks; to payment-service this is one more
  attempt with the key, of which the runs have several.
- Amounts, currencies, names and ids are members of small sets; the threshold of
  the simulated gateway is the set `Declines`.  Passwords are compared, not
  hashed.  A token is its subject: signatures and expiry are left out.
- The rate limiter is taken for one client address.
- A request that is read during a shutdown, on a connection accepted before it,
  counts as one that arrived before: `http.Server` waits for both.  `MaxConns` is an int32; settings
  beyond its range are left out.  `MinConns` (idle connections) is left to the pool.
- Of the configuration only `getEnvInt` and `DB_MAX_OPEN_CONNS` appear; retry counts are
  constants and timeouts have no length.
- Not modelled: the GET endpoints of the other services (they change nothing, and
  what order-service reads is in OrderService), their health and readiness endpoints
  and startup, logging, request ids, migrations and seed data.

## 7. Plan

Done, in this order: PaymentService with ChargeOnce, the proofs and the refinement;
OrderService; Checkout; Gateway, UserService and Signup; ProductService;
NotificationService; Storefront; OrderServer.

Next:

1. **Model.**  The whole path of a click in one module, Storefront over Checkout:
   a click that is tried twice may pay twice, under two order ids; state what the
   client can be told of that.  Two clicks and two keys in the payment runs, with
   symmetry.  The other services' shutdowns, where the runtime and not the code
   decides what is dropped.
2. **Prove.**  What is left to prove is what the model does not state yet: a composition of
   Storefront with Checkout (item 1) whose invariant joins `ClickSound` and `BooksConnected`,
   and ChargeOnce restated for the callers of payment-service so that Checkout could be
   proved from the contract instead of from `HandlerInvariant`.
