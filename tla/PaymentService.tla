--------------------------- MODULE PaymentService ---------------------------
(***************************************************************************)
(* The charge endpoint of payment-service: PaymentsController.Charge,      *)
(* PaymentProcessingService.ChargeAsync, the payments table with its       *)
(* unique index, and the two card gateway clients.                         *)
(*                                                                         *)
(* A request is one POST /api/v1/payments as it reaches the service: a     *)
(* retry is another request, usually with the same Idempotency-Key.  Each  *)
(* request is handled by its own asynchronous handler, so handlers         *)
(* interleave at every await: the lookup, the first SaveChanges, the call  *)
(* of the card gateway and the second SaveChanges.  The primary key of a   *)
(* row is the Guid its handler drew, so a row is named by the request      *)
(* whose handler inserted it.  The handlers may run in several processes   *)
(* over one database, as during a rolling deploy, and a process may be in  *)
(* either gateway mode.                                                    *)
(***************************************************************************)
EXTENDS Naturals, FiniteSets

CONSTANTS
    Requests,       \* charge requests
    Keys,           \* idempotency keys and order ids, as text
    NoHeader,       \* the Idempotency-Key header is absent or blank
    Header,         \* the Idempotency-Key header of a request
    OrderId,        \* the orderId in the body of a request
    BadModel,       \* requests that model validation refuses (amount, currency)
    Malformed,      \* requests whose orderId or userId is not a GUID
    Declines,       \* requests the simulated gateway declines: amount over the
                    \* threshold, or an unsupported currency
    Live,           \* requests that reach a process whose Gateway:Mode is
                    \* "live"; the mode of the others is "simulated"
    RetryAttempts,  \* Gateway:RetryAttempts, retries of the Polly policy
    Faults          \* the faults the environment may inject

ASSUME KeysAssumption ==
    /\ NoHeader \notin Keys
    /\ Header \in [Requests -> Keys \cup {NoHeader}]
    /\ OrderId \in [Requests -> Keys]

ASSUME GatewayAssumption ==
    /\ Live \subseteq Requests
    /\ RetryAttempts \in Nat

ASSUME FaultsAssumption == Faults \subseteq {"hangup", "db", "crash"}

VARIABLES
    pc,         \* where the handler of a request stands
    row,        \* table payments: the status of the row a request inserted
    decision,   \* payment.Status in the memory of the handler
    unheard,    \* calls of the card processor given up without its verdict
    captured,   \* captures at the card processor caused by a request
    reply,      \* the HTTP answer a handler wrote
    aborted     \* requests whose caller closed the connection

vars == <<pc, row, decision, unheard, captured, reply, aborted>>

Settled   == {"Succeeded", "Failed", "Declined"}
Awaiting  == {"lookup", "insert", "charge", "record"}
HttpCodes == {"200", "400", "402", "500", "502"}

\* The key falls back to the orderId when the header is absent.
IdempotencyKey(r) == IF Header[r] = NoHeader THEN OrderId[r] ELSE Header[r]

RowsFor(k) == {r \in Requests : row[r] # "absent" /\ IdempotencyKey(r) = k}

\* Variant: a payment that is still open is answered as a conflict.
StatusCode_ConflictIfPending(status) ==
    CASE status = "Succeeded" -> "200"
      [] status = "Declined"  -> "402"
      [] status = "Pending"   -> "409"
      [] OTHER                -> "502"

\* Variant: anything that is not a decline is answered as a success.
StatusCode_PendingIsOk(status) == IF status = "Declined" THEN "402" ELSE "200"

\* The switch of the controller: Pending and Failed rows both answer 502.
StatusCode(status) ==
    CASE status = "Succeeded" -> "200"
      [] status = "Declined"  -> "402"
      [] OTHER                -> "502"

TypeOK ==
    /\ pc       \in [Requests -> Awaiting \cup {"unsent", "done"}]
    /\ row      \in [Requests -> Settled \cup {"absent", "Pending"}]
    /\ decision \in [Requests -> Settled \cup {"Pending"}]
    /\ unheard  \in [Requests -> Nat]
    /\ captured \in [Requests -> Nat]
    /\ reply    \in [Requests -> HttpCodes \cup {"none", "lost"}]
    /\ aborted  \subseteq Requests

Init ==
    /\ pc       = [r \in Requests |-> "unsent"]
    /\ row      = [r \in Requests |-> "absent"]
    /\ decision = [r \in Requests |-> "Pending"]
    /\ unheard  = [r \in Requests |-> 0]
    /\ captured = [r \in Requests |-> 0]
    /\ reply    = [r \in Requests |-> "none"]
    /\ aborted  = {}

-----------------------------------------------------------------------------
(***************************************************************************)
(* One handler.                                                            *)
(***************************************************************************)
At(r, label) == pc[r] = label

GoTo(r, label) ==
    /\ pc' = [pc EXCEPT ![r] = label]
    /\ UNCHANGED reply

Finish(r, answer) ==
    /\ pc'    = [pc EXCEPT ![r] = "done"]
    /\ reply' = [reply EXCEPT ![r] = answer]

\* A caller posts a charge; model validation refuses it before the handler runs.
Send(r) ==
    /\ At(r, "unsent")
    /\ IF r \in BadModel THEN Finish(r, "400") ELSE GoTo(r, "lookup")
    /\ UNCHANGED <<row, decision, unheard, captured, aborted>>

\* Variant: a replay waits until the first handler has the result.
Replay_WaitsForResult(r) ==
    /\ At(r, "lookup")
    /\ \E p \in RowsFor(IdempotencyKey(r)) :
          row[p] \in Settled /\ Finish(r, StatusCode(row[p]))
    /\ UNCHANGED <<row, decision, unheard, captured, aborted>>

\* A row with the key is replayed, whatever its status.
Replay(r) ==
    /\ At(r, "lookup")
    /\ \E p \in RowsFor(IdempotencyKey(r)) : Finish(r, StatusCode(row[p]))
    /\ UNCHANGED <<row, decision, unheard, captured, aborted>>

\* No row has the key: the ids are parsed, and a bad one is answered 400.
LookupMiss(r) ==
    /\ At(r, "lookup")
    /\ RowsFor(IdempotencyKey(r)) = {}
    /\ IF r \in Malformed THEN Finish(r, "400") ELSE GoTo(r, "insert")
    /\ UNCHANGED <<row, decision, unheard, captured, aborted>>

\* Variant: the index exists but is not unique.
IndexAdmits_NotUnique(r) == TRUE

\* The unique index on idempotency_key.
IndexAdmits(r) == RowsFor(IdempotencyKey(r)) = {}

\* Variant: the first SaveChanges is forgotten.
Insert_NotSaved(r) ==
    /\ At(r, "insert")
    /\ IndexAdmits(r)
    /\ GoTo(r, "charge")
    /\ UNCHANGED <<row, decision, unheard, captured, aborted>>

\* The first SaveChanges commits the Pending row.
Insert(r) ==
    /\ At(r, "insert")
    /\ IndexAdmits(r)
    /\ row' = [row EXCEPT ![r] = "Pending"]
    /\ GoTo(r, "charge")
    /\ UNCHANGED <<decision, unheard, captured, aborted>>

\* The index refuses the row; nothing catches the DbUpdateException.
InsertConflict(r) ==
    /\ At(r, "insert")
    /\ ~IndexAdmits(r)
    /\ Finish(r, "500")
    /\ UNCHANGED <<row, decision, unheard, captured, aborted>>

\* The handler holds an outcome of the gateway and moves on to record it.
Decide(r, status) ==
    /\ decision' = [decision EXCEPT ![r] = status]
    /\ GoTo(r, "record")

Capture(r) == captured' = [captured EXCEPT ![r] = @ + 1]

\* The client gives up a call of the processor.  Only such calls are retried,
\* so that unheard counts the retries of the Polly policy as well.
GiveUpCall(r) == unheard' = [unheard EXCEPT ![r] = @ + 1]

\* SimulatedPaymentGatewayClient: an approval is the capture.
SimulatedCharge(r) ==
    /\ At(r, "charge")
    /\ r \notin Live
    /\ \/ /\ r \in Declines
          /\ Decide(r, "Declined")
          /\ UNCHANGED captured
       \/ /\ r \notin Declines
          /\ Decide(r, "Succeeded")
          /\ Capture(r)
    /\ UNCHANGED <<row, unheard, aborted>>

\* The processor answers 2xx with its verdict.
LiveVerdict(r) ==
    /\ At(r, "charge")
    /\ r \in Live
    /\ \/ Decide(r, "Succeeded") /\ Capture(r)
       \/ Decide(r, "Declined") /\ UNCHANGED captured
    /\ UNCHANGED <<row, unheard, aborted>>

\* The processor answers 2xx with the body null, which counts as a decline
\* although it says nothing of the money.
LiveEmptyBody(r) ==
    /\ At(r, "charge")
    /\ r \in Live
    /\ Decide(r, "Declined")
    /\ GiveUpCall(r)
    /\ UNCHANGED <<row, captured, aborted>>

\* 5xx, 408 or a transport error: the policy posts the charge again, until
\* its retries are used up and the client reports the gateway unavailable.
LiveTransientError(r) ==
    /\ At(r, "charge")
    /\ r \in Live
    /\ IF unheard[r] < RetryAttempts
       THEN UNCHANGED <<pc, decision, reply>>
       ELSE Decide(r, "Failed")
    /\ GiveUpCall(r)
    /\ UNCHANGED <<row, captured, aborted>>

\* HttpClient.Timeout spans all retries, and a 4xx is not retried: both are
\* reported as unavailable at once.
LiveUnavailable(r) ==
    /\ At(r, "charge")
    /\ r \in Live
    /\ Decide(r, "Failed")
    /\ GiveUpCall(r)
    /\ UNCHANGED <<row, captured, aborted>>

\* A 2xx with a body that is not the expected JSON: nothing catches the
\* exception of the deserialiser, and the row stays Pending.
LiveUnreadableBody(r) ==
    /\ At(r, "charge")
    /\ r \in Live
    /\ Finish(r, "500")
    /\ GiveUpCall(r)
    /\ UNCHANGED <<row, decision, captured, aborted>>

\* Variant: the second SaveChanges is forgotten.
Record_NotSaved(r) ==
    /\ At(r, "record")
    /\ Finish(r, StatusCode(decision[r]))
    /\ UNCHANGED <<row, decision, unheard, captured, aborted>>

\* The second SaveChanges updates the row by its id, and the handler answers.
Record(r) ==
    /\ At(r, "record")
    /\ row' = [row EXCEPT ![r] = decision[r]]
    /\ Finish(r, StatusCode(decision[r]))
    /\ UNCHANGED <<decision, unheard, captured, aborted>>

Charge(r) ==
    \/ SimulatedCharge(r)
    \/ LiveVerdict(r)
    \/ LiveEmptyBody(r)
    \/ LiveTransientError(r)
    \/ LiveUnavailable(r)
    \/ LiveUnreadableBody(r)

Handler(r) ==
    \/ Replay(r)
    \/ LookupMiss(r)
    \/ Insert(r)
    \/ InsertConflict(r)
    \/ Charge(r)
    \/ Record(r)

-----------------------------------------------------------------------------
(***************************************************************************)
(* The card processor.  It was sent every call that was given up, and may  *)
(* capture for it at any time or never: while the handler retries or waits *)
(* for its database, after the payment has settled, or when the process is *)
(* gone.  A capture whose handler is cancelled or killed at the gateway is *)
(* a call given up before the cancellation or the crash.                   *)
(***************************************************************************)

\* The captures that the calls of a request allow: one for each call.
Chargeable(r) == unheard[r] + (IF decision[r] = "Succeeded" THEN 1 ELSE 0)

LateCapture(r) ==
    /\ captured[r] < Chargeable(r)
    /\ Capture(r)
    /\ UNCHANGED <<pc, row, decision, unheard, reply, aborted>>

-----------------------------------------------------------------------------
(***************************************************************************)
(* Faults.  A fault between two steps of a handler also covers a fault     *)
(* inside a statement: "committed, but the caller never learnt it" is the  *)
(* step followed by the fault.                                             *)
(***************************************************************************)

\* The caller gives up: RequestAborted is signalled to the handler.
HangUp(r) ==
    /\ "hangup" \in Faults
    /\ pc[r] \in Awaiting
    /\ r \notin aborted
    /\ aborted' = aborted \cup {r}
    /\ UNCHANGED <<pc, row, decision, unheard, captured, reply>>

\* Variant: a catch-all around the charge marks the cancelled row Failed.
Cancelled_MarksFailed(r) ==
    /\ pc[r] \in Awaiting
    /\ r \in aborted
    /\ Finish(r, "lost")
    /\ row' = [row EXCEPT ![r] = IF pc[r] \in {"charge", "record"} THEN "Failed" ELSE @]
    /\ UNCHANGED <<decision, unheard, captured, aborted>>

\* An await of an aborted request throws OperationCanceledException, which
\* neither the service nor the controller catches.
Cancelled(r) ==
    /\ pc[r] \in Awaiting
    /\ r \in aborted
    /\ Finish(r, "lost")
    /\ UNCHANGED <<row, decision, unheard, captured, aborted>>

\* A database command fails, before or after it took effect: 500.
DbFailure(r) ==
    /\ "db" \in Faults
    /\ pc[r] \in {"lookup", "insert", "record"}
    /\ Finish(r, "500")
    /\ \/ UNCHANGED row
       \/ At(r, "insert") /\ IndexAdmits(r) /\ row' = [row EXCEPT ![r] = "Pending"]
       \/ At(r, "record") /\ row' = [row EXCEPT ![r] = decision[r]]
    /\ UNCHANGED <<decision, unheard, captured, aborted>>

\* A process dies with the handlers in it; the table survives.
InFlight == {r \in Requests : pc[r] \in Awaiting}

Crash ==
    /\ "crash" \in Faults
    /\ \E lost \in SUBSET InFlight \ {{}} :
          /\ pc'    = [r \in Requests |-> IF r \in lost THEN "done" ELSE pc[r]]
          /\ reply' = [r \in Requests |-> IF r \in lost THEN "lost" ELSE reply[r]]
    /\ UNCHANGED <<row, decision, unheard, captured, aborted>>

Next ==
    \/ \E r \in Requests :
          \/ Send(r)
          \/ Handler(r)
          \/ LateCapture(r)
          \/ HangUp(r)
          \/ Cancelled(r)
          \/ DbFailure(r)
    \/ Crash

\* Every await of a handler ends: database commands and gateway calls have
\* timeouts, and the thread pool runs every continuation that is ready.
Fairness == \A r \in Requests : WF_vars(Handler(r))

Spec == Init /\ [][Next]_vars

FairSpec == Spec /\ Fairness
-----------------------------------------------------------------------------
(***************************************************************************)
(* Promises.                                                               *)
(***************************************************************************)
SameKey(r, s) == IdempotencyKey(r) = IdempotencyKey(s)

Owns(r) == row[r] # "absent"

\* Requests with one idempotency key never both capture money, however their
\* handlers race, abort, crash or fail: Payment.cs promises that a retried
\* request never results in a double charge.
NoDoubleCharge ==
    \A r, s \in Requests :
        captured[r] > 0 /\ captured[s] > 0 /\ SameKey(r, s) => r = s

\* Money is captured only after a row that names the charge is durable, so
\* that no crash can leave a capture the table knows nothing of.
CapturesAreBooked == \A r \in Requests : captured[r] > 0 => Owns(r)

\* An answer a caller may act on agrees with the table now, and therefore
\* with every other such answer for the key: 200 with a Succeeded row that
\* has its capture, 402 with a Declined row.
AnswersAgreeWithBooks ==
    \A r \in Requests :
        /\ reply[r] = "200" =>
              \E s \in Requests : /\ SameKey(r, s)
                                  /\ row[s] = "Succeeded"
                                  /\ captured[s] > 0
        /\ reply[r] = "402" =>
              \E s \in Requests : SameKey(r, s) /\ row[s] = "Declined"

\* Why the three promises above hold, whatever fails: a handler owns no row
\* and no money before its insert, owns its Pending row until it has recorded
\* the decision, and the index lets only one row in for a key.  There is a
\* capture for every approval, and at most one more for each call given up.
OneOwnerPerKey ==
    \A r, s \in Requests : Owns(r) /\ Owns(s) /\ SameKey(r, s) => r = s

MoneyAccounted(r) ==
    /\ captured[r] <= Chargeable(r)
    /\ unheard[r] > 0 \/ decision[r] # "Pending" => Owns(r)
    /\ decision[r] = "Succeeded" => captured[r] > 0
    /\ decision[r] = "Failed" => unheard[r] > 0

HandlerInvariant ==
    /\ OneOwnerPerKey
    /\ CapturesAreBooked
    /\ AnswersAgreeWithBooks
    /\ \A r \in Requests :
          /\ pc[r] \in {"unsent", "lookup", "insert"} => ~Owns(r)
          /\ pc[r] \in {"unsent", "lookup", "insert", "charge"} => decision[r] = "Pending"
          /\ pc[r] \in {"charge", "record"} => row[r] = "Pending"
          /\ pc[r] = "record" => decision[r] \in Settled
          /\ row[r] = "Succeeded" => captured[r] > 0
          /\ MoneyAccounted(r)

\* With the simulated gateway a settled row tells the truth about the money.
SettledRowsTellTheTruth ==
    \A r \in Requests :
        row[r] \in Settled => captured[r] = IF row[r] = "Succeeded" THEN 1 ELSE 0

\* A request that reached the service is always answered or dropped.
EveryRequestEnds ==
    \A r \in Requests : pc[r] = "lookup" ~> pc[r] = "done"

\* A Pending row settles unless its handler ended in a 500 (a statement that
\* failed, a body of the processor that cannot be read) or in no answer at all:
\* a handler that tells its caller of a payment has recorded it.
RowsSettle ==
    \A r \in Requests :
        row[r] = "Pending" ~> row[r] \in Settled \/ reply[r] \in {"500", "lost"}

\* The implementation of ChargeOnce: the payment of a key is the row the
\* unique index let in, its sessions are the requests that captured, and it is
\* in doubt once a call of the processor was given up.
Ledger ==
    [k \in Keys |-> IF RowsFor(k) = {} THEN "absent" ELSE row[CHOOSE r \in RowsFor(k) : TRUE]]

Charger ==
    [k \in Keys |-> {r \in Requests : captured[r] > 0 /\ IdempotencyKey(r) = k}]

Answers ==
    [k \in Keys |->
        {code \in {"200", "402"} :
            \E r \in Requests : IdempotencyKey(r) = k /\ reply[r] = code}]

Doubtful == {k \in Keys : \E r \in Requests : unheard[r] > 0 /\ IdempotencyKey(r) = k}

Contract == INSTANCE ChargeOnce WITH
    Sessions <- Requests,
    ledger   <- Ledger,
    charger  <- Charger,
    doubtful <- Doubtful,
    answers  <- Answers

\* Every behaviour of the handlers, faults and late captures included, is one
\* of the contract.
ChargesOnce == Contract!Spec
=============================================================================
