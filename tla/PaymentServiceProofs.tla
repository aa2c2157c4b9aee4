------------------------ MODULE PaymentServiceProofs ------------------------
(***************************************************************************)
(* Proofs about PaymentService, for every set of requests and keys, every  *)
(* gateway mode and every choice of faults.                                *)
(***************************************************************************)
EXTENDS PaymentService, TLAPS

IInv == TypeOK /\ HandlerInvariant

\* The initial state, in which no request was sent, satisfies the invariant.
LEMMA InitIInv == Init => IInv
BY DEF Init, IInv, TypeOK, HandlerInvariant, OneOwnerPerKey, CapturesAreBooked,
       AnswersAgreeWithBooks, MoneyAccounted, Chargeable, Owns, Awaiting, Settled, HttpCodes

\* Every step keeps every variable in its type.
LEMMA TypeStep == TypeOK /\ [Next]_vars => TypeOK'
<1> SUFFICES ASSUME TypeOK, [Next]_vars
             PROVE  TypeOK'
  OBVIOUS
<1> USE DEF TypeOK, Awaiting, Settled, HttpCodes
<1>1. ASSUME NEW r \in Requests, Send(r)
      PROVE  TypeOK'
  BY <1>1 DEF Send, At, GoTo, Finish
<1>2. ASSUME NEW r \in Requests, Replay(r)
      PROVE  TypeOK'
  BY <1>2 DEF Replay, At, Finish, StatusCode
<1>3. ASSUME NEW r \in Requests, LookupMiss(r) \/ Insert(r) \/ InsertConflict(r)
      PROVE  TypeOK'
  BY <1>3 DEF LookupMiss, Insert, InsertConflict, At, GoTo, Finish
<1>4. ASSUME NEW r \in Requests, Charge(r)
      PROVE  TypeOK'
  BY <1>4 DEF Charge, SimulatedCharge, LiveVerdict, LiveEmptyBody, LiveTransientError,
              LiveUnavailable, LiveUnreadableBody, GiveUpCall, Capture, Decide, GoTo,
              Finish, At
<1>5. ASSUME NEW r \in Requests, Record(r)
      PROVE  TypeOK'
  BY <1>5 DEF Record, Finish, At, StatusCode
<1>6. ASSUME NEW r \in Requests,
             LateCapture(r) \/ HangUp(r) \/ Cancelled(r) \/ DbFailure(r)
      PROVE  TypeOK'
  BY <1>6 DEF LateCapture, Capture, HangUp, Cancelled, DbFailure, Finish, At
<1>7. CASE Crash
  BY <1>7 DEF Crash, InFlight
<1>8. CASE UNCHANGED vars
  BY <1>8 DEF vars
<1> QED
  BY <1>1, <1>2, <1>3, <1>4, <1>5, <1>6, <1>7, <1>8 DEF Next, Handler

\* Handlers are typed in every reachable state, whatever fails.
THEOREM TypeCorrect == Spec => []TypeOK
<1>1. Init => TypeOK
  BY InitIInv DEF IInv
<1> QED
  BY <1>1, TypeStep, PTL DEF Spec

-----------------------------------------------------------------------------
(***************************************************************************)
(* The inductive step of HandlerInvariant, one lemma per kind of step.     *)
(***************************************************************************)

\* An answer read off a row agrees with that row.
LEMMA StatusCodeFacts ==
    ASSUME NEW status
    PROVE  /\ StatusCode(status) = "200" <=> status = "Succeeded"
           /\ StatusCode(status) = "402" <=> status = "Declined"
           /\ StatusCode(status) \in HttpCodes
BY Zenon DEF StatusCode, HttpCodes

\* A replay answers what the row of its key says.
LEMMA ReplayStep ==
    ASSUME IInv, NEW r \in Requests, Replay(r)
    PROVE  HandlerInvariant'
<1> USE DEF IInv, HandlerInvariant, TypeOK
<1>1. PICK p \in RowsFor(IdempotencyKey(r)) : Finish(r, StatusCode(row[p]))
  BY DEF Replay
<1>2. p \in Requests /\ Owns(p) /\ SameKey(r, p)
  BY DEF RowsFor, Owns, SameKey
<1>3. AnswersAgreeWithBooks'
  BY <1>1, <1>2, StatusCodeFacts DEF AnswersAgreeWithBooks, SameKey, Finish, Replay, IdempotencyKey
<1> QED
  BY <1>1, <1>3 DEF Replay, Finish, OneOwnerPerKey, CapturesAreBooked, MoneyAccounted,
                    Chargeable, Owns, SameKey, IdempotencyKey, At

\* The insert is where the unique index keeps a second owner out.
LEMMA InsertStep ==
    ASSUME IInv, NEW r \in Requests, Insert(r)
    PROVE  HandlerInvariant'
<1> USE DEF IInv, HandlerInvariant, TypeOK, Insert, GoTo, At
<1>1. ~Owns(r) /\ \A s \in Requests : Owns(s) => ~SameKey(r, s)
  BY DEF IndexAdmits, RowsFor, Owns, SameKey
<1>2. OneOwnerPerKey'
  BY <1>1 DEF OneOwnerPerKey, Owns, SameKey, IdempotencyKey
<1>3. CapturesAreBooked' /\ AnswersAgreeWithBooks'
  BY <1>1 DEF CapturesAreBooked, AnswersAgreeWithBooks, Owns, SameKey, IdempotencyKey
<1> QED
  BY <1>1, <1>2, <1>3 DEF Owns, MoneyAccounted, Chargeable

\* A call of the gateway moves money only for the owner of the key.
LEMMA ChargeStep ==
    ASSUME IInv, NEW r \in Requests, Charge(r)
    PROVE  HandlerInvariant'
<1> USE DEF IInv, HandlerInvariant, TypeOK
<1>1. /\ At(r, "charge")
      /\ UNCHANGED row
      /\ \/ pc' = pc /\ UNCHANGED reply
         \/ pc' = [pc EXCEPT ![r] = "record"] /\ UNCHANGED reply
         \/ Finish(r, "500")
  BY DEF Charge, SimulatedCharge, LiveVerdict, LiveEmptyBody, LiveTransientError,
         LiveUnavailable, LiveUnreadableBody, Decide, GoTo, Finish, At
<1>2. Owns(r) /\ row[r] = "Pending" /\ decision[r] = "Pending" /\ MoneyAccounted(r)
  BY <1>1 DEF At, Owns
<1>3. \/ /\ UNCHANGED unheard
         /\ \/ decision' = [decision EXCEPT ![r] = "Succeeded"] /\ Capture(r)
            \/ decision' = [decision EXCEPT ![r] = "Declined"] /\ UNCHANGED captured
         /\ pc' = [pc EXCEPT ![r] = "record"]
      \/ /\ GiveUpCall(r)
         /\ UNCHANGED captured
         /\ \/ pc' = pc /\ UNCHANGED decision
            \/ Finish(r, "500") /\ UNCHANGED decision
            \/ /\ \E status \in {"Declined", "Failed"} :
                     decision' = [decision EXCEPT ![r] = status]
               /\ pc' = [pc EXCEPT ![r] = "record"]
  BY DEF Charge, SimulatedCharge, LiveVerdict, LiveEmptyBody, LiveTransientError,
         LiveUnavailable, LiveUnreadableBody, Decide, GoTo, Finish, At
<1>4. ASSUME NEW s \in Requests, s # r
      PROVE  /\ pc'[s] = pc[s] /\ decision'[s] = decision[s] /\ unheard'[s] = unheard[s]
             /\ captured'[s] = captured[s]
  BY <1>3, <1>4 DEF GiveUpCall, Capture, Finish
<1>5. captured[r] > 0 => captured'[r] > 0
  BY <1>3 DEF Capture
<1>6. OneOwnerPerKey' /\ CapturesAreBooked'
  BY <1>1, <1>2, <1>4 DEF OneOwnerPerKey, CapturesAreBooked, Owns, SameKey, IdempotencyKey
<1>7. AnswersAgreeWithBooks'
  <2>1. \A s \in Requests : reply'[s] \in {"200", "402"} => reply'[s] = reply[s]
    BY <1>1 DEF Finish
  <2>2. ASSUME NEW s \in Requests, captured[s] > 0
        PROVE  captured'[s] > 0
    <3>1. CASE s = r
      BY <1>5, <2>2, <3>1
    <3>2. CASE s # r
      BY <1>4, <2>2, <3>2
    <3> QED
      BY <3>1, <3>2
  <2> QED
    BY <1>1, <2>1, <2>2 DEF AnswersAgreeWithBooks, SameKey, IdempotencyKey
<1>8. MoneyAccounted(r)'
  BY <1>1, <1>2, <1>3 DEF MoneyAccounted, Chargeable, GiveUpCall, Capture, Owns
<1>9. /\ pc'[r] \in {"charge", "record", "done"}
      /\ pc'[r] = "charge" => decision'[r] = "Pending"
      /\ pc'[r] = "record" => decision'[r] \in Settled
  BY <1>1, <1>2, <1>3 DEF Finish, Settled, At
<1>10. ASSUME NEW s \in Requests, s # r
       PROVE  MoneyAccounted(s)'
  BY <1>1, <1>4, <1>10 DEF MoneyAccounted, Chargeable, Owns
<1> QED
  BY <1>1, <1>2, <1>4, <1>6, <1>7, <1>8, <1>9, <1>10 DEF Owns

\* A capture for a call that was given up touches neither table nor answers.
LEMMA LateCaptureStep ==
    ASSUME IInv, NEW r \in Requests, LateCapture(r)
    PROVE  HandlerInvariant'
<1> USE DEF IInv, HandlerInvariant, TypeOK, LateCapture, Capture
<1>1. Owns(r)
  BY DEF MoneyAccounted, Chargeable
<1>2. \A s \in Requests : captured'[s] >= captured[s] /\ (s # r => captured'[s] = captured[s])
  OBVIOUS
<1>3. OneOwnerPerKey' /\ CapturesAreBooked'
  BY <1>1, <1>2 DEF OneOwnerPerKey, CapturesAreBooked, Owns, SameKey, IdempotencyKey
<1>4. AnswersAgreeWithBooks'
  BY <1>2 DEF AnswersAgreeWithBooks, SameKey, IdempotencyKey
<1>5. \A s \in Requests : MoneyAccounted(s)'
  BY DEF MoneyAccounted, Chargeable, Owns
<1> QED
  BY <1>2, <1>3, <1>4, <1>5 DEF Owns

\* The record step makes the row agree with the decision and the answer.
LEMMA RecordStep ==
    ASSUME IInv, NEW r \in Requests, Record(r)
    PROVE  HandlerInvariant'
<1> USE DEF IInv, HandlerInvariant, TypeOK, Record, Finish, At
<1>1. /\ Owns(r) /\ row[r] = "Pending" /\ decision[r] \in Settled
      /\ decision[r] = "Succeeded" => captured[r] > 0
  BY DEF Owns, MoneyAccounted
<1>2. OneOwnerPerKey' /\ CapturesAreBooked'
  BY <1>1 DEF OneOwnerPerKey, CapturesAreBooked, Owns, SameKey, IdempotencyKey, Settled
<1>3. AnswersAgreeWithBooks'
  BY <1>1, StatusCodeFacts DEF AnswersAgreeWithBooks, SameKey, IdempotencyKey
<1>4. \A s \in Requests : MoneyAccounted(s)'
  BY <1>1 DEF MoneyAccounted, Chargeable, Owns, Settled
<1>5. ASSUME NEW s \in Requests
      PROVE  /\ pc'[s] \in {"unsent", "lookup", "insert"} => ~Owns(s)'
             /\ pc'[s] \in {"unsent", "lookup", "insert", "charge"} => decision'[s] = "Pending"
             /\ pc'[s] \in {"charge", "record"} => row'[s] = "Pending"
             /\ pc'[s] = "record" => decision'[s] \in Settled
             /\ row'[s] = "Succeeded" => captured'[s] > 0
  <2>1. CASE s = r
    BY <1>1, <2>1 DEF MoneyAccounted
  <2>2. CASE s # r
    BY <2>2 DEF Owns
  <2> QED
    BY <2>1, <2>2
<1> QED
  BY <1>2, <1>3, <1>4, <1>5

\* A failing database command commits what the step would have, or nothing.
LEMMA DbFailureStep ==
    ASSUME IInv, NEW r \in Requests, DbFailure(r)
    PROVE  HandlerInvariant'
<1> USE DEF IInv, HandlerInvariant, TypeOK, DbFailure, Finish, At
<1>1. CASE UNCHANGED row
  BY <1>1 DEF OneOwnerPerKey, CapturesAreBooked, AnswersAgreeWithBooks, MoneyAccounted,
              Chargeable, Owns, SameKey, IdempotencyKey
<1>2. CASE At(r, "insert") /\ IndexAdmits(r) /\ row' = [row EXCEPT ![r] = "Pending"]
  <2>1. ~Owns(r) /\ \A s \in Requests : Owns(s) => ~SameKey(r, s)
    BY <1>2 DEF IndexAdmits, RowsFor, Owns, SameKey
  <2> QED
    BY <1>2, <2>1 DEF OneOwnerPerKey, CapturesAreBooked, AnswersAgreeWithBooks,
                      MoneyAccounted, Chargeable, Owns, SameKey, IdempotencyKey
<1>3. CASE At(r, "record") /\ row' = [row EXCEPT ![r] = decision[r]]
  <2>1. Owns(r) /\ row[r] = "Pending" /\ decision[r] \in Settled
    BY <1>3 DEF Owns
  <2> QED
    BY <1>3, <2>1 DEF OneOwnerPerKey, CapturesAreBooked, AnswersAgreeWithBooks,
                      MoneyAccounted, Chargeable, Owns, SameKey, IdempotencyKey, Settled
<1> QED
  BY <1>1, <1>2, <1>3

\* The remaining steps touch neither the table nor the money.
LEMMA QuietStep ==
    ASSUME IInv,
           \/ \E r \in Requests : \/ Send(r) \/ LookupMiss(r) \/ InsertConflict(r)
                                  \/ HangUp(r) \/ Cancelled(r)
           \/ Crash
           \/ UNCHANGED vars
    PROVE  HandlerInvariant'
<1> USE DEF IInv, HandlerInvariant, TypeOK, OneOwnerPerKey, CapturesAreBooked,
            AnswersAgreeWithBooks, MoneyAccounted, Chargeable, Owns, SameKey, IdempotencyKey
<1>1. ASSUME NEW r \in Requests, Send(r) \/ LookupMiss(r) \/ InsertConflict(r)
      PROVE  HandlerInvariant'
  BY <1>1 DEF Send, LookupMiss, InsertConflict, GoTo, Finish, At
<1>2. ASSUME NEW r \in Requests, HangUp(r) \/ Cancelled(r)
      PROVE  HandlerInvariant'
  BY <1>2 DEF HangUp, Cancelled, Finish
<1>3. CASE Crash
  BY <1>3 DEF Crash, InFlight
<1>4. CASE UNCHANGED vars
  BY <1>4 DEF vars
<1> QED
  BY <1>1, <1>2, <1>3, <1>4

LEMMA HandlerInvariantStep == IInv /\ [Next]_vars => HandlerInvariant'
BY ReplayStep, InsertStep, ChargeStep, RecordStep, LateCaptureStep, DbFailureStep, QuietStep
   DEF Next, Handler

\* The inductive invariant holds in every reachable state.
THEOREM HandlersSound == Spec => [](TypeOK /\ HandlerInvariant)
<1>1. IInv /\ [Next]_vars => IInv'
  BY TypeStep, HandlerInvariantStep DEF IInv
<1>2. IInv <=> TypeOK /\ HandlerInvariant
  BY DEF IInv
<1> QED
  BY <1>1, <1>2, InitIInv, PTL DEF Spec

-----------------------------------------------------------------------------
(***************************************************************************)
(* The promises.                                                           *)
(***************************************************************************)

\* However many handlers of one key race, abort or crash, at most one of them
\* ever captures money (the unique index of the payments table).
THEOREM ChargesOncePerKey == Spec => []NoDoubleCharge
<1>1. TypeOK /\ HandlerInvariant => NoDoubleCharge
  BY DEF HandlerInvariant, NoDoubleCharge, OneOwnerPerKey, CapturesAreBooked
<1> QED
  BY <1>1, HandlersSound, PTL

\* No crash leaves a capture without a durable row (the first SaveChanges
\* comes before the call of the gateway).
THEOREM NoUnbookedCapture == Spec => []CapturesAreBooked
<1>1. TypeOK /\ HandlerInvariant => CapturesAreBooked
  BY DEF HandlerInvariant
<1> QED
  BY <1>1, HandlersSound, PTL

\* Every 200 and every 402 ever written agrees with the table for good.
THEOREM AnswersSound == Spec => []AnswersAgreeWithBooks
<1>1. TypeOK /\ HandlerInvariant => AnswersAgreeWithBooks
  BY DEF HandlerInvariant
<1> QED
  BY <1>1, HandlersSound, PTL

-----------------------------------------------------------------------------
(***************************************************************************)
(* What compositions need to know.                                         *)
(***************************************************************************)

\* A settled row is never written again, and no request is taken back.
LEMMA SettledRowsStay ==
    ASSUME IInv, [Next]_vars, NEW r \in Requests
    PROVE  /\ row[r] \in Settled => row'[r] = row[r]
           /\ pc[r] # "unsent" => pc'[r] # "unsent"
<1> USE DEF IInv, TypeOK, HandlerInvariant, Owns, At, GoTo, Finish, Settled, Awaiting
<1>1. ASSUME NEW q \in Requests,
             \/ Send(q) \/ Replay(q) \/ LookupMiss(q) \/ InsertConflict(q)
             \/ LateCapture(q) \/ HangUp(q) \/ Cancelled(q)
      PROVE  row' = row /\ (pc' = pc \/ \E label : pc' = [pc EXCEPT ![q] = label] /\ label # "unsent")
  BY <1>1 DEF Send, Replay, LookupMiss, InsertConflict, LateCapture, HangUp, Cancelled
<1>2. ASSUME NEW q \in Requests, Charge(q)
      PROVE  row' = row /\ (pc' = pc \/ \E label : pc' = [pc EXCEPT ![q] = label] /\ label # "unsent")
  BY <1>2 DEF Charge, SimulatedCharge, LiveVerdict, LiveEmptyBody, LiveTransientError,
              LiveUnavailable, LiveUnreadableBody, Decide
<1>3. ASSUME NEW q \in Requests, Insert(q) \/ Record(q) \/ DbFailure(q)
      PROVE  /\ row' = row \/ (row[q] \notin Settled /\ \E status : row' = [row EXCEPT ![q] = status])
             /\ \E label : pc' = [pc EXCEPT ![q] = label] /\ label # "unsent"
  BY <1>3 DEF Insert, Record, DbFailure
<1>4. CASE Crash
  BY <1>4 DEF Crash, InFlight
<1>5. CASE UNCHANGED vars
  BY <1>5 DEF vars
<1> QED
  BY <1>1, <1>2, <1>3, <1>4, <1>5 DEF Next, Handler

-----------------------------------------------------------------------------
(***************************************************************************)
(* PaymentService implements ChargeOnce: every step of a handler, and      *)
(* every fault, is a step of the contract or changes nothing that the      *)
(* contract speaks of.                                                     *)
(***************************************************************************)

\* A handler has answered, or been dropped, exactly when it is done.
AnswersAreLast == \A r \in Requests : pc[r] = "done" <=> reply[r] # "none"

LEMMA AnswersAreLastStep == IInv /\ AnswersAreLast /\ [Next]_vars => AnswersAreLast'
<1> SUFFICES ASSUME IInv, AnswersAreLast, [Next]_vars
             PROVE  AnswersAreLast'
  OBVIOUS
<1> USE DEF IInv, TypeOK, AnswersAreLast
<1>1. ASSUME NEW r \in Requests, Send(r) \/ Handler(r)
      PROVE  AnswersAreLast'
  <2>1. \/ UNCHANGED <<pc, reply>>
        \/ \E label : label # "done" /\ At(r, pc[r]) /\ pc[r] # "done" /\ GoTo(r, label)
        \/ \E answer : Finish(r, answer) /\ answer # "none"
    BY <1>1, StatusCodeFacts
       DEF Send, Handler, Replay, LookupMiss, Insert, InsertConflict, Charge,
           SimulatedCharge, LiveVerdict, LiveEmptyBody, LiveTransientError,
           LiveUnavailable, LiveUnreadableBody, Decide, Record, At, GoTo, HttpCodes
  <2> QED
    BY <2>1 DEF GoTo, Finish
<1>2. ASSUME NEW r \in Requests,
             LateCapture(r) \/ HangUp(r) \/ Cancelled(r) \/ DbFailure(r)
      PROVE  AnswersAreLast'
  BY <1>2 DEF LateCapture, HangUp, Cancelled, DbFailure, Finish
<1>3. CASE Crash
  BY <1>3 DEF Crash, InFlight
<1>4. CASE UNCHANGED vars
  BY <1>4 DEF vars
<1> QED
  BY <1>1, <1>2, <1>3, <1>4 DEF Next

RInv == IInv /\ AnswersAreLast

LEMMA RefinementInvariant == Spec => []RInv
<1>1. Init => RInv
  BY InitIInv DEF RInv, AnswersAreLast, Init
<1>2. RInv /\ [Next]_vars => RInv'
  BY TypeStep, HandlerInvariantStep, AnswersAreLastStep DEF RInv, IInv
<1> QED
  BY <1>1, <1>2, PTL DEF Spec

-----------------------------------------------------------------------------
(***************************************************************************)
(* What the mapping says of one key.                                       *)
(***************************************************************************)
LEMMA KeyOfRequest == \A r \in Requests : IdempotencyKey(r) \in Keys
BY KeysAssumption DEF IdempotencyKey

\* The payment of a key is the row of its owner.
LEMMA LedgerFacts ==
    ASSUME HandlerInvariant, NEW k \in Keys
    PROVE  /\ \A r \in Requests : Owns(r) /\ IdempotencyKey(r) = k => Ledger[k] = row[r]
           /\ (\A r \in Requests : Owns(r) => IdempotencyKey(r) # k) => Ledger[k] = "absent"
<1>1. ASSUME NEW r \in Requests, Owns(r), IdempotencyKey(r) = k
      PROVE  Ledger[k] = row[r]
  <2>1. RowsFor(k) = {r}
    BY <1>1 DEF HandlerInvariant, OneOwnerPerKey, RowsFor, Owns, SameKey
  <2>2. (CHOOSE s \in RowsFor(k) : TRUE) = r
    BY <2>1
  <2> QED
    BY <2>1, <2>2 DEF Ledger
<1>2. ASSUME \A r \in Requests : Owns(r) => IdempotencyKey(r) # k
      PROVE  Ledger[k] = "absent"
  <2>1. RowsFor(k) = {}
    BY <1>2 DEF RowsFor, Owns
  <2> QED
    BY <2>1 DEF Ledger
<1> QED
  BY <1>1, <1>2

LEMMA LedgerFactsAfter ==
    ASSUME HandlerInvariant', NEW k \in Keys
    PROVE  /\ \A r \in Requests : Owns(r)' /\ IdempotencyKey(r) = k => Ledger'[k] = row'[r]
           /\ (\A r \in Requests : Owns(r)' => IdempotencyKey(r) # k) => Ledger'[k] = "absent"
<1>1. ASSUME NEW r \in Requests, Owns(r)', IdempotencyKey(r) = k
      PROVE  Ledger'[k] = row'[r]
  <2>1. RowsFor(k)' = {r}
    BY <1>1 DEF HandlerInvariant, OneOwnerPerKey, RowsFor, Owns, SameKey, IdempotencyKey
  <2>2. (CHOOSE s \in RowsFor(k)' : TRUE) = r
    BY <2>1
  <2> QED
    BY <2>1, <2>2 DEF Ledger
<1>2. ASSUME \A r \in Requests : Owns(r)' => IdempotencyKey(r) # k
      PROVE  Ledger'[k] = "absent"
  <2>1. RowsFor(k)' = {}
    BY <1>2 DEF RowsFor, Owns, IdempotencyKey
  <2> QED
    BY <2>1 DEF Ledger
<1> QED
  BY <1>1, <1>2

\* A step of the owner of a key, or one that makes r its owner, moves the
\* payment of that key and no other.
LEMMA LedgerMoves ==
    ASSUME RInv, RInv', NEW r \in Requests, NEW status,
           row' = [row EXCEPT ![r] = status],
           status # "absent"
    PROVE  Ledger' = [Ledger EXCEPT ![IdempotencyKey(r)] = status]
<1> DEFINE k == IdempotencyKey(r)
<1> USE DEF RInv, IInv
<1>1. row \in [Requests -> Settled \cup {"absent", "Pending"}]
  BY DEF TypeOK
<1>2. k \in Keys
  BY KeyOfRequest
<1>3. Ledger'[k] = status
  BY <1>1, <1>2, LedgerFactsAfter DEF Owns
<1>4. ASSUME NEW j \in Keys, j # k
      PROVE  Ledger'[j] = Ledger[j]
  <2>1. CASE \E s \in Requests : Owns(s) /\ IdempotencyKey(s) = j
    <3>1. PICK s \in Requests : Owns(s) /\ IdempotencyKey(s) = j
      BY <2>1
    <3>2. s # r /\ row'[s] = row[s] /\ Owns(s)'
      BY <1>1, <1>4, <3>1 DEF Owns
    <3> QED
      BY <3>1, <3>2, LedgerFacts, LedgerFactsAfter
  <2>2. CASE \A s \in Requests : Owns(s) => IdempotencyKey(s) # j
    <3>1. \A s \in Requests : Owns(s)' => IdempotencyKey(s) # j
      BY <1>1, <1>4, <2>2 DEF Owns
    <3> QED
      BY <2>2, <3>1, LedgerFacts, LedgerFactsAfter
  <2> QED
    BY <2>1, <2>2
<1>5. Ledger \in [Keys -> {Ledger[j] : j \in Keys}] /\ Ledger' \in [Keys -> {Ledger'[j] : j \in Keys}]
  BY DEF Ledger
<1> QED
  BY <1>2, <1>3, <1>4, <1>5

LEMMA LedgerStays == ASSUME UNCHANGED row PROVE UNCHANGED Ledger
BY DEF Ledger, RowsFor, IdempotencyKey

LEMMA ChargerStays == ASSUME UNCHANGED captured PROVE UNCHANGED Charger
BY DEF Charger, IdempotencyKey

LEMMA DoubtfulStays == ASSUME UNCHANGED unheard PROVE UNCHANGED Doubtful
BY DEF Doubtful, IdempotencyKey

LEMMA AnswersStay == ASSUME UNCHANGED reply PROVE UNCHANGED Answers
BY DEF Answers, IdempotencyKey

\* An answer is added to those of its key; only 200 and 402 are told.
LEMMA AnswersGrow ==
    ASSUME RInv, NEW r \in Requests, pc[r] # "done", NEW code, Finish(r, code)
    PROVE  Answers' = [Answers EXCEPT ![IdempotencyKey(r)] = @ \cup ({code} \cap {"200", "402"})]
<1> DEFINE k == IdempotencyKey(r)
<1>1. reply[r] = "none" /\ reply' = [reply EXCEPT ![r] = code] /\ reply \in [Requests -> HttpCodes \cup {"none", "lost"}]
  BY DEF RInv, IInv, TypeOK, AnswersAreLast, Finish
<1>2. k \in Keys
  BY KeyOfRequest
<1>3. ASSUME NEW j \in Keys
      PROVE  Answers'[j] = IF j = k THEN Answers[j] \cup ({code} \cap {"200", "402"}) ELSE Answers[j]
  <2>1. \A told \in {"200", "402"} :
           (\E s \in Requests : IdempotencyKey(s) = j /\ reply'[s] = told) <=>
           \/ \E s \in Requests : IdempotencyKey(s) = j /\ reply[s] = told
           \/ j = k /\ code = told
    BY <1>1
  <2>2. /\ Answers[j] = {told \in {"200", "402"} : \E s \in Requests : IdempotencyKey(s) = j /\ reply[s] = told}
        /\ Answers'[j] = {told \in {"200", "402"} : \E s \in Requests : IdempotencyKey(s) = j /\ reply'[s] = told}
    BY DEF Answers, IdempotencyKey
  <2>3. CASE j = k
    <3>1. \A told : told \in Answers'[j] <=> told \in Answers[j] \cup ({code} \cap {"200", "402"})
      BY <2>1, <2>2, <2>3
    <3>2. Answers'[j] = Answers[j] \cup ({code} \cap {"200", "402"})
      BY <3>1
    <3> QED
      BY <2>3, <3>2
  <2>4. CASE j # k
    BY <2>1, <2>2, <2>4
  <2> QED
    BY <2>3, <2>4
<1>4. Answers \in [Keys -> {Answers[j] : j \in Keys}] /\ Answers' \in [Keys -> {Answers'[j] : j \in Keys}]
  BY DEF Answers
<1> QED
  BY <1>2, <1>3, <1>4

\* An answer that is neither 200 nor 402 adds nothing.
LEMMA AnswersQuiet ==
    ASSUME RInv, NEW r \in Requests, pc[r] # "done", NEW code,
           code \notin {"200", "402"}, Finish(r, code)
    PROVE  UNCHANGED Answers
<1>1. Answers' = [Answers EXCEPT ![IdempotencyKey(r)] = @ \cup ({code} \cap {"200", "402"})]
  BY AnswersGrow
<1>2. {code} \cap {"200", "402"} = {}
  OBVIOUS
<1>3. Answers = [j \in Keys |-> Answers[j]]
  BY DEF Answers
<1> QED
  BY <1>1, <1>2, <1>3

-----------------------------------------------------------------------------
(***************************************************************************)
(* Every step is a step of the contract or a stutter of it.                *)
(***************************************************************************)
ContractStep == Contract!Next \/ UNCHANGED <<Ledger, Charger, Doubtful, Answers>>

\* An insert that takes effect opens the payment, whoever learns of it.
LEMMA OpenStep ==
    ASSUME RInv, RInv', NEW r \in Requests,
           At(r, "insert"), IndexAdmits(r),
           row' = [row EXCEPT ![r] = "Pending"],
           UNCHANGED <<captured, unheard>>,
           UNCHANGED reply \/ Finish(r, "500")
    PROVE  ContractStep
<1> DEFINE k == IdempotencyKey(r)
<1>1. k \in Keys
  BY KeyOfRequest
<1>2. Ledger[k] = "absent"
  BY <1>1, LedgerFacts DEF IndexAdmits, RowsFor, Owns, RInv, IInv
<1>3. Ledger' = [Ledger EXCEPT ![k] = "Pending"]
  BY LedgerMoves
<1>4. UNCHANGED <<Charger, Doubtful, Answers>>
  BY ChargerStays, DoubtfulStays, AnswersStay, AnswersQuiet DEF At
<1> QED
  BY <1>1, <1>2, <1>3, <1>4 DEF ContractStep, Contract!Next, Contract!Open

\* A capture of the owner of a key, at whatever time, is that of its payment.
LEMMA CaptureMoves ==
    ASSUME RInv, NEW r \in Requests, Owns(r), Capture(r),
           row[r] = "Pending" \/ unheard[r] > 0,
           UNCHANGED <<Ledger, Doubtful, Answers>>
    PROVE  ContractStep
<1> DEFINE k == IdempotencyKey(r)
<1> USE DEF RInv, IInv
<1>1. k \in Keys
  BY KeyOfRequest
<1>2. captured \in [Requests -> Nat] /\ captured' = [captured EXCEPT ![r] = @ + 1]
  BY DEF TypeOK, Capture
<1>3. Ledger[k] = "Pending" \/ k \in Doubtful
  BY <1>1, LedgerFacts DEF Doubtful
<1>4. CASE captured[r] > 0
  <2>1. \A s \in Requests : captured'[s] > 0 <=> captured[s] > 0
    BY <1>2, <1>4
  <2>2. UNCHANGED Charger
    BY <2>1 DEF Charger, IdempotencyKey
  <2> QED
    BY <2>2 DEF ContractStep
<1>5. CASE captured[r] = 0
  <2>1. \A s \in Requests : captured[s] > 0 => ~SameKey(r, s)
    BY <1>5 DEF HandlerInvariant, OneOwnerPerKey, CapturesAreBooked
  <2>2. \A s \in Requests : captured'[s] > 0 <=> captured[s] > 0 \/ s = r
    BY <1>2, <1>5
  <2>3. Charger[k] = {}
    BY <1>1, <2>1 DEF Charger, SameKey
  <2>4. \A j \in Keys : Charger'[j] = IF j = k THEN {r} ELSE Charger[j]
    BY <2>1, <2>2 DEF Charger, SameKey, IdempotencyKey
  <2>5. Charger' = [Charger EXCEPT ![k] = {r}]
    BY <1>1, <2>4 DEF Charger
  <2> QED
    BY <1>1, <1>3, <2>3, <2>5 DEF ContractStep, Contract!Next, Contract!Capture
<1> QED
  BY <1>2, <1>4, <1>5

\* A call that is given up puts the payment of its key in doubt.
LEMMA DoubtStep ==
    ASSUME RInv, NEW r \in Requests, row[r] = "Pending", GiveUpCall(r),
           UNCHANGED <<Ledger, Charger, Answers>>
    PROVE  ContractStep
<1> DEFINE k == IdempotencyKey(r)
<1> USE DEF RInv, IInv
<1>1. k \in Keys /\ Ledger[k] = "Pending"
  BY KeyOfRequest, LedgerFacts DEF Owns
<1>2. \A s \in Requests : unheard'[s] > 0 <=> unheard[s] > 0 \/ s = r
  BY DEF GiveUpCall, TypeOK
<1>3. \A j \in Keys : j \in Doubtful' <=> j \in Doubtful \/ j = k
  BY <1>2 DEF Doubtful, IdempotencyKey
<1>4. Doubtful \subseteq Keys /\ Doubtful' \subseteq Keys
  BY DEF Doubtful
<1>5. Doubtful' = Doubtful \cup {k}
  BY <1>1, <1>3, <1>4
<1> QED
  BY <1>1, <1>5 DEF ContractStep, Contract!Next, Contract!Doubt

\* A call of the gateway captures, leaves a doubt, or is a decline.
LEMMA GatewayStep ==
    ASSUME RInv, RInv', NEW r \in Requests, Charge(r)
    PROVE  ContractStep
<1> USE DEF RInv, IInv
<1>1. /\ At(r, "charge")
      /\ UNCHANGED row
      /\ \/ UNCHANGED unheard /\ (Capture(r) \/ UNCHANGED captured)
         \/ GiveUpCall(r) /\ UNCHANGED captured
      /\ UNCHANGED reply \/ Finish(r, "500")
  BY DEF Charge, SimulatedCharge, LiveVerdict, LiveEmptyBody, LiveTransientError,
         LiveUnavailable, LiveUnreadableBody, Decide, GoTo
<1>2. row[r] = "Pending" /\ Owns(r)
  BY <1>1 DEF HandlerInvariant, At, Owns
<1>3. UNCHANGED <<Ledger, Answers>>
  BY <1>1, LedgerStays, AnswersStay, AnswersQuiet DEF At
<1>4. UNCHANGED unheard => UNCHANGED Doubtful
  BY DoubtfulStays
<1>5. UNCHANGED captured => UNCHANGED Charger
  BY ChargerStays
<1> QED
  BY <1>1, <1>2, <1>3, <1>4, <1>5, CaptureMoves, DoubtStep DEF ContractStep

LEMMA LateCaptureOfContract ==
    ASSUME RInv, RInv', NEW r \in Requests, LateCapture(r)
    PROVE  ContractStep
<1> USE DEF RInv, IInv
<1>1. /\ Capture(r) /\ captured[r] < Chargeable(r)
      /\ UNCHANGED <<row, unheard, reply>>
  BY DEF LateCapture
<1>2. UNCHANGED <<Ledger, Doubtful, Answers>>
  BY <1>1, LedgerStays, DoubtfulStays, AnswersStay
<1>3. Owns(r) /\ unheard[r] > 0
  BY <1>1 DEF TypeOK, HandlerInvariant, MoneyAccounted, Chargeable
<1> QED
  BY <1>1, <1>2, <1>3, CaptureMoves

\* Recording a decision settles the payment; the caller may not be told.
LEMMA SettleStep ==
    ASSUME RInv, RInv', NEW r \in Requests,
           At(r, "record"),
           row' = [row EXCEPT ![r] = decision[r]],
           UNCHANGED <<captured, unheard>>,
           Finish(r, "500") \/ Finish(r, StatusCode(decision[r]))
    PROVE  ContractStep
<1> DEFINE k == IdempotencyKey(r)
<1> USE DEF RInv, IInv
<1>1. k \in Keys
  BY KeyOfRequest
<1>2. /\ row[r] = "Pending" /\ Owns(r)
      /\ decision[r] \in Settled
      /\ MoneyAccounted(r)
  BY DEF HandlerInvariant, At, Owns
<1>3. Ledger[k] = "Pending" /\ Ledger' = [Ledger EXCEPT ![k] = decision[r]]
  BY <1>1, <1>2, LedgerFacts, LedgerMoves DEF Settled
<1>4. decision[r] \in Contract!Final /\ Contract!Justified(k, decision[r])
  <2>1. captured[r] > 0 => r \in Charger[k]
    BY <1>1 DEF Charger
  <2>2. unheard[r] > 0 => k \in Doubtful
    BY <1>1 DEF Doubtful
  <2>3. \A s \in Charger[k] : s = r /\ captured[r] > 0
    BY <1>1, <1>2 DEF Charger, HandlerInvariant, CapturesAreBooked, OneOwnerPerKey, SameKey
  <2>4. captured[r] > 0 /\ decision[r] # "Succeeded" => unheard[r] > 0
    BY <1>2 DEF MoneyAccounted, Chargeable, TypeOK
  <2> QED
    BY <1>2, <2>1, <2>2, <2>3, <2>4 DEF MoneyAccounted, Settled, Contract!Final, Contract!Justified
<1>5. UNCHANGED <<Charger, Doubtful>>
  BY ChargerStays, DoubtfulStays
<1>6. UNCHANGED Answers \/ Answers' = [Answers EXCEPT ![k] = Contract!FinalAnswer(decision[r])]
  <2>1. CASE Finish(r, "500")
    BY <2>1, AnswersQuiet DEF At
  <2>2. CASE Finish(r, StatusCode(decision[r]))
    <3>1. Answers[k] = {}
      BY <1>1, <1>2 DEF Answers, HandlerInvariant, AnswersAgreeWithBooks, OneOwnerPerKey,
                        SameKey, Owns
    <3>2. Contract!FinalAnswer(decision[r]) = {StatusCode(decision[r])} \cap {"200", "402"}
      BY <1>2 DEF Contract!FinalAnswer, StatusCode, Settled
    <3>3. Answers' = [Answers EXCEPT ![k] = @ \cup ({StatusCode(decision[r])} \cap {"200", "402"})]
      BY <2>2, AnswersGrow DEF At
    <3> QED
      BY <1>1, <3>1, <3>2, <3>3
  <2> QED
    BY <2>1, <2>2
<1> QED
  BY <1>1, <1>3, <1>4, <1>5, <1>6 DEF ContractStep, Contract!Next, Contract!Settle

\* A replay tells the status of a settled payment, and nothing of an open one.
LEMMA AnswerStep ==
    ASSUME RInv, RInv', NEW r \in Requests, Replay(r)
    PROVE  ContractStep
<1> DEFINE k == IdempotencyKey(r)
<1> USE DEF RInv, IInv
<1>1. k \in Keys
  BY KeyOfRequest
<1>2. PICK p \in RowsFor(k) : Finish(r, StatusCode(row[p]))
  BY DEF Replay
<1>3. p \in Requests /\ Owns(p) /\ IdempotencyKey(p) = k
  BY <1>2 DEF RowsFor, Owns
<1>4. Ledger[k] = row[p] /\ row[p] \in Settled \cup {"Pending"}
  BY <1>1, <1>3, LedgerFacts DEF TypeOK, Owns
<1>5. UNCHANGED <<Ledger, Charger, Doubtful>>
  BY LedgerStays, ChargerStays, DoubtfulStays DEF Replay
<1>6. Answers' = [Answers EXCEPT ![k] = @ \cup ({StatusCode(row[p])} \cap {"200", "402"})]
  BY <1>2, AnswersGrow DEF Replay, At
<1>7. CASE row[p] = "Pending"
  <2>1. StatusCode(row[p]) \notin {"200", "402"}
    BY <1>7, StatusCodeFacts
  <2> QED
    BY <1>2, <1>5, <2>1, AnswersQuiet DEF ContractStep, Replay, At
<1>8. CASE row[p] \in Settled
  <2>1. Contract!FinalAnswer(row[p]) = {StatusCode(row[p])} \cap {"200", "402"}
    BY <1>8 DEF Contract!FinalAnswer, StatusCode, Settled
  <2>2. row[p] \in Contract!Final
    BY <1>8 DEF Settled, Contract!Final
  <2> QED
    BY <1>1, <1>4, <1>5, <1>6, <2>1, <2>2 DEF ContractStep, Contract!Next, Contract!Answer
<1> QED
  BY <1>4, <1>7, <1>8

\* The remaining steps: nothing moves but the place of a handler, and answers
\* that say nothing of the payment.
LEMMA StutterStep ==
    ASSUME RInv, RInv',
           \/ \E r \in Requests : \/ Send(r) \/ LookupMiss(r) \/ InsertConflict(r)
                                  \/ HangUp(r) \/ Cancelled(r)
           \/ Crash
           \/ UNCHANGED vars
    PROVE  ContractStep
<1>1. UNCHANGED <<row, captured, unheard>>
  BY DEF Send, LookupMiss, InsertConflict, HangUp, Cancelled, Crash, vars
<1>2. UNCHANGED Answers
  <2>1. ASSUME NEW r \in Requests, Send(r) \/ LookupMiss(r) \/ InsertConflict(r) \/ Cancelled(r)
        PROVE  UNCHANGED Answers
    <3>1. /\ pc[r] # "done"
          /\ \/ UNCHANGED reply
             \/ \E code : code \notin {"200", "402"} /\ Finish(r, code)
      BY <2>1 DEF Send, LookupMiss, InsertConflict, Cancelled, At, GoTo, Awaiting
    <3> QED
      BY <3>1, AnswersStay, AnswersQuiet
  <2>2. ASSUME NEW r \in Requests, HangUp(r)
        PROVE  UNCHANGED Answers
    BY <2>2, AnswersStay DEF HangUp
  <2>3. CASE Crash
    <3>1. \A r \in Requests : reply'[r] = reply[r] \/ (reply[r] = "none" /\ reply'[r] = "lost")
      BY <2>3 DEF Crash, InFlight, Awaiting, RInv, AnswersAreLast
    <3>2. \A r \in Requests, code \in {"200", "402"} : reply'[r] = code <=> reply[r] = code
      BY <3>1
    <3> QED
      BY <3>2 DEF Answers, IdempotencyKey
  <2>4. CASE UNCHANGED vars
    BY <2>4, AnswersStay DEF vars
  <2> QED
    BY <2>1, <2>2, <2>3, <2>4
<1> QED
  BY <1>1, <1>2, LedgerStays, ChargerStays, DoubtfulStays DEF ContractStep

LEMMA DbFailureOfContract ==
    ASSUME RInv, RInv', NEW r \in Requests, DbFailure(r)
    PROVE  ContractStep
<1>1. UNCHANGED <<captured, unheard>> /\ Finish(r, "500") /\ pc[r] # "done"
  BY DEF DbFailure
<1>2. CASE UNCHANGED row
  BY <1>1, <1>2, LedgerStays, ChargerStays, DoubtfulStays, AnswersQuiet DEF ContractStep
<1>3. CASE At(r, "insert") /\ IndexAdmits(r) /\ row' = [row EXCEPT ![r] = "Pending"]
  BY <1>1, <1>3, OpenStep
<1>4. CASE At(r, "record") /\ row' = [row EXCEPT ![r] = decision[r]]
  BY <1>1, <1>4, SettleStep
<1> QED
  BY <1>2, <1>3, <1>4 DEF DbFailure

LEMMA EveryStep == RInv /\ RInv' /\ [Next]_vars => ContractStep
<1> SUFFICES ASSUME RInv, RInv', [Next]_vars
             PROVE  ContractStep
  OBVIOUS
<1>1. ASSUME NEW r \in Requests, Insert(r)
      PROVE  ContractStep
  BY <1>1, OpenStep DEF Insert, GoTo
<1>2. ASSUME NEW r \in Requests, Record(r)
      PROVE  ContractStep
  BY <1>2, SettleStep DEF Record
<1> QED
  BY <1>1, <1>2, AnswerStep, GatewayStep, LateCaptureOfContract, DbFailureOfContract, StutterStep
     DEF Next, Handler

LEMMA InitContract == Init => Contract!Init
<1> SUFFICES ASSUME Init
             PROVE  Contract!Init
  OBVIOUS
<1>1. \A k \in Keys : RowsFor(k) = {}
  BY DEF Init, RowsFor
<1>2. Ledger = [k \in Keys |-> "absent"]
  BY <1>1 DEF Ledger
<1>3. Charger = [k \in Keys |-> {}]
  BY DEF Init, Charger
<1>4. Answers = [k \in Keys |-> {}]
  BY DEF Init, Answers
<1>5. Doubtful = {}
  BY DEF Init, Doubtful
<1> QED
  BY <1>2, <1>3, <1>4, <1>5 DEF Contract!Init

\* What payment-service promises per idempotency key, kept by its racing,
\* aborted and crashing handlers, however late the processor captures for a
\* call that was given up: every behaviour is one of ChargeOnce.
THEOREM ImplementsChargeOnce == Spec => ChargesOnce
<1>1. RInv /\ RInv' /\ [Next]_vars => [Contract!Next]_Contract!vars
  BY EveryStep DEF ContractStep, Contract!vars
<1> QED
  BY <1>1, InitContract, RefinementInvariant, PTL DEF Spec, ChargesOnce, Contract!Spec

-----------------------------------------------------------------------------
(***************************************************************************)
(* With every process in simulated mode.                                   *)
(***************************************************************************)

\* The simulated gateway captures when it approves, once, and at no other
\* time: what a handler holds, and then the row, tells the truth.
SimulatedSound ==
    \A r \in Requests :
        /\ unheard[r] = 0
        /\ pc[r] \in {"unsent", "lookup", "insert", "charge"} => captured[r] = 0
        /\ decision[r] = "Succeeded" => captured[r] = 1
        /\ pc[r] = "record" => captured[r] = IF decision[r] = "Succeeded" THEN 1 ELSE 0
        /\ row[r] \in Settled => captured[r] = IF row[r] = "Succeeded" THEN 1 ELSE 0

LEMMA SimulatedStep ==
    ASSUME Live = {}, IInv, SimulatedSound, [Next]_vars
    PROVE  SimulatedSound'
<1> USE DEF IInv, TypeOK, SimulatedSound
<1>1. ASSUME NEW r \in Requests, Send(r) \/ Replay(r) \/ LookupMiss(r) \/ InsertConflict(r)
      PROVE  SimulatedSound'
  BY <1>1 DEF Send, Replay, LookupMiss, InsertConflict, GoTo, Finish, At
<1>2. ASSUME NEW r \in Requests, Insert(r)
      PROVE  SimulatedSound'
  BY <1>2 DEF Insert, GoTo, At, Settled
<1>3. ASSUME NEW r \in Requests, Charge(r)
      PROVE  SimulatedSound'
  <2>1. SimulatedCharge(r)
    BY <1>3 DEF Charge, LiveVerdict, LiveEmptyBody, LiveTransientError, LiveUnavailable,
                LiveUnreadableBody
  <2>2. pc[r] = "charge" /\ captured[r] = 0 /\ row[r] = "Pending"
    BY <2>1 DEF SimulatedCharge, At, HandlerInvariant
  <2> QED
    BY <2>1, <2>2 DEF SimulatedCharge, Decide, Capture, GoTo, Settled
<1>4. ASSUME NEW r \in Requests, Record(r)
      PROVE  SimulatedSound'
  BY <1>4 DEF Record, Finish, At
<1>l. ASSUME NEW r \in Requests
      PROVE  ~LateCapture(r)
  BY DEF LateCapture, Chargeable
<1>5. ASSUME NEW r \in Requests, HangUp(r) \/ Cancelled(r)
      PROVE  SimulatedSound'
  BY <1>5 DEF HangUp, Cancelled, Finish
<1>6. ASSUME NEW r \in Requests, DbFailure(r)
      PROVE  SimulatedSound'
  BY <1>6 DEF DbFailure, Finish, At, Settled
<1>7. CASE Crash
  BY <1>7 DEF Crash, InFlight
<1>8. CASE UNCHANGED vars
  BY <1>8 DEF vars
<1> QED
  BY <1>1, <1>2, <1>3, <1>4, <1>5, <1>6, <1>7, <1>8, <1>l DEF Next, Handler

\* With the simulated gateway a settled row has one capture if it is
\* Succeeded and none otherwise, whatever fails.
THEOREM SimulatedRowsSound ==
    ASSUME Live = {}
    PROVE  Spec => []SettledRowsTellTheTruth
<1>1. Init => SimulatedSound
  BY DEF Init, SimulatedSound, Settled
<1>2. TypeOK /\ HandlerInvariant <=> IInv
  BY DEF IInv
<1>3. IInv /\ SimulatedSound /\ [Next]_vars => SimulatedSound'
  BY SimulatedStep
<1>4. SimulatedSound => SettledRowsTellTheTruth
  BY DEF SimulatedSound, SettledRowsTellTheTruth
<1> QED
  BY <1>1, <1>2, <1>3, <1>4, HandlersSound, PTL DEF Spec
=============================================================================
