------------------------- MODULE OrderServiceProofs -------------------------
(***************************************************************************)
(* Proofs about OrderService, for every set of calls and products, every   *)
(* catalog, every retry count and every choice of faults.                  *)
(***************************************************************************)
EXTENDS OrderService, TLAPS

\* What is known of a call from where its handler stands: the loop over the
\* items is never past their end, nothing is stored before the transaction,
\* the order is PENDING until its charge is over, and nobody has an answer yet.
StageSound(c) ==
    /\ pc[c] \in {"unsent", "verify"} => order[c].items = <<>>
    /\ pc[c] = "product" => Len(order[c].items) < Len(ItemsOf[c])
    /\ pc[c] \in {"unsent", "verify", "product", "persist"} => table[c].status = "absent"
    /\ pc[c] \in {"charge", "update"} => table[c].status = "PENDING"
    /\ pc[c] = "update" => final[c] \in {"CONFIRMED", "FAILED"}
    /\ pc[c] # "done" => reply[c] = "none"

\* What an answer says of the order of its call.
AnswerSound(c) ==
    /\ reply[c] \in {"400", "404", "409", "502"} => table[c].status = "absent"
    /\ reply[c] = "201" => table[c].status \in {"PENDING", "CONFIRMED"}
    /\ reply[c] = "402" => table[c].status \in {"PENDING", "FAILED"}

CallSound(c) == StageSound(c) /\ AnswerSound(c)

IInv == TypeOK /\ \A c \in Calls : CallSound(c)

Line == [product : Products, quantity : Nat \ {0}, price : Nat \ {0}]

\* An element of a sequence is in the set of its elements.
LEMMA ElementTyped ==
    ASSUME NEW S, NEW s \in Seq(S), NEW i \in 1 .. Len(s)
    PROVE  s[i] \in S
OBVIOUS

\* A line is priced within its types: the item exists, and so does its price.
LEMMA LineTyped ==
    ASSUME IInv, NEW c \in Calls, At(c, "product"), Current(c).product \in Products
    PROVE  /\ Current(c).quantity \in Nat \ {0}
           /\ catalog[Current(c).product].price \in Nat \ {0}
           /\ catalog[Current(c).product].price * Current(c).quantity \in Nat
<1> DEFINE n == Len(order[c].items) + 1
<1>1. Len(order[c].items) \in Nat /\ n \in 1 .. Len(ItemsOf[c])
  <2>1. order[c].items \in Seq(Line)
    BY DEF IInv, TypeOK, Lines, Line
  <2>2. Len(order[c].items) \in Nat
    BY <2>1
  <2>3. Len(order[c].items) < Len(ItemsOf[c]) /\ Len(ItemsOf[c]) \in Nat
    BY CallsAssumption DEF IInv, CallSound, StageSound, At
  <2> QED
    BY <2>2, <2>3
<1>2. Current(c).quantity \in Nat \ {0}
  <2>1. ItemsOf[c] \in Seq([product : Products \cup Missing, quantity : Nat \ {0}])
    BY CallsAssumption
  <2> HIDE DEF n
  <2>2. ItemsOf[c][n] \in [product : Products \cup Missing, quantity : Nat \ {0}]
    BY <1>1, <2>1, ElementTyped
  <2> QED
    BY <2>2 DEF Current, n
<1>3. catalog[Current(c).product].price \in Nat \ {0}
  BY DEF IInv, TypeOK, Listing
<1>4. \A a, b \in Nat : a * b \in Nat
  OBVIOUS
<1> QED
  BY <1>2, <1>3, <1>4

\* The order stays typed when a line is added.
LEMMA PricedTyped ==
    ASSUME IInv, NEW c \in Calls, ItemPriced(c)
    PROVE  /\ order' \in [Calls -> [items : Lines, total : Nat]]
           /\ Len(order'[c].items) = Len(order[c].items) + 1
<1> DEFINE i == Current(c)
           price == catalog[i.product].price
           line == [product |-> i.product, quantity |-> i.quantity, price |-> price]
           next == [items |-> Append(order[c].items, line),
                    total |-> order[c].total + price * i.quantity]
<1>1. At(c, "product") /\ i.product \in Products
  BY DEF ItemPriced
<1>2. line \in Line /\ price * i.quantity \in Nat
  <2> HIDE DEF i
  <2>1. i.quantity \in Nat \ {0} /\ price \in Nat \ {0} /\ price * i.quantity \in Nat
    BY <1>1, LineTyped DEF i
  <2> QED
    BY <1>1, <2>1 DEF Line
<1>3. order[c].items \in Seq(Line) /\ order[c].total \in Nat
  BY DEF Lines, Line, IInv, TypeOK
<1>4. order' = [order EXCEPT ![c] = next]
  BY DEF ItemPriced
<1> HIDE DEF line, price
<1>5. /\ Append(order[c].items, line) \in Seq(Line)
      /\ Len(Append(order[c].items, line)) = Len(order[c].items) + 1
  BY <1>2, <1>3
<1>6. order[c].total + price * i.quantity \in Nat
  BY <1>2, <1>3
<1>7. next \in [items : Lines, total : Nat]
  BY <1>5, <1>6 DEF Lines, Line
<1>8. next.items = Append(order[c].items, line)
  OBVIOUS
<1> HIDE DEF next
<1> QED
  BY <1>4, <1>5, <1>7, <1>8 DEF IInv, TypeOK

\* Where a handler stands, in which attempt, and what it has answered.
HandlersTyped ==
    /\ pc      \in [Calls -> Working \cup {"unsent", "done"}]
    /\ attempt \in [Calls -> 0 .. RetryAttempts]
    /\ reply   \in [Calls -> {"none", "lost", "201", "400", "402", "404", "409", "500", "502"}]

\* The two ways in which a handler goes on keep it typed.
LEMMA GoToTyped ==
    ASSUME HandlersTyped, NEW c \in Calls, NEW label \in Working, GoTo(c, label)
    PROVE  HandlersTyped'
<1>1. 0 \in 0 .. RetryAttempts
  BY RetryAssumption
<1> QED
  BY <1>1 DEF HandlersTyped, GoTo

LEMMA FinishTyped ==
    ASSUME HandlersTyped, NEW c \in Calls,
           NEW status \in {"201", "400", "402", "404", "409", "500", "502"}, Finish(c, status)
    PROVE  HandlersTyped'
BY DEF HandlersTyped, Finish

\* Every step keeps every variable in its type.
LEMMA TypeStep == IInv /\ [Next]_vars => TypeOK'
<1> SUFFICES ASSUME IInv, [Next]_vars
             PROVE  TypeOK'
  OBVIOUS
<1>t. TypeOK /\ HandlersTyped
  BY DEF IInv, TypeOK, HandlersTyped
<1>w. Upstream \subseteq Working /\ "persist" \in Working /\ "update" \in Working
      /\ "verify" \in Working /\ "product" \in Working /\ "charge" \in Working
  BY DEF Working, Upstream
<1>1. ASSUME NEW c \in Calls, Place(c) \/ VerifyUser(c) \/ ItemRefused(c)
      PROVE  TypeOK'
  <2>1. HandlersTyped' /\ UNCHANGED <<order, final, table, gone, catalog>>
    BY <1>1, <1>t, <1>w, GoToTyped, FinishTyped DEF Place, VerifyUser, ItemRefused
  <2> QED
    BY <1>t, <2>1 DEF TypeOK, HandlersTyped
<1>2. ASSUME NEW c \in Calls, ItemPriced(c)
      PROVE  TypeOK'
  <2>1. order' \in [Calls -> [items : Lines, total : Nat]]
    BY <1>2, PricedTyped
  <2>2. HandlersTyped' /\ UNCHANGED <<final, table, gone, catalog>>
    BY <1>2, <1>t, <1>w, GoToTyped DEF ItemPriced
  <2> QED
    BY <1>t, <2>1, <2>2 DEF TypeOK, HandlersTyped
<1>3. ASSUME NEW c \in Calls, Persist(c) \/ PersistFails(c)
      PROVE  TypeOK'
  <2>1. HandlersTyped' /\ UNCHANGED <<order, final, gone, catalog>>
    BY <1>3, <1>t, <1>w, GoToTyped, FinishTyped DEF Persist, PersistFails
  <2>2. Pending(order[c]) \in [status : {"absent", "PENDING", "CONFIRMED", "FAILED"},
                               items : Lines, total : Nat]
    BY <1>t DEF TypeOK, Pending
  <2>3. table' = table \/ table' = [table EXCEPT ![c] = Pending(order[c])]
    BY <1>3 DEF Persist, PersistFails
  <2> QED
    BY <1>t, <2>1, <2>2, <2>3 DEF TypeOK, HandlersTyped
<1>4. ASSUME NEW c \in Calls, UpdateStatus(c) \/ UpdateFails(c)
      PROVE  TypeOK'
  <2>1. HandlersTyped' /\ UNCHANGED <<order, final, gone, catalog>>
    BY <1>4, <1>t, FinishTyped DEF UpdateStatus, UpdateFails, Answer
  <2>2. final[c] \in {"CONFIRMED", "FAILED"}
    BY <1>4 DEF IInv, CallSound, StageSound, At, UpdateStatus, UpdateFails
  <2>3. table' = table \/ table' = [table EXCEPT ![c].status = final[c]]
    BY <1>4 DEF UpdateStatus, UpdateFails
  <2>4. table' \in [Calls -> [status : {"absent", "PENDING", "CONFIRMED", "FAILED"},
                              items : Lines, total : Nat]]
    BY <1>t, <2>2, <2>3 DEF TypeOK
  <2> QED
    BY <1>t, <2>1, <2>4 DEF TypeOK, HandlersTyped
<1>5. ASSUME NEW c \in Calls, AttemptFailed(c) \/ UpstreamError(c)
      PROVE  TypeOK'
  <2>1. CASE AttemptFailed(c) /\ Retry(c)
    <3>1. attempt' \in [Calls -> 0 .. RetryAttempts]
      BY <1>t, <2>1, RetryAssumption DEF TypeOK, Retry
    <3> QED
      BY <1>t, <2>1, <3>1 DEF TypeOK, AttemptFailed, Retry
  <2>2. CASE AttemptFailed(c) /\ GiveUp(c)
    <3>1. HandlersTyped' /\ UNCHANGED <<order, table, gone, catalog>>
      BY <1>t, <1>w, <2>2, GoToTyped, FinishTyped DEF AttemptFailed, GiveUp, Conclude
    <3>2. final' = final \/ final' = [final EXCEPT ![c] = "FAILED"]
      BY <2>2 DEF GiveUp, Conclude
    <3> QED
      BY <1>t, <3>1, <3>2 DEF TypeOK, HandlersTyped
  <2>3. CASE UpstreamError(c)
    <3>1. HandlersTyped' /\ UNCHANGED <<order, final, table, gone, catalog>>
      BY <1>t, <2>3, FinishTyped DEF UpstreamError
    <3> QED
      BY <1>t, <3>1 DEF TypeOK, HandlersTyped
  <2> QED
    BY <1>5, <2>1, <2>2, <2>3 DEF AttemptFailed
<1>6. ASSUME NEW c \in Calls,
             ChargeBodyLost(c) \/ \E code \in {"200", "400", "402", "500"} : ChargeAnswered(c, code)
      PROVE  TypeOK'
  <2>1. /\ HandlersTyped'
        /\ UNCHANGED <<order, table, gone, catalog>>
        /\ \E status \in {"CONFIRMED", "FAILED"} : final' = [final EXCEPT ![c] = status]
    BY <1>6, <1>t, <1>w, GoToTyped DEF ChargeBodyLost, ChargeAnswered, Conclude
  <2> QED
    BY <1>t, <2>1 DEF TypeOK, HandlersTyped
<1>7. ASSUME NEW c \in Calls, Disconnect(c)
      PROVE  TypeOK'
  BY <1>7, <1>t DEF TypeOK, Disconnect
<1>8. ASSUME NEW p \in Products, EditProduct(p)
      PROVE  TypeOK'
  <2>1. catalog' \in [Products -> Listing]
    BY <1>8, <1>t, CatalogAssumption DEF EditProduct, TypeOK
  <2> QED
    BY <1>8, <1>t, <2>1 DEF TypeOK, EditProduct
<1>9. CASE Crash
  <2>1. HandlersTyped' /\ UNCHANGED <<order, final, table, gone, catalog>>
    BY <1>9, <1>t DEF HandlersTyped, Crash, Stop
  <2> QED
    BY <1>t, <2>1 DEF TypeOK, HandlersTyped
<1>10. CASE UNCHANGED vars
  BY <1>10, <1>t DEF TypeOK, vars
<1> QED
  BY <1>1, <1>2, <1>3, <1>4, <1>5, <1>6, <1>7, <1>8, <1>9, <1>10
     DEF Next, LocalStep, LocalFailure, AnyCharge

-----------------------------------------------------------------------------
(***************************************************************************)
(* The inductive step of CallSound, one lemma per kind of step.            *)
(***************************************************************************)

\* A step of the handler of one call leaves every other call as it is.
OnlyAt(c) ==
    \A d \in Calls \ {c} :
        /\ pc'[d] = pc[d] /\ order'[d] = order[d] /\ table'[d] = table[d]
        /\ final'[d] = final[d] /\ reply'[d] = reply[d]

LEMMA OthersSound ==
    ASSUME IInv, NEW c \in Calls, OnlyAt(c), CallSound(c)'
    PROVE  \A d \in Calls : CallSound(d)'
<1> SUFFICES ASSUME NEW d \in Calls \ {c}
             PROVE  CallSound(d)'
  OBVIOUS
<1>1. CallSound(d)
  BY DEF IInv
<1> QED
  BY <1>1 DEF OnlyAt, CallSound, StageSound, AnswerSound

\* Up to the last item nothing is stored, and a call that is refused on the
\* way has stored nothing.
LEMMA EarlyStep ==
    ASSUME IInv, NEW c \in Calls, Place(c) \/ VerifyUser(c) \/ ItemRefused(c)
    PROVE  \A d \in Calls : CallSound(d)'
<1> USE DEF IInv, TypeOK, At, GoTo, Finish
<1>1. CallSound(c)
  OBVIOUS
<1>2. order[c].items = <<>> => Len(order[c].items) < Len(ItemsOf[c])
  BY CallsAssumption
<1>3. OnlyAt(c)
  BY DEF OnlyAt, Place, VerifyUser, ItemRefused
<1>4. CallSound(c)'
  BY <1>1, <1>2 DEF CallSound, StageSound, AnswerSound, Place, VerifyUser, ItemRefused
<1> QED
  BY <1>3, <1>4, OthersSound

\* The loop goes on only while there are items left.
LEMMA PricedStep ==
    ASSUME IInv, NEW c \in Calls, ItemPriced(c)
    PROVE  \A d \in Calls : CallSound(d)'
<1>1. CallSound(c) /\ TypeOK
  BY DEF IInv
<1>2. /\ At(c, "product")
      /\ UNCHANGED <<final, table, gone, catalog, reply>>
      /\ \/ pc' = [pc EXCEPT ![c] = "persist"]
         \/ pc' = [pc EXCEPT ![c] = "product"] /\ Len(order[c].items) + 1 # Len(ItemsOf[c])
  BY DEF ItemPriced, GoTo
<1>3. \A d \in Calls \ {c} : order'[d] = order[d]
  BY <1>1 DEF ItemPriced, TypeOK
<1>4. Len(order'[c].items) = Len(order[c].items) + 1
  BY PricedTyped
<1>5. Len(order[c].items) \in Nat /\ Len(ItemsOf[c]) \in Nat
  BY <1>1, CallsAssumption DEF TypeOK, Lines
<1>6. Len(order[c].items) < Len(ItemsOf[c])
  BY <1>1, <1>2 DEF CallSound, StageSound, At
<1>7. OnlyAt(c)
  BY <1>1, <1>2, <1>3 DEF OnlyAt, TypeOK
<1>8. CallSound(c)'
  <2>1. pc'[c] = "product" => Len(order'[c].items) < Len(ItemsOf[c])
    BY <1>1, <1>2, <1>4, <1>5, <1>6 DEF TypeOK
  <2> QED
    BY <1>1, <1>2, <2>1 DEF CallSound, StageSound, AnswerSound, TypeOK, At
<1> QED
  BY <1>7, <1>8, OthersSound

\* The transaction, whether it is known to have committed or not.
LEMMA PersistStep ==
    ASSUME IInv, NEW c \in Calls, Persist(c) \/ PersistFails(c)
    PROVE  \A d \in Calls : CallSound(d)'
<1> USE DEF IInv, TypeOK, At, GoTo, Finish
<1>1. CallSound(c)
  OBVIOUS
<1>2. Pending(order[c]).status = "PENDING"
  BY DEF Pending
<1>3. OnlyAt(c)
  BY DEF OnlyAt, Persist, PersistFails
<1>4. CallSound(c)'
  BY <1>1, <1>2 DEF CallSound, StageSound, AnswerSound, Persist, PersistFails
<1> QED
  BY <1>3, <1>4, OthersSound

\* The charge ends, with an answer or without one.
LEMMA ConcludeStep ==
    ASSUME IInv, NEW c \in Calls, NEW status \in {"CONFIRMED", "FAILED"},
           At(c, "charge"), Conclude(c, status), UNCHANGED <<order, table>>
    PROVE  \A d \in Calls : CallSound(d)'
<1> USE DEF IInv, TypeOK, At, GoTo
<1>1. CallSound(c)
  OBVIOUS
<1>2. OnlyAt(c)
  BY DEF OnlyAt, Conclude
<1>3. CallSound(c)'
  BY <1>1 DEF CallSound, StageSound, AnswerSound, Conclude
<1> QED
  BY <1>2, <1>3, OthersSound

\* The update and the answer: the table is at the status of the answer or
\* still PENDING.
LEMMA UpdateStep ==
    ASSUME IInv, NEW c \in Calls, UpdateStatus(c) \/ UpdateFails(c)
    PROVE  \A d \in Calls : CallSound(d)'
<1> USE DEF IInv, TypeOK
<1>1. CallSound(c)
  OBVIOUS
<1>2. /\ At(c, "update")
      /\ Answer(c)
      /\ UNCHANGED <<order, final>>
      /\ table' = table \/ table' = [table EXCEPT ![c].status = final[c]]
  BY DEF UpdateStatus, UpdateFails
<1>3. final[c] \in {"CONFIRMED", "FAILED"} /\ table[c].status = "PENDING"
  BY <1>1, <1>2 DEF CallSound, StageSound, At
<1>4. table'[c].status \in {"PENDING", final[c]}
  BY <1>2, <1>3
<1>5. pc'[c] = "done" /\ reply'[c] = IF final[c] = "CONFIRMED" THEN "201" ELSE "402"
  BY <1>2 DEF Answer, Finish
<1>6. OnlyAt(c)
  BY <1>2 DEF OnlyAt, Answer, Finish
<1>7. CallSound(c)'
  BY <1>3, <1>4, <1>5 DEF CallSound, StageSound, AnswerSound
<1> QED
  BY <1>6, <1>7, OthersSound

\* A call of another service fails: before the order is stored that ends the
\* handler, afterwards it fails the order.
LEMMA UpstreamStep ==
    ASSUME IInv, NEW c \in Calls, AttemptFailed(c) \/ UpstreamError(c)
    PROVE  \A d \in Calls : CallSound(d)'
<1>1. CallSound(c) /\ TypeOK
  BY DEF IInv
<1>2. CASE AttemptFailed(c) /\ Retry(c)
  BY <1>2 DEF IInv, CallSound, StageSound, AnswerSound, AttemptFailed, Retry
<1>3. CASE AttemptFailed(c) /\ GiveUp(c) /\ At(c, "charge")
  BY <1>3, ConcludeStep DEF AttemptFailed, GiveUp
<1>4. CASE \/ AttemptFailed(c) /\ GiveUp(c) /\ ~At(c, "charge")
           \/ UpstreamError(c)
  <2>1. pc[c] \in {"verify", "product"} /\ Finish(c, "502") /\ UNCHANGED <<order, final, table>>
    BY <1>4, RetryAssumption DEF AttemptFailed, GiveUp, UpstreamError, Upstream, At
  <2>2. OnlyAt(c)
    BY <1>1, <2>1 DEF OnlyAt, Finish, TypeOK
  <2>3. CallSound(c)'
    BY <1>1, <2>1 DEF CallSound, StageSound, AnswerSound, Finish, TypeOK
  <2> QED
    BY <2>2, <2>3, OthersSound
<1> QED
  BY <1>2, <1>3, <1>4 DEF AttemptFailed

\* What happens around the handlers: the process may end with all of them.
LEMMA EnvironmentStep ==
    ASSUME IInv,
           \/ \E c \in Calls : Disconnect(c)
           \/ \E p \in Products : EditProduct(p)
           \/ Crash
           \/ UNCHANGED vars
    PROVE  \A d \in Calls : CallSound(d)'
<1> SUFFICES ASSUME NEW d \in Calls
             PROVE  CallSound(d)'
  OBVIOUS
<1>1. CallSound(d)
  BY DEF IInv
<1>2. CASE ~Crash
  BY <1>1, <1>2 DEF CallSound, StageSound, AnswerSound, Disconnect, EditProduct, vars
<1>3. CASE Crash
  BY <1>1, <1>3 DEF CallSound, StageSound, AnswerSound, Crash, Stop, Working, Upstream
<1> QED
  BY <1>2, <1>3

-----------------------------------------------------------------------------
(***************************************************************************)
(* The theorems.                                                           *)
(***************************************************************************)

\* Before the first call nothing is stored and nothing answered.
LEMMA InitIInv == Init => IInv
<1> SUFFICES ASSUME Init
             PROVE  IInv
  OBVIOUS
<1>1. <<>> \in Lines
  BY DEF Lines
<1>2. TypeOK
  BY <1>1, RetryAssumption, CatalogAssumption DEF Init, TypeOK, EmptyOrder, NoRow
<1>3. \A c \in Calls : CallSound(c)
  BY DEF Init, CallSound, StageSound, AnswerSound, EmptyOrder, NoRow
<1> QED
  BY <1>2, <1>3 DEF IInv

\* Every step of every handler and of its environment keeps the invariant.
LEMMA StepIInv == IInv /\ [Next]_vars => IInv'
<1> SUFFICES ASSUME IInv, [Next]_vars
             PROVE  \A d \in Calls : CallSound(d)'
  BY TypeStep DEF IInv
<1>1. ASSUME NEW c \in Calls, Place(c) \/ LocalStep(c)
      PROVE  \A d \in Calls : CallSound(d)'
  BY <1>1, EarlyStep, PricedStep, PersistStep, UpdateStep DEF LocalStep
<1>2. ASSUME NEW c \in Calls, LocalFailure(c)
      PROVE  \A d \in Calls : CallSound(d)'
  BY <1>2, PersistStep, UpdateStep, UpstreamStep DEF LocalFailure
<1>3. ASSUME NEW c \in Calls, AnyCharge(c)
      PROVE  \A d \in Calls : CallSound(d)'
  <2>1. CASE AttemptFailed(c)
    BY <2>1, UpstreamStep
  <2>2. CASE ChargeBodyLost(c)
    BY <2>2, ConcludeStep DEF ChargeBodyLost
  <2>3. ASSUME NEW code, ChargeAnswered(c, code)
        PROVE  \A d \in Calls : CallSound(d)'
    BY <2>3, ConcludeStep DEF ChargeAnswered
  <2> QED
    BY <1>3, <2>1, <2>2, <2>3 DEF AnyCharge
<1> QED
  BY <1>1, <1>2, <1>3, EnvironmentStep DEF Next

\* Every reachable state satisfies the invariant, whatever fails.
LEMMA Invariant == Spec => []IInv
BY InitIInv, StepIInv, PTL DEF Spec

\* Handlers, orders and tables are typed in every reachable state.
THEOREM TypeCorrect == Spec => []TypeOK
<1>1. IInv => TypeOK
  BY DEF IInv
<1> QED
  BY <1>1, Invariant, PTL

\* An answer upon which the gateway posts the order again, or which tells the
\* client that there is none, is only given for a call that stored none.
THEOREM RefusedCallsStoreNothing == Spec => []RetriedAnswersLeaveNoOrder
<1>1. IInv => RetriedAnswersLeaveNoOrder
  BY DEF IInv, CallSound, AnswerSound, RetriedAnswersLeaveNoOrder
<1> QED
  BY <1>1, Invariant, PTL

\* The table is never against the answer of a call, though the update of the
\* status may have failed.
THEOREM AnswersSound == Spec => []AnswersNeverContradictTable
<1>1. IInv => AnswersNeverContradictTable
  BY DEF IInv, CallSound, AnswerSound, AnswersNeverContradictTable
<1> QED
  BY <1>1, Invariant, PTL

-----------------------------------------------------------------------------
(***************************************************************************)
(* What compositions need to know.                                         *)
(***************************************************************************)

\* Only an answer of payment-service makes an order paid.
LEMMA FinalKept ==
    ASSUME IInv, NEW c \in Calls,
           \/ Place(c) \/ LocalStep(c) \/ LocalFailure(c) \/ Disconnect(c)
           \/ AttemptFailed(c) \/ ChargeBodyLost(c)
    PROVE  \A d \in Calls : final'[d] = "CONFIRMED" => final[d] = "CONFIRMED"
<1>1. final' = final \/ final' = [final EXCEPT ![c] = "FAILED"]
  BY DEF Place, LocalStep, VerifyUser, ItemRefused, ItemPriced, Persist, UpdateStatus,
         LocalFailure, PersistFails, UpdateFails, UpstreamError, Disconnect, AttemptFailed,
         Retry, GiveUp, ChargeBodyLost, Conclude
<1> QED
  BY <1>1 DEF IInv, TypeOK

\* An order is stored or answered as confirmed only after its charge was, and
\* a stored order never goes away.
LEMMA OutcomesHaveCauses ==
    ASSUME IInv, [Next]_vars, NEW d \in Calls
    PROVE  /\ table[d].status # "absent" => table'[d].status # "absent"
           /\ table'[d].status = "CONFIRMED" => "CONFIRMED" \in {table[d].status, final[d]}
           /\ reply'[d] = "201" => reply[d] = "201" \/ final[d] = "CONFIRMED"
<1>1. table[d] \in [status : {"absent", "PENDING", "CONFIRMED", "FAILED"}, items : Lines, total : Nat]
  BY DEF IInv, TypeOK
<1>2. ASSUME NEW c \in Calls, Persist(c) \/ PersistFails(c)
      PROVE  /\ table' = table \/ table' = [table EXCEPT ![c] = Pending(order[c])]
             /\ reply' = reply \/ reply' = [reply EXCEPT ![c] = "500"]
  BY <1>2 DEF Persist, PersistFails, GoTo, Finish
<1>3. ASSUME NEW c \in Calls, UpdateStatus(c) \/ UpdateFails(c)
      PROVE  /\ table' = table \/ table' = [table EXCEPT ![c].status = final[c]]
             /\ final[c] \in {"CONFIRMED", "FAILED"}
             /\ reply' = [reply EXCEPT ![c] = IF final[c] = "CONFIRMED" THEN "201" ELSE "402"]
  BY <1>3 DEF UpdateStatus, UpdateFails, Answer, Finish, At, IInv, CallSound, StageSound
<1>4. ASSUME NEW c \in Calls,
             \/ Place(c) \/ VerifyUser(c) \/ ItemRefused(c) \/ ItemPriced(c) \/ UpstreamError(c)
             \/ Disconnect(c) \/ AttemptFailed(c) \/ AnyCharge(c)
      PROVE  /\ table' = table
             /\ reply' = reply \/ \E status : status # "201" /\ reply' = [reply EXCEPT ![c] = status]
  BY <1>4 DEF Place, VerifyUser, ItemRefused, ItemPriced, UpstreamError, Disconnect, AttemptFailed,
              Retry, GiveUp, AnyCharge, ChargeAnswered, ChargeBodyLost, Conclude, GoTo, Finish
<1>5. CASE Crash \/ (\E p \in Products : EditProduct(p)) \/ UNCHANGED vars
  BY <1>5 DEF Crash, Stop, EditProduct, vars
<1>6. Pending(order[d]).status = "PENDING"
  BY DEF Pending
<1>7. ASSUME NEW c \in Calls, Persist(c) \/ PersistFails(c)
      PROVE  table'[d].status \in {table[d].status, "PENDING"}
  BY <1>2, <1>6, <1>7 DEF IInv, TypeOK
<1>8. ASSUME NEW c \in Calls, UpdateStatus(c) \/ UpdateFails(c)
      PROVE  table'[d].status = table[d].status \/ (c = d /\ table'[d].status = final[d])
  BY <1>3, <1>8 DEF IInv, TypeOK
<1> QED
  BY <1>2, <1>3, <1>4, <1>5, <1>7, <1>8 DEF Next, LocalStep, LocalFailure, IInv, TypeOK

\* A handler that moves has been called and has not answered.
LEMMA HandlerMoves ==
    ASSUME NEW c \in Calls, LocalStep(c) \/ LocalFailure(c) \/ AnyCharge(c) \/ Disconnect(c)
    PROVE  /\ pc[c] \notin {"unsent", "done"}
           /\ pc' = pc \/ \E label : pc' = [pc EXCEPT ![c] = label]
           /\ reply' = reply \/ \E status : reply' = [reply EXCEPT ![c] = status]
<1>1. CASE LocalStep(c)
  BY <1>1 DEF LocalStep, VerifyUser, ItemRefused, ItemPriced, Persist, UpdateStatus, Answer, At,
              GoTo, Finish
<1>2. CASE PersistFails(c) \/ UpdateFails(c) \/ Disconnect(c)
  BY <1>2 DEF PersistFails, UpdateFails, Disconnect, Answer, At, Finish, Working, Upstream
<1>3. CASE AttemptFailed(c) \/ UpstreamError(c)
  BY <1>3, RetryAssumption
     DEF AttemptFailed, UpstreamError, Upstream, Retry, GiveUp, Conclude, At, GoTo, Finish
<1>4. CASE ChargeBodyLost(c) \/ \E code : ChargeAnswered(c, code)
  BY <1>4 DEF ChargeBodyLost, ChargeAnswered, Conclude, At, GoTo
<1> QED
  BY <1>1, <1>2, <1>3, <1>4 DEF LocalFailure, AnyCharge

\* Nobody is answered twice, and only its caller places an order.
LEMMA AnswersStay ==
    ASSUME IInv, [Next]_vars, NEW d \in Calls
    PROVE  /\ reply[d] # "none" => reply'[d] = reply[d]
           /\ pc[d] = "unsent" /\ pc'[d] # "unsent" => Place(d)
<1>1. /\ pc \in [Calls -> Working \cup {"unsent", "done"}]
      /\ reply \in [Calls -> {"none", "lost", "201", "400", "402", "404", "409", "500", "502"}]
      /\ pc[d] # "done" => reply[d] = "none"
  BY DEF IInv, TypeOK, CallSound, StageSound
<1>2. ASSUME NEW c \in Calls, Place(c)
      PROVE  /\ pc[c] = "unsent"
             /\ \E label : pc' = [pc EXCEPT ![c] = label]
             /\ reply' = reply \/ \E status : reply' = [reply EXCEPT ![c] = status]
  BY <1>2 DEF Place, At, GoTo, Finish
<1>3. ASSUME NEW c \in Calls, LocalStep(c) \/ LocalFailure(c) \/ AnyCharge(c) \/ Disconnect(c)
      PROVE  /\ pc[c] \notin {"unsent", "done"}
             /\ pc' = pc \/ \E label : pc' = [pc EXCEPT ![c] = label]
             /\ reply' = reply \/ \E status : reply' = [reply EXCEPT ![c] = status]
  BY <1>3, HandlerMoves
<1>4. CASE Crash
  BY <1>1, <1>4 DEF Crash, Stop, Working, Upstream
<1>5. CASE (\E p \in Products : EditProduct(p)) \/ UNCHANGED vars
  BY <1>5 DEF EditProduct, vars
<1>6. ASSUME NEW c \in Calls, Place(c)
      PROVE  /\ reply[d] # "none" => reply'[d] = reply[d]
             /\ pc[d] = "unsent" /\ pc'[d] # "unsent" => Place(d)
  <2>1. CASE c = d
    BY <1>1, <1>2, <1>6, <2>1
  <2>2. CASE c # d
    BY <1>1, <1>2, <1>6, <2>2
  <2> QED
    BY <2>1, <2>2
<1>7. ASSUME NEW c \in Calls, LocalStep(c) \/ LocalFailure(c) \/ AnyCharge(c) \/ Disconnect(c)
      PROVE  /\ reply[d] # "none" => reply'[d] = reply[d]
             /\ pc[d] = "unsent" => pc'[d] = "unsent"
  BY <1>1, <1>3, <1>7
<1> QED
  BY <1>4, <1>5, <1>6, <1>7 DEF Next

-----------------------------------------------------------------------------
(***************************************************************************)
(* Totals.  That a total is the sum over a list is proved along the steps  *)
(* that built the list, one line after the other.  The lemmas about sums   *)
(* speak of the first n lines and not of Len: the SMT encoding gives every *)
(* value a length, functions on 0 .. n included, which must not meet.      *)
(***************************************************************************)

\* f holds the sums of the first lines, up to n of them.
Sums(items, n, f) ==
    f = [i \in 0 .. n |-> IF i = 0 THEN 0 ELSE f[i - 1] + items[i].price * items[i].quantity]

\* There are such sums, and whatever they are, the last one is total.
SummedTo(items, n, total) ==
    /\ \E f : Sums(items, n, f)
    /\ \A f : Sums(items, n, f) => f[n] = total

\* Total is what the lines sum up to.
LEMMA TotalIsSum ==
    ASSUME NEW items, NEW total, SummedTo(items, Len(items), total)
    PROVE  Total(items) = total
<1>1. PICK g : Sums(items, Len(items), g)
  BY Zenon DEF SummedTo
<1>2. \E f : Sums(items, Len(items), f) /\ Total(items) = f[Len(items)]
  BY <1>1, Zenon DEF Total, Sums
<1> QED
  BY <1>2, Zenon DEF SummedTo

\* No lines cost nothing.
LEMMA NothingSums == ASSUME NEW items PROVE SummedTo(items, 0, 0)
<1>1. Sums(items, 0, [i \in 0 .. 0 |-> 0])
  BY DEF Sums
<1>2. ASSUME NEW f, Sums(items, 0, f)
      PROVE  f[0] = 0
  BY <1>2 DEF Sums
<1> QED
  BY <1>1, <1>2 DEF SummedTo

\* One more line adds its price to the sum.
LEMMA AppendSums ==
    ASSUME NEW n \in Nat, NEW items, NEW more, NEW total, SummedTo(items, n, total),
           \A i \in 1 .. n : more[i] = items[i]
    PROVE  SummedTo(more, n + 1, total + more[n + 1].price * more[n + 1].quantity)
<1> DEFINE add == more[n + 1].price * more[n + 1].quantity
<1>1. ASSUME NEW g, Sums(items, n, g)
      PROVE  \E f : Sums(more, n + 1, f)
  <2> DEFINE f == [i \in 0 .. n + 1 |-> IF i = n + 1 THEN g[n] + add ELSE g[i]]
  <2>1. ASSUME NEW i \in 0 .. n + 1
        PROVE  f[i] = IF i = 0 THEN 0 ELSE f[i - 1] + more[i].price * more[i].quantity
    <3>1. CASE i = n + 1
      BY <3>1
    <3>2. CASE i = 0
      BY <1>1, <3>2 DEF Sums
    <3>3. CASE i \in 1 .. n
      <4>1. g[i] = g[i - 1] + items[i].price * items[i].quantity
        BY <1>1, <3>3 DEF Sums
      <4>2. f[i] = g[i] /\ f[i - 1] = g[i - 1]
        BY <3>3
      <4> QED
        BY <3>3, <4>1, <4>2
    <3> QED
      BY <3>1, <3>2, <3>3
  <2>2. f = [i \in 0 .. n + 1 |-> f[i]]
    OBVIOUS
  <2> HIDE DEF f
  <2>3. Sums(more, n + 1, f)
    BY <2>1, <2>2 DEF Sums
  <2> QED
    BY <2>3
<1>2. ASSUME NEW f, Sums(more, n + 1, f)
      PROVE  f[n + 1] = total + add
  <2> DEFINE g == [i \in 0 .. n |-> f[i]]
  <2>1. \A i \in 0 .. n + 1 :
          f[i] = IF i = 0 THEN 0 ELSE f[i - 1] + more[i].price * more[i].quantity
    BY <1>2 DEF Sums
  <2>2. ASSUME NEW i \in 0 .. n
        PROVE  g[i] = IF i = 0 THEN 0 ELSE g[i - 1] + items[i].price * items[i].quantity
    <3>1. CASE i = 0
      BY <2>1, <3>1
    <3>2. CASE i \in 1 .. n
      BY <2>1, <3>2
    <3> QED
      BY <3>1, <3>2
  <2>3. g = [i \in 0 .. n |-> g[i]] /\ g[n] = f[n]
    OBVIOUS
  <2> HIDE DEF g
  <2>4. Sums(items, n, g)
    BY <2>2, <2>3 DEF Sums
  <2>5. f[n] = total
    BY <2>3, <2>4 DEF SummedTo
  <2> QED
    BY <2>1, <2>5
<1> QED
  BY <1>1, <1>2 DEF SummedTo

\* The lines of o are the first ones that call c asked for, summed up.
Lists(o, c) ==
    /\ SummedTo(o.items, Len(o.items), o.total)
    /\ \A i \in 1 .. Len(o.items) :
          /\ o.items[i].product  = ItemsOf[c][i].product
          /\ o.items[i].quantity = ItemsOf[c][i].quantity

\* An order that is ready for the transaction, or written by it, has them all.
Complete(o, c) == Lists(o, c) /\ Len(o.items) = Len(ItemsOf[c])

OrderSound(c) ==
    /\ Lists(order[c], c)
    /\ pc[c] = "persist" => Complete(order[c], c)
    /\ table[c].status # "absent" => Complete(table[c], c)

CompleteInv == IInv /\ \A c \in Calls : OrderSound(c)

\* One more item is one more line.
LEMMA PricedLists ==
    ASSUME CompleteInv, NEW c \in Calls, ItemPriced(c)
    PROVE  OrderSound(c)'
<1> DEFINE i == Current(c)
           price == catalog[i.product].price
           line == [product |-> i.product, quantity |-> i.quantity, price |-> price]
           next == [items |-> Append(order[c].items, line),
                    total |-> order[c].total + price * i.quantity]
           n == Len(order[c].items)
<1>1. IInv /\ OrderSound(c) /\ StageSound(c) /\ At(c, "product") /\ i.product \in Products
  BY DEF CompleteInv, IInv, CallSound, ItemPriced
<1>2. line \in Line /\ line.price * line.quantity = price * i.quantity
      /\ line.product = i.product /\ line.quantity = i.quantity
  <2> HIDE DEF i
  <2>1. i.quantity \in Nat \ {0} /\ price \in Nat \ {0}
    BY <1>1, LineTyped DEF i
  <2> QED
    BY <1>1, <2>1 DEF Line
<1>3. order[c].items \in Lines /\ order[c].total \in Nat
  BY <1>1 DEF IInv, TypeOK
<1>4. order' = [order EXCEPT ![c] = next]
  BY DEF ItemPriced
<1> HIDE DEF line, price, i
<1>5. /\ n \in Nat /\ Len(next.items) = n + 1
      /\ \A k \in 1 .. n : next.items[k] = order[c].items[k]
      /\ next.items[n + 1] = line
      /\ next.total = order[c].total + price * i.quantity
  BY <1>2, <1>3 DEF Lines, Line
<1> HIDE DEF next, n
<1>6. SummedTo(next.items, n + 1, next.total)
  <2>1. SummedTo(order[c].items, n, order[c].total)
    BY <1>1 DEF OrderSound, Lists, n
  <2> QED
    BY <1>2, <1>5, <2>1, AppendSums
<1>7. Lists(next, c)
  <2>1. \A k \in 1 .. n : /\ next.items[k].product  = ItemsOf[c][k].product
                          /\ next.items[k].quantity = ItemsOf[c][k].quantity
    BY <1>1, <1>5 DEF OrderSound, Lists, n
  <2>2. i = ItemsOf[c][n + 1]
    BY DEF i, n, Current
  <2> QED
    BY <1>2, <1>5, <1>6, <2>1, <2>2 DEF Lists
<1>8. order'[c] = next
  BY <1>1, <1>4 DEF IInv, TypeOK
<1>9. pc'[c] = "persist" => n + 1 = Len(ItemsOf[c])
  BY <1>1 DEF ItemPriced, GoTo, n, IInv, TypeOK
<1>10. table' = table /\ table[c].status = "absent"
  BY <1>1 DEF ItemPriced, StageSound, At
<1> QED
  BY <1>5, <1>7, <1>8, <1>9, <1>10 DEF OrderSound, Complete, Lists

\* What the other steps of call c do to its order and to its row.
LEMMA OrdersKept ==
    ASSUME CompleteInv, NEW c \in Calls,
           \/ Place(c) \/ VerifyUser(c) \/ ItemRefused(c) \/ Persist(c) \/ UpdateStatus(c)
           \/ LocalFailure(c) \/ AnyCharge(c) \/ Disconnect(c)
    PROVE  /\ UNCHANGED order
           /\ pc'[c] # "persist" \/ pc'[c] = pc[c]
           /\ \/ UNCHANGED table
              \/ pc[c] = "persist" /\ table' = [table EXCEPT ![c] = Pending(order[c])]
              \/ pc[c] = "update" /\ \E s : table' = [table EXCEPT ![c].status = s]
<1>t. pc \in [Calls -> Working \cup {"unsent", "done"}]
  BY DEF CompleteInv, IInv, TypeOK
<1>1. CASE Place(c) \/ VerifyUser(c) \/ ItemRefused(c) \/ Disconnect(c)
  BY <1>t, <1>1 DEF Place, VerifyUser, ItemRefused, Disconnect, GoTo, Finish
<1>2. CASE Persist(c) \/ PersistFails(c)
  BY <1>t, <1>2 DEF Persist, PersistFails, GoTo, Finish, At
<1>3. CASE UpdateStatus(c) \/ UpdateFails(c)
  BY <1>t, <1>3 DEF UpdateStatus, UpdateFails, Answer, Finish, At
<1>4. CASE AttemptFailed(c) \/ UpstreamError(c)
  BY <1>t, <1>4 DEF AttemptFailed, UpstreamError, Retry, GiveUp, Conclude, GoTo, Finish
<1>5. CASE ChargeBodyLost(c) \/ \E code : ChargeAnswered(c, code)
  BY <1>t, <1>5 DEF ChargeBodyLost, ChargeAnswered, Conclude, GoTo
<1> QED
  BY <1>1, <1>2, <1>3, <1>4, <1>5 DEF LocalFailure, AnyCharge

\* What a step does to the row of an order: it writes it as it was built, sets
\* its status, or leaves it.
LEMMA RowsKept ==
    ASSUME CompleteInv, [Next]_vars, NEW d \in Calls
    PROVE  \/ table'[d] = table[d]
           \/ pc[d] = "persist" /\ table'[d] = Pending(order[d])
           \/ pc[d] = "update" /\ \E s : table'[d] = [table[d] EXCEPT !.status = s]
<1>t. /\ table = [c \in Calls |-> table[c]]
      /\ UNCHANGED table => table'[d] = table[d]
  BY DEF CompleteInv, IInv, TypeOK
<1>1. ASSUME NEW c \in Calls,
             Place(c) \/ LocalStep(c) \/ LocalFailure(c) \/ AnyCharge(c) \/ Disconnect(c)
      PROVE  \/ UNCHANGED table
             \/ pc[c] = "persist" /\ table' = [table EXCEPT ![c] = Pending(order[c])]
             \/ pc[c] = "update" /\ \E s : table' = [table EXCEPT ![c].status = s]
  <2>1. CASE ItemPriced(c)
    BY <2>1 DEF ItemPriced
  <2> QED
    BY <1>1, <2>1, OrdersKept DEF LocalStep
<1>2. CASE (\E p \in Products : EditProduct(p)) \/ Crash \/ UNCHANGED vars
  BY <1>2 DEF EditProduct, Crash, Stop, vars
<1>3. ASSUME NEW c \in Calls,
             pc[c] = "persist" /\ table' = [table EXCEPT ![c] = Pending(order[c])]
      PROVE  \/ table'[d] = table[d]
             \/ pc[d] = "persist" /\ table'[d] = Pending(order[d])
  BY <1>t, <1>3
<1>4. ASSUME NEW c \in Calls, NEW s,
             pc[c] = "update" /\ table' = [table EXCEPT ![c].status = s]
      PROVE  \/ table'[d] = table[d]
             \/ pc[d] = "update" /\ table'[d] = [table[d] EXCEPT !.status = s]
  BY <1>t, <1>4
<1> QED
  BY <1>t, <1>1, <1>2, <1>3, <1>4 DEF Next

\* Before the first call every order is empty and none is stored.
LEMMA InitComplete == Init => CompleteInv
<1> SUFFICES ASSUME Init, NEW c \in Calls
             PROVE  OrderSound(c)
  BY InitIInv DEF CompleteInv
<1>1. order[c] = [items |-> <<>>, total |-> 0] /\ table[c].status = "absent" /\ pc[c] = "unsent"
  BY DEF Init, EmptyOrder, NoRow
<1>2. Lists(order[c], c)
  <2>1. order[c].items = <<>> /\ order[c].total = 0 /\ Len(<<>>) = 0
    BY <1>1
  <2> QED
    BY <2>1, NothingSums DEF Lists
<1> QED
  BY <1>1, <1>2 DEF OrderSound

\* Every step keeps orders and rows complete.
LEMMA StepComplete == CompleteInv /\ [Next]_vars => CompleteInv'
<1> SUFFICES ASSUME CompleteInv, [Next]_vars, NEW d \in Calls
             PROVE  OrderSound(d)'
  BY StepIInv DEF CompleteInv
<1>1. CASE ItemPriced(d)
  BY <1>1, PricedLists
<1>2. CASE ~ItemPriced(d)
  <2>t. /\ order \in [Calls -> [items : Lines, total : Nat]]
        /\ table \in [Calls -> [status : {"absent", "PENDING", "CONFIRMED", "FAILED"},
                                items : Lines, total : Nat]]
        /\ pc \in [Calls -> Working \cup {"unsent", "done"}]
        /\ OrderSound(d) /\ CallSound(d)
    BY DEF CompleteInv, IInv, TypeOK
  <2>1. order'[d] = order[d] /\ (pc'[d] = "persist" => pc[d] = "persist")
    <3>1. ASSUME NEW c \in Calls, ItemPriced(c)
          PROVE  order'[d] = order[d] /\ pc'[d] = pc[d]
      <4>1. c # d
        BY <1>2, <3>1
      <4> QED
        BY <2>t, <3>1, <4>1 DEF ItemPriced, GoTo
    <3>2. ASSUME NEW c \in Calls,
                 Place(c) \/ LocalStep(c) \/ LocalFailure(c) \/ AnyCharge(c) \/ Disconnect(c),
                 ~ItemPriced(c)
          PROVE  order'[d] = order[d] /\ (pc'[d] = "persist" => pc[d] = "persist")
      <4>1. UNCHANGED order /\ (pc'[c] # "persist" \/ pc'[c] = pc[c])
        BY <3>2, OrdersKept DEF LocalStep
      <4>2. \/ pc' = pc
            \/ \E label : pc' = [pc EXCEPT ![c] = label]
        BY <3>2, HandlerMoves DEF Place, GoTo, Finish
      <4> QED
        BY <2>t, <4>1, <4>2
    <3>3. CASE (\E p \in Products : EditProduct(p)) \/ Crash \/ UNCHANGED vars
      BY <2>t, <3>3 DEF EditProduct, Crash, Stop, vars
    <3> QED
      BY <3>1, <3>2, <3>3 DEF Next, LocalStep
  <2>2. table'[d].status # "absent" => Complete(table'[d], d)
    <3>1. CASE table'[d] = table[d]
      BY <2>t, <3>1 DEF OrderSound
    <3>2. CASE pc[d] = "persist" /\ table'[d] = Pending(order[d])
      <4>1. Pending(order[d]).items = order[d].items /\ Pending(order[d]).total = order[d].total
        BY DEF Pending
      <4> QED
        BY <2>t, <3>2, <4>1 DEF OrderSound, Complete, Lists
    <3>3. ASSUME NEW s, pc[d] = "update", table'[d] = [table[d] EXCEPT !.status = s]
          PROVE  Complete(table'[d], d)
      <4>1. table[d].status = "PENDING"
        BY <2>t, <3>3 DEF CallSound, StageSound
      <4>2. table'[d].items = table[d].items /\ table'[d].total = table[d].total
        BY <2>t, <3>3
      <4> QED
        BY <2>t, <4>1, <4>2 DEF OrderSound, Complete, Lists
    <3> QED
      BY <3>1, <3>2, <3>3, RowsKept
  <2> QED
    BY <2>t, <2>1, <2>2 DEF OrderSound, Complete, Lists
<1> QED
  BY <1>1, <1>2

\* A stored order has every item that was asked for and their sum, although
\* the catalog is edited between two items and whatever fails while the order
\* is written.
THEOREM StoredOrdersAreComplete == Spec => []OrdersAreComplete
<1>1. CompleteInv => OrdersAreComplete
  <2> SUFFICES ASSUME CompleteInv, NEW c \in Calls, table[c].status # "absent"
               PROVE  /\ Len(table[c].items) = Len(ItemsOf[c])
                      /\ \A i \in 1 .. Len(ItemsOf[c]) :
                            /\ table[c].items[i].product  = ItemsOf[c][i].product
                            /\ table[c].items[i].quantity = ItemsOf[c][i].quantity
                      /\ table[c].total = Total(table[c].items)
    BY DEF OrdersAreComplete
  <2>1. Complete(table[c], c)
    BY DEF CompleteInv, OrderSound
  <2>2. Total(table[c].items) = table[c].total
    BY <2>1, TotalIsSum DEF Complete, Lists
  <2> QED
    BY <2>1, <2>2 DEF Complete, Lists
<1> QED
  BY <1>1, InitComplete, StepComplete, PTL DEF Spec
=============================================================================
