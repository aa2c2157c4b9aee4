------------------------- MODULE OrderServerProofs -------------------------
(***************************************************************************)
(* Proofs about OrderServer, for every set of calls, readers and settings: *)
(* a clean exit drops nothing, the process is an order-service, the pool   *)
(* keeps its limit, and reads are whole and agree with the answers given.  *)
(***************************************************************************)
EXTENDS OrderServer, FiniteSetTheorems, TLAPS

\* The state of every handler is a function, so that a step that changes no
\* value of it changes nothing.
Functions ==
    /\ pc     = [c \in Calls |-> pc[c]]
    /\ reply  = [c \in Calls |-> reply[c]]
    /\ query  = [r \in Readers |-> query[r]]
    /\ rpc    = [r \in Readers |-> rpc[r]]
    /\ view   = [r \in Readers |-> view[r]]
    /\ known  = [r \in Readers |-> known[r]]
    /\ answer = [r \in Readers |-> answer[r]]

\* Once the server is shut down or the process gone no handler is at work.
QuietWhenClosed == phase \in Down \cup {"closing"} => InFlight = {}

SInv == Functions /\ QuietWhenClosed

-----------------------------------------------------------------------------
(***************************************************************************)
(* Steps of POST /orders.                                                  *)
(***************************************************************************)

\* What a step of one handler does to the functions.
OneCall(c) ==
    /\ pc' = pc \/ \E label : pc' = [pc EXCEPT ![c] = label]
    /\ reply' = reply \/ \E status : reply' = [reply EXCEPT ![c] = status]

\* Every step of a handler starts at work and is a step of its call.
LEMMA HandlerStep ==
    ASSUME NEW c \in Calls, Orders!LocalStep(c) \/ Orders!LocalFailure(c) \/ Orders!AnyCharge(c)
    PROVE  OneCall(c) /\ pc[c] \in Orders!Working
<1> USE DEF OneCall, Orders!At, Orders!Working, Orders!Upstream
<1>1. ASSUME NEW label, Orders!GoTo(c, label)
      PROVE  OneCall(c)
  BY <1>1 DEF Orders!GoTo
<1>2. ASSUME NEW status, Orders!Finish(c, status)
      PROVE  OneCall(c)
  BY <1>2 DEF Orders!Finish
<1>3. ASSUME NEW status, Orders!Conclude(c, status)
      PROVE  OneCall(c)
  BY <1>1, <1>3 DEF Orders!Conclude
<1>4. CASE Orders!AttemptFailed(c)
  <2>1. CASE Orders!Retry(c)
    BY <1>4, <2>1 DEF Orders!AttemptFailed, Orders!Retry
  <2>2. CASE Orders!GiveUp(c)
    BY <1>2, <1>3, <1>4, <2>2 DEF Orders!AttemptFailed, Orders!GiveUp
  <2> QED
    BY <1>4, <2>1, <2>2 DEF Orders!AttemptFailed
<1>5. CASE Orders!LocalStep(c)
  <2> HIDE DEF OneCall
  <2> QED
    BY <1>1, <1>2, <1>5
       DEF Orders!LocalStep, Orders!VerifyUser, Orders!ItemRefused, Orders!ItemPriced,
           Orders!Persist, Orders!UpdateStatus, Orders!Answer
<1>6. CASE Orders!PersistFails(c) \/ Orders!UpdateFails(c) \/ Orders!UpstreamError(c)
  <2> HIDE DEF OneCall
  <2> QED
    BY <1>2, <1>6, OrdersAssumption
       DEF Orders!PersistFails, Orders!UpdateFails, Orders!UpstreamError, Orders!Answer,
           Orders!RetryAssumption
<1>7. CASE Orders!ChargeBodyLost(c) \/ \E code : Orders!ChargeAnswered(c, code)
  <2> HIDE DEF OneCall
  <2> QED
    BY <1>3, <1>7 DEF Orders!ChargeBodyLost, Orders!ChargeAnswered
<1> QED
  BY <1>4, <1>5, <1>6, <1>7 DEF Orders!LocalFailure, Orders!AnyCharge

\* The steps of POST /orders are steps of OrderService, and the process leaves
\* its phase alone.
LEMMA CallStep ==
    ASSUME NEW c \in Calls,
           CallerStep(c) \/ CallUpstream(c) \/ Transact(c) \/ AcquireFails(c)
    PROVE  /\ Orders!Next
           /\ OneCall(c)
           /\ UNCHANGED <<readVars, phase>>
           /\ pc[c] \in Orders!Working \/ Accepting
<1>1. CASE CallerStep(c)
  <2>1. CASE Accepting /\ Orders!Place(c)
    <3>1. OneCall(c)
      BY <2>1 DEF OneCall, Orders!Place, Orders!GoTo, Orders!Finish
    <3> QED
      BY <1>1, <2>1, <3>1 DEF CallerStep, Orders!Next, serverVars
  <2>2. CASE Orders!Disconnect(c)
    BY <1>1, <2>2 DEF CallerStep, Orders!Next, Orders!Disconnect, OneCall, serverVars
  <2> QED
    BY <1>1, <2>1, <2>2 DEF CallerStep
<1>2. CASE CallUpstream(c) \/ Transact(c) \/ AcquireFails(c)
  <2>1. Orders!LocalStep(c) \/ Orders!LocalFailure(c) \/ Orders!AnyCharge(c)
    BY <1>2 DEF CallUpstream, Transact, AcquireFails
  <2>2. Orders!Next
    BY <2>1 DEF Orders!Next
  <2>3. UNCHANGED <<readVars, phase>>
    BY <1>2 DEF CallUpstream, Transact, AcquireFails, serverVars
  <2> QED
    BY <2>1, <2>2, <2>3, HandlerStep
<1> QED
  BY <1>1, <1>2

-----------------------------------------------------------------------------
(***************************************************************************)
(* Steps of the readers and of the process.                                *)
(***************************************************************************)

\* What a step of one reader does to the functions.
OneReader(r) ==
    /\ query' = query \/ \E q : query' = [query EXCEPT ![r] = q]
    /\ view' = view \/ \E orders : view' = [view EXCEPT ![r] = orders]
    /\ known' = known \/ \E codes : known' = [known EXCEPT ![r] = codes]
    /\ rpc' = rpc \/ \E label : rpc' = [rpc EXCEPT ![r] = label]
    /\ answer' = answer \/ \E status : answer' = [answer EXCEPT ![r] = status]

\* A read leaves the orders and the phase alone.
LEMMA ReaderStep ==
    ASSUME NEW r \in Readers,
           Ask(r) \/ AskGarbled(r) \/ ReadStep(r) \/ ReaderLeaves(r) \/ PingTimesOut(r)
    PROVE  /\ UNCHANGED <<orderVars, phase>>
           /\ OneReader(r)
           /\ rpc[r] \in Reading \/ Accepting
<1> USE DEF OneReader, Respond, Reading
<1>1. CASE Ask(r) \/ AskGarbled(r)
  BY <1>1 DEF Ask, AskGarbled, serverVars
<1>2. ASSUME NEW status, Abort(r, status)
      PROVE  /\ UNCHANGED <<orderVars, phase>>
             /\ OneReader(r)
             /\ rpc[r] \in Reading
  BY <1>2 DEF Abort
<1>3. CASE ScanOrders(r)
  BY <1>3 DEF ScanOrders
<1>4. CASE ScanItems(r)
  <2>1. view' = [view EXCEPT ![r] =
                   [view[r] EXCEPT ![query[r].of].items = table[query[r].of].items]]
    BY <1>4 DEF ScanItems
  <2> QED
    BY <1>4, <2>1 DEF ScanItems
<1>5. CASE Ping(r)
  BY <1>5 DEF Ping
<1> QED
  BY <1>1, <1>2, <1>3, <1>4, <1>5 DEF ReadStep, ReadFails, ReaderLeaves, PingTimesOut

\* The process ends as a crash of the order-service, or unnoticed when no call
\* is being handled.
LEMMA ExitStep ==
    ASSUME "crash" \in Faults, Functions, NEW how, Exit(how)
    PROVE  [Orders!Next]_(Orders!vars)
<1>1. Orders!Stop
  BY DEF Exit
<1>2. CASE \E c \in Calls : pc[c] \in Orders!Working
  BY <1>1, <1>2 DEF Orders!Crash, Orders!Next
<1>3. CASE ~ \E c \in Calls : pc[c] \in Orders!Working
  <2>1. pc' = [c \in Calls |-> pc[c]] /\ reply' = [c \in Calls |-> reply[c]]
    BY <1>1, <1>3 DEF Orders!Stop
  <2> QED
    BY <1>1, <2>1 DEF Functions, Orders!Stop, Orders!vars
<1> QED
  BY <1>2, <1>3

\* After the end of the process nobody is at work.
LEMMA ExitQuiets ==
    ASSUME SInv, NEW how, Exit(how)
    PROVE  SInv'
<1>1. Functions'
  BY DEF Exit, Orders!Stop, SInv, Functions
<1>2. InFlight' = {}
  BY DEF Exit, Orders!Stop, InFlight, Orders!Working, Orders!Upstream, Reading
<1> QED
  BY <1>1, <1>2 DEF SInv, QuietWhenClosed

\* The steps of main() that do not end the process.
GoesOn ==
    /\ UNCHANGED <<orderVars, readVars>>
    /\ phase' \in Down \cup {"closing"} => phase' = phase \/ InFlight = {}

\* Every step of main(), of the pool and of the environment goes on or ends the
\* process, cleanly only after the server was shut down.
LEMMA ProcessStep ==
    ASSUME \/ \E h \in Handlers : Acquire(h)
           \/ Start \/ StartFails \/ Listen \/ Notify \/ Terminate
           \/ Drained \/ ForceExit \/ Close \/ Kill
    PROVE  GoesOn \/ \E how \in Down : Exit(how) /\ (how = "clean" => phase = "closing")
<1> USE DEF GoesOn, Down
<1>1. CASE \E h \in Handlers : Acquire(h)
  BY <1>1 DEF Acquire
<1>2. CASE Start
  BY <1>2 DEF Start
<1>3. CASE Listen \/ Notify \/ Drained
  BY <1>3 DEF Listen, Notify, Drained, GoOn
<1>4. CASE Terminate
  BY <1>4 DEF Terminate, GoOn
<1>5. CASE StartFails \/ ForceExit \/ Close \/ Kill
  BY <1>5 DEF StartFails, ForceExit, Close, Kill
<1> QED
  BY <1>1, <1>2, <1>3, <1>4, <1>5

-----------------------------------------------------------------------------
(***************************************************************************)
(* The theorems.                                                           *)
(***************************************************************************)

\* A process that was never started has nobody at work.
LEMMA InitSInv == Init => SInv
BY DEF Init, Orders!Init, SInv, Functions, QuietWhenClosed, InFlight, Orders!Working,
       Orders!Upstream, Reading

\* Handlers start only while requests are accepted, and the server is closed
\* only when none is at work.
LEMMA StepSInv == SInv /\ [Next]_vars => SInv'
<1> SUFFICES ASSUME SInv, [Next]_vars
             PROVE  SInv'
  OBVIOUS
<1>1. ASSUME NEW c \in Calls, OneCall(c), UNCHANGED <<readVars, phase>>,
             pc[c] \in Orders!Working \/ Accepting
      PROVE  SInv'
  <2>1. Functions'
    BY <1>1 DEF SInv, Functions, OneCall, readVars
  <2>2. phase \notin Down \cup {"closing"}
    BY <1>1 DEF SInv, QuietWhenClosed, InFlight, Accepting, Down
  <2> QED
    BY <1>1, <2>1, <2>2 DEF SInv, QuietWhenClosed
<1>2. ASSUME NEW r \in Readers, OneReader(r), UNCHANGED <<orderVars, phase>>,
             rpc[r] \in Reading \/ Accepting
      PROVE  SInv'
  <2>1. Functions'
    BY <1>2 DEF SInv, Functions, OneReader, orderVars
  <2>2. phase \notin Down \cup {"closing"}
    BY <1>2 DEF SInv, QuietWhenClosed, InFlight, Accepting, Down
  <2> QED
    BY <1>2, <2>1, <2>2 DEF SInv, QuietWhenClosed
<1>3. CASE GoesOn
  BY <1>3 DEF GoesOn, SInv, Functions, QuietWhenClosed, InFlight, orderVars, readVars
<1>4. CASE UNCHANGED vars
  BY <1>4 DEF SInv, Functions, QuietWhenClosed, InFlight, vars, orderVars, readVars, serverVars
<1> QED
  BY <1>1, <1>2, <1>3, <1>4, CallStep, ReaderStep, ProcessStep, ExitQuiets DEF Next

\* A shutdown that returns within its timeout leaves every answer as it was
\* given: no request that was accepted is dropped.
THEOREM CleanExitsSound == Spec => CleanExitsDropNothing
<1>1. SInv /\ [Next]_vars => [phase' = "clean" => UNCHANGED <<reply, answer>>]_vars
  <2> SUFFICES ASSUME SInv, Next, phase' = "clean"
               PROVE  UNCHANGED <<reply, answer>>
    BY DEF vars
  <2>1. CASE phase = "clean"
    <3>1. InFlight = {} /\ ~Accepting
      BY <2>1 DEF SInv, QuietWhenClosed, Accepting, Down
    <3>2. ~ \E c \in Calls : CallerStep(c) \/ CallUpstream(c) \/ Transact(c) \/ AcquireFails(c)
      BY <3>1, CallStep DEF InFlight
    <3>3. GoesOn \/ \E r \in Readers : OneReader(r) /\ rpc[r] \in Reading
      BY <2>1, <3>1, <3>2, ReaderStep, ProcessStep DEF Next, Exit
    <3> QED
      BY <3>1, <3>3 DEF InFlight, GoesOn, orderVars, readVars
  <2>2. CASE phase # "clean"
    <3>1. \A c \in Calls : ~(CallerStep(c) \/ CallUpstream(c) \/ Transact(c) \/ AcquireFails(c))
      BY <2>2, CallStep
    <3>2. \A r \in Readers :
            ~(Ask(r) \/ AskGarbled(r) \/ ReadStep(r) \/ ReaderLeaves(r) \/ PingTimesOut(r))
      BY <2>2, ReaderStep
    <3>3. GoesOn \/ (Exit("clean") /\ phase = "closing")
      BY <3>1, <3>2, ProcessStep DEF Next, Exit
    <3>4. CASE GoesOn
      BY <3>4 DEF GoesOn, orderVars, readVars
    <3>5. CASE Exit("clean") /\ phase = "closing"
      <4>1. InFlight = {}
        BY <3>5 DEF SInv, QuietWhenClosed
      <4>2. reply' = [c \in Calls |-> reply[c]] /\ answer' = [r \in Readers |-> answer[r]]
        BY <3>5, <4>1 DEF Exit, Orders!Stop, InFlight
      <4> QED
        BY <4>2 DEF SInv, Functions
    <3> QED
      BY <3>3, <3>4, <3>5
  <2> QED
    BY <2>1, <2>2
<1> QED
  BY <1>1, InitSInv, StepSInv, PTL DEF Spec, CleanExitsDropNothing

\* The process is an order-service: its pool, its reads and every way it may end
\* add no outcome to POST /orders, given that a service may crash.
THEOREM ImplementsOrderService ==
    ASSUME "crash" \in Faults
    PROVE  Spec => RefinesOrderService
<1>1. Init => Orders!Init
  BY DEF Init
<1>2. SInv /\ [Next]_vars => [Orders!Next]_(Orders!vars)
  <2> SUFFICES ASSUME SInv, [Next]_vars
               PROVE  [Orders!Next]_(Orders!vars)
    OBVIOUS
  <2>1. UNCHANGED orderVars => UNCHANGED Orders!vars
    BY DEF orderVars, Orders!vars
  <2>2. CASE UNCHANGED vars
    BY <2>1, <2>2 DEF vars
  <2>3. ASSUME NEW how, Exit(how)
        PROVE  [Orders!Next]_(Orders!vars)
    BY <2>3, ExitStep DEF SInv
  <2> QED
    BY <2>1, <2>2, <2>3, CallStep, ReaderStep, ProcessStep DEF Next, GoesOn
<1> QED
  BY <1>1, <1>2, InitSInv, StepSInv, PTL DEF Spec, RefinesOrderService, Orders!Spec

-----------------------------------------------------------------------------
(***************************************************************************)
(* The order-service inside.  Its invariant holds here too: an exit is a   *)
(* crash to it, so the service meant is one that may crash, whatever       *)
(* Faults says.                                                            *)
(***************************************************************************)
OP == INSTANCE OrderServiceProofs WITH Faults <- Faults \cup {"crash"}

LEMMA Assumptions ==
    /\ OP!CallsAssumption /\ OP!CatalogAssumption /\ OP!RetryAssumption
BY OrdersAssumption
   DEF Orders!CallsAssumption, Orders!CatalogAssumption, Orders!RetryAssumption,
       OP!CallsAssumption, OP!CatalogAssumption, OP!RetryAssumption,
       Orders!Listing, OP!Listing

LEMMA OrderInit == Orders!Init => OP!Init
BY DEF Orders!Init, OP!Init, Orders!EmptyOrder, OP!EmptyOrder, Orders!NoRow, OP!NoRow

LEMMA OrderActions ==
    ASSUME NEW c \in Calls
    PROVE  /\ Orders!Place(c) => OP!Place(c)
           /\ Orders!LocalStep(c) => OP!LocalStep(c)
           /\ Orders!LocalFailure(c) => OP!LocalFailure(c)
           /\ Orders!AnyCharge(c) => OP!AnyCharge(c)
           /\ Orders!Disconnect(c) => OP!Disconnect(c)
<1> USE DEF Orders!At, OP!At, Orders!GoTo, OP!GoTo, Orders!Finish, OP!Finish,
            Orders!Conclude, OP!Conclude, Orders!Answer, OP!Answer,
            Orders!Pending, OP!Pending, Orders!MayFail, OP!MayFail,
            Orders!DatabaseMayFail, OP!DatabaseMayFail, Orders!Upstream, OP!Upstream,
            Orders!Working, OP!Working
<1>1. Orders!Place(c) => OP!Place(c)
  BY DEF Orders!Place, OP!Place
<1>2. Orders!LocalStep(c) => OP!LocalStep(c)
  BY DEF Orders!LocalStep, OP!LocalStep, Orders!VerifyUser, OP!VerifyUser,
         Orders!ItemRefused, OP!ItemRefused, Orders!ItemPriced, OP!ItemPriced,
         Orders!Current, OP!Current, Orders!Available, OP!Available,
         Orders!Persist, OP!Persist, Orders!UpdateStatus, OP!UpdateStatus
<1>3. Orders!AttemptFailed(c) => OP!AttemptFailed(c)
  BY DEF Orders!AttemptFailed, OP!AttemptFailed, Orders!Retry, OP!Retry,
         Orders!GiveUp, OP!GiveUp
<1>4. Orders!LocalFailure(c) => OP!LocalFailure(c)
  BY <1>3 DEF Orders!LocalFailure, OP!LocalFailure, Orders!PersistFails, OP!PersistFails,
              Orders!UpdateFails, OP!UpdateFails, Orders!UpstreamError, OP!UpstreamError
<1>5. Orders!AnyCharge(c) => OP!AnyCharge(c)
  BY <1>3 DEF Orders!AnyCharge, OP!AnyCharge, Orders!ChargeAnswered, OP!ChargeAnswered,
              Orders!ChargeBodyLost, OP!ChargeBodyLost
<1>6. Orders!Disconnect(c) => OP!Disconnect(c)
  BY DEF Orders!Disconnect, OP!Disconnect
<1> QED
  BY <1>1, <1>2, <1>4, <1>5, <1>6

\* What every step of the process is to the order-service inside.
LEMMA OrderSide ==
    ASSUME SInv, [Next]_vars
    PROVE  [OP!Next]_(OP!vars)
<1>1. Orders!Next => OP!Next
  <2>1. Orders!Crash => OP!Crash
    BY DEF Orders!Crash, OP!Crash, Orders!Stop, OP!Stop, Orders!Working, OP!Working,
           Orders!Upstream, OP!Upstream
  <2>2. \A p : Orders!EditProduct(p) => OP!EditProduct(p)
    BY DEF Orders!EditProduct, OP!EditProduct
  <2> QED
    BY <2>1, <2>2, OrderActions DEF Orders!Next, OP!Next
<1>2. UNCHANGED orderVars => UNCHANGED OP!vars
  BY DEF orderVars, OP!vars
<1>3. ASSUME NEW how, Exit(how)
      PROVE  [OP!Next]_(OP!vars)
  <2>1. Orders!Stop
    BY <1>3 DEF Exit
  <2>2. OP!Stop
    BY <2>1 DEF Orders!Stop, OP!Stop, Orders!Working, OP!Working, Orders!Upstream, OP!Upstream
  <2>3. CASE \E c \in Calls : pc[c] \in OP!Working
    BY <2>2, <2>3 DEF OP!Crash, OP!Next
  <2>4. CASE ~ \E c \in Calls : pc[c] \in OP!Working
    <3>1. pc' = [c \in Calls |-> pc[c]] /\ reply' = [c \in Calls |-> reply[c]]
      BY <2>2, <2>4 DEF OP!Stop
    <3> QED
      BY <2>2, <3>1 DEF SInv, Functions, OP!Stop, OP!vars
  <2> QED
    BY <2>3, <2>4
<1>4. CASE UNCHANGED vars
  BY <1>2, <1>4 DEF vars
<1> QED
  BY <1>1, <1>2, <1>3, <1>4, CallStep, ReaderStep, ProcessStep DEF Next, GoesOn

\* The invariant of order-service along the steps of the process.
LEMMA InitOrders == Init => OP!CompleteInv
BY Assumptions, OrderInit, OP!InitComplete DEF Init

LEMMA StepOrders == SInv /\ OP!CompleteInv /\ [Next]_vars => OP!CompleteInv'
BY Assumptions, OrderSide, OP!StepComplete

-----------------------------------------------------------------------------
(***************************************************************************)
(* The pool.                                                               *)
(***************************************************************************)
Phases == Down \cup {"starting", "listening", "serving", "draining", "closing"}

\* Where the handler of a reader stands, and what it answers.
ReadersTyped ==
    /\ rpc    \in [Readers -> Reading \cup {"idle", "done"}]
    /\ answer \in [Readers -> {"none", "lost", "200", "400", "404", "500", "503"}]

\* Connections are counted, within the limit, and none outlives its process.
PoolInv ==
    /\ phase \in Phases
    /\ maxConns \in Int
    /\ conns \subseteq Handlers \X (Reading \cup {"persist", "update"})
    /\ IsFiniteSet(conns)
    /\ conns # {} => Cardinality(conns) <= maxConns
    /\ phase \in Down \cup {"starting"} => conns = {} /\ InFlight = {}

\* Handlers only give connections back, except when they take one.
LEMMA HandlersGiveBack ==
    ASSUME \/ \E c \in Calls :
                CallerStep(c) \/ CallUpstream(c) \/ Transact(c) \/ AcquireFails(c)
           \/ \E r \in Readers :
                Ask(r) \/ AskGarbled(r) \/ ReadStep(r) \/ ReaderLeaves(r) \/ PingTimesOut(r)
    PROVE  conns' \subseteq conns /\ UNCHANGED <<phase, maxConns>>
<1>1. CASE \E c \in Calls :
             CallerStep(c) \/ CallUpstream(c) \/ Transact(c) \/ AcquireFails(c)
  BY <1>1 DEF CallerStep, CallUpstream, Transact, AcquireFails, Release, serverVars
<1>2. CASE \E r \in Readers :
             Ask(r) \/ AskGarbled(r) \/ ReadStep(r) \/ ReaderLeaves(r) \/ PingTimesOut(r)
  BY <1>2 DEF Ask, AskGarbled, ReadStep, ScanOrders, ScanItems, Ping, ReadFails, ReaderLeaves,
              PingTimesOut, Abort, Release, serverVars
<1> QED
  BY <1>1, <1>2

\* No step exceeds the limit of the pool.
LEMMA PoolStep ==
    SInv /\ OP!CompleteInv /\ ReadersTyped /\ PoolInv /\ [Next]_vars => PoolInv'
<1> SUFFICES ASSUME SInv, OP!CompleteInv, ReadersTyped, PoolInv, [Next]_vars
             PROVE  PoolInv'
  OBVIOUS
<1>1. ASSUME conns' \subseteq conns, UNCHANGED <<phase, maxConns>>,
             phase \notin Down \cup {"starting"}
      PROVE  PoolInv'
  <2>1. IsFiniteSet(conns') /\ Cardinality(conns') <= Cardinality(conns)
        /\ Cardinality(conns') \in Nat /\ Cardinality(conns) \in Nat
    BY <1>1, FS_Subset, FS_CardinalityType DEF PoolInv
  <2> QED
    BY <1>1, <2>1 DEF PoolInv
<1>2. CASE \/ \E c \in Calls :
                CallerStep(c) \/ CallUpstream(c) \/ Transact(c) \/ AcquireFails(c)
           \/ \E r \in Readers :
                Ask(r) \/ AskGarbled(r) \/ ReadStep(r) \/ ReaderLeaves(r) \/ PingTimesOut(r)
  <2>1. InFlight # {} \/ Accepting
    BY <1>2, CallStep, ReaderStep DEF InFlight
  <2>2. phase \notin Down \cup {"starting"}
    BY <2>1 DEF PoolInv, Accepting, Down
  <2> QED
    BY <1>1, <1>2, <2>2, HandlersGiveBack
<1>3. ASSUME NEW h \in Handlers, Acquire(h)
      PROVE  PoolInv'
  <2> DEFINE held == <<h, Stage(h)>>
  <2>1. held \in Handlers \X (Reading \cup {"persist", "update"})
    BY <1>3 DEF Acquire, AtStatement
  <2>2. h \in InFlight
    <3>1. Stage(h) \in Reading \cup {"persist", "update"}
      BY <1>3 DEF Acquire, AtStatement
    <3>2. CASE h \in Calls
      <4>1. pc[h] \in OP!Working \cup {"unsent", "done"}
        BY <3>2 DEF OP!CompleteInv, OP!IInv, OP!TypeOK
      <4> QED
        BY <3>1, <3>2, <4>1
           DEF Stage, InFlight, Reading, Orders!Working, Orders!Upstream, OP!Working, OP!Upstream
    <3>3. CASE h \in Readers \ Calls
      BY <3>1, <3>3 DEF Stage, InFlight, Reading, ReadersTyped
    <3> QED
      BY <3>2, <3>3 DEF Handlers
  <2>3. phase \notin Down \cup {"starting"}
    BY <2>2 DEF PoolInv
  <2> HIDE DEF held
  <2>4. conns' = conns \cup {held} /\ Cardinality(conns) < maxConns /\ UNCHANGED <<phase, maxConns>>
    BY <1>3 DEF Acquire, Free, held
  <2>5. IsFiniteSet(conns)
    BY DEF PoolInv
  <2>6. /\ IsFiniteSet(conns \cup {held})
        /\ Cardinality(conns \cup {held}) \in {Cardinality(conns), Cardinality(conns) + 1}
    BY <2>5, FS_AddElement
  <2>7. Cardinality(conns) \in Nat
    BY <2>5, FS_CardinalityType
  <2>8. Cardinality(conns \cup {held}) <= maxConns
    BY <2>4, <2>6, <2>7 DEF PoolInv
  <2> QED
    BY <2>1, <2>3, <2>4, <2>6, <2>8 DEF PoolInv
<1>4. ASSUME NEW how \in Down, Exit(how)
      PROVE  PoolInv'
  <2>1. InFlight' = {}
    BY <1>4, ExitQuiets DEF SInv, QuietWhenClosed, Exit
  <2>2. conns' = {} /\ maxConns' = 0 /\ phase' = how
    BY <1>4 DEF Exit
  <2> QED
    BY <2>1, <2>2, FS_EmptySet DEF PoolInv, Phases
<1>5. CASE Start
  <2>1. maxConns' \in Int
    BY <1>5 DEF Start, getEnvInt
  <2>2. phase \in Down /\ phase' = "starting" /\ UNCHANGED <<orderVars, readVars, conns>>
    BY <1>5 DEF Start
  <2>3. InFlight' = InFlight
    BY <2>2 DEF InFlight, orderVars, readVars
  <2> QED
    BY <2>1, <2>2, <2>3 DEF PoolInv, Phases
<1>6. ASSUME NEW label \in {"listening", "serving", "draining", "closing"}, GoOn(label)
      PROVE  PoolInv'
  <2>1. phase' = label /\ UNCHANGED <<maxConns, conns>>
    BY <1>6 DEF GoOn
  <2>2. phase' \notin Down \cup {"starting"} /\ phase' \in Phases
    BY <2>1 DEF Down, Phases
  <2> QED
    BY <2>1, <2>2 DEF PoolInv
<1>7. CASE UNCHANGED vars
  BY <1>7 DEF PoolInv, InFlight, vars, orderVars, readVars, serverVars
<1>8. CASE Listen \/ Notify \/ Drained \/ Terminate \/ StartFails \/ ForceExit \/ Close \/ Kill
  BY <1>4, <1>6, <1>8
     DEF Listen, Notify, Drained, Terminate, StartFails, ForceExit, Close, Kill, Down
<1> QED
  BY <1>2, <1>3, <1>5, <1>7, <1>8 DEF Next

\* The readers stay in their types.
LEMMA ReadersTypedStep == ReadersTyped /\ [Next]_vars => ReadersTyped'
<1> SUFFICES ASSUME ReadersTyped, [Next]_vars
             PROVE  ReadersTyped'
  OBVIOUS
<1>1. ASSUME UNCHANGED readVars
      PROVE  ReadersTyped'
  BY <1>1 DEF ReadersTyped, readVars
<1>2. ASSUME NEW r \in Readers,
             Ask(r) \/ AskGarbled(r) \/ ReadStep(r) \/ ReaderLeaves(r) \/ PingTimesOut(r)
      PROVE  ReadersTyped'
  <2>1. ASSUME NEW status \in {"200", "400", "404", "500", "503"}, Respond(r, status)
        PROVE  ReadersTyped'
    BY <2>1 DEF ReadersTyped, Respond
  <2>2. CASE Ask(r)
    BY <2>2 DEF ReadersTyped, Ask, Reading
  <2>3. CASE ScanOrders(r)
    BY <2>1, <2>3 DEF ReadersTyped, ScanOrders, Reading
  <2>4. CASE AskGarbled(r) \/ ScanItems(r) \/ Ping(r) \/ ReadFails(r) \/ ReaderLeaves(r)
             \/ PingTimesOut(r)
    BY <2>1, <2>4
       DEF AskGarbled, ScanItems, Ping, ReadFails, ReaderLeaves, PingTimesOut, Abort, Unavailable
  <2> QED
    BY <1>2, <2>2, <2>3, <2>4 DEF ReadStep
<1>3. ASSUME NEW how, Exit(how)
      PROVE  ReadersTyped'
  BY <1>3 DEF ReadersTyped, Exit
<1>4. CASE UNCHANGED vars
  BY <1>1, <1>4 DEF vars
<1> QED
  BY <1>1, <1>2, <1>3, <1>4, CallStep, ProcessStep DEF Next, GoesOn

-----------------------------------------------------------------------------
(***************************************************************************)
(* The reads.                                                              *)
(***************************************************************************)
Row == [status : {"absent", "PENDING", "CONFIRMED", "FAILED"}, items : OP!Lines, total : Nat]

\* What a handler knows when it has read the row of order c and not its items.
HasHeader(r, c) ==
    /\ query[r].kind = "order" /\ query[r].of = c
    /\ view[r] = [d \in {c} |-> view[r][d]]
    /\ view[r][c] \in Row
    /\ view[r][c].total = table[c].total
    /\ table[c].status # "absent"

\* A reader remembers answers that are still the answers; what it has read is
\* consistent with them; and an order it was given is complete.
ReadSound(r) ==
    /\ query[r] \in Queries[r] \cup {NoQuery}
    /\ known[r] = [c \in Asked(query[r]) |-> known[r][c]]
    /\ view[r] = NoOrders \/ view[r] = [c \in Asked(query[r]) |-> view[r][c]]
    /\ \A c \in Asked(query[r]) : known[r][c] \in {"none", reply[c]}
    /\ rpc[r] = "orders" => query[r].kind \in {"order", "list"}
    /\ rpc[r] = "items" => HasHeader(r, query[r].of)
    /\ rpc[r] = "ping" => query[r].kind = "ready"
    /\ rpc[r] \in Reading => answer[r] = "none"
    /\ rpc[r] = "items" \/ answer[r] = "200" =>
          \A c \in Asked(query[r]) : Consistent(known[r][c], view[r][c].status)
    /\ answer[r] = "404" =>
          \A c \in Asked(query[r]) : Consistent(known[r][c], "absent")
    /\ answer[r] = "200" /\ query[r].kind = "order" =>
          OP!Complete(view[r][query[r].of], query[r].of)

PInv ==
    /\ SInv
    /\ OP!CompleteInv
    /\ ReadersTyped
    /\ PoolInv
    /\ \A r \in Readers : ReadSound(r)

\* A read is about orders that exist as calls.
LEMMA AskedAreCalls ==
    ASSUME NEW r \in Readers, NEW q \in Queries[r] \cup {NoQuery}
    PROVE  /\ Asked(q) \subseteq Calls
           /\ q.kind = "order" => Asked(q) = {q.of}
           /\ q.kind = "ready" => Asked(q) = {}
           /\ q.kind \in {"order", "list", "ready", "none"}
BY ReadersAssumption DEF Asked, NoQuery

\* What the service answered to a call agrees with the row of its order.
LEMMA RowsFollowAnswers ==
    ASSUME OP!CompleteInv, NEW c \in Calls, NEW code \in {"none", reply[c]}
    PROVE  Consistent(code, table[c].status)
<1>1. OP!AnswerSound(c)
  BY DEF OP!CompleteInv, OP!IInv, OP!CallSound
<1> QED
  BY <1>1 DEF OP!AnswerSound, Consistent

\* Answers and stored rows stay, whatever the process does.
LEMMA OrdersStay ==
    ASSUME SInv, OP!CompleteInv, [Next]_vars, NEW c \in Calls
    PROVE  /\ reply[c] # "none" => reply'[c] = reply[c]
           /\ table[c].status # "absent" => table'[c].status # "absent" /\ table'[c].total = table[c].total
<1>1. [OP!Next]_(OP!vars)
  BY OrderSide
<1>2. OP!IInv
  BY DEF OP!CompleteInv
<1>3. reply[c] # "none" => reply'[c] = reply[c]
  BY <1>1, <1>2, Assumptions, OP!AnswersStay
<1>4. ASSUME table[c].status # "absent"
      PROVE  table'[c].status # "absent" /\ table'[c].total = table[c].total
  <2>1. table'[c].status # "absent"
    BY <1>1, <1>2, <1>4, Assumptions, OP!OutcomesHaveCauses
  <2>2. pc[c] # "persist" /\ table[c] \in Row
    BY <1>2, <1>4 DEF OP!IInv, OP!TypeOK, OP!CallSound, OP!StageSound, Row
  <2>3. table'[c] = table[c] \/ \E s : table'[c] = [table[c] EXCEPT !.status = s]
    BY <1>1, <2>2, Assumptions, OP!RowsKept
  <2> QED
    BY <2>1, <2>2, <2>3 DEF Row
<1> QED
  BY <1>3, <1>4

\* A reader that makes no step keeps what it knows; so does one whose handler
\* ends with the process.
LEMMA OtherReaders ==
    ASSUME PInv, [Next]_vars, NEW r \in Readers,
           query'[r] = query[r], view'[r] = view[r], known'[r] = known[r],
           \/ rpc'[r] = rpc[r] /\ answer'[r] = answer[r]
           \/ rpc'[r] = "done" /\ answer'[r] = "lost"
    PROVE  ReadSound(r)'
<1>1. ReadSound(r) /\ Asked(query[r]) \subseteq Calls
  BY AskedAreCalls DEF PInv, ReadSound
<1>2. \A c \in Calls : /\ reply[c] # "none" => reply'[c] = reply[c]
                       /\ table[c].status # "absent" =>
                            table'[c].status # "absent" /\ table'[c].total = table[c].total
  BY OrdersStay DEF PInv
<1>3. \A c \in Asked(query[r]) : known[r][c] \in {"none", reply'[c]}
  BY <1>1, <1>2 DEF ReadSound
<1>4. rpc[r] = "items" => query[r].of \in Calls
  BY <1>1, AskedAreCalls DEF ReadSound, HasHeader
<1>5. rpc[r] = "items" => HasHeader(r, query[r].of)'
  BY <1>1, <1>2, <1>4 DEF ReadSound, HasHeader
<1>6. Asked(query'[r]) = Asked(query[r])
  OBVIOUS
<1>7. CASE rpc'[r] = rpc[r] /\ answer'[r] = answer[r]
  BY <1>1, <1>3, <1>5, <1>6, <1>7 DEF ReadSound
<1>8. CASE rpc'[r] = "done" /\ answer'[r] = "lost"
  BY <1>1, <1>3, <1>6, <1>8 DEF ReadSound, Reading
<1> QED
  BY <1>7, <1>8

\* The answers that are out are remembered when a reader asks.
LEMMA AskSound ==
    ASSUME PInv, NEW r \in Readers, Ask(r) \/ AskGarbled(r)
    PROVE  ReadSound(r)'
<1> USE DEF Respond
<1>f. SInv /\ Functions
  BY DEF PInv, SInv
<1>1. CASE Ask(r)
  <2>1. PICK q \in Queries[r] :
          /\ query' = [query EXCEPT ![r] = q]
          /\ known' = [known EXCEPT ![r] = [c \in Asked(q) |-> reply[c]]]
          /\ rpc'   = [rpc EXCEPT ![r] = IF q.kind = "ready" THEN "ping" ELSE "orders"]
    BY <1>1 DEF Ask
  <2>2. /\ query'[r] = q
        /\ known'[r] = [c \in Asked(q) |-> reply[c]]
        /\ rpc'[r] = IF q.kind = "ready" THEN "ping" ELSE "orders"
        /\ view'[r] = NoOrders
        /\ answer'[r] = "none"
        /\ reply' = reply
    BY <1>f, <1>1, <2>1 DEF Functions, Ask, orderVars
  <2>3. q.kind \in {"order", "list", "ready"}
    BY ReadersAssumption
  <2> QED
    BY <2>2, <2>3 DEF ReadSound
<1>2. CASE AskGarbled(r)
  <2>1. /\ query'[r] = NoQuery /\ known'[r] = NoOrders /\ view'[r] = NoOrders
        /\ rpc'[r] = "done" /\ answer'[r] = "400"
    BY <1>f, <1>2 DEF Functions, AskGarbled
  <2>2. Asked(NoQuery) = {}
    BY DEF Asked, NoQuery
  <2>3. NoOrders = [c \in {} |-> NoOrders[c]]
    BY DEF NoOrders
  <2> QED
    BY <2>1, <2>2, <2>3 DEF ReadSound, Reading
<1> QED
  BY <1>1, <1>2

\* A read that fails has no result.
LEMMA AbortSound ==
    ASSUME PInv, NEW r \in Readers, NEW status \in {"500", "503"}, Abort(r, status)
    PROVE  ReadSound(r)'
<1>1. Functions /\ ReadSound(r)
  BY DEF PInv, SInv
<1>2. /\ query' = query /\ known' = known /\ reply' = reply
      /\ rpc'[r] = "done" /\ answer'[r] = status /\ view'[r] = NoOrders
  BY <1>1 DEF Abort, Respond, Functions, orderVars
<1> QED
  BY <1>1, <1>2 DEF ReadSound, Reading

\* The query of the table orders reads rows that agree with the answers, now
\* and, since answers stay, for good.
LEMMA ScanOrdersSound ==
    ASSUME PInv, NEW r \in Readers, ScanOrders(r)
    PROVE  ReadSound(r)'
<1>1. Functions /\ ReadSound(r) /\ rpc[r] = "orders"
  BY DEF PInv, SInv, ScanOrders
<1>2. Asked(query[r]) \subseteq Calls /\ query[r].kind \in {"order", "list"}
      /\ (query[r].kind = "order" => Asked(query[r]) = {query[r].of})
  BY <1>1, AskedAreCalls DEF ReadSound
<1>3. /\ query' = query /\ known' = known /\ reply' = reply /\ table' = table
      /\ view'[r] = [c \in Asked(query[r]) |-> Header(c)]
  BY <1>1 DEF ScanOrders, Functions, orderVars
<1>4. \A c \in Calls : /\ Header(c) \in Row
                       /\ Header(c).status = table[c].status
                       /\ Header(c).total = table[c].total
  <2> SUFFICES ASSUME NEW c \in Calls
               PROVE  /\ Header(c) \in Row
                      /\ Header(c).status = table[c].status
                      /\ Header(c).total = table[c].total
    OBVIOUS
  <2>1. table[c] \in Row
    BY DEF PInv, OP!CompleteInv, OP!IInv, OP!TypeOK, Row
  <2>2. <<>> \in OP!Lines
    BY DEF OP!Lines
  <2> QED
    BY <2>1, <2>2 DEF Header, Row
<1>5. \A c \in Asked(query[r]) : Consistent(known[r][c], table[c].status)
  BY <1>1, <1>2, RowsFollowAnswers DEF ReadSound, PInv
<1>6. CASE query[r].kind = "list"
  <2>1. rpc'[r] = "done" /\ answer'[r] = "200"
    BY <1>1, <1>6 DEF ScanOrders, Respond, Functions
  <2> QED
    BY <1>1, <1>2, <1>3, <1>4, <1>5, <1>6, <2>1 DEF ReadSound, Reading
<1>7. CASE query[r].kind = "order" /\ table[query[r].of].status = "absent"
  <2>1. rpc'[r] = "done" /\ answer'[r] = "404"
    BY <1>1, <1>7 DEF ScanOrders, Respond, Functions
  <2> QED
    BY <1>1, <1>2, <1>3, <1>5, <1>7, <2>1 DEF ReadSound, Reading
<1>8. CASE query[r].kind = "order" /\ table[query[r].of].status # "absent"
  <2>1. rpc'[r] = "items" /\ answer' = answer
    BY <1>1, <1>8 DEF ScanOrders, Functions
  <2>2. HasHeader(r, query[r].of)'
    BY <1>2, <1>3, <1>4, <1>8 DEF HasHeader
  <2>3. answer'[r] = "none"
    BY <1>1, <2>1 DEF ReadSound, Reading
  <2> QED
    BY <1>1, <1>2, <1>3, <1>4, <1>5, <1>8, <2>1, <2>2, <2>3 DEF ReadSound
<1> QED
  BY <1>2, <1>6, <1>7, <1>8

\* The items are those of the total that was read before them: a stored order
\* never changes but in its status.
LEMMA ScanItemsSound ==
    ASSUME PInv, NEW r \in Readers, ScanItems(r)
    PROVE  ReadSound(r)'
<1> DEFINE c == query[r].of
           whole == [view[r][c] EXCEPT !.items = table[c].items]
<1>1. Functions /\ ReadSound(r) /\ rpc[r] = "items" /\ HasHeader(r, c)
  BY DEF PInv, SInv, ScanItems, ReadSound
<1>2. c \in Calls /\ Asked(query[r]) = {c}
  BY <1>1, AskedAreCalls DEF ReadSound, HasHeader
<1>3. view' = [view EXCEPT ![r][c].items = table[c].items]
  BY DEF ScanItems
<1>4. view'[r] = [view[r] EXCEPT ![c] = whole]
  BY <1>1, <1>3 DEF Functions
<1>5. whole.items = table[c].items /\ whole.total = table[c].total /\ whole.status = view[r][c].status
  <2>1. view[r][c] \in Row /\ view[r][c].total = table[c].total
    BY <1>1 DEF HasHeader
  <2> QED
    BY <2>1 DEF Row
<1>6. OP!Complete(whole, c)
  <2>1. OP!Complete(table[c], c)
    BY <1>1, <1>2 DEF PInv, OP!CompleteInv, OP!OrderSound, HasHeader
  <2> QED
    BY <1>5, <2>1 DEF OP!Complete, OP!Lists
<1> HIDE DEF whole
<1>7. view'[r] = [d \in {c} |-> whole]
  BY <1>1, <1>4 DEF HasHeader
<1>8. /\ query' = query /\ known' = known /\ reply' = reply
      /\ rpc'[r] = "done" /\ answer'[r] = "200"
  BY <1>1 DEF ScanItems, Respond, Functions, orderVars
<1>9. Consistent(known[r][c], whole.status)
  BY <1>1, <1>2, <1>5 DEF ReadSound
<1> HIDE DEF c
<1>10. query[r].of = c /\ view'[r][c] = whole
  BY <1>7 DEF c
<1> QED
  BY <1>1, <1>2, <1>6, <1>7, <1>8, <1>9, <1>10 DEF ReadSound, Reading

\* A probe reads no order.
LEMMA PingSound ==
    ASSUME PInv, NEW r \in Readers, Ping(r)
    PROVE  ReadSound(r)'
<1>1. Functions /\ ReadSound(r) /\ query[r].kind = "ready"
  BY DEF PInv, SInv, Ping, ReadSound
<1>2. Asked(query[r]) = {}
  BY <1>1, AskedAreCalls DEF ReadSound
<1>3. /\ query' = query /\ known' = known /\ reply' = reply /\ view' = view
      /\ rpc'[r] = "done" /\ answer'[r] = "200"
  BY <1>1 DEF Ping, Respond, Functions, orderVars
<1> QED
  BY <1>1, <1>2, <1>3 DEF ReadSound, Reading

\* Before the first process everything is as OrderService has it, and nobody
\* has asked for anything.
LEMMA InitPInv == Init => PInv
<1> SUFFICES ASSUME Init
             PROVE  PInv
  OBVIOUS
<1>1. ReadersTyped
  BY DEF Init, ReadersTyped
<1>2. PoolInv
  <2>1. InFlight = {}
    BY InitSInv DEF Init, SInv, QuietWhenClosed, Down
  <2> QED
    BY <2>1, FS_EmptySet DEF Init, PoolInv, Phases, Down
<1>3. ASSUME NEW r \in Readers
      PROVE  ReadSound(r)
  <2>1. query[r] = NoQuery /\ rpc[r] = "idle" /\ view[r] = NoOrders /\ known[r] = NoOrders
        /\ answer[r] = "none"
    BY DEF Init
  <2>2. Asked(NoQuery) = {}
    BY DEF Asked, NoQuery
  <2>3. NoOrders = [c \in {} |-> NoOrders[c]]
    BY DEF NoOrders
  <2> QED
    BY <2>1, <2>2, <2>3 DEF ReadSound, Reading
<1> QED
  BY <1>1, <1>2, <1>3, InitSInv, InitOrders DEF PInv

\* Every step of the process, of its pool, of its handlers and of its
\* environment keeps the invariant.
LEMMA StepPInv == PInv /\ [Next]_vars => PInv'
<1> SUFFICES ASSUME PInv, [Next]_vars
             PROVE  PInv'
  OBVIOUS
<1>1. SInv' /\ OP!CompleteInv' /\ ReadersTyped' /\ PoolInv'
  BY StepSInv, StepOrders, ReadersTypedStep, PoolStep DEF PInv
<1>2. ASSUME UNCHANGED readVars, NEW r \in Readers
      PROVE  ReadSound(r)'
  BY <1>2, OtherReaders DEF readVars
<1>3. ASSUME NEW how, Exit(how), NEW r \in Readers
      PROVE  ReadSound(r)'
  <2>1. /\ query' = query /\ view' = view /\ known' = known
        /\ \/ rpc'[r] = rpc[r] /\ answer'[r] = answer[r]
           \/ rpc'[r] = "done" /\ answer'[r] = "lost"
    BY <1>3 DEF Exit
  <2> QED
    BY <2>1, OtherReaders
<1>4. ASSUME NEW r \in Readers,
             Ask(r) \/ AskGarbled(r) \/ ReadStep(r) \/ ReaderLeaves(r) \/ PingTimesOut(r),
             NEW s \in Readers
      PROVE  ReadSound(s)'
  <2>1. CASE s # r
    <3>1. Functions /\ OneReader(r)
      BY <1>4, ReaderStep DEF PInv, SInv
    <3>2. /\ query'[s] = query[s] /\ view'[s] = view[s] /\ known'[s] = known[s]
          /\ rpc'[s] = rpc[s] /\ answer'[s] = answer[s]
      BY <2>1, <3>1 DEF Functions, OneReader
    <3> QED
      BY <3>2, OtherReaders
  <2>2. CASE s = r
    <3>1. ReadSound(r)'
      BY <1>4, AskSound, ScanOrdersSound, ScanItemsSound, PingSound, AbortSound
         DEF ReadStep, ReadFails, ReaderLeaves, PingTimesOut, Unavailable
    <3> QED
      BY <2>2, <3>1
  <2> QED
    BY <2>1, <2>2
<1>5. \A r \in Readers : ReadSound(r)'
  <2>1. CASE UNCHANGED vars
    BY <1>2, <2>1 DEF vars
  <2> QED
    BY <1>2, <1>3, <1>4, <2>1, CallStep, ProcessStep DEF Next, GoesOn
<1> QED
  BY <1>1, <1>5 DEF PInv

\* Every reachable state satisfies the invariant, whatever fails and however
\* the process ends.
LEMMA Invariant == Spec => []PInv
BY InitPInv, StepPInv, PTL DEF Spec

\* The process keeps its types: handlers, readers, what they read, and a pool
\* that never has more connections than it was set up with.
THEOREM TypeCorrect == Spec => []TypeOK
<1>1. PInv => TypeOK
  <2> SUFFICES ASSUME PInv
               PROVE  TypeOK
    OBVIOUS
  <2>1. Orders!TypeOK
    BY DEF PInv, OP!CompleteInv, OP!IInv, OP!TypeOK, Orders!TypeOK, OP!Working, Orders!Working,
           OP!Upstream, Orders!Upstream, OP!Lines, Orders!Lines, OP!Listing, Orders!Listing
  <2>2. ASSUME NEW r \in Readers
        PROVE  /\ query[r] \in Queries[r] \cup {NoQuery}
               /\ DOMAIN known[r] = Asked(query[r])
               /\ DOMAIN view[r] \in {{}, Asked(query[r])}
    <3>1. ReadSound(r)
      BY DEF PInv
    <3>2. DOMAIN known[r] = Asked(query[r])
      BY <3>1 DEF ReadSound
    <3>3. DOMAIN view[r] \in {{}, Asked(query[r])}
      BY <3>1 DEF ReadSound, NoOrders
    <3> QED
      BY <3>1, <3>2, <3>3 DEF ReadSound
  <2> QED
    BY <2>1, <2>2 DEF PInv, TypeOK, PoolInv, ReadersTyped, Phases
<1> QED
  BY <1>1, Invariant, PTL

\* A read never takes back an answer to POST /orders, across failures, exits
\* and restarts.
THEOREM ReadsAgree == Spec => []ReadsFollowAnswers
<1>1. PInv => ReadsFollowAnswers
  BY DEF PInv, ReadSound, ReadsFollowAnswers
<1> QED
  BY <1>1, Invariant, PTL

\* An order that is read has all its items and their sum, although two
\* statements read it while it may be being written.
THEOREM ReadsSound == Spec => []ReadsAreWhole
<1>1. PInv => ReadsAreWhole
  <2> SUFFICES ASSUME PInv, NEW r \in Readers, query[r].kind = "order", answer[r] = "200"
               PROVE  LET c == query[r].of IN
                        /\ Len(view[r][c].items) = Len(ItemsOf[c])
                        /\ view[r][c].total = Orders!Total(view[r][c].items)
    BY DEF ReadsAreWhole
  <2> DEFINE c == query[r].of
  <2>1. OP!Complete(view[r][c], c)
    BY DEF PInv, ReadSound
  <2>2. OP!Total(view[r][c].items) = view[r][c].total
    BY <2>1, Assumptions, OP!TotalIsSum DEF OP!Complete, OP!Lists
  <2>3. OP!Total(view[r][c].items) = Orders!Total(view[r][c].items)
    BY Zenon DEF OP!Total, Orders!Total
  <2> QED
    BY <2>1, <2>2, <2>3 DEF OP!Complete
<1> QED
  BY <1>1, Invariant, PTL
=============================================================================
