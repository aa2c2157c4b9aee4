---------------------------- MODULE OrderServer ----------------------------
(***************************************************************************)
(* The order-service process around OrderService: cmd/server/main.go from  *)
(* its start to its graceful shutdown, the connection pool that all        *)
(* handlers share, and the handlers that only read, GET /orders/{id},      *)
(* GET /orders?userId and GET /ready.                                      *)
(*                                                                         *)
(* OrderService treats a statement as one step that is always possible.    *)
(* Here it needs a connection: Create holds one through its transaction,   *)
(* UpdateStatus and each query of a read hold one while they run, and a    *)
(* handler that finds the pool empty waits for as long as its caller does. *)
(***************************************************************************)
EXTENDS Integers, Sequences, FiniteSets

CONSTANTS
    Calls, Invalid, UserOf, UserStatus, ItemsOf, Products, Missing, Catalogs,
    Listings, MaxInt, RetryAttempts, Flaky, Faults,     \* as in OrderService
    Readers,    \* clients of the endpoints that read; they ask again and again
    Queries,    \* what a reader may ask for: records [kind, of], see Asked
    Settings,   \* what DB_MAX_OPEN_CONNS may hold when a process starts
    Unset,      \* the setting is absent or empty
    Malformed   \* the setting is a text that is not a number

VARIABLES
    pc, attempt, order, final, table, gone, reply, catalog,
    phase,      \* where main() stands, or how the last process ended
    maxConns,   \* MaxConns of the pool of this process
    conns,      \* connections in use: pairs of a handler and its statement
    query,      \* what a reader asked for last
    rpc,        \* where the handler of a reader stands
    view,       \* the orders a read returned, by call
    known,      \* the answers that were out when a reader asked, by call
    answer      \* the HTTP status written to a reader

orderVars  == <<pc, attempt, order, final, table, gone, reply, catalog>>
readVars   == <<query, rpc, view, known, answer>>
serverVars == <<phase, maxConns, conns>>
vars       == <<orderVars, readVars, serverVars>>

Orders == INSTANCE OrderService

ASSUME OrdersAssumption ==
    /\ Orders!CallsAssumption
    /\ Orders!CatalogAssumption
    /\ Orders!RetryAssumption

ASSUME ReadersAssumption ==
    /\ Readers \cap Calls = {}
    /\ \A r \in Readers : \A q \in Queries[r] :
          \/ q.kind \in {"list", "ready"}
          \/ q.kind = "order" /\ q.of \in Calls

ASSUME SettingsAssumption == Settings \subseteq Int \cup {Unset, Malformed}

Handlers == Calls \cup Readers

Down == {"off", "clean", "forced", "failed", "killed"}

Reading == {"orders", "items", "ping"}

\* The orders a read is about: the one of the path, or those of the user.
Asked(q) ==
    CASE q.kind = "order" -> {q.of}
      [] q.kind = "list"  -> {c \in Calls : UserOf[c] = q.of}
      [] OTHER            -> {}

\* An order as a query of the table orders returns it.
Header(c) == [table[c] EXCEPT !.items = <<>>]

NoOrders == [c \in {} |-> Orders!NoRow]

NoQuery == [kind |-> "none"]

TypeOK ==
    /\ Orders!TypeOK
    /\ phase \in Down \cup {"starting", "listening", "serving", "draining", "closing"}
    /\ maxConns \in Int
    /\ conns \subseteq Handlers \X (Reading \cup {"persist", "update"})
    /\ conns # {} => Cardinality(conns) <= maxConns
    /\ rpc    \in [Readers -> Reading \cup {"idle", "done"}]
    /\ answer \in [Readers -> {"none", "lost", "200", "400", "404", "500", "503"}]
    /\ \A r \in Readers :
          /\ query[r] \in Queries[r] \cup {NoQuery}
          /\ DOMAIN known[r] = Asked(query[r])
          /\ DOMAIN view[r] \in {{}, Asked(query[r])}

Init ==
    /\ Orders!Init
    /\ phase    = "off"
    /\ maxConns = 0
    /\ conns    = {}
    /\ query    = [r \in Readers |-> NoQuery]
    /\ rpc      = [r \in Readers |-> "idle"]
    /\ view     = [r \in Readers |-> NoOrders]
    /\ known    = [r \in Readers |-> NoOrders]
    /\ answer   = [r \in Readers |-> "none"]

-----------------------------------------------------------------------------
(***************************************************************************)
(* The pool.                                                               *)
(***************************************************************************)
Stage(h) == IF h \in Calls THEN pc[h] ELSE rpc[h]

AtStatement(h) == Stage(h) \in Reading \cup {"persist", "update"}

Holds(h) == <<h, Stage(h)>> \in conns

Free == Cardinality(conns) < maxConns

\* A handler gives back what it holds.
Release(h) == conns' = {held \in conns : held[1] # h}

\* Variant: the limit of the pool is one too high.
Acquire_OffByOne(h) ==
    /\ AtStatement(h)
    /\ ~Holds(h)
    /\ Cardinality(conns) <= maxConns
    /\ conns' = conns \cup {<<h, Stage(h)>>}
    /\ UNCHANGED <<orderVars, readVars, phase, maxConns>>

\* A statement takes a connection from the pool, which has MaxConns of them.
Acquire(h) ==
    /\ AtStatement(h)
    /\ ~Holds(h)
    /\ Free
    /\ conns' = conns \cup {<<h, Stage(h)>>}
    /\ UNCHANGED <<orderVars, readVars, phase, maxConns>>

-----------------------------------------------------------------------------
(***************************************************************************)
(* POST /orders over the pool.                                             *)
(***************************************************************************)
Accepting == phase \in {"listening", "serving"}

CallerStep(c) ==
    /\ (Accepting /\ Orders!Place(c)) \/ Orders!Disconnect(c)
    /\ UNCHANGED <<readVars, serverVars>>

\* The calls of other services hold no connection.
CallUpstream(c) ==
    /\ pc[c] \in Orders!Upstream
    /\ Orders!LocalStep(c) \/ Orders!LocalFailure(c) \/ Orders!AnyCharge(c)
    /\ UNCHANGED <<readVars, serverVars>>

\* The transaction of Create or the UPDATE of UpdateStatus ends, well or not.
Transact(c) ==
    /\ Holds(c)
    /\ Orders!LocalStep(c) \/ Orders!LocalFailure(c)
    /\ Release(c)
    /\ UNCHANGED <<readVars, phase, maxConns>>

\* Variant: the update that gets no connection ends the handler.
AcquireFails_NoAnswer(c) ==
    /\ AtStatement(c)
    /\ ~Holds(c)
    /\ c \in gone \/ Free
    /\ Orders!DatabaseMayFail(c)
    /\ Orders!Finish(c, "500")
    /\ UNCHANGED <<order, final, table, gone, catalog, readVars, serverVars>>

\* The statement gets no connection: its caller has left, or the pool has
\* room and cannot connect to the database.
AcquireFails(c) ==
    /\ AtStatement(c)
    /\ ~Holds(c)
    /\ c \in gone \/ Free
    /\ Orders!LocalFailure(c)
    /\ table' = table
    /\ UNCHANGED <<readVars, serverVars>>

-----------------------------------------------------------------------------
(***************************************************************************)
(* The handlers that read.                                                 *)
(***************************************************************************)
Respond(r, status) ==
    /\ rpc'    = [rpc EXCEPT ![r] = "done"]
    /\ answer' = [answer EXCEPT ![r] = status]

\* A request arrives, with what the service has answered to orders by now.
Ask(r) ==
    /\ Accepting
    /\ rpc[r] \in {"idle", "done"}
    /\ \E q \in Queries[r] :
          /\ query' = [query EXCEPT ![r] = q]
          /\ known' = [known EXCEPT ![r] = [c \in Asked(q) |-> reply[c]]]
          /\ rpc'   = [rpc EXCEPT ![r] = IF q.kind = "ready" THEN "ping" ELSE "orders"]
    /\ view'   = [view EXCEPT ![r] = NoOrders]
    /\ answer' = [answer EXCEPT ![r] = "none"]
    /\ UNCHANGED <<orderVars, serverVars>>

\* The id of the order or of the user is no UUID: 400, without a query.
AskGarbled(r) ==
    /\ Accepting
    /\ rpc[r] \in {"idle", "done"}
    /\ \E q \in Queries[r] : q.kind # "ready"
    /\ Respond(r, "400")
    /\ query' = [query EXCEPT ![r] = NoQuery]
    /\ known' = [known EXCEPT ![r] = NoOrders]
    /\ view'  = [view EXCEPT ![r] = NoOrders]
    /\ UNCHANGED <<orderVars, serverVars>>

\* Variant: the rows of the order stay open until the handler returns.
ScanOrders_KeepsRows(r) ==
    /\ rpc[r] = "orders"
    /\ Holds(r)
    /\ view' = [view EXCEPT ![r] = [c \in Asked(query[r]) |-> Header(c)]]
    /\ IF query[r].kind = "list"
       THEN Respond(r, "200") /\ Release(r)
       ELSE IF table[query[r].of].status = "absent"
            THEN Respond(r, "404") /\ Release(r)
            ELSE rpc' = [rpc EXCEPT ![r] = "items"] /\ UNCHANGED <<answer, conns>>
    /\ UNCHANGED <<orderVars, query, known, phase, maxConns>>

\* The query of the table orders; its connection is back in the pool before
\* GetByID asks for the one that fetches the items.  ListByUser fetches none.
ScanOrders(r) ==
    /\ rpc[r] = "orders"
    /\ Holds(r)
    /\ Release(r)
    /\ view' = [view EXCEPT ![r] = [c \in Asked(query[r]) |-> Header(c)]]
    /\ IF query[r].kind = "list"
       THEN Respond(r, "200")
       ELSE IF table[query[r].of].status = "absent"
            THEN Respond(r, "404")
            ELSE rpc' = [rpc EXCEPT ![r] = "items"] /\ UNCHANGED answer
    /\ UNCHANGED <<orderVars, query, known, phase, maxConns>>

\* getItems of GetByID.
ScanItems(r) ==
    /\ rpc[r] = "items"
    /\ Holds(r)
    /\ Release(r)
    /\ view' = [view EXCEPT ![r][query[r].of].items = table[query[r].of].items]
    /\ Respond(r, "200")
    /\ UNCHANGED <<orderVars, query, known, phase, maxConns>>

Ping(r) ==
    /\ rpc[r] = "ping"
    /\ Holds(r)
    /\ Release(r)
    /\ Respond(r, "200")
    /\ UNCHANGED <<orderVars, query, view, known, phase, maxConns>>

Unavailable(r) == IF rpc[r] = "ping" THEN "503" ELSE "500"

\* A read ends without a result, wherever it stands.
Abort(r, status) ==
    /\ rpc[r] \in Reading
    /\ Release(r)
    /\ view' = [view EXCEPT ![r] = NoOrders]
    /\ Respond(r, status)
    /\ UNCHANGED <<orderVars, query, known, phase, maxConns>>

\* Variant: a query that failed found nothing.
ReadFails_NotFound(r) ==
    /\ "db" \in Faults
    /\ Holds(r) \/ Free
    /\ Abort(r, IF rpc[r] = "ping" THEN "503" ELSE "404")

\* The database fails a query, or cannot be connected to.
ReadFails(r) ==
    /\ "db" \in Faults
    /\ Holds(r) \/ Free
    /\ Abort(r, Unavailable(r))

\* The caller leaves: its context ends the query, or the wait for the pool.
ReaderLeaves(r) ==
    /\ "disconnect" \in Faults
    /\ Abort(r, Unavailable(r))

\* Variant: the ping runs on the context of the request.
PingTimesOut_Never(r) == FALSE

\* The ping has 1.5 s, its wait for a connection included.
PingTimesOut(r) == rpc[r] = "ping" /\ Abort(r, "503")

ReadStep(r) == ScanOrders(r) \/ ScanItems(r) \/ Ping(r) \/ ReadFails(r)

-----------------------------------------------------------------------------
(***************************************************************************)
(* main().                                                                 *)
(***************************************************************************)
getEnvInt(setting, fallback) == IF setting \in Int THEN setting ELSE fallback

GoOn(label) ==
    /\ phase' = label
    /\ UNCHANGED <<orderVars, readVars, maxConns, conns>>

\* The process ends, with every handler and every connection in it.
Exit(how) ==
    /\ phase'    = how
    /\ maxConns' = 0
    /\ conns'    = {}
    /\ rpc'      = [r \in Readers |-> IF rpc[r] \in Reading THEN "done" ELSE rpc[r]]
    /\ answer'   = [r \in Readers |-> IF rpc[r] \in Reading THEN "lost" ELSE answer[r]]
    /\ Orders!Stop
    /\ UNCHANGED <<query, view, known>>

\* The orchestrator starts a process, which reads its environment.
Start ==
    /\ phase \in Down
    /\ phase' = "starting"
    /\ \E s \in Settings : maxConns' = getEnvInt(s, 10)
    /\ UNCHANGED <<orderVars, readVars, conns>>

\* The pool refuses its size, the database does not answer the first ping, or
\* the port is taken.
StartFails == phase = "starting" /\ Exit("failed")

\* A pool has at least one connection.  Requests are accepted from here on.
Listen == phase = "starting" /\ maxConns >= 1 /\ GoOn("listening")

\* signal.Notify, after the goroutine that listens was started.
Notify == phase = "listening" /\ GoOn("serving")

\* SIGTERM or SIGINT.  Before signal.Notify it ends the process.  A second one
\* waits in a channel that nobody reads any more.
Terminate ==
    \/ phase \in {"starting", "listening"} /\ Exit("killed")
    \/ phase = "serving" /\ GoOn("draining")

\* The handlers that have been accepted and have not ended.
InFlight ==
    {c \in Calls : pc[c] \in Orders!Working} \cup {r \in Readers : rpc[r] \in Reading}

\* Variant: the server is closed and not shut down.
Drained_AtOnce == phase = "draining" /\ GoOn("closing")

\* Shutdown returns when no request is in flight.
Drained == phase = "draining" /\ InFlight = {} /\ GoOn("closing")

\* Variant: the shutdown has no deadline.
ForceExit_Never == phase = "draining" /\ InFlight = {} /\ Exit("forced")

\* ShutdownTimeout passes first.
ForceExit == phase = "draining" /\ Exit("forced")

\* The deferred pool.Close waits for every connection, without a limit.
Close == phase = "closing" /\ conns = {} /\ Exit("clean")

Kill ==
    /\ "crash" \in Faults
    /\ phase \notin Down
    /\ Exit("killed")

Next ==
    \/ \E h \in Handlers : Acquire(h)
    \/ \E c \in Calls :
          \/ CallerStep(c)
          \/ CallUpstream(c)
          \/ Transact(c)
          \/ AcquireFails(c)
    \/ \E r \in Readers :
          \/ Ask(r)
          \/ AskGarbled(r)
          \/ ReadStep(r)
          \/ ReaderLeaves(r)
          \/ PingTimesOut(r)
    \/ Start
    \/ StartFails
    \/ Listen
    \/ Notify
    \/ Terminate
    \/ Drained
    \/ ForceExit
    \/ Close
    \/ Kill

Spec == Init /\ [][Next]_vars

\* What this program measures itself: the deadline of the ping and that of the
\* shutdown.  Nothing else here has one.
Timers ==
    /\ \A r \in Readers : WF_vars(PingTimesOut(r))
    /\ WF_vars(Drained \/ ForceExit)
    /\ WF_vars(Close)

FairSpec == Spec /\ Timers

\* What it relies on: a statement that has its connection is answered by the
\* database, an HTTP attempt ends by its timeout, and the pool serves those
\* who wait in their order.
HandlersRun ==
    /\ \A c \in Calls : WF_vars(CallUpstream(c) \/ Transact(c) \/ AcquireFails(c))
    /\ \A r \in Readers : WF_vars(ReadStep(r))
    /\ \A h \in Handlers : SF_vars(Acquire(h))

-----------------------------------------------------------------------------
(***************************************************************************)
(* Promises.                                                               *)
(***************************************************************************)

\* What OrderService says of POST /orders holds of this process: its statements
\* are one step each although they wait for a connection first, and an exit of
\* any kind is at worst a crash.
RefinesOrderService == Orders!Spec

\* An order that GET /orders/{id} returns has all its items and their sum,
\* although its row and its items are read by two statements, on two
\* connections and in no transaction, while the order may be being written.
ReadsAreWhole ==
    \A r \in Readers : query[r].kind = "order" /\ answer[r] = "200" =>
        LET c == query[r].of IN
          /\ Len(view[r][c].items) = Len(ItemsOf[c])
          /\ view[r][c].total = Orders!Total(view[r][c].items)

\* What a status or an absence in a read says, against the answer to the POST
\* that was out when the reader asked.
Consistent(code, status) ==
    CASE code = "201"                        -> status \in {"PENDING", "CONFIRMED"}
      [] code = "402"                        -> status \in {"PENDING", "FAILED"}
      [] code \in {"400", "404", "409", "502"} -> status = "absent"
      [] OTHER                               -> TRUE

\* A read never takes back what POST /orders has answered, across failures,
\* restarts and the connections it may use: an order answered 201 is found,
\* and is not FAILED; one that was refused is not found.
ReadsFollowAnswers ==
    \A r \in Readers :
        /\ answer[r] = "200" => \A c \in Asked(query[r]) : Consistent(known[r][c], view[r][c].status)
        /\ answer[r] = "404" => \A c \in Asked(query[r]) : Consistent(known[r][c], "absent")

\* main.go: a shutdown within the timeout is a clean handover instead of
\* dropped requests; no request that was accepted is without its answer.
CleanExitsDropNothing == [][phase' = "clean" => UNCHANGED <<reply, answer>>]_vars

\* A process that was told to stop stops, and a probe is answered, even when
\* the database and every caller hang for ever.
TimeoutsHold ==
    /\ phase = "draining" ~> phase \in Down
    /\ \A r \in Readers : rpc[r] = "ping" ~> rpc[r] = "done"

\* No handler waits for ever for a connection, however few there are: none
\* holds one while it waits for another one.
HandlersEnd ==
    HandlersRun =>
        /\ \A c \in Calls : pc[c] = "verify" ~> pc[c] = "done"
        /\ \A r \in Readers : rpc[r] = "orders" ~> rpc[r] = "done"
=============================================================================
