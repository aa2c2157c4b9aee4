------------------------------ MODULE Gateway ------------------------------
(***************************************************************************)
(* api-gateway: the rate limiter, the authenticate middleware, the service *)
(* clients of httpClient.js with their retries, and the error handler.     *)
(*                                                                         *)
(* A click is one HTTP request of a client.  Every attempt to forward it   *)
(* is a new request to the service behind, POST or not: the modules Signup *)
(* and Storefront put user-service and order-service there.                *)
(***************************************************************************)
EXTENDS Naturals

CONSTANTS
    Clicks,         \* requests of clients, all from one address
    Garbled,        \* clicks whose body is no JSON
    Guarded,        \* clicks on a route behind authenticate
    Signed,         \* clicks with a bearer token that verifies
    Secretless,     \* clicks with a bearer token, to a gateway without JWT_SECRET
    RateLimit,      \* RATE_LIMIT_MAX_REQUESTS
    RetryAttempts   \* HTTP_RETRY_ATTEMPTS

GatewayAssumption ==
    /\ Garbled \cup Guarded \cup Signed \cup Secretless \subseteq Clicks
    /\ Signed \cap Secretless = {}
    /\ RateLimit \in Nat
    /\ RetryAttempts \in Nat

VARIABLES
    at,         \* where the handler of a click stands
    sent,       \* attempts it has sent downstream
    hits,       \* requests the rate limiter has counted in this window
    answer      \* the HTTP status the client sees

vars == <<at, sent, hits, answer>>

Retryable == {"502", "503", "504"}

TypeOK ==
    /\ at     \in [Clicks -> {"unsent", "waiting", "done"}]
    /\ sent   \in [Clicks -> 0 .. RetryAttempts + 1]
    /\ hits   \in 0 .. RateLimit
    /\ answer \in [Clicks -> {"none", "429", "200", "201", "400", "401", "402", "404", "409", "500"}
                                \cup Retryable]

Init ==
    /\ at     = [c \in Clicks |-> "unsent"]
    /\ sent   = [c \in Clicks |-> 0]
    /\ hits   = 0
    /\ answer = [c \in Clicks |-> "none"]

-----------------------------------------------------------------------------
Waiting(c) == at[c] = "waiting"

Finish(c, code) ==
    /\ at'     = [at EXCEPT ![c] = "done"]
    /\ answer' = [answer EXCEPT ![c] = code]

Send(c) == sent' = [sent EXCEPT ![c] = @ + 1]

\* A count past the maximum makes no difference and is not kept.
Limited == hits = RateLimit

\* The answers of authenticate: a route that is public lets everyone through,
\* and without JWT_SECRET no bearer token is looked at.
Authenticated(c) == c \in Guarded => c \in Signed

Rejection(c) == IF c \in Secretless THEN "500" ELSE "401"

\* The body is parsed before the limiter counts, and the limiter counts before
\* the route asks for a token.
Arrive(c) ==
    /\ at[c] = "unsent"
    /\ hits' = IF c \in Garbled \/ Limited THEN hits ELSE hits + 1
    /\ \/ c \in Garbled /\ Finish(c, "400") /\ UNCHANGED sent
       \/ c \notin Garbled /\ Limited /\ Finish(c, "429") /\ UNCHANGED sent
       \/ c \notin Garbled /\ ~Limited /\ ~Authenticated(c) /\ Finish(c, Rejection(c)) /\ UNCHANGED sent
       \/ /\ c \notin Garbled /\ ~Limited /\ Authenticated(c)
          /\ Send(c)
          /\ at' = [at EXCEPT ![c] = "waiting"]
          /\ UNCHANGED answer

NewWindow ==
    /\ hits > 0
    /\ hits' = 0
    /\ UNCHANGED <<at, sent, answer>>

\* Variant: one attempt too many.
RetryOr_OffByOne(c, code) ==
    IF sent[c] <= RetryAttempts + 1
    THEN Send(c) /\ UNCHANGED <<at, answer>>
    ELSE Finish(c, code) /\ UNCHANGED sent

\* Variant: __retryCount does not survive the retry.
RetryOr_CountLost(c, code) == UNCHANGED <<at, sent, answer>>

\* The interceptor sends the request again until __retryCount is used up; the
\* last error is the one the client sees.
RetryOr(c, code) ==
    IF sent[c] <= RetryAttempts
    THEN Send(c) /\ UNCHANGED <<at, answer>>
    ELSE Finish(c, code) /\ UNCHANGED sent

\* The service answers: everything but 502, 503 and 504 is passed on as it is.
ServiceAnswers(c, code) ==
    /\ Waiting(c)
    /\ IF code \in Retryable
       THEN RetryOr(c, code)
       ELSE Finish(c, code) /\ UNCHANGED sent
    /\ UNCHANGED hits

\* HTTP_TIMEOUT_MS is over: axios drops the connection (ECONNABORTED).
AttemptTimesOut(c) ==
    /\ Waiting(c)
    /\ RetryOr(c, "504")
    /\ UNCHANGED hits

\* The connection is refused or lost, or the host name does not resolve.
AttemptUnreachable(c) ==
    /\ Waiting(c)
    /\ RetryOr(c, "502")
    /\ UNCHANGED hits
=============================================================================
