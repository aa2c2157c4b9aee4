------------------------------- MODULE Signup -------------------------------
(***************************************************************************)
(* Registration and login through api-gateway: Gateway over UserService.   *)
(*                                                                         *)
(* The n-th attempt of a click is the request <<click, n>> to              *)
(* user-service.  The gateway forgets an attempt it gives up on, and       *)
(* user-service may still receive and finish it: its effect stays and its  *)
(* answer is lost.                                                         *)
(***************************************************************************)
EXTENDS Naturals

CONSTANTS
    Clicks, RateLimit, RetryAttempts,       \* as in Gateway
    ClickOp, ClickEmail, ClickPassword,     \* what a click asks for
    ClickInvalid, ClickUnreadable, ClickTooLong,
    NoAccount, Suspensions, Faults          \* as in UserService

VARIABLES
    at, sent, hits, answer,
    pc, found, users, token, reply

gatewayVars == <<at, sent, hits, answer>>
userVars    == <<pc, found, users, token, reply>>
vars        == <<gatewayVars, userVars>>

Requests == Clicks \X (1 .. RetryAttempts + 1)

OfClicks(S) == {r \in Requests : r[1] \in S}

\* Registration and login are public routes.
Edge == INSTANCE Gateway WITH Garbled <- {}, Guarded <- {}, Signed <- {}, Secretless <- {}

Accounts == INSTANCE UserService WITH
    Op         <- [r \in Requests |-> ClickOp[r[1]]],
    Email      <- [r \in Requests |-> ClickEmail[r[1]]],
    Password   <- [r \in Requests |-> ClickPassword[r[1]]],
    Invalid    <- OfClicks(ClickInvalid),
    Unreadable <- OfClicks(ClickUnreadable),
    TooLong    <- OfClicks(ClickTooLong)

ASSUME SignupAssumption == Edge!GatewayAssumption /\ Accounts!UserAssumption

TypeOK == Edge!TypeOK /\ Accounts!TypeOK

Init == Edge!Init /\ Accounts!Init

\* The attempt the gateway waits for.
Current(c) == <<c, sent[c]>>

ClickStep(c) ==
    /\ Edge!Arrive(c)
    /\ UNCHANGED userVars

WindowStep == Edge!NewWindow /\ UNCHANGED userVars

\* A request that was sent arrives, even when the gateway has given it up.
Deliver(r) ==
    /\ r[2] <= sent[r[1]]
    /\ Accounts!Receive(r)
    /\ UNCHANGED gatewayVars

AnswerArrives(c) ==
    /\ Edge!Waiting(c)
    /\ reply[Current(c)] \notin {"none", "lost"}
    /\ Edge!ServiceAnswers(c, reply[Current(c)])
    /\ UNCHANGED userVars

\* No answer within HTTP_TIMEOUT_MS, whatever user-service is doing.
TimesOut(c) == Edge!AttemptTimesOut(c) /\ UNCHANGED userVars

\* user-service was not there, or died with the request.
Unreachable(c) ==
    /\ Edge!Waiting(c)
    /\ pc[Current(c)] = "unsent" \/ reply[Current(c)] = "lost"
    /\ Edge!AttemptUnreachable(c)
    /\ UNCHANGED userVars

AccountStep(r) ==
    /\ Accounts!Handler(r) \/ Accounts!DbFailure(r) \/ Accounts!Suspend(r)
    /\ UNCHANGED gatewayVars

UserCrash == Accounts!Crash /\ UNCHANGED gatewayVars

Next ==
    \/ \E c \in Clicks :
          \/ ClickStep(c)
          \/ AnswerArrives(c)
          \/ TimesOut(c)
          \/ Unreachable(c)
    \/ \E r \in Requests : Deliver(r) \/ AccountStep(r)
    \/ WindowStep
    \/ UserCrash

\* Only the timer of the gateway is relied on, and nothing of user-service.
Fairness ==
    \A c \in Clicks : WF_vars(AnswerArrives(c) \/ TimesOut(c) \/ Unreachable(c))

Spec == Init /\ [][Next]_vars

FairSpec == Spec /\ Fairness

-----------------------------------------------------------------------------
(***************************************************************************)
(* Promises.                                                               *)
(***************************************************************************)

\* One email is one account, although two registrations may both pass
\* existsByEmail and the gateway posts a registration again.
OneAccountPerEmail ==
    \A a, b \in Requests :
        /\ users[a] # "absent" /\ users[b] # "absent"
        /\ ClickEmail[a[1]] = ClickEmail[b[1]]
        => a = b

\* A token that reaches a client is for an account in the table, with the
\* email and the password of its click, although register makes the token
\* before the account is committed.
TokensNameStoredAccounts ==
    \A c \in Clicks : answer[c] \in {"200", "201"} =>
        LET a == token[Current(c)] IN
            /\ a \in Requests
            /\ users[a] # "absent"
            /\ ClickEmail[a[1]] = ClickEmail[c]
            /\ ClickPassword[a[1]] = ClickPassword[c]
            /\ answer[c] = "201" => a = Current(c)

\* A client that is told email_already_exists is told the truth; the account
\* may be its own, from an attempt whose answer the gateway did not see.
ConflictsAreReal ==
    \A c \in Clicks : answer[c] = "409" =>
        \E a \in Requests :
            /\ a # Current(c)
            /\ users[a] # "absent"
            /\ ClickEmail[a[1]] = ClickEmail[c]

\* Every click gets an answer, whatever user-service does.
EveryClickIsAnswered == \A c \in Clicks : at[c] = "waiting" ~> at[c] = "done"
=============================================================================
