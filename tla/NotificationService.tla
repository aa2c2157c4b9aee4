------------------------ MODULE NotificationService ------------------------
(***************************************************************************)
(* POST /api/v1/notifications of notification-service: the route, the      *)
(* dispatch in NotificationService.send, both email providers and the      *)
(* notifications collection.                                               *)
(*                                                                         *)
(* Every POST creates a document of its own, so a document is named by its *)
(* request.  Nothing connects two requests but the process they run in.    *)
(***************************************************************************)
EXTENDS Naturals

CONSTANTS
    Requests,       \* POST /api/v1/notifications requests
    Incomplete,     \* requests that lack a required field
    Unknown,        \* requests whose channel or type is not in the schema
    Channel,        \* "EMAIL" or "SMS"
    Bounces,        \* requests whose recipient contains "+bounce"
    RetryAttempts,  \* EMAIL_PROVIDER_RETRY_ATTEMPTS
    Faults          \* faults the environment may inject

ASSUME NotificationAssumption ==
    /\ Incomplete \cup Unknown \cup Bounces \subseteq Requests
    /\ Channel \in [Requests -> {"EMAIL", "SMS"}]
    /\ RetryAttempts \in Nat
    /\ Faults \subseteq {"provider", "db", "crash"}

VARIABLES
    mode,       \* EMAIL_PROVIDER_MODE of the deployment, which never changes
    pc,         \* where the handler of a request stands
    doc,        \* the document the handler holds
    saved,      \* the document in the collection
    attempt,    \* attempt of HttpEmailProvider.send
    mailed,     \* how often the provider took the email of a request
    reply       \* the HTTP status of the answer

vars == <<mode, pc, doc, saved, attempt, mailed, reply>>

Working == {"create", "sms", "send", "record"}

Reasons == {"none", "sms_channel_not_implemented", "recipient_bounced",
            "provider_refused", "provider_unavailable"}

Document == [status : {"PENDING", "SENT", "FAILED"}, reason : Reasons, attempts : 0 .. 1]

New    == [status |-> "PENDING", reason |-> "none", attempts |-> 0]
Absent == [New EXCEPT !.status = "absent"]

TypeOK ==
    /\ mode    \in {"simulated", "live"}
    /\ pc      \in [Requests -> Working \cup {"unsent", "done"}]
    /\ doc     \in [Requests -> Document]
    /\ saved   \in [Requests -> Document \cup {Absent}]
    /\ attempt \in [Requests -> 0 .. RetryAttempts]
    /\ mailed  \in [Requests -> 0 .. RetryAttempts + 1]
    /\ reply   \in [Requests -> {"none", "lost", "201", "400", "500", "502"}]

Init ==
    /\ mode    \in {"simulated", "live"}
    /\ pc      = [r \in Requests |-> "unsent"]
    /\ doc     = [r \in Requests |-> New]
    /\ saved   = [r \in Requests |-> Absent]
    /\ attempt = [r \in Requests |-> 0]
    /\ mailed  = [r \in Requests |-> 0]
    /\ reply   = [r \in Requests |-> "none"]

-----------------------------------------------------------------------------
(***************************************************************************)
(* The route and NotificationService.send.                                 *)
(***************************************************************************)
At(r, label) == pc[r] = label

GoTo(r, label) == pc' = [pc EXCEPT ![r] = label] /\ UNCHANGED reply

Finish(r, status) ==
    /\ pc'    = [pc EXCEPT ![r] = "done"]
    /\ reply' = [reply EXCEPT ![r] = status]

Post(r) ==
    /\ At(r, "unsent")
    /\ IF r \in Incomplete THEN Finish(r, "400") ELSE GoTo(r, "create")
    /\ UNCHANGED <<mode, doc, saved, attempt, mailed>>

\* Mongoose validates before it writes: a value outside an enum is an error
\* like any other, and the error middleware says 500.
SchemaRejects(r) ==
    /\ At(r, "create")
    /\ r \in Unknown
    /\ Finish(r, "500")
    /\ UNCHANGED <<mode, doc, saved, attempt, mailed>>

\* Variant: the document is written when the outcome is known.
Create_NotSaved(r) ==
    /\ At(r, "create")
    /\ r \notin Unknown
    /\ doc' = [doc EXCEPT ![r].attempts = IF Channel[r] = "EMAIL" THEN 1 ELSE 0]
    /\ GoTo(r, IF Channel[r] = "SMS" THEN "sms" ELSE "send")
    /\ UNCHANGED <<mode, saved, attempt, mailed>>

\* The document is stored as PENDING before anything is sent.  The attempt is
\* counted in memory only, until the outcome is recorded.
Create(r) ==
    /\ At(r, "create")
    /\ r \notin Unknown
    /\ saved' = [saved EXCEPT ![r] = doc[r]]
    /\ doc'   = [doc EXCEPT ![r].attempts = IF Channel[r] = "EMAIL" THEN 1 ELSE 0]
    /\ GoTo(r, IF Channel[r] = "SMS" THEN "sms" ELSE "send")
    /\ UNCHANGED <<mode, attempt, mailed>>

\* Variant: a request that was handled is answered 201 in any case.
StatusCode_AlwaysCreated(d) == "201"

\* The status code follows the status of the document.
StatusCode(d) == IF d.status = "FAILED" THEN "502" ELSE "201"

\* The SMS channel is not implemented and says so.
SmsUnsupported(r) ==
    LET failed == [status |-> "FAILED", reason |-> "sms_channel_not_implemented", attempts |-> 1]
    IN  /\ At(r, "sms")
        /\ doc'   = [doc EXCEPT ![r] = failed]
        /\ saved' = [saved EXCEPT ![r] = failed]
        /\ Finish(r, StatusCode(failed))
        /\ UNCHANGED <<mode, attempt, mailed>>

\* The verdict of the provider, still to be recorded.
Sent(r) ==
    /\ doc' = [doc EXCEPT ![r].status = "SENT"]
    /\ GoTo(r, "record")

Failed(r, reason) ==
    /\ doc' = [doc EXCEPT ![r] = [status |-> "FAILED", reason |-> reason, attempts |-> @.attempts]]
    /\ GoTo(r, "record")

\* Variant: the outcome is answered and not stored.
Record_NotSaved(r) ==
    /\ At(r, "record")
    /\ Finish(r, StatusCode(doc[r]))
    /\ UNCHANGED <<mode, doc, saved, attempt, mailed>>

Record(r) ==
    /\ At(r, "record")
    /\ saved' = [saved EXCEPT ![r] = doc[r]]
    /\ Finish(r, StatusCode(doc[r]))
    /\ UNCHANGED <<mode, doc, attempt, mailed>>

-----------------------------------------------------------------------------
(***************************************************************************)
(* The email providers.                                                    *)
(***************************************************************************)
Mail(r) == mailed' = [mailed EXCEPT ![r] = @ + 1]

SimulatedSend(r) ==
    /\ At(r, "send")
    /\ mode = "simulated"
    /\ IF r \in Bounces
       THEN Failed(r, "recipient_bounced") /\ UNCHANGED mailed
       ELSE Sent(r) /\ Mail(r)
    /\ UNCHANGED <<mode, saved, attempt>>

Sending(r) == At(r, "send") /\ mode = "live"

\* A 2xx whose body can be read.
LiveDelivered(r) ==
    /\ Sending(r)
    /\ Mail(r)
    /\ Sent(r)
    /\ UNCHANGED <<mode, saved, attempt>>

\* Any other status below 500 is a verdict too: no retry.
LiveRefused(r) ==
    /\ Sending(r)
    /\ "provider" \in Faults
    /\ Failed(r, "provider_refused")
    /\ UNCHANGED <<mode, saved, attempt, mailed>>

\* Variant: out of attempts, the email is taken to have been sent.
LiveRetry_GivesUpAsSent(r) ==
    \/ /\ attempt[r] < RetryAttempts
       /\ attempt' = [attempt EXCEPT ![r] = @ + 1]
       /\ UNCHANGED <<pc, doc, reply>>
    \/ /\ attempt[r] = RetryAttempts
       /\ Sent(r)
       /\ UNCHANGED attempt

\* Variant: one attempt too many.
LiveRetry_OffByOne(r) ==
    \/ /\ attempt[r] <= RetryAttempts
       /\ attempt' = [attempt EXCEPT ![r] = @ + 1]
       /\ UNCHANGED <<pc, doc, reply>>
    \/ /\ attempt[r] > RetryAttempts
       /\ Failed(r, "provider_unavailable")
       /\ UNCHANGED attempt

\* After a backoff the loop sends again, until it is out of attempts.
LiveRetry(r) ==
    \/ /\ attempt[r] < RetryAttempts
       /\ attempt' = [attempt EXCEPT ![r] = @ + 1]
       /\ UNCHANGED <<pc, doc, reply>>
    \/ /\ attempt[r] = RetryAttempts
       /\ Failed(r, "provider_unavailable")
       /\ UNCHANGED attempt

\* A 5xx, a timeout, a network error, or a 2xx whose body does not parse.
\* The provider may have taken the email all the same.
LiveAttemptLost(r) ==
    /\ Sending(r)
    /\ "provider" \in Faults
    /\ Mail(r) \/ UNCHANGED mailed
    /\ LiveRetry(r)
    /\ UNCHANGED <<mode, saved>>

-----------------------------------------------------------------------------
(***************************************************************************)
(* Faults.                                                                 *)
(***************************************************************************)

\* A save fails and the error middleware answers; the write may have reached
\* the database all the same.
SaveFails(r) ==
    /\ "db" \in Faults
    /\ pc[r] \in {"create", "sms", "record"}
    /\ Finish(r, "500")
    /\ \/ UNCHANGED saved
       \/ At(r, "create") /\ r \notin Unknown /\ saved' = [saved EXCEPT ![r] = doc[r]]
       \/ At(r, "record") /\ saved' = [saved EXCEPT ![r] = doc[r]]
       \/ /\ At(r, "sms")
          /\ saved' = [saved EXCEPT ![r] =
                [status |-> "FAILED", reason |-> "sms_channel_not_implemented", attempts |-> 1]]
    /\ UNCHANGED <<mode, doc, attempt, mailed>>

\* The process dies.  Nothing looks at PENDING documents when it starts again.
Crash ==
    /\ "crash" \in Faults
    /\ \E r \in Requests : pc[r] \in Working
    /\ pc'    = [r \in Requests |-> IF pc[r] \in Working THEN "done" ELSE pc[r]]
    /\ reply' = [r \in Requests |-> IF pc[r] \in Working THEN "lost" ELSE reply[r]]
    /\ UNCHANGED <<mode, doc, saved, attempt, mailed>>

Handler(r) ==
    \/ SchemaRejects(r)
    \/ Create(r)
    \/ SmsUnsupported(r)
    \/ SimulatedSend(r)
    \/ LiveDelivered(r)
    \/ LiveRefused(r)
    \/ LiveAttemptLost(r)
    \/ Record(r)

Next ==
    \/ \E r \in Requests : Post(r) \/ Handler(r) \/ SaveFails(r)
    \/ Crash

\* The event loop runs every handler on; a fetch settles when its AbortSignal
\* or the body timeout of the runtime fires.
Fairness == \A r \in Requests : WF_vars(Handler(r))

Spec == Init /\ [][Next]_vars

FairSpec == Spec /\ Fairness

-----------------------------------------------------------------------------
(***************************************************************************)
(* Promises.                                                               *)
(***************************************************************************)

\* No email leaves without a document that knows of it, whatever fails next.
MailIsRecorded == \A r \in Requests : mailed[r] > 0 => saved[r] # Absent

\* What the collection says happened did: a SENT notification reached the
\* provider, a bounced or an unsupported one did not, and PENDING means that
\* no attempt has been recorded.  FAILED with provider_unavailable promises
\* nothing: an answer may have been lost.
StatusTellsTheTruth ==
    \A r \in Requests :
        /\ saved[r].status = "SENT" => mailed[r] > 0
        /\ saved[r].reason \in {"sms_channel_not_implemented", "recipient_bounced"} => mailed[r] = 0
        /\ saved[r].status \in {"SENT", "FAILED"} <=> saved[r].attempts = 1
        /\ saved[r].status = "FAILED" <=> saved[r].reason # "none"

\* The answer is the stored status: 201 for SENT, 502 for FAILED, and 400
\* leaves nothing behind.
AnswersAgreeWithCollection ==
    \A r \in Requests :
        /\ reply[r] = "201" => saved[r].status = "SENT"
        /\ reply[r] = "502" => saved[r].status = "FAILED"
        /\ reply[r] = "400" => saved[r] = Absent

\* notification-service/README.md: with the provider unreachable a
\* notification persists as FAILED rather than silently vanishing.  A PENDING
\* document is settled unless its handler died or lost the database.
PendingSettles ==
    \A r \in Requests : saved[r].status = "PENDING" ~>
        saved[r].status \in {"SENT", "FAILED"} \/ reply[r] \in {"500", "lost"}
=============================================================================
