---------------------- MODULE NotificationServiceProofs ----------------------
(***************************************************************************)
(* Proofs about NotificationService, for every set of requests, both       *)
(* channels and provider modes, every retry count and every set of faults. *)
(***************************************************************************)
EXTENDS NotificationService, TLAPS

\* The document while an email is at the provider: counted, undecided.
Counted == [New EXCEPT !.attempts = 1]

\* A verdict that may be stored: what it says of the provider is so.
Verdict(d, emails) ==
    /\ d \in Document
    /\ d.attempts = 1
    /\ d.status \in {"SENT", "FAILED"}
    /\ d.status = "FAILED" <=> d.reason # "none"
    /\ d.status = "SENT" => emails > 0
    /\ d.reason \in {"sms_channel_not_implemented", "recipient_bounced"} => emails = 0

\* What is known of a notification from where its handler stands: no email
\* leaves before the document is stored, every attempt sends at most one, the
\* stored document is a new one until the verdict is recorded, and nobody has
\* an answer yet.
StageSound(r) ==
    /\ pc[r] \in {"unsent", "create"} => saved[r] = Absent /\ doc[r] = New /\ mailed[r] = 0
    /\ pc[r] = "sms" => saved[r] = New /\ mailed[r] = 0
    /\ pc[r] = "send" => saved[r] = New /\ doc[r] = Counted /\ mailed[r] <= attempt[r]
    /\ pc[r] = "send" /\ mode = "simulated" => mailed[r] = 0
    /\ pc[r] = "record" => saved[r] = New /\ Verdict(doc[r], mailed[r])
    /\ pc[r] # "done" => reply[r] = "none"

\* What stays when the handler is gone.
RecordSound(r) ==
    /\ saved[r] = Absent => mailed[r] = 0
    /\ saved[r] \in {Absent, New} \/ Verdict(saved[r], mailed[r])
    /\ reply[r] = "201" => saved[r].status = "SENT"
    /\ reply[r] = "502" => saved[r].status = "FAILED"
    /\ reply[r] = "400" => saved[r] = Absent

RequestSound(r) == StageSound(r) /\ RecordSound(r)

NInv == TypeOK /\ \A r \in Requests : RequestSound(r)

\* The step of a request leaves all others alone.
OnlyAt(r) ==
    /\ mode' = mode
    /\ \A q \in Requests \ {r} :
        /\ pc'[q] = pc[q]
        /\ doc'[q] = doc[q]
        /\ saved'[q] = saved[q]
        /\ attempt'[q] = attempt[q]
        /\ mailed'[q] = mailed[q]
        /\ reply'[q] = reply[q]

LEMMA OthersKeep ==
    ASSUME NInv, NEW r \in Requests, OnlyAt(r), RequestSound(r)'
    PROVE  \A q \in Requests : RequestSound(q)'
<1> SUFFICES ASSUME NEW q \in Requests \ {r}
             PROVE  RequestSound(q)'
  OBVIOUS
<1>1. RequestSound(q)
  BY DEF NInv
<1> QED
  BY <1>1 DEF OnlyAt, RequestSound, StageSound, RecordSound

\* The documents the handlers write.
LEMMA Documents ==
    /\ New \in Document /\ Counted \in Document /\ New # Absent
    /\ New = [status |-> "PENDING", reason |-> "none", attempts |-> 0]
    /\ Counted = [status |-> "PENDING", reason |-> "none", attempts |-> 1]
    /\ Absent = [status |-> "absent", reason |-> "none", attempts |-> 0]
BY DEF New, Counted, Absent, Document, Reasons

LEMMA PostKeeps ==
    ASSUME NInv, NEW r \in Requests, Post(r) \/ SchemaRejects(r)
    PROVE  NInv'
<1> USE DEF Post, SchemaRejects, Finish, GoTo, At, Working
<1>1. TypeOK'
  BY DEF NInv, TypeOK
<1>2. OnlyAt(r)
  BY DEF OnlyAt, NInv, TypeOK
<1>3. RequestSound(r)'
  BY Documents DEF NInv, TypeOK, RequestSound, StageSound, RecordSound
<1> QED
  BY <1>1, <1>2, <1>3, OthersKeep DEF NInv

LEMMA CreateKeeps ==
    ASSUME NInv, NEW r \in Requests, Create(r)
    PROVE  NInv'
<1>1. At(r, "create") /\ doc[r] = New /\ mailed[r] = 0 /\ reply[r] = "none"
  BY DEF Create, At, NInv, RequestSound, StageSound
<1>2. saved' = [saved EXCEPT ![r] = New]
  BY <1>1 DEF Create
<1>3. doc' = [doc EXCEPT ![r] = IF Channel[r] = "EMAIL" THEN Counted ELSE New]
  <2> DEFINE n == IF Channel[r] = "EMAIL" THEN 1 ELSE 0
  <2>1. doc' = [doc EXCEPT ![r] = [doc[r] EXCEPT !.attempts = n]]
    BY DEF Create
  <2>2. n \in {0, 1} /\ (n = 1 <=> Channel[r] = "EMAIL")
    OBVIOUS
  <2> HIDE DEF n
  <2>3. [New EXCEPT !.attempts = n] = IF Channel[r] = "EMAIL" THEN Counted ELSE New
    BY <2>2, Documents
  <2> QED
    BY <1>1, <2>1, <2>3
<1>4. TypeOK'
  BY <1>1, <1>2, <1>3, Documents DEF NInv, TypeOK, Create, GoTo, At, Working
<1>5. OnlyAt(r)
  BY <1>2, <1>3 DEF OnlyAt, NInv, TypeOK, Create, GoTo
<1>6. RequestSound(r)'
  <2>1. Channel[r] \in {"EMAIL", "SMS"}
    BY NotificationAssumption
  <2>2. /\ pc'[r] = (IF Channel[r] = "SMS" THEN "sms" ELSE "send")
        /\ saved'[r] = New
        /\ doc'[r] = (IF Channel[r] = "EMAIL" THEN Counted ELSE New)
        /\ mailed'[r] = 0 /\ reply'[r] = "none" /\ attempt'[r] \in Nat
    BY <1>1, <1>2, <1>3, NotificationAssumption DEF Create, GoTo, NInv, TypeOK
  <2> QED
    BY <2>1, <2>2, Documents DEF RequestSound, StageSound, RecordSound
<1> QED
  BY <1>4, <1>5, <1>6, OthersKeep DEF NInv

\* A verdict keeps what is known of its request, and stays typed.
LEMMA VerdictKeeps ==
    ASSUME NInv, NEW r \in Requests, At(r, "send"),
           NEW d, NEW emails \in {mailed[r], mailed[r] + 1}, Verdict(d, emails),
           doc' = [doc EXCEPT ![r] = d],
           mailed' = [mailed EXCEPT ![r] = emails],
           GoTo(r, "record"),
           UNCHANGED <<mode, saved, attempt>>
    PROVE  NInv'
<1>1. mailed[r] \in Nat /\ mailed[r] <= attempt[r] /\ saved[r] = New /\ reply[r] = "none"
  BY NotificationAssumption DEF NInv, TypeOK, At, RequestSound, StageSound
<1>2. attempt[r] \in 0 .. RetryAttempts /\ emails \in 0 .. RetryAttempts + 1
  BY <1>1, NotificationAssumption DEF NInv, TypeOK
<1>3. TypeOK'
  BY <1>2 DEF NInv, TypeOK, GoTo, Verdict, Working
<1>4. OnlyAt(r)
  BY DEF OnlyAt, NInv, TypeOK, GoTo
<1>5. /\ pc'[r] = "record" /\ doc'[r] = d /\ mailed'[r] = emails
      /\ saved'[r] = New /\ reply'[r] = "none"
  BY <1>1 DEF NInv, TypeOK, GoTo
<1>6. RequestSound(r)'
  BY <1>5, Documents DEF RequestSound, StageSound, RecordSound
<1> QED
  BY <1>3, <1>4, <1>6, OthersKeep DEF NInv

\* An attempt that is not the last leaves the handler where it is.
LEMMA LostAttemptKeeps ==
    ASSUME NInv, NEW r \in Requests, Sending(r), attempt[r] < RetryAttempts,
           attempt' = [attempt EXCEPT ![r] = @ + 1],
           Mail(r) \/ UNCHANGED mailed,
           UNCHANGED <<mode, pc, doc, saved, reply>>
    PROVE  NInv'
<1>1. /\ attempt[r] \in 0 .. RetryAttempts /\ attempt[r] + 1 \in 0 .. RetryAttempts
      /\ mailed[r] \in 0 .. RetryAttempts + 1 /\ mailed[r] <= attempt[r]
      /\ mode = "live" /\ pc[r] = "send" /\ saved[r] = New /\ doc[r] = Counted /\ reply[r] = "none"
  BY NotificationAssumption DEF NInv, TypeOK, Sending, At, RequestSound, StageSound
<1>2. mailed[r] + 1 \in 0 .. RetryAttempts + 1
  BY <1>1, NotificationAssumption
<1>3. mailed' \in [Requests -> 0 .. RetryAttempts + 1] /\ mailed'[r] \in {mailed[r], mailed[r] + 1}
  BY <1>1, <1>2 DEF NInv, TypeOK, Mail
<1>4. TypeOK'
  BY <1>1, <1>3 DEF NInv, TypeOK
<1>5. OnlyAt(r)
  BY DEF OnlyAt, NInv, TypeOK, Mail
<1>6. RequestSound(r)'
  <2>1. attempt'[r] = attempt[r] + 1 /\ mailed'[r] <= attempt'[r]
    BY <1>1, <1>3, NotificationAssumption DEF NInv, TypeOK
  <2> QED
    BY <1>1, <2>1, Documents DEF RequestSound, StageSound, RecordSound
<1> QED
  BY <1>4, <1>5, <1>6, OthersKeep DEF NInv

LEMMA SendKeeps ==
    ASSUME NInv, NEW r \in Requests,
           SimulatedSend(r) \/ LiveDelivered(r) \/ LiveRefused(r) \/ LiveAttemptLost(r)
    PROVE  NInv'
<1> DEFINE sent == [status |-> "SENT", reason |-> "none", attempts |-> 1]
           failed(why) == [status |-> "FAILED", reason |-> why, attempts |-> 1]
<1>1. /\ At(r, "send") /\ doc[r] = Counted /\ mailed[r] \in Nat
      /\ mode = "simulated" => mailed[r] = 0
  BY NotificationAssumption DEF SimulatedSend, LiveDelivered, LiveRefused, LiveAttemptLost, Sending,
     At, NInv, TypeOK, RequestSound, StageSound
<1>2. Sent(r) => doc' = [doc EXCEPT ![r] = sent] /\ GoTo(r, "record")
  <2>1. [Counted EXCEPT !.status = "SENT"] = sent
    BY Documents
  <2> QED
    BY <1>1, <2>1 DEF Sent, NInv, TypeOK
<1>3. ASSUME NEW why \in Reasons, Failed(r, why)
      PROVE  doc' = [doc EXCEPT ![r] = failed(why)] /\ GoTo(r, "record")
  BY <1>1, <1>3, Documents DEF Failed
<1>4. Verdict(sent, mailed[r] + 1)
  BY <1>1 DEF Verdict, Document, Reasons
<1>5. \A why \in Reasons, emails \in Nat :
        /\ why # "none"
        /\ why \in {"sms_channel_not_implemented", "recipient_bounced"} => emails = 0
        => Verdict(failed(why), emails)
  BY DEF Verdict, Document
<1>6. {"recipient_bounced", "provider_refused", "provider_unavailable"} \subseteq Reasons
  BY DEF Reasons
<1> HIDE DEF sent, failed
<1>7. ASSUME Sent(r), Mail(r), UNCHANGED <<mode, saved, attempt>>
      PROVE  NInv'
  BY <1>1, <1>2, <1>4, <1>7, VerdictKeeps DEF Mail
<1>8. ASSUME NEW why \in Reasons, why # "none", Failed(r, why),
             why \in {"sms_channel_not_implemented", "recipient_bounced"} =>
                mode = "simulated" /\ UNCHANGED mailed,
             Mail(r) \/ UNCHANGED mailed,
             UNCHANGED <<mode, saved, attempt>>
      PROVE  NInv'
  <2>1. PICK emails \in {mailed[r], mailed[r] + 1} :
            /\ mailed' = [mailed EXCEPT ![r] = emails]
            /\ why \in {"sms_channel_not_implemented", "recipient_bounced"} => emails = 0
    <3>1. CASE UNCHANGED mailed
      <4> mailed' = [mailed EXCEPT ![r] = mailed[r]]
        BY <3>1 DEF NInv, TypeOK
      <4> QED
        BY <1>1, <1>8
    <3>2. CASE Mail(r) /\ mailed' # mailed
      BY <1>8, <3>2 DEF Mail
    <3> QED
      BY <1>8, <3>1, <3>2
  <2>2. Verdict(failed(why), emails)
    BY <1>1, <1>5, <1>8, <2>1
  <2>3. doc' = [doc EXCEPT ![r] = failed(why)] /\ GoTo(r, "record")
    BY <1>3, <1>8
  <2> QED
    BY <1>1, <1>8, <2>1, <2>2, <2>3, VerdictKeeps
<1>9. CASE SimulatedSend(r)
  BY <1>6, <1>7, <1>8, <1>9 DEF SimulatedSend
<1>10. CASE LiveDelivered(r)
  BY <1>7, <1>10 DEF LiveDelivered
<1>11. CASE LiveRefused(r)
  BY <1>6, <1>8, <1>11 DEF LiveRefused
<1>12. CASE LiveAttemptLost(r)
  <2>1. CASE attempt[r] = RetryAttempts /\ Failed(r, "provider_unavailable") /\ UNCHANGED attempt
    BY <1>6, <1>8, <1>12, <2>1 DEF LiveAttemptLost
  <2>2. CASE /\ attempt[r] < RetryAttempts
             /\ attempt' = [attempt EXCEPT ![r] = @ + 1]
             /\ UNCHANGED <<pc, doc, reply>>
    BY <1>12, <2>2, LostAttemptKeeps DEF LiveAttemptLost
  <2> QED
    BY <1>12, <2>1, <2>2 DEF LiveAttemptLost, LiveRetry
<1> QED
  BY <1>9, <1>10, <1>11, <1>12

\* What an SMS becomes.
NoSms == [status |-> "FAILED", reason |-> "sms_channel_not_implemented", attempts |-> 1]

LEMMA SmsKeeps ==
    ASSUME NInv, NEW r \in Requests, SmsUnsupported(r)
    PROVE  NInv'
<1>1. /\ At(r, "sms") /\ mailed[r] = 0
      /\ doc' = [doc EXCEPT ![r] = NoSms] /\ saved' = [saved EXCEPT ![r] = NoSms]
      /\ Finish(r, "502") /\ UNCHANGED <<mode, attempt, mailed>>
  BY DEF SmsUnsupported, StatusCode, NoSms, At, NInv, RequestSound, StageSound
<1>2. NoSms \in Document /\ Verdict(NoSms, 0) /\ NoSms.status = "FAILED" /\ NoSms \notin {Absent, New}
  BY Documents DEF NoSms, Verdict, Document, Reasons
<1>3. TypeOK'
  BY <1>1, <1>2 DEF NInv, TypeOK, Finish, Working
<1>4. OnlyAt(r)
  BY <1>1 DEF OnlyAt, NInv, TypeOK, Finish
<1>5. RequestSound(r)'
  BY <1>1, <1>2 DEF NInv, TypeOK, RequestSound, StageSound, RecordSound, Finish
<1> QED
  BY <1>3, <1>4, <1>5, OthersKeep DEF NInv

LEMMA RecordKeeps ==
    ASSUME NInv, NEW r \in Requests, Record(r)
    PROVE  NInv'
<1>1. At(r, "record") /\ Verdict(doc[r], mailed[r])
  BY DEF Record, At, NInv, RequestSound, StageSound
<1>2. StatusCode(doc[r]) = IF doc[r].status = "FAILED" THEN "502" ELSE "201"
  BY DEF StatusCode
<1>3. TypeOK'
  BY <1>1, <1>2 DEF NInv, TypeOK, Record, Finish, Verdict, Working
<1>4. OnlyAt(r)
  BY DEF OnlyAt, NInv, TypeOK, Record, Finish
<1>5. /\ pc'[r] = "done" /\ saved'[r] = doc[r] /\ mailed'[r] = mailed[r]
      /\ reply'[r] = IF doc[r].status = "FAILED" THEN "502" ELSE "201"
  BY <1>2 DEF NInv, TypeOK, Record, Finish
<1>6. doc[r] # Absent /\ doc[r].status \in {"SENT", "FAILED"}
  BY <1>1, Documents DEF Verdict, Document
<1>7. RequestSound(r)'
  BY <1>1, <1>5, <1>6 DEF RequestSound, StageSound, RecordSound
<1> QED
  BY <1>3, <1>4, <1>7, OthersKeep DEF NInv

\* A save that fails stores what it would have stored, or nothing.
LEMMA SaveFailsKeeps ==
    ASSUME NInv, NEW r \in Requests, SaveFails(r)
    PROVE  NInv'
<1>1. /\ pc[r] \in {"create", "sms", "record"} /\ mailed[r] \in Nat
      /\ Finish(r, "500") /\ UNCHANGED <<mode, doc, attempt, mailed>>
  BY NotificationAssumption DEF SaveFails, NInv, TypeOK
<1>2. PICK d \in Document \cup {Absent} :
        /\ saved' = [saved EXCEPT ![r] = d]
        /\ d = Absent => mailed[r] = 0
        /\ d \in {Absent, New} \/ Verdict(d, mailed[r])
  <2>1. CASE UNCHANGED saved
    <3>1. saved' = [saved EXCEPT ![r] = saved[r]]
      BY <2>1 DEF NInv, TypeOK
    <3> QED
      BY <3>1 DEF NInv, TypeOK, RequestSound, RecordSound
  <2>2. CASE At(r, "create") /\ saved' = [saved EXCEPT ![r] = doc[r]]
    BY <2>2, Documents DEF At, NInv, RequestSound, StageSound
  <2>3. CASE At(r, "record") /\ saved' = [saved EXCEPT ![r] = doc[r]]
    <3>1. Verdict(doc[r], mailed[r])
      BY <2>3 DEF At, NInv, RequestSound, StageSound
    <3>2. doc[r] \in Document /\ doc[r] # Absent
      BY <3>1, Documents DEF Verdict, Document
    <3> QED
      BY <2>3, <3>1, <3>2
  <2>4. CASE At(r, "sms") /\ saved' = [saved EXCEPT ![r] = NoSms]
    <3>1. NoSms \in Document /\ Verdict(NoSms, 0) /\ NoSms # Absent
      BY Documents DEF NoSms, Verdict, Document, Reasons
    <3>2. mailed[r] = 0
      BY <2>4 DEF At, NInv, RequestSound, StageSound
    <3> QED
      BY <2>4, <3>1, <3>2
  <2> QED
    BY <2>1, <2>2, <2>3, <2>4 DEF SaveFails, NoSms
<1>3. TypeOK'
  BY <1>1, <1>2 DEF NInv, TypeOK, Finish, Working
<1>4. OnlyAt(r)
  BY <1>1, <1>2 DEF OnlyAt, NInv, TypeOK, Finish
<1>5. pc'[r] = "done" /\ reply'[r] = "500" /\ mailed'[r] = mailed[r] /\ saved'[r] = d
  BY <1>1, <1>2 DEF NInv, TypeOK, Finish
<1>6. RequestSound(r)'
  BY <1>2, <1>5 DEF RequestSound, StageSound, RecordSound
<1> QED
  BY <1>3, <1>4, <1>6, OthersKeep DEF NInv

LEMMA CrashKeeps == NInv /\ Crash => NInv'
<1> SUFFICES ASSUME NInv, Crash
             PROVE  NInv'
  OBVIOUS
<1>1. TypeOK'
  BY DEF NInv, TypeOK, Crash, Working
<1>2. ASSUME NEW r \in Requests
      PROVE  RequestSound(r)'
  <2>1. RequestSound(r) /\ UNCHANGED <<mode, doc[r], saved[r], attempt[r], mailed[r]>>
    BY DEF NInv, Crash
  <2>2. \/ pc'[r] = "done" /\ reply'[r] = "lost"
        \/ pc'[r] = pc[r] /\ reply'[r] = reply[r]
    BY DEF Crash
  <2> QED
    BY <2>1, <2>2 DEF RequestSound, StageSound, RecordSound
<1> QED
  BY <1>1, <1>2 DEF NInv

-----------------------------------------------------------------------------
(***************************************************************************)
(* The theorems.                                                           *)
(***************************************************************************)
LEMMA NInvInit == Init => NInv
<1> SUFFICES ASSUME Init
             PROVE  NInv
  OBVIOUS
<1>1. TypeOK
  BY Documents, NotificationAssumption DEF Init, TypeOK, Working
<1>2. ASSUME NEW r \in Requests
      PROVE  RequestSound(r)
  BY Documents DEF Init, RequestSound, StageSound, RecordSound
<1> QED
  BY <1>1, <1>2 DEF NInv

LEMMA NInvNext == NInv /\ [Next]_vars => NInv'
<1> SUFFICES ASSUME NInv, [Next]_vars
             PROVE  NInv'
  OBVIOUS
<1>1. ASSUME NEW r \in Requests, Post(r) \/ Handler(r) \/ SaveFails(r)
      PROVE  NInv'
  BY <1>1, PostKeeps, CreateKeeps, SmsKeeps, SendKeeps, RecordKeeps, SaveFailsKeeps DEF Handler
<1>2. CASE UNCHANGED vars
  BY <1>2 DEF vars, NInv, TypeOK, RequestSound, StageSound, RecordSound
<1> QED
  BY <1>1, <1>2, CrashKeeps DEF Next

LEMMA Inductive == Spec => []NInv
<1> QED
  BY NInvInit, NInvNext, PTL DEF Spec

\* Every variable stays in its type: in particular no notification is sent
\* more often than EMAIL_PROVIDER_RETRY_ATTEMPTS allows.
THEOREM TypeCorrect == Spec => []TypeOK
<1>1. NInv => TypeOK
  BY DEF NInv
<1> QED
  BY Inductive, <1>1, PTL

\* NotificationService.send stores the document before the provider is asked,
\* so no email leaves without one, whatever fails afterwards.
THEOREM EmailsAreRecorded == Spec => []MailIsRecorded
<1>1. NInv => MailIsRecorded
  BY DEF NInv, RequestSound, RecordSound, MailIsRecorded
<1> QED
  BY Inductive, <1>1, PTL

\* The status, the reason and the attempts of a stored document tell what the
\* provider did, in every interleaving, failure and crash.
THEOREM DocumentsSound == Spec => []StatusTellsTheTruth
<1>1. ASSUME NInv, NEW r \in Requests
      PROVE  /\ saved[r].status = "SENT" => mailed[r] > 0
             /\ saved[r].reason \in {"sms_channel_not_implemented", "recipient_bounced"} => mailed[r] = 0
             /\ saved[r].status \in {"SENT", "FAILED"} <=> saved[r].attempts = 1
             /\ saved[r].status = "FAILED" <=> saved[r].reason # "none"
  <2>1. saved[r] \in {Absent, New} \/ Verdict(saved[r], mailed[r])
    BY <1>1 DEF NInv, RequestSound, RecordSound
  <2> QED
    BY <2>1, Documents DEF Verdict
<1>2. NInv => StatusTellsTheTruth
  BY <1>1 DEF StatusTellsTheTruth
<1> QED
  BY Inductive, <1>2, PTL

\* The answer of POST /notifications is the status that is stored, for good.
THEOREM AnswersSound == Spec => []AnswersAgreeWithCollection
<1>1. NInv => AnswersAgreeWithCollection
  BY DEF NInv, RequestSound, RecordSound, AnswersAgreeWithCollection
<1> QED
  BY Inductive, <1>1, PTL
=============================================================================
