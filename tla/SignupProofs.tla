----------------------------- MODULE SignupProofs -----------------------------
(***************************************************************************)
(* Proofs about Signup, for every set of clicks, every limit, every retry  *)
(* count and every choice of faults.                                       *)
(***************************************************************************)
EXTENDS Signup, TLAPS

\* Account a is stored, with the email that request r asks for.
Holds(a, r) ==
    /\ a \in Requests
    /\ users[a] # "absent"
    /\ ClickEmail[a[1]] = ClickEmail[r[1]]

\* What is known of a request from where its handler stands and from its
\* answer: nothing is stored before its commit, where the token already names
\* it, a login compares with an account of its email, and no answer is written
\* twice.
AccountSound(r) ==
    /\ pc[r] \in {"unsent", "exists", "insert", "commit"} => users[r] = "absent"
    /\ pc[r] = "commit" => token[r] = r
    /\ pc[r] = "verify" => Holds(found[r].id, r)
    /\ pc[r] # "done" => reply[r] = "none"
    /\ reply[r] = "201" => token[r] = r /\ Holds(r, r)
    /\ reply[r] = "200" =>
          Holds(token[r], r) /\ ClickPassword[token[r][1]] = ClickPassword[r[1]]
    /\ reply[r] = "409" => \E a \in Requests \ {r} : Holds(a, r)

\* What a client was told is what the last attempt of its click was answered.
ClickSound(c) ==
    /\ at[c] = "unsent" => sent[c] = 0
    /\ at[c] = "waiting" => sent[c] >= 1
    /\ at[c] # "done" => answer[c] = "none"
    /\ answer[c] \in {"200", "201", "409"} =>
          Current(c) \in Requests /\ reply[Current(c)] = answer[c]

SInv ==
    /\ TypeOK
    /\ OneAccountPerEmail
    /\ \A r \in Requests : AccountSound(r)
    /\ \A c \in Clicks : ClickSound(c)

LEMMA CurrentIsRequest ==
    ASSUME SInv, NEW c \in Clicks, at[c] = "waiting"
    PROVE  Current(c) \in Requests
<1>1. sent[c] \in 0 .. RetryAttempts + 1 /\ sent[c] >= 1
  BY DEF SInv, TypeOK, Edge!TypeOK, ClickSound
<1>2. sent[c] \in 1 .. RetryAttempts + 1
  BY <1>1, SignupAssumption DEF Edge!GatewayAssumption
<1> QED
  BY <1>2 DEF Current, Requests

LEMMA ClickOfRequest == \A r \in Requests : r[1] \in Clicks
<1>1. \A r \in Clicks \X (1 .. RetryAttempts + 1) : r[1] \in Clicks
  OBVIOUS
<1> QED
  BY <1>1 DEF Requests

\* The accounts of an email, in the words of Signup.
LEMMA AccountsFound ==
    ASSUME NEW r \in Requests
    PROVE  \A a : a \in Accounts!Accounts([q \in Requests |-> ClickEmail[q[1]]][r]) <=> Holds(a, r)
BY DEF Accounts!Accounts, Holds

-----------------------------------------------------------------------------
(***************************************************************************)
(* The steps of user-service.                                              *)
(***************************************************************************)

\* A step of one handler leaves every other request as it is and removes no
\* account.
OnlyAt(r) ==
    /\ \A s \in Requests \ {r} :
          /\ pc'[s] = pc[s] /\ found'[s] = found[s] /\ users'[s] = users[s]
          /\ token'[s] = token[s] /\ reply'[s] = reply[s]
    /\ users[r] # "absent" => users'[r] # "absent"

LEMMA OthersSound ==
    ASSUME SInv, NEW r \in Requests, OnlyAt(r), AccountSound(r)'
    PROVE  \A s \in Requests : AccountSound(s)'
<1> SUFFICES ASSUME NEW s \in Requests \ {r}
             PROVE  AccountSound(s)'
  OBVIOUS
<1>1. AccountSound(s)
  BY DEF SInv
<1>2. \A a : Holds(a, s) => Holds(a, s)'
  BY DEF OnlyAt, Holds
<1> QED
  BY <1>1, <1>2 DEF OnlyAt, AccountSound

\* An account is only added when its email is free.
LEMMA EmailsStayUnique ==
    ASSUME SInv, NEW r \in Requests,
           \/ UNCHANGED users
           \/ users[r] # "absent" /\ \E s : users' = [users EXCEPT ![r] = s]
           \/ /\ \A a \in Requests : ~Holds(a, r)
              /\ users' = [users EXCEPT ![r] = "ACTIVE"]
    PROVE  OneAccountPerEmail'
BY DEF SInv, OneAccountPerEmail, Holds, TypeOK, Accounts!TypeOK

LEMMA ReceiveStep ==
    ASSUME SInv, NEW r \in Requests, Deliver(r)
    PROVE  /\ Accounts!TypeOK'
           /\ OneAccountPerEmail'
           /\ \A s \in Requests : AccountSound(s)'
<1> USE DEF Accounts!TypeOK, Accounts!Working
<1>1. TypeOK /\ AccountSound(r)
  BY DEF SInv
<1>2. /\ pc[r] = "unsent"
      /\ UNCHANGED <<found, users, token>>
      /\ \/ \E label \in {"exists", "find"} : pc' = [pc EXCEPT ![r] = label] /\ UNCHANGED reply
         \/ /\ pc' = [pc EXCEPT ![r] = "done"]
            /\ \E status \in {"400", "500"} : reply' = [reply EXCEPT ![r] = status]
  <2>1. CASE r \in OfClicks(ClickUnreadable)
    BY <2>1 DEF Deliver, Accounts!Receive, Accounts!At, Accounts!Refuse
  <2>2. CASE r \notin OfClicks(ClickUnreadable) /\ r \in OfClicks(ClickInvalid)
    BY <2>2 DEF Deliver, Accounts!Receive, Accounts!At, Accounts!Refuse
  <2>3. CASE r \notin OfClicks(ClickUnreadable) /\ r \notin OfClicks(ClickInvalid)
    BY <2>3 DEF Deliver, Accounts!Receive, Accounts!At, Accounts!GoTo
  <2> QED
    BY <2>1, <2>2, <2>3
<1>3. Accounts!TypeOK'
  BY <1>1, <1>2 DEF TypeOK
<1>4. OneAccountPerEmail'
  BY <1>2, EmailsStayUnique
<1>5. OnlyAt(r)
  BY <1>1, <1>2 DEF OnlyAt, TypeOK
<1>6. AccountSound(r)'
  BY <1>1, <1>2 DEF AccountSound, TypeOK
<1> QED
  BY <1>3, <1>4, <1>5, <1>6, OthersSound

\* A registration: the check, the token, the commit, and what a failing
\* database leaves.
LEMMA RegisterStep ==
    ASSUME SInv, NEW r \in Requests,
           \/ Accounts!ExistsByEmail(r) \/ Accounts!MakeToken(r)
           \/ Accounts!Commit(r) \/ Accounts!DbFailure(r)
    PROVE  /\ Accounts!TypeOK'
           /\ OneAccountPerEmail'
           /\ \A s \in Requests : AccountSound(s)'
<1> USE DEF Accounts!TypeOK, Accounts!Working
<1>1. TypeOK /\ AccountSound(r)
  BY DEF SInv
<1>2. \/ /\ pc[r] = "exists"
         /\ pc' = [pc EXCEPT ![r] = "insert"]
         /\ UNCHANGED <<found, users, token, reply>>
      \/ /\ pc[r] = "exists"
         /\ \E a \in Requests : Holds(a, r)
         /\ pc' = [pc EXCEPT ![r] = "done"]
         /\ reply' = [reply EXCEPT ![r] = "409"]
         /\ UNCHANGED <<found, users, token>>
      \/ /\ pc[r] = "insert"
         /\ pc' = [pc EXCEPT ![r] = "commit"]
         /\ token' = [token EXCEPT ![r] = r]
         /\ UNCHANGED <<found, users, reply>>
      \/ /\ pc[r] = "commit"
         /\ \A a \in Requests : ~Holds(a, r)
         /\ pc' = [pc EXCEPT ![r] = "done"]
         /\ users' = [users EXCEPT ![r] = "ACTIVE"]
         /\ \/ reply' = [reply EXCEPT ![r] = "201"] /\ token' = [token EXCEPT ![r] = token[r]]
            \/ reply' = [reply EXCEPT ![r] = "500"] /\ UNCHANGED token
         /\ UNCHANGED found
      \/ /\ pc[r] \in Accounts!Working
         /\ pc' = [pc EXCEPT ![r] = "done"]
         /\ reply' = [reply EXCEPT ![r] = "500"]
         /\ UNCHANGED <<found, users, token>>
  <2>1. CASE Accounts!ExistsByEmail(r)
    BY <2>1, AccountsFound
       DEF Accounts!ExistsByEmail, Accounts!At, Accounts!Refuse, Accounts!GoTo, Holds
  <2>2. CASE Accounts!MakeToken(r)
    BY <2>2 DEF Accounts!MakeToken, Accounts!At
  <2>3. CASE Accounts!Commit(r)
    BY <2>3, AccountsFound
       DEF Accounts!Commit, Accounts!EmailFree, Accounts!At, Accounts!Refuse, Accounts!Grant
  <2>4. CASE Accounts!DbFailure(r)
    BY <2>4, AccountsFound
       DEF Accounts!DbFailure, Accounts!EmailFree, Accounts!At, Accounts!Refuse
  <2> QED
    BY <2>1, <2>2, <2>3, <2>4
<1>3. Accounts!TypeOK'
  BY <1>1, <1>2 DEF TypeOK
<1>4. OneAccountPerEmail'
  BY <1>2, EmailsStayUnique
<1>5. OnlyAt(r)
  BY <1>1, <1>2 DEF OnlyAt, TypeOK
<1>6. AccountSound(r)'
  <2>1. pc[r] # "done" /\ reply[r] = "none" /\ (pc[r] \in {"exists", "insert", "commit"} => users[r] = "absent")
    BY <1>1, <1>2 DEF AccountSound
  <2>2. \A a \in Requests : Holds(a, r) => Holds(a, r)'
    BY <1>5 DEF OnlyAt, Holds
  <2>3. CASE pc'[r] \in {"insert", "commit"}
    BY <1>1, <1>2, <2>1, <2>3 DEF AccountSound, TypeOK
  <2>4. CASE reply'[r] = "409"
    <3>1. PICK a \in Requests : Holds(a, r)
      BY <1>1, <1>2, <2>1, <2>4 DEF TypeOK
    <3>2. a # r
      BY <1>1, <1>2, <2>1, <2>4, <3>1 DEF TypeOK, Holds
    <3> QED
      BY <1>1, <1>2, <2>1, <2>2, <2>4, <3>1, <3>2 DEF AccountSound, TypeOK
  <2>5. CASE reply'[r] = "201"
    BY <1>1, <1>2, <2>1, <2>5 DEF AccountSound, TypeOK, Holds
  <2>6. CASE reply'[r] = "500"
    BY <1>1, <1>2, <2>1, <2>6 DEF AccountSound, TypeOK
  <2> QED
    BY <1>1, <1>2, <2>3, <2>4, <2>5, <2>6 DEF TypeOK
<1> QED
  BY <1>3, <1>4, <1>5, <1>6, OthersSound

\* A login: the account is found, then compared as it was found.
LEMMA LoginStep ==
    ASSUME SInv, NEW r \in Requests, Accounts!FindByEmail(r) \/ Accounts!Verify(r)
    PROVE  /\ Accounts!TypeOK'
           /\ OneAccountPerEmail'
           /\ \A s \in Requests : AccountSound(s)'
<1> USE DEF Accounts!TypeOK, Accounts!Working
<1>1. TypeOK /\ AccountSound(r)
  BY DEF SInv
<1>2. \/ /\ pc[r] = "find"
         /\ pc' = [pc EXCEPT ![r] = "verify"]
         /\ \E a \in Requests : /\ Holds(a, r)
                                /\ found' = [found EXCEPT ![r] = [id |-> a, status |-> users[a]]]
         /\ UNCHANGED <<users, token, reply>>
      \/ /\ pc[r] \in {"find", "verify"}
         /\ pc' = [pc EXCEPT ![r] = "done"]
         /\ reply' = [reply EXCEPT ![r] = "401"]
         /\ UNCHANGED <<found, users, token>>
      \/ /\ pc[r] = "verify"
         /\ ClickPassword[r[1]] = ClickPassword[found[r].id[1]]
         /\ pc' = [pc EXCEPT ![r] = "done"]
         /\ reply' = [reply EXCEPT ![r] = "200"]
         /\ token' = [token EXCEPT ![r] = found[r].id]
         /\ UNCHANGED <<found, users>>
  <2>1. CASE Accounts!FindByEmail(r)
    BY <2>1, AccountsFound
       DEF Accounts!FindByEmail, Accounts!At, Accounts!Refuse, Accounts!GoTo, Holds
  <2>2. CASE Accounts!Verify(r)
    <3>1. found[r].id \in Requests
      BY <1>1, <2>2 DEF Accounts!Verify, Accounts!At, AccountSound, Holds
    <3> QED
      BY <2>2, <3>1 DEF Accounts!Verify, Accounts!At, Accounts!Refuse, Accounts!Grant
  <2> QED
    BY <2>1, <2>2
<1>3. Accounts!TypeOK'
  <2> DEFINE Loaded == [id : Requests \cup {NoAccount}, status : {"absent", "ACTIVE", "SUSPENDED"}]
  <2>1. \A a \in Requests : [id |-> a, status |-> users[a]] \in Loaded
    BY <1>1 DEF TypeOK
  <2> HIDE DEF Loaded
  <2>2. found' = found \/ \E l \in Loaded : found' = [found EXCEPT ![r] = l]
    BY <1>2, <2>1
  <2>3. found' \in [Requests -> Loaded]
    BY <1>1, <2>2 DEF TypeOK, Loaded
  <2>4. pc[r] = "verify" => found[r].id \in Requests
    BY <1>1 DEF AccountSound, Holds
  <2> QED
    BY <1>1, <1>2, <2>3, <2>4 DEF TypeOK, Loaded
<1>4. OneAccountPerEmail'
  BY <1>2, EmailsStayUnique
<1>5. OnlyAt(r)
  BY <1>1, <1>2 DEF OnlyAt, TypeOK
<1>6. AccountSound(r)'
  <2>1. pc[r] # "done" /\ reply[r] = "none"
    BY <1>1, <1>2 DEF AccountSound
  <2>2. \A a : Holds(a, r) => Holds(a, r)'
    BY <1>5 DEF OnlyAt, Holds
  <2>3. CASE pc'[r] = "verify"
    <3>1. PICK a \in Requests : Holds(a, r) /\ found' = [found EXCEPT ![r] = [id |-> a, status |-> users[a]]]
      BY <1>1, <1>2, <2>3 DEF TypeOK
    <3>2. found'[r].id = a
      BY <1>1, <3>1 DEF TypeOK
    <3>3. reply' = reply
      BY <1>1, <1>2, <2>3 DEF TypeOK
    <3> QED
      BY <2>1, <2>2, <2>3, <3>1, <3>2, <3>3 DEF AccountSound
  <2>4. CASE reply'[r] = "401"
    BY <1>1, <1>2, <2>4 DEF AccountSound, TypeOK
  <2>5. CASE reply'[r] = "200"
    <3>1. /\ Holds(found[r].id, r)
          /\ token'[r] = found[r].id
          /\ ClickPassword[r[1]] = ClickPassword[found[r].id[1]]
          /\ pc'[r] = "done"
      BY <1>1, <1>2, <2>1, <2>5 DEF AccountSound, TypeOK
    <3> QED
      BY <2>2, <2>5, <3>1 DEF AccountSound
  <2> QED
    BY <1>1, <1>2, <2>3, <2>4, <2>5 DEF TypeOK
<1> QED
  BY <1>3, <1>4, <1>5, <1>6, OthersSound

\* Operators and crashes: no account is added or removed.
LEMMA UserEnvironmentStep ==
    ASSUME SInv, (\E r \in Requests : Accounts!Suspend(r)) \/ Accounts!Crash \/ UNCHANGED userVars
    PROVE  /\ Accounts!TypeOK'
           /\ OneAccountPerEmail'
           /\ \A s \in Requests : AccountSound(s)'
<1> USE DEF Accounts!TypeOK, Accounts!Working
<1>1. TypeOK /\ \A s \in Requests : AccountSound(s)
  BY DEF SInv
<1>2. CASE \E r \in Requests : Accounts!Suspend(r)
  <2>1. PICK r \in Requests : Accounts!Suspend(r)
    BY <1>2
  <2>2. OneAccountPerEmail'
    BY <2>1, EmailsStayUnique DEF Accounts!Suspend
  <2>3. OnlyAt(r) /\ AccountSound(r)'
    BY <1>1, <2>1 DEF Accounts!Suspend, OnlyAt, AccountSound, Holds, TypeOK
  <2> QED
    BY <1>1, <2>1, <2>2, <2>3, OthersSound DEF Accounts!Suspend, TypeOK
<1>3. CASE Accounts!Crash
  <2>1. UNCHANGED <<found, users, token>>
    BY <1>3 DEF Accounts!Crash
  <2>2. ASSUME NEW s \in Requests
        PROVE  \/ pc'[s] = pc[s] /\ reply'[s] = reply[s]
               \/ pc[s] # "done" /\ pc'[s] = "done" /\ reply'[s] = "lost"
    BY <1>3 DEF Accounts!Crash
  <2>3. Accounts!TypeOK'
    BY <1>1, <1>3 DEF Accounts!Crash, TypeOK
  <2>4. \A s \in Requests : AccountSound(s)'
    BY <1>1, <2>1, <2>2 DEF AccountSound, Holds
  <2> QED
    BY <2>1, <2>3, <2>4 DEF SInv, OneAccountPerEmail
<1>4. CASE UNCHANGED userVars
  BY <1>1, <1>4 DEF userVars, SInv, TypeOK, AccountSound, Holds, OneAccountPerEmail
<1> QED
  BY <1>2, <1>3, <1>4

\* An answer that was written stays.
LEMMA AnswersStay ==
    ASSUME SInv, \E r \in Requests : Deliver(r) \/ AccountStep(r)
    PROVE  \A s \in Requests : reply[s] # "none" => reply'[s] = reply[s]
<1>1. PICK r \in Requests : Deliver(r) \/ AccountStep(r)
  OBVIOUS
<1>2. reply' = reply \/ (pc[r] # "done" /\ \E status : reply' = [reply EXCEPT ![r] = status])
  <2>1. CASE Deliver(r)
    <3>1. CASE r \in OfClicks(ClickUnreadable)
      BY <2>1, <3>1 DEF Deliver, Accounts!Receive, Accounts!At, Accounts!Refuse
    <3>2. CASE r \notin OfClicks(ClickUnreadable) /\ r \in OfClicks(ClickInvalid)
      BY <2>1, <3>2 DEF Deliver, Accounts!Receive, Accounts!At, Accounts!Refuse
    <3>3. CASE r \notin OfClicks(ClickUnreadable) /\ r \notin OfClicks(ClickInvalid)
      BY <2>1, <3>3 DEF Deliver, Accounts!Receive, Accounts!At, Accounts!GoTo
    <3> QED
      BY <3>1, <3>2, <3>3
  <2>2. CASE AccountStep(r)
    BY <2>2 DEF AccountStep, Accounts!Handler, Accounts!ExistsByEmail, Accounts!MakeToken,
                Accounts!Commit, Accounts!FindByEmail, Accounts!Verify, Accounts!DbFailure, Accounts!Suspend,
                Accounts!At, Accounts!GoTo, Accounts!Refuse, Accounts!Grant, Accounts!Working
  <2> QED
    BY <1>1, <2>1, <2>2
<1> QED
  BY <1>2 DEF SInv, TypeOK, Accounts!TypeOK, AccountSound

-----------------------------------------------------------------------------
(***************************************************************************)
(* The steps of the gateway.                                               *)
(***************************************************************************)

\* What every step of the gateway at click c does: it sends an attempt, or it
\* answers the client, who was not answered before.
EdgeMove(c) ==
    /\ \/ /\ at[c] = "unsent" \/ (at[c] = "waiting" /\ sent[c] <= RetryAttempts)
          /\ sent' = [sent EXCEPT ![c] = @ + 1]
          /\ at' = at \/ at' = [at EXCEPT ![c] = "waiting"]
          /\ at'[c] = "waiting"
          /\ UNCHANGED answer
       \/ /\ at[c] # "done"
          /\ at' = [at EXCEPT ![c] = "done"]
          /\ \/ \E code \in {"400", "401", "429", "502", "504"} : answer' = [answer EXCEPT ![c] = code]
             \/ /\ at[c] = "waiting"
                /\ reply[Current(c)] \notin {"none", "lost"}
                /\ answer' = [answer EXCEPT ![c] = reply[Current(c)]]
          /\ UNCHANGED sent
    /\ hits' \in {hits, hits + 1}
    /\ hits' = hits + 1 => hits # RateLimit

LEMMA EdgeMoves ==
    ASSUME SInv, NEW c \in Clicks,
           ClickStep(c) \/ AnswerArrives(c) \/ TimesOut(c) \/ Unreachable(c)
    PROVE  EdgeMove(c)
<1> USE DEF Edge!Finish, Edge!Send
<1>1. at \in [Clicks -> {"unsent", "waiting", "done"}] /\ hits \in 0 .. RateLimit
  BY DEF SInv, TypeOK, Edge!TypeOK
<1>2. CASE ClickStep(c)
  BY <1>1, <1>2 DEF ClickStep, Edge!Arrive, Edge!Limited, Edge!Authenticated, Edge!Rejection,
                    EdgeMove
<1>3. CASE TimesOut(c) \/ Unreachable(c)
  BY <1>1, <1>3 DEF TimesOut, Unreachable, Edge!AttemptTimesOut, Edge!AttemptUnreachable,
                    Edge!RetryOr, Edge!Waiting, EdgeMove
<1>4. CASE AnswerArrives(c)
  BY <1>1, <1>4 DEF AnswerArrives, Edge!ServiceAnswers, Edge!RetryOr, Edge!Waiting, EdgeMove,
                    Edge!Retryable
<1> QED
  BY <1>2, <1>3, <1>4

LEMMA EdgeMoveTyped ==
    ASSUME SInv, NEW c \in Clicks, EdgeMove(c), UNCHANGED userVars
    PROVE  Edge!TypeOK'
<1> USE DEF Edge!TypeOK, Edge!Retryable
<1>1. TypeOK /\ Accounts!TypeOK
  BY DEF SInv, TypeOK
<1>2. RetryAttempts \in Nat /\ RateLimit \in Nat
  BY SignupAssumption DEF Edge!GatewayAssumption
<1>3. at' \in [Clicks -> {"unsent", "waiting", "done"}]
  BY <1>1 DEF EdgeMove, TypeOK
<1>4. sent' \in [Clicks -> 0 .. RetryAttempts + 1]
  <2>1. at[c] = "unsent" => sent[c] = 0
    BY DEF SInv, ClickSound
  <2>2. sent[c] + 1 \in 0 .. RetryAttempts + 1 \/ UNCHANGED sent
    BY <1>1, <1>2, <2>1 DEF EdgeMove, TypeOK
  <2> QED
    BY <1>1, <2>2 DEF EdgeMove, TypeOK
<1>5. hits' \in 0 .. RateLimit
  BY <1>1, <1>2 DEF EdgeMove, TypeOK
<1>6. answer' \in [Clicks -> {"none", "429", "200", "201", "400", "401", "402", "404", "409", "500"}
                                 \cup Edge!Retryable]
  <2>1. at[c] = "waiting" => reply[Current(c)] \in
            {"none", "lost", "200", "201", "400", "401", "409", "500"}
    BY <1>1, CurrentIsRequest DEF Accounts!TypeOK
  <2> QED
    BY <1>1, <2>1 DEF EdgeMove, TypeOK
<1> QED
  BY <1>3, <1>4, <1>5, <1>6

LEMMA EdgeMoveSound ==
    ASSUME SInv, NEW c \in Clicks, EdgeMove(c), UNCHANGED userVars
    PROVE  \A d \in Clicks : ClickSound(d)'
<1> SUFFICES ASSUME NEW d \in Clicks
             PROVE  ClickSound(d)'
  OBVIOUS
<1>1. ClickSound(d) /\ ClickSound(c) /\ TypeOK
  BY DEF SInv
<1>2. reply' = reply
  BY DEF userVars
<1>3. CASE d # c
  <2>1. at'[d] = at[d] /\ sent'[d] = sent[d] /\ answer'[d] = answer[d]
    BY <1>1, <1>3 DEF EdgeMove, TypeOK, Edge!TypeOK
  <2> QED
    BY <1>1, <1>2, <2>1 DEF ClickSound, Current
<1>4. CASE d = c
  <2>1. CASE at'[c] = "waiting"
    <3>1. answer'[c] = "none" /\ sent'[c] >= 1
      BY <1>1, <2>1, SignupAssumption
         DEF EdgeMove, ClickSound, TypeOK, Edge!TypeOK, Edge!GatewayAssumption
    <3> QED
      BY <1>4, <2>1, <3>1 DEF ClickSound
  <2>2. CASE at'[c] = "done"
    <3>1. /\ sent'[c] = sent[c]
          /\ \/ answer'[c] \in {"400", "401", "429", "502", "504"}
             \/ at[c] = "waiting" /\ answer'[c] = reply[Current(c)]
      BY <1>1, <2>2 DEF EdgeMove, TypeOK, Edge!TypeOK
    <3> QED
      BY <1>2, <1>4, <2>2, <3>1, CurrentIsRequest DEF ClickSound, Current
  <2> QED
    BY <2>1, <2>2, <1>1 DEF EdgeMove, TypeOK, Edge!TypeOK
<1> QED
  BY <1>3, <1>4

-----------------------------------------------------------------------------
(***************************************************************************)
(* The theorems.                                                           *)
(***************************************************************************)
LEMMA InitSInv == Init => SInv
<1> SUFFICES ASSUME Init
             PROVE  SInv
  OBVIOUS
<1>1. TypeOK
  <2>1. Accounts!Nobody \in [id : Requests \cup {NoAccount}, status : {"absent", "ACTIVE", "SUSPENDED"}]
    BY DEF Accounts!Nobody
  <2> HIDE DEF Accounts!Nobody
  <2>2. Accounts!TypeOK
    BY <2>1 DEF Init, Accounts!Init, Accounts!TypeOK, Accounts!Nobody
  <2>3. Edge!TypeOK
    BY SignupAssumption DEF Init, Edge!Init, Edge!TypeOK, Edge!GatewayAssumption
  <2> QED
    BY <2>2, <2>3 DEF TypeOK
<1>2. OneAccountPerEmail /\ \A r \in Requests : AccountSound(r)
  BY DEF Init, Accounts!Init, OneAccountPerEmail, AccountSound
<1>3. \A c \in Clicks : ClickSound(c)
  BY DEF Init, Edge!Init, ClickSound
<1> QED
  BY <1>1, <1>2, <1>3 DEF SInv

LEMMA StepSInv == SInv /\ [Next]_vars => SInv'
<1> SUFFICES ASSUME SInv, [Next]_vars
             PROVE  SInv'
  OBVIOUS
<1>1. ASSUME NEW c \in Clicks,
             ClickStep(c) \/ AnswerArrives(c) \/ TimesOut(c) \/ Unreachable(c)
      PROVE  SInv'
  <2>1. EdgeMove(c) /\ UNCHANGED userVars
    BY <1>1, EdgeMoves DEF ClickStep, AnswerArrives, TimesOut, Unreachable
  <2> QED
    BY <2>1, EdgeMoveTyped, EdgeMoveSound, UserEnvironmentStep DEF SInv, TypeOK
<1>2. ASSUME \/ \E r \in Requests : Deliver(r) \/ AccountStep(r)
             \/ UserCrash
      PROVE  SInv'
  <2>1. UNCHANGED gatewayVars
    BY <1>2 DEF Deliver, AccountStep, UserCrash
  <2>2. Accounts!TypeOK' /\ OneAccountPerEmail' /\ \A s \in Requests : AccountSound(s)'
    <3>1. CASE \E r \in Requests : Deliver(r)
      BY <3>1, ReceiveStep
    <3>2. CASE \E r \in Requests : AccountStep(r)
      BY <3>2, RegisterStep, LoginStep, UserEnvironmentStep DEF AccountStep, Accounts!Handler
    <3>3. CASE UserCrash
      BY <3>3, UserEnvironmentStep DEF UserCrash
    <3> QED
      BY <1>2, <3>1, <3>2, <3>3
  <2>3. \A s \in Requests : reply[s] # "none" => reply'[s] = reply[s]
    <3>1. CASE UserCrash
      BY <3>1 DEF UserCrash, Accounts!Crash, SInv, AccountSound, Accounts!Working
    <3> QED
      BY <1>2, <3>1, AnswersStay
  <2>4. \A c \in Clicks : ClickSound(c)'
    BY <2>1, <2>3 DEF SInv, ClickSound, Current, gatewayVars
  <2>5. Edge!TypeOK'
    BY <2>1 DEF SInv, TypeOK, Edge!TypeOK, gatewayVars
  <2> QED
    BY <2>2, <2>4, <2>5 DEF SInv, TypeOK
<1>3. CASE WindowStep \/ UNCHANGED vars
  <2>1. UNCHANGED <<at, sent, answer>> /\ UNCHANGED userVars /\ hits' \in 0 .. RateLimit
    BY <1>3, SignupAssumption
       DEF WindowStep, Edge!NewWindow, vars, gatewayVars, SInv, TypeOK, Edge!TypeOK,
           Edge!GatewayAssumption
  <2>2. Edge!TypeOK' /\ \A c \in Clicks : ClickSound(c)'
    BY <2>1 DEF SInv, TypeOK, Edge!TypeOK, ClickSound, Current, userVars
  <2> QED
    BY <2>1, <2>2, UserEnvironmentStep DEF SInv, TypeOK
<1> QED
  BY <1>1, <1>2, <1>3 DEF Next

LEMMA Invariant == Spec => []SInv
BY InitSInv, StepSInv, PTL DEF Spec

\* Handlers, clicks and accounts are typed in every reachable state, and no
\* click is sent more often than the gateway is told to.
THEOREM TypeCorrect == Spec => []TypeOK
<1>1. SInv => TypeOK
  BY DEF SInv
<1> QED
  BY <1>1, Invariant, PTL

\* However registrations race, are posted again or lose their answers, an
\* email has one account.
THEOREM EmailsAreUnique == Spec => []OneAccountPerEmail
<1>1. SInv => OneAccountPerEmail
  BY DEF SInv
<1> QED
  BY <1>1, Invariant, PTL

\* A client only ever holds a token for a stored account with its own email
\* and password, whatever crash or failed commit lies between the two.
THEOREM TokensAreHonest == Spec => []TokensNameStoredAccounts
<1>1. SInv => TokensNameStoredAccounts
  <2> SUFFICES ASSUME SInv, NEW c \in Clicks, answer[c] \in {"200", "201"}
               PROVE  /\ token[Current(c)] \in Requests
                      /\ users[token[Current(c)]] # "absent"
                      /\ ClickEmail[token[Current(c)][1]] = ClickEmail[c]
                      /\ ClickPassword[token[Current(c)][1]] = ClickPassword[c]
                      /\ answer[c] = "201" => token[Current(c)] = Current(c)
    BY DEF TokensNameStoredAccounts
  <2>1. Current(c) \in Requests /\ reply[Current(c)] = answer[c] /\ Current(c)[1] = c
    BY DEF SInv, ClickSound, Current
  <2> QED
    BY <2>1 DEF SInv, AccountSound, Holds
<1> QED
  BY <1>1, Invariant, PTL

\* No client is told that an email is taken when it is not.
THEOREM ConflictsAreHonest == Spec => []ConflictsAreReal
<1>1. SInv => ConflictsAreReal
  <2> SUFFICES ASSUME SInv, NEW c \in Clicks, answer[c] = "409"
               PROVE  \E a \in Requests : /\ a # Current(c)
                                          /\ users[a] # "absent"
                                          /\ ClickEmail[a[1]] = ClickEmail[c]
    BY DEF ConflictsAreReal
  <2>1. Current(c) \in Requests /\ reply[Current(c)] = "409" /\ Current(c)[1] = c
    BY DEF SInv, ClickSound, Current
  <2> QED
    BY <2>1 DEF SInv, AccountSound, Holds
<1> QED
  BY <1>1, Invariant, PTL
=============================================================================
