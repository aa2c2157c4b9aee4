---------------------------- MODULE UserService ----------------------------
(***************************************************************************)
(* POST /api/v1/auth/register and /api/v1/auth/login of user-service with  *)
(* its users table.                                                        *)
(*                                                                         *)
(* A registration draws a new account id, so an account is named by the    *)
(* request that registers it.  Spring does not notice when a caller leaves,*)
(* and a handler runs to its end.                                          *)
(***************************************************************************)
EXTENDS Naturals

CONSTANTS
    Requests,       \* registrations and logins
    Op,             \* "register" or "login"
    Email,
    Password,
    Invalid,        \* requests that bean validation refuses
    Unreadable,     \* requests whose body is no JSON of the right shape
    TooLong,        \* registrations with a value that does not fit its column
    NoAccount,      \* where there is no account
    Suspensions,    \* BOOLEAN: do operators suspend accounts
    Faults          \* faults the environment may inject

UserAssumption ==
    /\ Op \in [Requests -> {"register", "login"}]
    /\ Invalid \cup Unreadable \cup TooLong \subseteq Requests
    /\ NoAccount \notin Requests
    /\ Suspensions \in BOOLEAN
    /\ Faults \subseteq {"db", "crash"}

VARIABLES
    pc,         \* where the handler of a request stands
    found,      \* the account a login has loaded, as [id, status]
    users,      \* users: status of an account, or "absent"
    token,      \* the subject of the token a handler has made; errors carry none
    reply       \* the HTTP status of the answer

vars == <<pc, found, users, token, reply>>

Working == {"exists", "insert", "commit", "find", "verify"}

Nobody == [id |-> NoAccount, status |-> "absent"]

TypeOK ==
    /\ pc    \in [Requests -> Working \cup {"unsent", "done"}]
    /\ found \in [Requests -> [id : Requests \cup {NoAccount}, status : {"absent", "ACTIVE", "SUSPENDED"}]]
    /\ users \in [Requests -> {"absent", "ACTIVE", "SUSPENDED"}]
    /\ token \in [Requests -> Requests \cup {NoAccount}]
    /\ reply \in [Requests -> {"none", "lost", "200", "201", "400", "401", "409", "500"}]

Init ==
    /\ pc    = [r \in Requests |-> "unsent"]
    /\ found = [r \in Requests |-> Nobody]
    /\ users = [r \in Requests |-> "absent"]
    /\ token = [r \in Requests |-> NoAccount]
    /\ reply = [r \in Requests |-> "none"]

-----------------------------------------------------------------------------
At(r, label) == pc[r] = label

GoTo(r, label) == pc' = [pc EXCEPT ![r] = label] /\ UNCHANGED <<token, reply>>

\* GlobalExceptionHandler: an error drops the token that was made.
Refuse(r, status) ==
    /\ pc'    = [pc EXCEPT ![r] = "done"]
    /\ reply' = [reply EXCEPT ![r] = status]
    /\ UNCHANGED token

Grant(r, status, account) ==
    /\ pc'    = [pc EXCEPT ![r] = "done"]
    /\ reply' = [reply EXCEPT ![r] = status]
    /\ token' = [token EXCEPT ![r] = account]

\* A body that cannot be read is an exception without a handler of its own.
Receive(r) ==
    /\ At(r, "unsent")
    /\ CASE r \in Unreadable -> Refuse(r, "500")
         [] r \in Invalid    -> Refuse(r, "400")
         [] OTHER            -> GoTo(r, IF Op[r] = "register" THEN "exists" ELSE "find")
    /\ UNCHANGED <<found, users>>

Accounts(email) == {a \in Requests : users[a] # "absent" /\ Email[a] = email}

-----------------------------------------------------------------------------
(***************************************************************************)
(* register                                                                *)
(***************************************************************************)
ExistsByEmail(r) ==
    /\ At(r, "exists")
    /\ IF Accounts(Email[r]) # {} THEN Refuse(r, "409") ELSE GoTo(r, "insert")
    /\ UNCHANGED <<found, users>>

\* Variant: the email column has an index that is not unique.
EmailFree_NotUnique(r) == TRUE

EmailFree(r) == Accounts(Email[r]) = {}

\* The id is drawn by save and not by the database, and Hibernate puts the
\* insert off: the token names an account that no table holds yet.
MakeToken(r) ==
    /\ At(r, "insert")
    /\ token' = [token EXCEPT ![r] = r]
    /\ pc'    = [pc EXCEPT ![r] = "commit"]
    /\ UNCHANGED <<found, users, reply>>

\* Variant: the answer does not wait for the commit.
Commit_AnswersFirst(r) ==
    /\ At(r, "commit")
    /\ IF r \notin TooLong /\ EmailFree(r)
       THEN users' = [users EXCEPT ![r] = "ACTIVE"]
       ELSE UNCHANGED users
    /\ Grant(r, "201", token[r])
    /\ UNCHANGED found

\* The row is inserted when the transaction commits.  A constraint that fails
\* there is no EmailAlreadyExistsException: handleGeneric answers 500.
Commit(r) ==
    /\ At(r, "commit")
    /\ IF r \notin TooLong /\ EmailFree(r)
       THEN /\ users' = [users EXCEPT ![r] = "ACTIVE"]
            /\ Grant(r, "201", token[r])
       ELSE Refuse(r, "500") /\ UNCHANGED users
    /\ UNCHANGED found

-----------------------------------------------------------------------------
(***************************************************************************)
(* login                                                                   *)
(***************************************************************************)
FindByEmail(r) ==
    /\ At(r, "find")
    /\ \/ Accounts(Email[r]) = {} /\ Refuse(r, "401") /\ UNCHANGED found
       \/ \E a \in Accounts(Email[r]) :
             /\ found' = [found EXCEPT ![r] = [id |-> a, status |-> users[a]]]
             /\ GoTo(r, "verify")
    /\ UNCHANGED users

\* The password and the status are compared with the account as it was
\* loaded; bcrypt takes its time in between.
Verify(r) ==
    /\ At(r, "verify")
    /\ IF Password[r] = Password[found[r].id] /\ found[r].status = "ACTIVE"
       THEN Grant(r, "200", found[r].id)
       ELSE Refuse(r, "401")
    /\ UNCHANGED <<found, users>>

-----------------------------------------------------------------------------
(***************************************************************************)
(* The environment.                                                        *)
(***************************************************************************)

\* No endpoint changes the status of an account: operators do, in the table.
Suspend(a) ==
    /\ Suspensions
    /\ users[a] = "ACTIVE"
    /\ users' = [users EXCEPT ![a] = "SUSPENDED"]
    /\ UNCHANGED <<pc, found, token, reply>>

\* Variant: every exception of the database counts as a duplicate email.
DbFailure_Conflict(r) ==
    /\ "db" \in Faults
    /\ pc[r] \in Working \ {"insert"}
    /\ Refuse(r, "409")
    /\ \/ UNCHANGED users
       \/ /\ At(r, "commit") /\ r \notin TooLong /\ EmailFree(r)
          /\ users' = [users EXCEPT ![r] = "ACTIVE"]
    /\ UNCHANGED found

\* A statement or a commit fails, that of a login's read-only transaction
\* included; the commit of a registration may have taken effect.
DbFailure(r) ==
    /\ "db" \in Faults
    /\ pc[r] \in Working \ {"insert"}
    /\ Refuse(r, "500")
    /\ \/ UNCHANGED users
       \/ /\ At(r, "commit") /\ r \notin TooLong /\ EmailFree(r)
          /\ users' = [users EXCEPT ![r] = "ACTIVE"]
    /\ UNCHANGED found

Crash ==
    /\ "crash" \in Faults
    /\ \E r \in Requests : pc[r] \in Working
    /\ pc'    = [r \in Requests |-> IF pc[r] \in Working THEN "done" ELSE pc[r]]
    /\ reply' = [r \in Requests |-> IF pc[r] \in Working THEN "lost" ELSE reply[r]]
    /\ UNCHANGED <<found, users, token>>

Handler(r) ==
    \/ ExistsByEmail(r)
    \/ MakeToken(r)
    \/ Commit(r)
    \/ FindByEmail(r)
    \/ Verify(r)
=============================================================================
