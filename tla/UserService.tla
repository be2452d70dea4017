---------------------------- MODULE UserService ----------------------------
(***************************************************************************)
(* user-service: the table of users and its two caches in Redis, the user  *)
(* by id with the hash of the password and the id by e-mail address.  Both *)
(* are written by detached goroutines, one after the other, and either     *)
(* write may fail.  A row is never changed or deleted.                     *)
(*                                                                         *)
(* Whoever calls has one call at a time.  A password and its argon2id hash *)
(* are one value; a name is taken exactly when its address is.             *)
(***************************************************************************)
EXTENDS Naturals

CONSTANTS
    Emails, Passwords,
    Ids,       \* ids the database will draw, also the bound on users
    Callers,
    NoUser,
    NoPassword

Users == [email : Emails, password : Passwords \cup {NoPassword}]

\* The values that stand for nothing are none of the others.
NothingAssumption ==
    NoUser \notin Ids /\ NoUser \notin Users /\ NoPassword \notin Passwords

VARIABLES
    users,     \* the table, by id
    hash,      \* user:<id>
    idOf,      \* user_email_to_id:<email>
    refills,   \* what the detached goroutines still have to write, of which user
    call       \* the call each caller is waiting for

userVars == <<users, hash, idOf, refills, call>>

NoCall == [pc |-> "none", op |-> "none", email |-> NoUser, password |-> NoPassword, id |-> NoUser,
           code |-> "none", known |-> FALSE]

Init ==
    /\ users = [i \in Ids |-> NoUser]
    /\ hash = [i \in Ids |-> NoUser]
    /\ idOf = [e \in Emails |-> NoUser]
    /\ refills = {}
    /\ call = [c \in Callers |-> NoCall]

At(c, pc) == call[c].pc = pc

\* The ids of the row with address e, none or one: email is UNIQUE.
Rows(e) == {i \in Ids : users[i] # NoUser /\ users[i].email = e}

Knows(e, pw) == \E i \in Rows(e) : users[i].password = pw

\* The call is answered; id is the user found, if any.
Answer(c, code, id) ==
    call' = [call EXCEPT ![c].pc = "answered", ![c].code = code, ![c].id = id]

Goto(c, pc) == call' = [call EXCEPT ![c].pc = pc]

-----------------------------------------------------------------------------
(* AuthorizeUser.                                                          *)

Authorize(c, e, pw) ==
    /\ At(c, "none")
    /\ call' = [call EXCEPT ![c] = [NoCall EXCEPT !.pc = "address", !.op = "authorize",
                          !.email = e, !.password = pw, !.known = Knows(e, pw)]]
    /\ UNCHANGED <<users, hash, idOf, refills>>

\* verifyPassword; a hash that cannot be parsed is an internal error.
Verdict(copy, pw) ==
    IF copy.password = NoPassword THEN "Internal"
    ELSE IF copy.password = pw THEN "OK" ELSE "Unauthenticated"

FindAddress(c) ==
    /\ At(c, "address")
    /\ idOf[call[c].email] # NoUser
    /\ call' = [call EXCEPT ![c].pc = "hash", ![c].id = idOf[call[c].email]]
    /\ UNCHANGED <<users, hash, idOf, refills>>

FindHash(c) ==
    /\ At(c, "hash")
    /\ hash[call[c].id] # NoUser
    /\ Answer(c, Verdict(hash[call[c].id], call[c].password), call[c].id)
    /\ UNCHANGED <<users, hash, idOf, refills>>

\* An entry is not there, has expired since, or Redis is away.
MissCache(c) ==
    /\ At(c, "address") \/ At(c, "hash")
    /\ Goto(c, "table")
    /\ UNCHANGED <<users, hash, idOf, refills>>

FindRow(c) ==
    /\ At(c, "table")
    /\ IF Rows(call[c].email) = {}
       THEN Answer(c, "Unauthenticated", NoUser) /\ UNCHANGED refills
       ELSE \E i \in Rows(call[c].email) :
              /\ Answer(c, Verdict(users[i], call[c].password), i)
              /\ refills' = IF Verdict(users[i], call[c].password) = "OK"
                            THEN refills \cup {<<i, "user, then address">>} ELSE refills
    /\ UNCHANGED <<users, hash, idOf>>

-----------------------------------------------------------------------------
(* GetUserByID.                                                            *)

GetUser(c, i) ==
    /\ At(c, "none")
    /\ call' = [call EXCEPT ![c] = [NoCall EXCEPT !.pc = "get", !.op = "get",
                          !.id = i, !.known = users[i] # NoUser]]
    /\ UNCHANGED <<users, hash, idOf, refills>>

GetFromCache(c) ==
    /\ At(c, "get")
    /\ hash[call[c].id] # NoUser
    /\ call' = [call EXCEPT ![c].pc = "answered", ![c].code = "OK",
                            ![c].email = hash[call[c].id].email]
    /\ UNCHANGED <<users, hash, idOf, refills>>

GetFromTable(c) ==
    /\ At(c, "get")
    /\ LET row == users[call[c].id] IN
       IF row = NoUser THEN Answer(c, "NotFound", NoUser) /\ UNCHANGED refills
       ELSE /\ call' = [call EXCEPT ![c].pc = "answered", ![c].code = "OK",
                                    ![c].email = row.email]
            /\ refills' = refills \cup {<<call[c].id, "user">>}
    /\ UNCHANGED <<users, hash, idOf>>

-----------------------------------------------------------------------------
(* CreateUser.                                                             *)

CreateUser(c, e, pw) ==
    /\ At(c, "none")
    /\ call' = [call EXCEPT ![c] = [NoCall EXCEPT !.pc = "insert", !.op = "create",
                          !.email = e, !.password = pw]]
    /\ UNCHANGED <<users, hash, idOf, refills>>

\* The statement inserts the row of call c with id i.
Insert(c, i) ==
    /\ At(c, "insert")
    /\ Rows(call[c].email) = {}
    /\ users[i] = NoUser
    /\ users' = [users EXCEPT ![i] = [email |-> call[c].email,
                                      password |-> call[c].password]]

InsertUser(c, i) ==
    /\ Insert(c, i)
    /\ Answer(c, "OK", i)
    /\ refills' = refills \cup {<<i, "user">>}
    /\ UNCHANGED <<hash, idOf>>

InsertReplyLost(c, i) ==
    /\ Insert(c, i)
    /\ Answer(c, "Internal", NoUser)
    /\ UNCHANGED <<hash, idOf, refills>>

\* The address is taken.
InsertRefused(c) ==
    /\ At(c, "insert")
    /\ Rows(call[c].email) # {}
    /\ Answer(c, "Internal", NoUser)
    /\ UNCHANGED <<users, hash, idOf, refills>>

\* The database is away.
StatementFails(c) ==
    /\ At(c, "table") \/ At(c, "get") \/ At(c, "insert")
    /\ Answer(c, "Internal", NoUser)
    /\ UNCHANGED <<users, hash, idOf, refills>>

-----------------------------------------------------------------------------
(* The detached goroutines, Redis, the process.                            *)

BugUserToMap(i) == [users[i] EXCEPT !.password = NoPassword]

UserToMap(i) == users[i]

\* A login's goroutine goes on to the address whether or not the first write
\* succeeded.
AfterUser(job) ==
    (refills \ {job}) \cup (IF job[2] = "user" THEN {} ELSE {<<job[1], "address">>})

CacheUser(job) ==
    /\ job[2] # "address"
    /\ hash' = [hash EXCEPT ![job[1]] = UserToMap(job[1])]
    /\ refills' = AfterUser(job)
    /\ UNCHANGED <<users, idOf, call>>

CacheUserFails(job) ==
    /\ job[2] # "address"
    /\ refills' = AfterUser(job)
    /\ UNCHANGED <<users, hash, idOf, call>>

CacheAddress(job) ==
    /\ job[2] = "address"
    /\ idOf' = [idOf EXCEPT ![users[job[1]].email] = job[1]]
    /\ refills' = refills \ {job}
    /\ UNCHANGED <<users, hash, call>>

CacheAddressFails(job) ==
    /\ job[2] = "address"
    /\ refills' = refills \ {job}
    /\ UNCHANGED <<users, hash, idOf, call>>

HashExpires(i) ==
    /\ hash[i] # NoUser
    /\ hash' = [hash EXCEPT ![i] = NoUser]
    /\ UNCHANGED <<users, idOf, refills, call>>

AddressExpires(e) ==
    /\ idOf[e] # NoUser
    /\ idOf' = [idOf EXCEPT ![e] = NoUser]
    /\ UNCHANGED <<users, hash, refills, call>>

\* Calls under way end with Unavailable.
Crash ==
    /\ refills # {} \/ \E c \in Callers : ~At(c, "none") /\ ~At(c, "answered")
    /\ refills' = {}
    /\ call' = [c \in Callers |->
                  IF At(c, "none") \/ At(c, "answered") THEN call[c]
                  ELSE [call[c] EXCEPT !.pc = "answered", !.code = "Unavailable"]]
    /\ UNCHANGED <<users, hash, idOf>>

-----------------------------------------------------------------------------

Begin(c) ==
    \/ \E e \in Emails, pw \in Passwords : Authorize(c, e, pw) \/ CreateUser(c, e, pw)
    \/ \E i \in Ids : GetUser(c, i)

\* The caller takes the answer.
Take(c) ==
    /\ At(c, "answered")
    /\ call' = [call EXCEPT ![c] = NoCall]
    /\ UNCHANGED <<users, hash, idOf, refills>>

HandlerStep(c) ==
    \/ FindAddress(c) \/ FindHash(c) \/ MissCache(c) \/ FindRow(c)
    \/ GetFromCache(c) \/ GetFromTable(c)
    \/ \E i \in Ids : InsertUser(c, i) \/ InsertReplyLost(c, i)
    \/ InsertRefused(c)
    \/ StatementFails(c)

CacheStep ==
    \/ \E job \in refills :
        CacheUser(job) \/ CacheUserFails(job) \/ CacheAddress(job) \/ CacheAddressFails(job)
    \/ \E i \in Ids : HashExpires(i)
    \/ \E e \in Emails : AddressExpires(e)
    \/ Crash

Next == CacheStep \/ \E c \in Callers : Begin(c) \/ HandlerStep(c) \/ Take(c)

Spec == Init /\ [][Next]_userVars

-----------------------------------------------------------------------------
(* Properties.                                                             *)

Codes == {"none", "OK", "Unauthenticated", "NotFound", "Internal", "Unavailable"}

\* Every variable has its type.
TypeOK ==
    /\ users \in [Ids -> Users \cup {NoUser}]
    /\ hash \in [Ids -> Users \cup {NoUser}]
    /\ idOf \in [Emails -> Ids \cup {NoUser}]
    /\ refills \subseteq Ids \X {"user", "user, then address", "address"}
    /\ call \in [Callers ->
        [pc : {"none", "address", "hash", "table", "get", "insert", "answered"},
         op : {"none", "authorize", "get", "create"}, email : Emails \cup {NoUser}, password : Passwords \cup {NoPassword},
         id : Ids \cup {NoUser}, code : Codes, known : BOOLEAN]]

Answered(c, op) == At(c, "answered") /\ call[c].op = op

\* Whatever the caches hold, miss or lose decides no login: it succeeds for the
\* address and the password of a row, is refused only if there was no such row
\* when it began, and fails only with a statement (no user is then named).
LoginIsExact ==
    \A c \in Callers : Answered(c, "authorize") =>
        LET a == call[c] IN
        /\ a.code = "OK" => a.id \in Rows(a.email) /\ users[a.id].password = a.password
        /\ a.code = "Unauthenticated" => ~a.known
        /\ a.code = "Internal" => a.id = NoUser

\* A user is found under the id if it was there when the call began, with the
\* address of the row; a created user is in the table.
UsersAreAsStored ==
    \A c \in Callers :
        LET a == call[c] IN
        /\ Answered(c, "get") /\ a.code = "OK" => a.id \in Rows(a.email)
        /\ Answered(c, "get") /\ a.code = "NotFound" => ~a.known
        /\ Answered(c, "create") /\ a.code = "OK" =>
               users[a.id] = [email |-> a.email, password |-> a.password]

\* The answers of user-service are those of its table, whatever happens to the
\* caches.
AnswersAreExact == LoginIsExact /\ UsersAreAsStored

=============================================================================
