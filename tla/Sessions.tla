------------------------------ MODULE Sessions ------------------------------
(***************************************************************************)
(* Accounts and sessions: AuthService with the table users in Postgres and *)
(* the session keys in Redis, behind the RPCs Register and Login.          *)
(*                                                                         *)
(*   Register   Hash --> INSERT INTO users                                 *)
(*   Login      SELECT the hash, Compare, NewToken --> SET session:token   *)
(*                                                                         *)
(* A client is one run of a program: it has one name and one password,     *)
(* waits for each of its unary calls, and gets a token at most once, so    *)
(* its token goes by the client's own name (NewToken, 16 random bytes,     *)
(* never returns one twice).  A bcrypt hash is the password it was made    *)
(* of.  A call may fail, or its deadline may pass, while a statement of it *)
(* is on its way: the database may execute that statement later.           *)
(***************************************************************************)

CONSTANTS
    Client,     \* programs that call the server
    Name,       \* usernames
    Password,
    Blank,      \* the empty string, as a name or a password
    Nobody      \* no row, no key

ASSUME SessionsAssumption ==
    /\ Nobody \notin Name \cup Password
    /\ Blank \in Name \cap Password

VARIABLES
    who,         \* who[c], secret[c]: the name and the password c uses
    secret,
    users,       \* users[n]: the password of account n
    sessions,    \* sessions[c]: the value of the key session:<token of c>
    rpc,         \* rpc[c]: the statement the handler of c waits for
    token,       \* token[c]: not there, made by NewToken, or known to c
    reply,       \* reply[c]: the status of c's last call
    lateCreate,  \* clients whose INSERT, lateSave: whose SET, nobody waits
    lateSave,    \* for any more
    \* History, read by no guard of the code:
    created      \* the clients that were told "Account Created"

sessionVars == <<who, secret, users, sessions, rpc, token, reply, lateCreate,
                 lateSave, created>>

\* What the client keeps, and what the databases keep.
credentials == <<who, secret, token>>
stores == <<users, sessions>>
lateVars == <<lateCreate, lateSave>>

Init ==
    /\ who = [c \in Client |-> Nobody]
    /\ secret = [c \in Client |-> Nobody]
    /\ users = [n \in Name |-> Nobody]
    /\ sessions = [c \in Client |-> Nobody]
    /\ rpc = [c \in Client |-> "idle"]
    /\ token = [c \in Client |-> "none"]
    /\ reply = [c \in Client |-> "none"]
    /\ lateCreate = {}
    /\ lateSave = {}
    /\ created = {}

\* toStatusError; every other error is Internal.
StatusOf == [ErrEmptyCredentials   |-> "InvalidArgument",
             ErrUserExists         |-> "AlreadyExists",
             ErrInvalidCredentials |-> "Unauthenticated",
             ErrNotLoggedIn        |-> "Unauthenticated",
             ErrUserNotFound       |-> "NotFound",
             ErrIngestorStopped    |-> "Unavailable"]

Statuses == {"none", "OK", "Internal"} \cup
            {StatusOf[e] : e \in DOMAIN StatusOf}

-----------------------------------------------------------------------------
\* The handler of c goes from one statement to the next.
Waits(c, from, to) ==
    /\ rpc[c] = from
    /\ rpc' = [rpc EXCEPT ![c] = to]

\* The call of c is over, with this status.
Answers(c, from, status) ==
    /\ Waits(c, from, "idle")
    /\ reply' = [reply EXCEPT ![c] = status]

\* The program learns its name and its password: a prompt, or its flags.
Identify(c, n, w) ==
    /\ who[c] = Nobody
    /\ who' = [who EXCEPT ![c] = n]
    /\ secret' = [secret EXCEPT ![c] = w]
    /\ UNCHANGED <<stores, rpc, token, reply, lateVars, created>>

\* Register refuses empty credentials before it touches anything.
CallRegister(c) ==
    /\ who[c] # Nobody
    /\ \/ /\ Blank \in {who[c], secret[c]}
          /\ Answers(c, "idle", StatusOf.ErrEmptyCredentials)
       \/ /\ Blank \notin {who[c], secret[c]}
          /\ Waits(c, "idle", "create")
          /\ UNCHANGED reply
    /\ UNCHANGED <<credentials, stores, lateVars, created>>

NameFree(c) == users[who[c]] = Nobody

Overwrite(c) == [users EXCEPT ![who[c]] = secret[c]]  \* bug: an upsert
\* INSERT INTO users: the name is UNIQUE.
Inserted(c) ==
    IF NameFree(c) THEN [users EXCEPT ![who[c]] = secret[c]] ELSE users

Create(c) ==
    /\ Answers(c, "create",
               IF NameFree(c) THEN "OK" ELSE StatusOf.ErrUserExists)
    /\ users' = Inserted(c)
    /\ created' = IF NameFree(c) THEN created \cup {c} ELSE created
    /\ UNCHANGED <<credentials, sessions, lateVars>>

CallLogin(c) ==
    /\ who[c] # Nobody
    /\ token[c] = "none"
    /\ Waits(c, "idle", "find")
    /\ UNCHANGED <<credentials, stores, reply, lateVars, created>>

NameOnly(c) == ~NameFree(c)                        \* bug: no Compare
\* FindByUsername has a row and Compare agrees.
Matches(c) == ~NameFree(c) /\ users[who[c]] = secret[c]

\* An unknown name and a wrong password get the same answer.
LoginRefused(c) ==
    /\ Answers(c, "find", StatusOf.ErrInvalidCredentials)
    /\ ~Matches(c)
    /\ UNCHANGED <<credentials, stores, lateVars, created>>

Verify(c) ==
    /\ Waits(c, "find", "save")
    /\ Matches(c)
    /\ token' = [token EXCEPT ![c] = "made"]
    /\ UNCHANGED <<who, secret, stores, reply, lateVars, created>>

Save(c) ==
    /\ Answers(c, "save", "OK")
    /\ sessions' = [sessions EXCEPT ![c] = who[c]]
    /\ token' = [token EXCEPT ![c] = "known"]
    /\ UNCHANGED <<who, secret, users, lateVars, created>>

\* The call ends in an error of a database, of the hasher or of the
\* network, or at its deadline; its statement may or may not be on its way.
CallFails(c) ==
    /\ rpc[c] # "idle"
    /\ Answers(c, rpc[c], "Internal")
    /\ lateCreate' = lateCreate \cup {x \in {c} : rpc[c] = "create"}
    /\ lateSave' = lateSave \cup {x \in {c} : rpc[c] = "save"}
    /\ UNCHANGED <<credentials, stores, created>>

\* A statement nobody waits for is executed after all.
LateCreate(c) ==
    /\ c \in lateCreate
    /\ lateCreate' = lateCreate \ {c}
    /\ users' = Inserted(c)
    /\ UNCHANGED <<credentials, sessions, rpc, reply, lateSave, created>>

LateSave(c) ==
    /\ c \in lateSave
    /\ lateSave' = lateSave \ {c}
    /\ sessions' = [sessions EXCEPT ![c] = who[c]]
    /\ UNCHANGED <<credentials, users, rpc, reply, lateCreate, created>>

\* The TTL passes, or Logout deletes the key.
SessionEnds(c) ==
    /\ sessions[c] # Nobody
    /\ sessions' = [sessions EXCEPT ![c] = Nobody]
    /\ UNCHANGED <<credentials, users, rpc, reply, lateVars, created>>

Auth(c) ==
    \/ \E n \in Name, w \in Password : Identify(c, n, w)
    \/ CallRegister(c)
    \/ Create(c)
    \/ CallLogin(c)
    \/ LoginRefused(c)
    \/ Verify(c)
    \/ Save(c)
    \/ CallFails(c)
    \/ LateCreate(c)
    \/ LateSave(c)
    \/ SessionEnds(c)

Next == \E c \in Client : Auth(c)

Spec == Init /\ [][Next]_sessionVars

-----------------------------------------------------------------------------
\* Types; a client without a name has no call under way.
SessionTypeOK ==
    /\ who \in [Client -> Name \cup {Nobody}]
    /\ secret \in [Client -> Password \cup {Nobody}]
    /\ users \in [Name -> Password \cup {Nobody}]
    /\ sessions \in [Client -> Name \cup {Nobody}]
    /\ rpc \in [Client -> {"idle", "create", "find", "save"}]
    /\ token \in [Client -> {"none", "made", "known"}]
    /\ reply \in [Client -> Statuses]
    /\ lateCreate \in SUBSET Client
    /\ lateSave \in SUBSET Client
    /\ created \in SUBSET Client
    /\ \A c \in Client : who[c] = Nobody => rpc[c] = "idle"

\* c is who it says it is.
Owns(c, n) == who[c] = n /\ users[n] = secret[c] /\ n # Nobody

\* A session in Redis belongs to an account in Postgres, whose password its
\* opener gave, also when it was saved after the opener had given up
\* (auth.go:61-85).
SessionsAreEarned ==
    \A c \in Client : sessions[c] # Nobody => Owns(c, sessions[c])

\* An account is whose Register was acknowledged, for good: of all who try
\* to register a name, in time or late, one at most is told that it has it,
\* and that one's password opens it (user_repository.go:39-53).
AccountIsTheCreators ==
    /\ \A c \in created : Owns(c, who[c])
    /\ \A c, d \in created : who[c] = who[d] => c = d
=============================================================================
