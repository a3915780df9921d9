--------------------------- MODULE SessionsProofs ---------------------------
(***************************************************************************)
(* What accounts and sessions are worth, for any number of clients, names  *)
(* and passwords, whatever fails and however late a statement is executed. *)
(***************************************************************************)
EXTENDS Sessions, TLAPS

\* Everything but the types that the proofs need to know of a client whose
\* INSERT or SET is under way, in time or late.
Pending ==
    /\ \A c \in Client : rpc[c] # "idle" => who[c] # Nobody
    /\ \A c \in lateCreate \cup lateSave : who[c] # Nobody
    /\ \A c \in Client : who[c] # Nobody => secret[c] # Nobody

\* Who has been verified owns the account, until and after the key is set.
Verified ==
    /\ \A c \in Client : rpc[c] = "save" => Owns(c, who[c])
    /\ \A c \in lateSave : Owns(c, who[c])
    /\ \A c \in Client : sessions[c] # Nobody => sessions[c] = who[c]

SessionInv ==
    /\ SessionTypeOK
    /\ Pending
    /\ Verified
    /\ SessionsAreEarned
    /\ AccountIsTheCreators

USE SessionsAssumption

LEMMA InitSession == Init => SessionInv
  BY DEF Init, SessionInv, SessionTypeOK, Pending, Verified,
         SessionsAreEarned, AccountIsTheCreators, Owns, Statuses

-----------------------------------------------------------------------------
\* A status that a step assigns is one.
LEMMA StatusType ==
    /\ "none" \in Statuses /\ "OK" \in Statuses /\ "Internal" \in Statuses
    /\ StatusOf.ErrEmptyCredentials \in Statuses
    /\ StatusOf.ErrUserExists \in Statuses
    /\ StatusOf.ErrInvalidCredentials \in Statuses
  BY DEF Statuses, StatusOf

\* A name that is taken and the credentials of a program never change.
Grows ==
    /\ \A c \in Client : who[c] # Nobody => who'[c] = who[c] /\ secret'[c] = secret[c]
    /\ \A n \in Name : users[n] # Nobody => users'[n] = users[n]

LEMMA StepGrows ==
    ASSUME SessionInv, NEW c \in Client, Auth(c)
    PROVE  Grows
  <1> USE DEF SessionInv, SessionTypeOK, Pending, Grows, Waits, Answers,
              credentials, stores, lateVars
  <1>1. CASE \E n \in Name, w \in Password : Identify(c, n, w)
    BY <1>1 DEF Identify
  <1>2. CASE Create(c)
    BY <1>2 DEF Create, Inserted, NameFree
  <1>3. CASE LateCreate(c)
    BY <1>3 DEF LateCreate, Inserted, NameFree
  <1>4. CASE ~Create(c) /\ ~LateCreate(c)
             /\ ~(\E n \in Name, w \in Password : Identify(c, n, w))
    <2>1. UNCHANGED <<who, secret, users>>
      BY <1>4 DEF Auth, CallRegister, CallLogin, LoginRefused, Verify, Save,
                  CallFails, LateSave, SessionEnds
    <2>2. QED
      BY <2>1
  <1>5. QED
    BY <1>1, <1>2, <1>3, <1>4

\* Hence an owner stays one.
LEMMA OwnersStay ==
    ASSUME SessionInv, Grows, NEW c \in Client, NEW n \in Name, Owns(c, n)
    PROVE  Owns(c, n)'
  BY DEF SessionInv, SessionTypeOK, Pending, Grows, Owns

LEMMA StepSessionType ==
    ASSUME SessionInv, NEW c \in Client, Auth(c)
    PROVE  SessionTypeOK' /\ Pending'
  <1> USE StatusType DEF SessionInv, SessionTypeOK, Pending, Waits, Answers,
              credentials, stores, lateVars
  <1>1. CASE \E n \in Name, w \in Password : Identify(c, n, w)
    BY <1>1 DEF Identify
  <1>2. CASE CallRegister(c)
    BY <1>2 DEF CallRegister
  <1>3. CASE Create(c)
    BY <1>3 DEF Create, Inserted
  <1>4. CASE CallLogin(c)
    BY <1>4 DEF CallLogin
  <1>5. CASE LoginRefused(c)
    BY <1>5 DEF LoginRefused
  <1>6. CASE Verify(c)
    BY <1>6 DEF Verify
  <1>7. CASE Save(c)
    BY <1>7 DEF Save
  <1>8. CASE CallFails(c)
    BY <1>8 DEF CallFails
  <1>9. CASE LateCreate(c)
    BY <1>9 DEF LateCreate, Inserted
  <1>10. CASE LateSave(c)
    BY <1>10 DEF LateSave
  <1>11. CASE SessionEnds(c)
    BY <1>11 DEF SessionEnds
  <1>12. QED
    BY <1>1, <1>2, <1>3, <1>4, <1>5, <1>6, <1>7, <1>8, <1>9, <1>10, <1>11
    DEF Auth

\* A session is saved by one who was verified; an account is inserted for
\* one who is told so only where there is none.
LEMMA StepSessionFacts ==
    ASSUME SessionInv, NEW c \in Client, Auth(c)
    PROVE  Verified' /\ SessionsAreEarned' /\ AccountIsTheCreators'
  <1>1. Grows
    BY StepGrows
  <1>2. SessionTypeOK' /\ Pending'
    BY StepSessionType
  <1>3. \A d \in Client, n \in Name : Owns(d, n) => Owns(d, n)'
    BY <1>1, OwnersStay
  <1>4. \A d \in Client : who[d] \in Name /\ Owns(d, who[d])
                           => who'[d] = who[d] /\ Owns(d, who[d])'
    BY <1>1, <1>3 DEF Grows, Owns
  <1>5. Verified'
    <2> USE DEF SessionInv, SessionTypeOK, Pending, Verified, Waits, Answers,
                credentials, stores, lateVars
    <2>1. ASSUME NEW d \in Client, rpc'[d] = "save"
          PROVE  Owns(d, who[d])
      BY <2>1 DEF Auth, Identify, CallRegister, Create, CallLogin, LoginRefused,
                  Verify, Save, CallFails, LateCreate, LateSave, SessionEnds,
                  Matches, NameFree, Owns
    <2>2. ASSUME NEW d \in lateSave'
          PROVE  Owns(d, who[d])
      BY <2>2 DEF Auth, Identify, CallRegister, Create, CallLogin, LoginRefused,
                  Verify, Save, CallFails, LateCreate, LateSave, SessionEnds
    <2>3. ASSUME NEW d \in Client, sessions'[d] # Nobody
          PROVE  sessions'[d] = who[d] /\ who[d] # Nobody
      BY <2>3 DEF Auth, Identify, CallRegister, Create, CallLogin, LoginRefused,
                  Verify, Save, CallFails, LateCreate, LateSave, SessionEnds
    <2>4. \A d \in Client : Owns(d, who[d]) => who[d] \in Name
      BY DEF Owns
    <2>5. \A d \in Client : rpc'[d] = "save" => Owns(d, who[d])'
      BY <2>1, <2>4, <1>4
    <2>6. lateSave' \subseteq Client
      BY <1>2
    <2>7. \A d \in lateSave' : Owns(d, who[d])'
      BY <2>2, <2>4, <2>6, <1>4
    <2>8. \A d \in Client : sessions'[d] # Nobody => sessions'[d] = who'[d]
      BY <2>3, <1>1 DEF Grows
    <2>9. QED
      BY <2>5, <2>7, <2>8, <1>4 DEF Owns
  <1>6. SessionsAreEarned'
    <2> USE DEF SessionInv, SessionTypeOK, Pending, Verified, Waits, Answers,
                credentials, stores, lateVars
    <2>1. ASSUME NEW d \in Client, sessions'[d] # Nobody
          PROVE  sessions'[d] \in Name /\ Owns(d, sessions'[d])
      BY <2>1 DEF Auth, Identify, CallRegister, Create, CallLogin, LoginRefused,
                  Verify, Save, CallFails, LateCreate, LateSave, SessionEnds,
                  SessionsAreEarned
    <2>2. QED
      BY <2>1, <1>1, <1>3 DEF SessionsAreEarned, Grows, Owns
  <1>7. AccountIsTheCreators'
    <2> USE DEF SessionInv, SessionTypeOK, Pending, AccountIsTheCreators,
                Waits, Answers, credentials, stores, lateVars
    <2>1. ASSUME NEW d \in created', d \notin created
          PROVE  /\ d = c /\ created' = created \cup {c} /\ Create(c)
                 /\ NameFree(c)
      BY <2>1 DEF Auth, Identify, CallRegister, Create, CallLogin, LoginRefused,
                  Verify, Save, CallFails, LateCreate, LateSave, SessionEnds
    <2>2. \A d \in created : d \in Client /\ who[d] \in Name
                              /\ Owns(d, who[d])
      BY DEF Owns
    <2>3. \A d \in created : who'[d] = who[d] /\ Owns(d, who[d])'
      BY <2>2, <1>4
    <2>4. CASE created' \subseteq created
      BY <2>2, <2>3, <2>4 DEF Owns
    <2>5. CASE ~(created' \subseteq created)
      <3>1. /\ created' = created \cup {c} /\ Create(c) /\ NameFree(c)
        BY <2>1, <2>5
      <3>2. who' = who /\ secret' = secret /\ users' = [users EXCEPT ![who[c]] = secret[c]]
        BY <3>1 DEF Create, Inserted
      <3>3. who[c] \in Name /\ who[c] # Nobody
        BY <3>1 DEF Create
      <3>4. Owns(c, who[c])'
        BY <3>2, <3>3 DEF Owns
      <3>5. \A d \in created : who[d] # who[c]
        BY <3>1, <3>3, <2>2 DEF NameFree, Owns
      <3>6. QED
        BY <3>1, <3>2, <3>4, <3>5, <2>2, <2>3 DEF Owns
    <2>6. QED
      BY <2>4, <2>5
  <1>8. QED
    BY <1>5, <1>6, <1>7

LEMMA StepSession ==
    ASSUME SessionInv, [Next]_sessionVars
    PROVE  SessionInv'
  <1>1. CASE Next
    <2>1. PICK c \in Client : Auth(c)
      BY <1>1 DEF Next
    <2>2. QED
      BY <2>1, StepSessionType, StepSessionFacts DEF SessionInv
  <1>2. CASE UNCHANGED sessionVars
    BY <1>2 DEF sessionVars, SessionInv, SessionTypeOK, Pending, Verified,
                SessionsAreEarned, AccountIsTheCreators, Owns, Statuses
  <1>3. QED
    BY <1>1, <1>2

-----------------------------------------------------------------------------
\* The invariant behind the two theorems: who waits for its SET, in time or
\* late, was verified, and neither a name nor a password changes after.
THEOREM SessionsInvariant == Spec => []SessionInv
  <1>1. SessionInv /\ [Next]_sessionVars => SessionInv'
    BY StepSession
  <1>2. QED
    BY InitSession, <1>1, PTL DEF Spec

\* No session without the password of its account, whatever fails and
\* however late the key is set (auth.go:61-85).
THEOREM EverySessionIsEarned == Spec => []SessionsAreEarned
  BY SessionsInvariant, PTL DEF SessionInv

\* Of all who register a name one at most is told it has it, and it keeps it
\* (user_repository.go:39-53).
THEOREM OneCreatorPerAccount == Spec => []AccountIsTheCreators
  BY SessionsInvariant, PTL DEF SessionInv
=============================================================================
