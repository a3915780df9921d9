--------------------------- MODULE ClientsProofs ---------------------------
(***************************************************************************)
(* What the programs at both ends of the calls keep, for any number of     *)
(* players and loaders: their calls are the calls of Sessions, nobody      *)
(* scores or speaks under a name that is not its own, a loader that could  *)
(* log in has logged in, and the points of an account are what its players *)
(* were told, but for turns without answer.                                *)
(***************************************************************************)
EXTENDS Clients, SessionsProofs, FiniteSetTheorems

\* No watchBoard is out of stopBoard's reach: of those that were not told to
\* stop there is one at most, and none once the board was turned off.
OneBoard ==
    \A p \in Player : boards[p] <= (IF boardOn[p] THEN 1 ELSE 0)

ClientInv ==
    /\ SessionInv
    /\ ClientTypeOK
    /\ NoImpersonation
    /\ OneBoard

LEMMA WhoIsAClient ==
    /\ \A p \in Player : p \in Client
    /\ \A c \in Client : c \notin Player => c \in Loader
    /\ \A p \in Player : p \notin Loader
  BY ClientsAssumption DEF ClientsAssumption

LEMMA InitClients == ClientsInit => ClientInv
  <1> SUFFICES ASSUME ClientsInit PROVE ClientInv
    OBVIOUS
  <1>1. SessionInv
    BY InitSession DEF ClientsInit
  <1>2. ClientTypeOK
    <2>1. Window \in Nat
      BY ClientsAssumption DEF ClientsAssumption
    <2>2. wire \in [Player -> 0 .. Window]
      <3>1. wire = [p \in Player |-> 0]
        BY DEF ClientsInit
      <3>2. QED
        BY <2>1, <3>1
    <2>3. /\ boards \in [Player -> Nat] /\ leaving \in [Player -> Nat]
          /\ turns \in [Player -> Nat]
          /\ points \in [Name -> Int] /\ acked \in [Name -> Int]
          /\ unsure \in [Name -> Int]
      <3>1. /\ boards = [p \in Player |-> 0] /\ leaving = [p \in Player |-> 0]
            /\ turns = [p \in Player |-> 0]
            /\ points = [n \in Name |-> 0] /\ acked = [n \in Name |-> 0]
            /\ unsure = [n \in Name |-> 0]
        BY DEF ClientsInit
      <3>2. QED
        BY <3>1
    <2>4. lateScore \in SUBSET (Player \X Nat \X Name \X {-1, 0, 1})
      BY DEF ClientsInit
    <2>5. QED
      BY <1>1, <2>2, <2>3, <2>4
      DEF ClientsInit, SessionInv, ClientTypeOK, Mode, Word
  <1>3. NoImpersonation
    BY DEF ClientsInit, NoImpersonation
  <1>4. OneBoard
    <2>1. \A p \in Player : boards[p] = 0
      BY DEF ClientsInit
    <2>2. \A p \in Player : 0 <= (IF boardOn[p] THEN 1 ELSE 0)
      OBVIOUS
    <2>3. QED
      BY <2>1, <2>2 DEF OneBoard
  <1>5. QED
    BY <1>1, <1>2, <1>3, <1>4 DEF ClientInv

-----------------------------------------------------------------------------
\* What a step of a program is to the accounts and the sessions: a step of
\* Sessions, unless the loader has no time left to call.
LEMMA LoginIsAuth ==
    ASSUME NEW c \in Client, LoginSteps(c)
    PROVE  Auth(c) \/ UNCHANGED sessionVars
  <1>1. CASE Begin(c)
    <2>1. PICK id \in MayBe[c] : Identify(c, id[1], id[2])
      BY <1>1 DEF Begin
    <2>2. id[1] \in Name /\ id[2] \in Password
      BY ClientsAssumption DEF ClientsAssumption
    <2>3. QED
      BY <2>1, <2>2 DEF Auth
  <1>2. CASE ~Begin(c)
    BY <1>2 DEF LoginSteps, Registers, RegisterReturns, LogsIn, LoginGoesOn,
                LoginReturns, LoginFatal, CallTimesOut, LoginExpired, Behind,
                Auth
  <1>3. QED
    BY <1>1, <1>2

LEMMA PlayerLeavesSessions ==
    ASSUME NEW p \in Player, Prompt(p) \/ Play(p) \/ Chat(p)
    PROVE  UNCHANGED sessionVars
  <1>1. CASE Prompt(p)
    BY <1>1 DEF Prompt, OpenChat, ToggleBoard, BoardEnds, BoardBreaks,
                ChangeMode, Quit
  <1>2. CASE Play(p)
    BY <1>2 DEF Play, PlayWord, Resolve, NotLoggedIn, AddPoints, PlayReturns,
                Unanswered, TurnGoes, TurnEnds
  <1>3. CASE Chat(p)
    BY <1>3 DEF Chat, Say, SendOk, SendFails, ChatRecv, ChatAuth, StreamBreaks,
                StreamGoes
  <1>4. QED
    BY <1>1, <1>2, <1>3

LEMMA StepIsSessions == [ClientsNext]_clientVars => [Next]_sessionVars
  <1>1. ASSUME NEW c \in Client, LoginSteps(c)
        PROVE  Next \/ UNCHANGED sessionVars
    BY <1>1, LoginIsAuth DEF Next
  <1>2. ASSUME NEW p \in Player, Prompt(p) \/ Play(p) \/ Chat(p)
        PROVE  UNCHANGED sessionVars
    BY <1>2, PlayerLeavesSessions
  <1>3. ASSUME NEW s \in lateScore, LateScore(s)
        PROVE  UNCHANGED sessionVars
    BY <1>3 DEF LateScore
  <1>4. CASE UNCHANGED clientVars
    BY <1>4 DEF clientVars
  <1>5. QED
    BY <1>1, <1>2, <1>3, <1>4 DEF ClientsNext, AllOver

-----------------------------------------------------------------------------
\* The names that Play and Chat resolved stay true whoever takes a step.
LEMMA OwnersAreKept ==
    ASSUME SessionInv, [Next]_sessionVars, NEW c \in Client, NEW n, Owns(c, n)
    PROVE  Owns(c, n)'
  <1>1. CASE Next
    <2>1. PICK d \in Client : Auth(d)
      BY <1>1 DEF Next
    <2>2. Grows
      BY <2>1, StepGrows
    <2>3. n \in Name
      BY DEF Owns, SessionInv, SessionTypeOK
    <2>4. QED
      BY <2>2, <2>3, OwnersStay
  <1>2. CASE UNCHANGED sessionVars
    BY <1>2 DEF sessionVars, Owns
  <1>3. QED
    BY <1>1, <1>2

\* The steps from the start to a token leave the rest of a program alone.
LEMMA LoginLeaves ==
    ASSUME ClientInv, NEW c \in Client, LoginSteps(c)
    PROVE  /\ UNCHANGED programVars
           /\ pc' \in [Client -> {"start", "asked", "registering",
                  "registered", "expired", "loggingIn", "connecting", "in",
                  "prompt", "playing", "sending", "over"}]
  BY DEF ClientInv, ClientTypeOK, LoginSteps, Begin, Registers,
         RegisterReturns, LogsIn, LoginGoesOn, LoginReturns, LoginFatal,
         CallTimesOut, LoginExpired, Behind, Goes, AfterRegister

\* What a score is worth.
LEMMA DeltaType ==
    ASSUME ClientInv, NEW p \in Player
    PROVE  /\ Delta(p) \in {-1, 0, 1}
           /\ \A w \in Word : ScoreWord[w] \in {-1, 0, 1}
  BY DEF ClientInv, ClientTypeOK, Delta, ScoreWord, Word

\* The account of a score keeps its type.
LEMMA PlusType ==
    ASSUME NEW f \in [Name -> Int], NEW n, NEW i \in Int
    PROVE  /\ [f EXCEPT ![n] = @ + i] \in [Name -> Int]
           /\ [f EXCEPT ![n] = @ - i] \in [Name -> Int]
  <1>1. CASE n \in Name
    <2>1. f[n] + i \in Int /\ f[n] - i \in Int
      BY <1>1
    <2>2. QED
      BY <1>1, <2>1
  <1>2. CASE n \notin Name
    BY <1>2
  <1>3. QED
    BY <1>1, <1>2

LEMMA AbsType == ASSUME NEW i \in Int PROVE Abs(i) \in Int
  BY DEF Abs

LEMMA AnsweredType ==
    ASSUME ClientInv, NEW p \in Player, NEW i \in Int, Answered(p, i)
    PROVE  acked' \in [Name -> Int] /\ unsure' \in [Name -> Int]
  <1>1. Delta(p) \in Int
    BY DeltaType
  <1>2. Abs(Delta(p)) \in Int
    BY <1>1, AbsType
  <1>3. QED
    BY <1>2, PlusType DEF Answered, ClientInv, ClientTypeOK

\* What is known of the board and its goroutines at a toggle, either way.
LEMMA ToggleKeeps ==
    ASSUME ClientInv, NEW p \in Player, ToggleBoard(p)
    PROVE  /\ boardOn' \in [Player -> BOOLEAN]
           /\ boards' \in [Player -> Nat]
           /\ leaving' \in [Player -> Nat]
           /\ OneBoard'
  <1>1. /\ boardOn \in [Player -> BOOLEAN]
        /\ boards \in [Player -> Nat]
        /\ leaving \in [Player -> Nat]
        /\ \A q \in Player : boards[q] <= (IF boardOn[q] THEN 1 ELSE 0)
    BY DEF ClientInv, ClientTypeOK, OneBoard
  <1>2. /\ boardOn' \in [Player -> BOOLEAN]
        /\ boardOn'[p] = ~boardOn[p]
        /\ \A q \in Player : q # p => boardOn'[q] = boardOn[q]
    BY <1>1 DEF ToggleBoard
  <1>3. CASE boardOn[p]
    <2>1. StopBoard(p)
      BY <1>3 DEF ToggleBoard
    <2>2. boards[p] = 0 \/ boards[p] = 1
      BY <1>1, <1>3
    <2>3. /\ boards' \in [Player -> Nat] /\ leaving' \in [Player -> Nat]
          /\ boards'[p] = 0
          /\ \A q \in Player : q # p => boards'[q] = boards[q]
      BY <1>1, <2>1, <2>2 DEF StopBoard
    <2>4. QED
      BY <1>1, <1>2, <1>3, <2>3 DEF OneBoard
  <1>4. CASE ~boardOn[p]
    <2>1. StartBoard(p)
      BY <1>4 DEF ToggleBoard
    <2>2. boards[p] = 0
      BY <1>1, <1>4
    <2>3. /\ boards' \in [Player -> Nat] /\ leaving' \in [Player -> Nat]
          /\ boards'[p] = 1
          /\ \A q \in Player : q # p => boards'[q] = boards[q]
      BY <1>1, <2>1, <2>2 DEF StartBoard
    <2>4. QED
      BY <1>1, <1>2, <1>4, <2>3 DEF OneBoard
  <1>5. QED
    BY <1>3, <1>4

LEMMA PromptKeeps ==
    ASSUME ClientInv, NEW p \in Player, Prompt(p), SessionInv'
    PROVE  ClientInv'
  <1> USE WhoIsAClient DEF ClientInv, ClientTypeOK, NoImpersonation, OneBoard, Owns,
          sessionVars, promptVars, playVars, chatVars, Goes, Typed, ChatEnds
  <1>0. SessionTypeOK'
    BY DEF SessionInv
  <1>1. CASE OpenChat(p)
    BY <1>0, <1>1 DEF OpenChat
  <1>2. CASE ToggleBoard(p)
    <2>1. ClientTypeOK'
      BY <1>0, <1>2, ToggleKeeps DEF ToggleBoard
    <2>2. NoImpersonation'
      BY <1>2 DEF ToggleBoard
    <2>3. QED
      BY <1>2, <2>1, <2>2, ToggleKeeps
  <1>3. CASE BoardBreaks(p)
    BY <1>0, <1>3 DEF BoardBreaks
  <1>4. CASE ChangeMode(p)
    BY <1>0, <1>4 DEF ChangeMode
  <1>7. CASE BoardEnds(p)
    BY <1>0, <1>7 DEF BoardEnds
  <1>5. CASE Quit(p)
    <2>1. ClientTypeOK'
      BY <1>0, <1>5, ClientsAssumption DEF Quit, Mode, ClientsAssumption
    <2>2. NoImpersonation'
      BY <1>5 DEF Quit
    <2>3. OneBoard'
      <3>1. boards'[p] = 0
        BY <1>5 DEF Quit
      <3>2. \A q \in Player : q # p => boards'[q] = boards[q] /\ boardOn'[q] = boardOn[q]
        BY <1>5 DEF Quit
      <3>3. \A q \in Player : 0 <= (IF boardOn'[q] THEN 1 ELSE 0)
        OBVIOUS
      <3>4. QED
        BY <3>1, <3>2, <3>3
    <2>4. QED
      BY <2>1, <2>2, <2>3
  <1>6. QED
    BY <1>1, <1>2, <1>3, <1>4, <1>5, <1>7 DEF Prompt

LEMMA ChatKeeps ==
    ASSUME ClientInv, NEW p \in Player, Chat(p), SessionInv'
    PROVE  ClientInv'
  <1> USE WhoIsAClient, ClientsAssumption
      DEF ClientInv, ClientTypeOK, NoImpersonation, OneBoard, Owns,
          sessionVars, promptVars, playVars, chatVars, programVars, Goes,
          Typed, ChatEnds, StreamGoes
  <1>0. SessionTypeOK'
    BY DEF SessionInv
  <1>1. CASE Say(p)
    BY <1>0, <1>1 DEF Say
  <1>2. CASE SendOk(p)
    BY <1>0, <1>2 DEF SendOk, WireHasRoom, ClientsAssumption
  <1>3. CASE SendFails(p)
    BY <1>0, <1>3 DEF SendFails
  <1>4. CASE ChatRecv(p)
    BY <1>0, <1>4 DEF ChatRecv, ClientsAssumption
  <1>5. CASE ChatAuth(p)
    BY <1>0, <1>5 DEF ChatAuth, SessionInv, SessionsAreEarned, SessionTypeOK
  <1>6. CASE StreamBreaks(p)
    BY <1>0, <1>6 DEF StreamBreaks, ClientsAssumption
  <1>7. QED
    BY <1>1, <1>2, <1>3, <1>4, <1>5, <1>6 DEF Chat

LEMMA PlayKeeps ==
    ASSUME ClientInv, NEW p \in Player, Play(p), SessionInv'
    PROVE  ClientInv'
  <1> USE WhoIsAClient, DeltaType
      DEF ClientInv, ClientTypeOK, NoImpersonation, OneBoard, Owns,
          sessionVars, promptVars, playVars, chatVars, Goes,
          Typed, TurnGoes, TurnEnds
  <1>0. SessionTypeOK'
    BY DEF SessionInv
  <1>1. CASE PlayWord(p)
    <2>1. PICK w \in Word : word' = [word EXCEPT ![p] = w]
      BY <1>1 DEF PlayWord
    <2>2. word'[p] = w /\ ScoreWord[w] \in Int
      BY <2>1
    <2>3. unsure' \in [Name -> Int]
      BY <1>1, <2>2, AbsType, PlusType DEF PlayWord
    <2>4. QED
      BY <1>0, <1>1, <2>1, <2>3 DEF PlayWord
  <1>2. CASE Resolve(p)
    BY <1>0, <1>2 DEF Resolve, SessionInv, SessionsAreEarned, SessionTypeOK
  <1>3. CASE NotLoggedIn(p)
    <2>1. Answered(p, 0)
      BY <1>3 DEF NotLoggedIn
    <2>2. acked' \in [Name -> Int] /\ unsure' \in [Name -> Int]
      <3> HIDE DEF ClientInv
      <3>1. QED
        BY <2>1, AnsweredType
    <2>3. QED
      BY <1>0, <1>3, <2>2 DEF NotLoggedIn, Word, Answered
  <1>4. CASE AddPoints(p)
    BY <1>0, <1>4 DEF AddPoints, Added
  <1>5. CASE PlayReturns(p)
    <2>1. PICK i \in Int : Answered(p, i)
      <3>1. (IF Found(actor[p]) THEN Delta(p) ELSE 0) \in Int
        OBVIOUS
      <3>2. Answered(p, IF Found(actor[p]) THEN Delta(p) ELSE 0)
        BY <1>5 DEF PlayReturns
      <3>3. QED
        BY <3>1, <3>2
    <2>2. acked' \in [Name -> Int] /\ unsure' \in [Name -> Int]
      <3> HIDE DEF ClientInv
      <3>1. QED
        BY <2>1, AnsweredType
    <2>3. QED
      BY <1>0, <1>5, <2>1, <2>2 DEF PlayReturns, Word, Answered
  <1>6. CASE Unanswered(p)
    <2>1. PICK at \in {"resolve", "score", "scored"} : TurnEnds(p, at)
      BY <1>6 DEF Unanswered
    <2>2. lateScore' \in SUBSET (Player \X Nat \X Name \X {-1, 0, 1})
      <3>1. CASE turn[p] = "score"
        <4>1. <<p, turns[p], actor[p], Delta(p)>>
                  \in Player \X Nat \X Name \X {-1, 0, 1}
          BY <3>1
        <4>2. QED
          BY <1>6, <3>1, <4>1 DEF Unanswered
      <3>2. CASE turn[p] # "score"
        BY <1>6, <3>2 DEF Unanswered
      <3>3. QED
        BY <3>1, <3>2
    <2>3. acked' = acked /\ unsure' = unsure
      BY <1>6 DEF Unanswered
    <2>4. QED
      BY <1>0, <2>1, <2>2, <2>3 DEF Word
  <1>7. QED
    BY <1>1, <1>2, <1>3, <1>4, <1>5, <1>6 DEF Play

LEMMA StepClients ==
    ASSUME ClientInv, [ClientsNext]_clientVars
    PROVE  ClientInv'
  <1>1. [Next]_sessionVars
    BY StepIsSessions
  <1>2. SessionInv'
    BY <1>1, StepSession DEF ClientInv
  <1>3. ASSUME NEW c \in Client, LoginSteps(c)
        PROVE  ClientInv'
    <2>1. \A p \in Player : \A n : Owns(p, n) => Owns(p, n)'
      BY <1>1, OwnersAreKept, WhoIsAClient DEF ClientInv
    <2>2. NoImpersonation'
      BY <2>1, <1>3, LoginLeaves
      DEF ClientInv, NoImpersonation, programVars, playVars, chatVars, Owns
    <2>3. QED
      BY <1>2, <1>3, <2>2, LoginLeaves
      DEF ClientInv, SessionInv, ClientTypeOK, OneBoard, programVars,
          promptVars, playVars, chatVars
  <1>4. ASSUME NEW p \in Player, Prompt(p) \/ Play(p) \/ Chat(p)
        PROVE  ClientInv'
    BY <1>2, <1>4, PromptKeeps, PlayKeeps, ChatKeeps
  <1>5. ASSUME NEW s \in lateScore, LateScore(s)
        PROVE  ClientInv'
    <2> USE DEF ClientInv, ClientTypeOK, LateScore, Added, Rest, sessionVars,
                promptVars, chatVars, NoImpersonation, OneBoard, Owns
    <2>1. s[3] \in Name /\ s[4] \in Int
      BY <1>5
    <2>2. QED
      BY <1>2, <1>5, <2>1 DEF SessionInv
  <1>6. CASE UNCHANGED clientVars
    BY <1>2, <1>6 DEF ClientInv, SessionInv, ClientTypeOK, NoImpersonation,
        OneBoard, Owns, clientVars, sessionVars, programVars, promptVars,
        playVars, chatVars
  <1>7. QED
    BY <1>3, <1>4, <1>5, <1>6 DEF ClientsNext, AllOver

-----------------------------------------------------------------------------
\* The programs call the RPCs the way Sessions has them called, so what
\* holds of accounts and sessions holds with them (client.go:170-234,
\* logload.go:88-110).
THEOREM ClientsRunSessions == ClientsSpec => Spec
  <1>1. ClientsInit => Init
    BY DEF ClientsInit
  <1>2. [ClientsNext]_clientVars => [Next]_sessionVars
    BY StepIsSessions
  <1>3. QED
    BY <1>1, <1>2, PTL DEF ClientsSpec, Spec

\* The invariant behind the theorems below.
THEOREM ClientsInvariant == ClientsSpec => []ClientInv
  <1>1. ClientInv /\ [ClientsNext]_clientVars => ClientInv'
    BY StepClients
  <1>2. QED
    BY InitClients, <1>1, PTL DEF ClientsSpec

\* Types, of any number of players and loaders.
THEOREM ClientTypes == ClientsSpec => []ClientTypeOK
  BY ClientsInvariant, PTL DEF ClientInv

\* Whoever scores or speaks under a name owns it, for any number of clients
\* and names (game_handler.go:54-58, 86-100).
THEOREM NobodyIsImpersonated == ClientsSpec => []NoImpersonation
  BY ClientsInvariant, PTL DEF ClientInv

\* However often a board is toggled, what still runs once it is off has been
\* told to stop (client.go:93-104): nothing keeps BoardGoesOff from it but
\* the time it takes.
THEOREM BoardsAreInReach == ClientsSpec => []OneBoard
  BY ClientsInvariant, PTL DEF ClientInv

\* How a loader may end without a token.
Excused(c) ==
    \/ pc[c] = "expired"
    \/ pc[c] = "loggingIn" /\ reply'[c] = "Internal"
    \/ users[who[c]] # secret[c]

\* The step that ends a loader without a token is Login's (logload.go:105).
LEMMA LoaderEnds ==
    ASSUME ClientInv, [ClientsNext]_clientVars, NEW c \in Loader, c \in Client,
           pc[c] # "over", pc'[c] = "over"
    PROVE  Excused(c)
  <1> USE WhoIsAClient DEF ClientInv, ClientTypeOK, SessionTypeOK, Goes
  <1>1. ASSUME NEW d \in Client, LoginSteps(d)
        PROVE  Excused(c)
    <2>1. CASE LoginFatal(d) \/ CallTimesOut(d)
      <3>1. d = c
        BY <2>1 DEF LoginFatal, CallTimesOut
      <3>2. pc[c] = "loggingIn"
        BY <2>1, <3>1 DEF LoginFatal, CallTimesOut
      <3>3. CASE CallFails(c)
        BY <3>2, <3>3 DEF CallFails, Answers, Excused
      <3>4. CASE LoginRefused(c)
        <4>1. who[c] # Nobody /\ secret[c] # Nobody
          BY <3>4 DEF LoginRefused, Answers, Waits, SessionInv, Pending
        <4>2. QED
          BY <3>4, <4>1 DEF LoginRefused, Matches, NameFree, Excused
      <3>5. QED
        BY <2>1, <3>1, <3>3, <3>4 DEF LoginFatal, CallTimesOut
    <2>2. CASE LoginExpired(d)
      BY <2>2 DEF LoginExpired, Excused
    <2>3. CASE ~LoginFatal(d) /\ ~CallTimesOut(d) /\ ~LoginExpired(d)
      BY <1>1, <2>3 DEF LoginSteps, Begin, Registers, RegisterReturns, LogsIn,
                   LoginGoesOn, LoginReturns, Behind, AfterRegister
    <2>4. QED
      BY <2>1, <2>2, <2>3
  <1>2. ASSUME NEW p \in Player, Prompt(p) \/ Play(p) \/ Chat(p)
        PROVE  FALSE
    <2>1. c # p
      BY DEF ClientsAssumption
    <2>2. CASE Prompt(p)
      BY <2>1, <2>2 DEF Prompt, OpenChat, ToggleBoard, BoardEnds, BoardBreaks,
                ChangeMode, Quit
    <2>3. CASE Play(p)
      <3>1. PlayWord(p) \/ (\E at : TurnEnds(p, at)) \/ pc' = pc
        BY <2>3 DEF Play, Resolve, NotLoggedIn, AddPoints, PlayReturns,
                    Unanswered, TurnGoes
      <3>2. pc' = pc \/ pc' = [pc EXCEPT ![p] = "playing"]
                     \/ pc' = [pc EXCEPT ![p] = "prompt"]
        BY <3>1 DEF PlayWord, TurnEnds
      <3>3. QED
        BY <2>1, <3>2
    <2>4. CASE Chat(p)
      BY <2>1, <2>4 DEF Chat, Say, SendOk, SendFails, ChatRecv, ChatAuth,
                 StreamBreaks, StreamGoes
    <2>5. QED
      BY <1>2, <2>2, <2>3, <2>4
  <1>3. ASSUME NEW s \in lateScore, LateScore(s)
        PROVE  FALSE
    BY <1>3 DEF LateScore
  <1>4. CASE UNCHANGED clientVars
    BY <1>4 DEF clientVars
  <1>5. QED
    BY <1>1, <1>2, <1>3, <1>4 DEF ClientsNext, AllOver

\* A loader is over without a token only if Login got no answer or no time,
\* or the account has another password, for any number of programs that
\* want the same account (logload.go:95-109).
THEOREM LoadersGetIn == ClientsSpec => LoaderGetsIn
  <1>1. ClientInv /\ [ClientsNext]_clientVars =>
            [\A c \in Loader :
                pc[c] # "over" /\ pc'[c] = "over" =>
                   \/ pc[c] = "expired"
                   \/ pc[c] = "loggingIn" /\ reply'[c] = "Internal"
                   \/ users[who[c]] # secret[c]]_clientVars
    <2>1. \A c \in Loader : c \in Client
      BY ClientsAssumption DEF ClientsAssumption
    <2>2. QED
      BY <2>1, LoaderEnds DEF Excused
  <1>2. QED
    BY ClientsInvariant, <1>1, PTL DEF ClientsSpec, LoaderGetsIn

-----------------------------------------------------------------------------
(***************************************************************************)
(* The ledger.  A turn of account n is open until its UPDATE is executed,  *)
(* then up or down until it is answered; what nobody waits for is late.    *)
(* Each of them is worth one point at most, and is in unsure with it.      *)
(***************************************************************************)

IsOpen(p) == turn[p] \in {"resolve", "score"} /\ Delta(p) # 0
IsUp(p) == turn[p] = "scored" /\ Delta(p) = 1
IsDown(p) == turn[p] = "scored" /\ Delta(p) = -1

Open(n) == {p \in Player : who[p] = n /\ IsOpen(p)}
Up(n) == {p \in Player : who[p] = n /\ IsUp(p)}
Down(n) == {p \in Player : who[p] = n /\ IsDown(p)}
Late(n) == {s \in lateScore : s[3] = n /\ s[4] # 0}

Finite(n) ==
    /\ IsFiniteSet(Open(n)) /\ IsFiniteSet(Up(n))
    /\ IsFiniteSet(Down(n)) /\ IsFiniteSet(Late(n))

\* What the points are ahead of the answers, without the turns in between.
Ahead(n) == points[n] - acked[n] - Cardinality(Up(n)) + Cardinality(Down(n))

\* What all turns of n that are in between, or late, can still change.
InBetween(n) ==
    Cardinality(Up(n)) + Cardinality(Down(n)) + Cardinality(Open(n))
        + Cardinality(Late(n))

Balanced(n) == Finite(n) /\ Abs(Ahead(n)) + InBetween(n) <= unsure[n]

LedgerInv ==
    /\ \A c \in Client : pc[c] # "start" => who[c] \in Name
    /\ \A p \in Player : turn[p] # "none" => pc[p] = "playing"
    /\ \A n \in Name : Balanced(n)

One(b) == IF b THEN 1 ELSE 0

\* An element that is put into a finite set, or taken out of it.
LEMMA SetStep ==
    ASSUME NEW S, NEW T, NEW x, IsFiniteSet(S),
           T = S \cup {x} \/ T = S \ {x}
    PROVE  /\ IsFiniteSet(T)
           /\ Cardinality(S) \in Nat /\ Cardinality(T) \in Nat
           /\ Cardinality(T) = Cardinality(S) + One(x \in T) - One(x \in S)
  BY FS_AddElement, FS_RemoveElement, FS_CardinalityType DEF One

\* A step of the turn of p: the turns of the others are where they were.
TurnOf(p) ==
    /\ who' = who
    /\ \A q \in Player : q # p => turn'[q] = turn[q] /\ word'[q] = word[q]

\* Nothing changes for another account.
LEMMA OtherAccounts ==
    ASSUME NEW p \in Player, TurnOf(p), NEW n \in Name, n # who[p],
           Balanced(n), Late(n)' = Late(n), points'[n] = points[n],
           acked'[n] = acked[n], unsure'[n] = unsure[n]
    PROVE  Balanced(n)'
  <1>1. Open(n)' = Open(n) /\ Up(n)' = Up(n) /\ Down(n)' = Down(n)
    BY DEF TurnOf, Open, Up, Down, IsOpen, IsUp, IsDown, Delta
  <1>2. QED
    BY <1>1 DEF Balanced, Finite, Ahead, InBetween

\* The account of p itself, but for its late turns.
LEMMA OwnAccount ==
    ASSUME NEW p \in Player, TurnOf(p), NEW n, n = who[p], Finite(n)
    PROVE  /\ IsFiniteSet(Open(n)') /\ IsFiniteSet(Up(n)') /\ IsFiniteSet(Down(n)')
           /\ Cardinality(Open(n)') =
                 Cardinality(Open(n)) + One(IsOpen(p)') - One(IsOpen(p))
           /\ Cardinality(Up(n)') = Cardinality(Up(n)) + One(IsUp(p)') - One(IsUp(p))
           /\ Cardinality(Down(n)') =
                 Cardinality(Down(n)) + One(IsDown(p)') - One(IsDown(p))
           /\ Cardinality(Open(n)) \in Nat /\ Cardinality(Open(n)') \in Nat
           /\ Cardinality(Up(n)) \in Nat /\ Cardinality(Up(n)') \in Nat
           /\ Cardinality(Down(n)) \in Nat /\ Cardinality(Down(n)') \in Nat
           /\ Cardinality(Late(n)) \in Nat
  <1>1. \A q \in Player : q # p => /\ IsOpen(q)' <=> IsOpen(q)
                                   /\ IsUp(q)' <=> IsUp(q)
                                   /\ IsDown(q)' <=> IsDown(q)
    BY DEF TurnOf, IsOpen, IsUp, IsDown, Delta
  <1>2. /\ Open(n)' = Open(n) \cup {p} \/ Open(n)' = Open(n) \ {p}
        /\ p \in Open(n) <=> IsOpen(p)
        /\ p \in Open(n)' <=> IsOpen(p)'
    BY <1>1 DEF TurnOf, Open
  <1>3. /\ Up(n)' = Up(n) \cup {p} \/ Up(n)' = Up(n) \ {p}
        /\ p \in Up(n) <=> IsUp(p)
        /\ p \in Up(n)' <=> IsUp(p)'
    BY <1>1 DEF TurnOf, Up
  <1>4. /\ Down(n)' = Down(n) \cup {p} \/ Down(n)' = Down(n) \ {p}
        /\ p \in Down(n) <=> IsDown(p)
        /\ p \in Down(n)' <=> IsDown(p)'
    BY <1>1 DEF TurnOf, Down
  <1>5. /\ IsFiniteSet(Open(n)) /\ IsFiniteSet(Up(n)) /\ IsFiniteSet(Down(n))
        /\ IsFiniteSet(Late(n))
    BY DEF Finite
  <1>6. /\ IsFiniteSet(Open(n)')
        /\ Cardinality(Open(n)) \in Nat /\ Cardinality(Open(n)') \in Nat
        /\ Cardinality(Open(n)') =
              Cardinality(Open(n)) + One(IsOpen(p)') - One(IsOpen(p))
    BY <1>2, <1>5, SetStep DEF One
  <1>7. /\ IsFiniteSet(Up(n)')
        /\ Cardinality(Up(n)) \in Nat /\ Cardinality(Up(n)') \in Nat
        /\ Cardinality(Up(n)') = Cardinality(Up(n)) + One(IsUp(p)') - One(IsUp(p))
    BY <1>3, <1>5, SetStep DEF One
  <1>8. /\ IsFiniteSet(Down(n)')
         /\ Cardinality(Down(n)) \in Nat /\ Cardinality(Down(n)') \in Nat
         /\ Cardinality(Down(n)') =
               Cardinality(Down(n)) + One(IsDown(p)') - One(IsDown(p))
    BY <1>4, <1>5, SetStep DEF One
  <1>9. Cardinality(Late(n)) \in Nat
    BY <1>5, FS_CardinalityType
  <1>10. QED
    BY <1>6, <1>7, <1>8, <1>9

\* A step balances the account when what it adds to both sides does.
LEMMA StepBalances ==
    ASSUME ClientTypeOK, ClientTypeOK', NEW p \in Player, TurnOf(p),
           NEW n \in Name, n = who[p], Balanced(n), IsFiniteSet(Late(n)'),
           NEW open \in Int, open = One(IsOpen(p)') - One(IsOpen(p)),
           NEW up \in Int, up = One(IsUp(p)') - One(IsUp(p)),
           NEW down \in Int, down = One(IsDown(p)') - One(IsDown(p)),
           NEW late \in Int,
           Cardinality(Late(n)') <= Cardinality(Late(n)) + late,
           NEW ahead \in Int,
           ahead = (points'[n] - points[n]) - (acked'[n] - acked[n]) - up + down,
           Abs(ahead) + up + down + open + late <= unsure'[n] - unsure[n]
    PROVE  Balanced(n)'
  <1>1. /\ points[n] \in Int /\ acked[n] \in Int /\ unsure[n] \in Int
        /\ points'[n] \in Int /\ acked'[n] \in Int /\ unsure'[n] \in Int
    BY DEF ClientTypeOK
  <1>2. Finite(n) /\ Abs(Ahead(n)) + InBetween(n) <= unsure[n]
    BY DEF Balanced
  <1>3. /\ IsFiniteSet(Open(n)') /\ IsFiniteSet(Up(n)') /\ IsFiniteSet(Down(n)')
        /\ Cardinality(Open(n)') = Cardinality(Open(n)) + open
        /\ Cardinality(Up(n)') = Cardinality(Up(n)) + up
        /\ Cardinality(Down(n)') = Cardinality(Down(n)) + down
        /\ Cardinality(Open(n)) \in Nat /\ Cardinality(Open(n)') \in Nat
        /\ Cardinality(Up(n)) \in Nat /\ Cardinality(Up(n)') \in Nat
        /\ Cardinality(Down(n)) \in Nat /\ Cardinality(Down(n)') \in Nat
        /\ Cardinality(Late(n)) \in Nat
    <2>1. /\ One(IsOpen(p)) \in Int /\ One(IsOpen(p)') \in Int
          /\ One(IsUp(p)) \in Int /\ One(IsUp(p)') \in Int
          /\ One(IsDown(p)) \in Int /\ One(IsDown(p)') \in Int
      BY DEF One
    <2>2. QED
      BY <1>2, <2>1, OwnAccount
  <1>4. Cardinality(Late(n)') \in Nat
    BY FS_CardinalityType
  <1>5. Ahead(n) \in Int /\ Ahead(n)' \in Int /\ Ahead(n)' = Ahead(n) + ahead
    BY <1>1, <1>3 DEF Ahead
  <1>6. /\ InBetween(n) \in Int /\ InBetween(n)' \in Int
        /\ InBetween(n)' <= InBetween(n) + up + down + open + late
    BY <1>3, <1>4 DEF InBetween
  <1>7. Abs(Ahead(n)') <= Abs(Ahead(n)) + Abs(ahead)
    BY <1>5 DEF Abs
  <1>8. Abs(Ahead(n)') \in Int /\ Abs(Ahead(n)) \in Int /\ Abs(ahead) \in Int
    BY <1>5 DEF Abs
  <1>9. Abs(Ahead(n)') + InBetween(n)' <= unsure'[n]
    BY <1>1, <1>2, <1>6, <1>7, <1>8
  <1>10. QED
    BY <1>3, <1>9 DEF Balanced, Finite

\* The account of a turn, and who it belongs to.
LEMMA TurnAccount ==
    ASSUME ClientInv, LedgerInv, NEW p \in Player, Play(p)
    PROVE  /\ who[p] \in Name
           /\ TurnOf(p)
           /\ pc[p] = "prompt" => turn[p] = "none"
           /\ turn[p] \in {"score", "scored"} =>
                 actor[p] = who[p] /\ Found(who[p])
           /\ \A c \in Client : pc'[c] # "start" => pc[c] # "start"
           /\ \A q \in Player : turn'[q] # "none" => pc'[q] = "playing"
  <1> USE WhoIsAClient DEF ClientInv, ClientTypeOK, TurnGoes, TurnEnds, Goes
  <1>1. pc[p] \in {"prompt", "playing"}
    BY DEF LedgerInv, Play, PlayWord, Resolve, NotLoggedIn, AddPoints,
           PlayReturns, Unanswered
  <1>2. who[p] \in Name
    BY <1>1 DEF LedgerInv
  <1>3. /\ who' = who
        /\ \E w, t : word' = [word EXCEPT ![p] = w] /\ turn' = [turn EXCEPT ![p] = t]
        /\ \/ pc' = [pc EXCEPT ![p] = "playing"]
           \/ pc' = [pc EXCEPT ![p] = "prompt"] /\ turn'[p] = "none"
           \/ pc' = pc /\ pc[p] = "playing"
    <2>0. turn[p] # "none" => pc[p] = "playing"
      BY DEF LedgerInv
    <2>1. CASE PlayWord(p)
      BY <2>1 DEF PlayWord, sessionVars
    <2>2. CASE Resolve(p) \/ AddPoints(p)
      <3>1. PICK from \in {"resolve", "score"}, to \in {"score", "scored"} :
                TurnGoes(p, from, to)
        BY <2>2 DEF Resolve, AddPoints
      <3>2. /\ word' = word /\ word' = [word EXCEPT ![p] = word[p]]
            /\ turn' = [turn EXCEPT ![p] = to] /\ pc' = pc /\ who' = who
            /\ turn[p] # "none"
        BY <3>1 DEF sessionVars
      <3>3. QED
        BY <2>0, <3>2
    <2>3. CASE NotLoggedIn(p) \/ PlayReturns(p) \/ Unanswered(p)
      <3>1. PICK from : TurnEnds(p, from)
        BY <2>3 DEF NotLoggedIn, PlayReturns, Unanswered
      <3>2. QED
        BY <3>1 DEF sessionVars
    <2>4. QED
      BY <2>1, <2>2, <2>3 DEF Play
  <1>31. TurnOf(p)
    BY <1>3 DEF TurnOf
  <1>4. turn[p] \in {"score", "scored"} => actor[p] = who[p] /\ Found(who[p])
    <2>1. who[p] # Nobody => secret[p] # Nobody
      BY DEF SessionInv, Pending
    <2>2. QED
      BY <2>1 DEF NoImpersonation, Owns, Found
  <1>5. pc[p] = "prompt" => turn[p] = "none"
    BY DEF LedgerInv
  <1>6. \A c \in Client : pc'[c] # "start" => pc[c] # "start"
    BY <1>1, <1>3
  <1>7. \A q \in Player : turn'[q] # "none" => pc'[q] = "playing"
    <2>1. \A q \in Player : turn[q] # "none" => pc[q] = "playing"
      BY DEF LedgerInv
    <2>2. QED
      BY <1>3, <2>1
  <1>8. QED
    BY <1>2, <1>31, <1>4, <1>5, <1>6, <1>7

\* No score is worth more than one point, and a prompt's word is worth none.
LEMMA Worth ==
    ASSUME ClientInv, NEW p \in Player
    PROVE  /\ Delta(p) \in {-1, 0, 1}
           /\ word[p] = "" => Delta(p) = 0
  BY DeltaType DEF Delta, ScoreWord, ClientInv, ClientTypeOK, Word

\* The account of p, by the step of its turn that is taken.
LEMMA PlayBalances ==
    ASSUME ClientInv, ClientInv', LedgerInv, NEW p \in Player, Play(p),
           NEW n \in Name, n = who[p]
    PROVE  Balanced(n)'
  <1> DEFINE open == One(IsOpen(p)') - One(IsOpen(p))
             up == One(IsUp(p)') - One(IsUp(p))
             down == One(IsDown(p)') - One(IsDown(p))
             ahead == (points'[n] - points[n]) - (acked'[n] - acked[n]) - up + down
             grows(late) == Abs(ahead) + up + down + open + late
                               <= unsure'[n] - unsure[n]
  <1>1. /\ ClientTypeOK /\ ClientTypeOK' /\ p \in Client
        /\ points[n] \in Int /\ acked[n] \in Int /\ unsure[n] \in Int
        /\ points'[n] \in Int /\ acked'[n] \in Int /\ unsure'[n] \in Int
        /\ word[p] \in Word /\ word'[p] \in Word
        /\ turn[p] \in {"none", "resolve", "score", "scored"}
    BY WhoIsAClient DEF ClientInv, ClientTypeOK
  <1>2. Delta(p) \in {-1, 0, 1} /\ Delta(p)' \in {-1, 0, 1}
    <2>1. Delta(p)' \in {-1, 0, 1}
      BY <1>1 DEF Delta, ScoreWord, Word
    <2>2. QED
      BY <2>1, Worth
  <1>3. TurnOf(p) /\ Balanced(n) /\ IsFiniteSet(Late(n))
        /\ (turn[p] \in {"score", "scored"} => actor[p] = n /\ Found(n))
        /\ (pc[p] = "prompt" => turn[p] = "none")
    BY TurnAccount DEF LedgerInv, Balanced, Finite
  <1>4. open \in Int /\ up \in Int /\ down \in Int /\ ahead \in Int
    BY <1>1 DEF One
  <1>5. ASSUME NEW late \in Int, grows(late), IsFiniteSet(Late(n)'),
               Cardinality(Late(n)') <= Cardinality(Late(n)) + late
        PROVE  Balanced(n)'
    <2> HIDE DEF open, up, down, ahead
    <2>1. /\ open = One(IsOpen(p)') - One(IsOpen(p))
          /\ up = One(IsUp(p)') - One(IsUp(p))
          /\ down = One(IsDown(p)') - One(IsDown(p))
          /\ ahead = (points'[n] - points[n]) - (acked'[n] - acked[n]) - up + down
      BY DEF open, up, down, ahead
    <2>2. QED
      BY <1>1, <1>3, <1>4, <1>5, <2>1, StepBalances
  <1>6. ASSUME grows(0), lateScore' = lateScore
        PROVE  Balanced(n)'
    <2>1. Late(n)' = Late(n)
      BY <1>6 DEF Late
    <2>2. Cardinality(Late(n)) \in Nat
      BY <1>3, FS_CardinalityType
    <2>3. Cardinality(Late(n)') <= Cardinality(Late(n)) + 0
      BY <2>1, <2>2
    <2> HIDE DEF grows
    <2>4. QED
      BY <1>3, <1>5, <1>6, <2>1, <2>3
  <1>7. CASE PlayWord(p)
    <2>1. /\ turn[p] = "none" /\ turn'[p] = "resolve"
          /\ points' = points /\ acked' = acked /\ lateScore' = lateScore
          /\ unsure'[n] = unsure[n] + Abs(Delta(p)')
      BY <1>1, <1>3, <1>7
      DEF PlayWord, Goes, ClientTypeOK, Delta
    <2>2. grows(0)
      BY <1>1, <1>2, <2>1 DEF IsOpen, IsUp, IsDown, One, Abs
    <2>3. QED
      BY <1>6, <2>1, <2>2
  <1>8. CASE Resolve(p)
    <2>1. /\ turn[p] = "resolve" /\ turn'[p] = "score" /\ Delta(p)' = Delta(p)
          /\ points' = points /\ acked' = acked /\ lateScore' = lateScore
          /\ unsure' = unsure
      BY <1>1, <1>8 DEF Resolve, TurnGoes, ClientTypeOK, Delta
    <2>2. grows(0)
      BY <1>1, <1>2, <2>1 DEF IsOpen, IsUp, IsDown, One, Abs
    <2>3. QED
      BY <1>6, <2>1, <2>2
  <1>9. CASE AddPoints(p)
    <2>1. /\ turn[p] = "score" /\ turn'[p] = "scored" /\ Delta(p)' = Delta(p)
          /\ acked' = acked /\ lateScore' = lateScore /\ unsure' = unsure
          /\ points' = Added(actor[p], Delta(p))
      BY <1>1, <1>9 DEF AddPoints, TurnGoes, ClientTypeOK, Delta
    <2>2. points'[n] = points[n] + Delta(p)
      BY <1>1, <1>3, <2>1 DEF Added, ClientTypeOK
    <2>3. grows(0)
      BY <1>1, <1>2, <2>1, <2>2 DEF IsOpen, IsUp, IsDown, One, Abs
    <2>4. QED
      BY <1>6, <2>1, <2>3
  <1>10. CASE NotLoggedIn(p) \/ PlayReturns(p)
    <2>1. PICK d \in {0, Delta(p)} :
              /\ Answered(p, d) /\ points' = points /\ turn'[p] = "none"
              /\ \/ turn[p] = "resolve" /\ d = 0
                 \/ turn[p] = "scored" /\ d = Delta(p)
      <3>1. CASE NotLoggedIn(p)
        BY <1>1, <3>1 DEF NotLoggedIn, TurnEnds, ClientTypeOK
      <3>2. CASE PlayReturns(p)
        BY <1>1, <1>3, <3>2 DEF PlayReturns, TurnEnds, ClientTypeOK
      <3>3. QED
        BY <1>10, <3>1, <3>2
    <2>2. /\ lateScore' = lateScore /\ acked'[n] = acked[n] + d
          /\ unsure'[n] = unsure[n] - Abs(Delta(p))
      BY <1>1, <2>1 DEF Answered, ClientTypeOK
    <2>3. One(IsOpen(p)') = 0 /\ One(IsUp(p)') = 0 /\ One(IsDown(p)') = 0
      BY <2>1 DEF IsOpen, IsUp, IsDown, One
    <2>5. grows(0)
      <3>1. CASE turn[p] = "resolve" /\ d = 0
        BY <1>1, <1>2, <2>1, <2>2, <2>3, <3>1 DEF IsOpen, IsUp, IsDown, One, Abs
      <3>2. CASE turn[p] = "scored" /\ d = Delta(p)
        <4>1. /\ One(IsOpen(p)) = 0
              /\ One(IsUp(p)) = (IF d = 1 THEN 1 ELSE 0)
              /\ One(IsDown(p)) = (IF d = -1 THEN 1 ELSE 0)
          BY <3>2 DEF IsOpen, IsUp, IsDown, One
        <4>2. ahead = -d + One(IsUp(p)) - One(IsDown(p))
          BY <1>1, <1>2, <2>1, <2>2, <2>3, <3>2, <4>1
        <4>3. /\ ahead = 0 /\ open = 0
              /\ up + down = -Abs(d)
          BY <1>2, <2>3, <3>2, <4>1, <4>2 DEF Abs
        <4>4. /\ Abs(ahead) = 0 /\ Abs(d) \in Int
              /\ unsure'[n] - unsure[n] = -Abs(d)
          BY <1>1, <1>2, <2>2, <3>2, <4>3 DEF Abs
        <4>5. Abs(ahead) + up + down + open + 0 <= unsure'[n] - unsure[n]
          <5> HIDE DEF ahead, up, down, open
          <5>1. QED
            BY <1>4, <4>3, <4>4
        <4>6. QED
          BY <4>5
      <3>3. QED
        BY <2>1, <3>1, <3>2
    <2>4. QED
      BY <1>6, <2>2, <2>5
  <1>11. CASE Unanswered(p)
    <2>1. /\ points' = points /\ acked' = acked /\ unsure' = unsure
          /\ turn[p] # "none" /\ turn'[p] = "none"
      BY <1>1, <1>11 DEF Unanswered, TurnEnds, ClientTypeOK
    <2>2. CASE turn[p] # "score"
      <3>1. grows(0)
        BY <1>1, <1>2, <2>1, <2>2 DEF IsOpen, IsUp, IsDown, One, Abs
      <3>2. QED
        BY <1>6, <1>11, <2>2, <3>1 DEF Unanswered
    <2>3. CASE turn[p] = "score"
      <3> DEFINE s == <<p, turns[p], actor[p], Delta(p)>>
      <3>1. /\ lateScore' = lateScore \cup {s}
            /\ s[3] = n /\ s[4] = Delta(p)
        BY <1>3, <1>11, <2>3 DEF Unanswered
      <3>2. CASE Delta(p) = 0
        <4>1. Late(n)' = Late(n)
          BY <3>1, <3>2 DEF Late
        <4>2. grows(0)
          BY <1>1, <1>2, <2>1, <2>3, <3>2 DEF IsOpen, IsUp, IsDown, One, Abs
        <4>3. Cardinality(Late(n)') <= Cardinality(Late(n)) + 0
          BY <1>3, <4>1, FS_CardinalityType
        <4>4. QED
          BY <1>3, <1>5, <4>1, <4>2, <4>3
      <3>3. CASE Delta(p) # 0
        <4>1. Late(n)' = Late(n) \cup {s}
          BY <3>1, <3>3 DEF Late
        <4>2. grows(1)
          BY <1>1, <1>2, <2>1, <2>3, <3>3 DEF IsOpen, IsUp, IsDown, One, Abs
        <4>3. /\ IsFiniteSet(Late(n)')
              /\ Cardinality(Late(n)') <= Cardinality(Late(n)) + 1
          BY <1>3, <4>1, SetStep DEF One
        <4>4. QED
          BY <1>5, <4>2, <4>3
      <3>4. QED
        BY <3>2, <3>3
    <2>4. QED
      BY <2>2, <2>3
  <1>12. QED
    BY <1>7, <1>8, <1>9, <1>10, <1>11 DEF Play

\* A step of the turn of p keeps all accounts balanced.
LEMMA PlayLedger ==
    ASSUME ClientInv, ClientInv', LedgerInv, NEW p \in Player, Play(p)
    PROVE  LedgerInv'
  <1>1. /\ who[p] \in Name /\ TurnOf(p)
        /\ turn[p] \in {"score", "scored"} => actor[p] = who[p]
        /\ \A c \in Client : pc'[c] # "start" => pc[c] # "start"
        /\ \A q \in Player : turn'[q] # "none" => pc'[q] = "playing"
    BY TurnAccount
  <1>2. ASSUME NEW n \in Name, n # who[p]
        PROVE  Balanced(n)'
    <2>1. /\ points'[n] = points[n] /\ acked'[n] = acked[n]
          /\ unsure'[n] = unsure[n]
      <3>1. \/ points' = points
            \/ points' = Added(who[p], Delta(p))
        BY <1>1 DEF Play, PlayWord, Resolve, NotLoggedIn, AddPoints,
           PlayReturns, Unanswered, TurnGoes, TurnEnds
      <3>2. \/ acked' = acked
            \/ \E i : acked' = [acked EXCEPT ![who[p]] = i]
        BY DEF Play, PlayWord, Resolve, NotLoggedIn, AddPoints,
           PlayReturns, Unanswered, TurnGoes, Answered
      <3>3. \/ unsure' = unsure
            \/ \E i : unsure' = [unsure EXCEPT ![who[p]] = i]
        BY DEF Play, PlayWord, Resolve, NotLoggedIn, AddPoints,
           PlayReturns, Unanswered, TurnGoes, Answered
      <3>4. QED
        BY <1>1, <1>2, <3>1, <3>2, <3>3 DEF Added, ClientInv, ClientTypeOK
    <2>2. Late(n)' = Late(n)
      <3>1. \/ lateScore' = lateScore
            \/ lateScore' = lateScore \cup {<<p, turns[p], who[p], Delta(p)>>}
        BY <1>1 DEF Play, PlayWord, Resolve, NotLoggedIn, AddPoints,
           PlayReturns, Unanswered, TurnGoes, TurnEnds, Answered
      <3>2. <<p, turns[p], who[p], Delta(p)>>[3] # n
        BY <1>2
      <3>3. QED
        BY <3>1, <3>2 DEF Late
    <2>3. Balanced(n)
      BY DEF LedgerInv
    <2>4. QED
      BY <1>1, <1>2, <2>1, <2>2, <2>3, OtherAccounts
  <1>3. \A n \in Name : Balanced(n)'
    BY <1>2, PlayBalances
  <1>4. \A c \in Client : pc'[c] # "start" => who'[c] \in Name
    BY <1>1 DEF LedgerInv, TurnOf
  <1>5. QED
    BY <1>1, <1>3, <1>4 DEF LedgerInv

\* An UPDATE that nobody waits for is executed once, for what it is worth.
LEMMA LateLedger ==
    ASSUME ClientInv, ClientInv', LedgerInv, NEW s \in lateScore, LateScore(s)
    PROVE  LedgerInv'
  <1>1. /\ UNCHANGED <<who, pc, word, turn, acked, unsure>>
        /\ points' = Added(s[3], s[4]) /\ lateScore' = lateScore \ {s}
        /\ s[3] \in Name /\ s[4] \in {-1, 0, 1}
    BY DEF LateScore, Rest, sessionVars, ClientInv, ClientTypeOK
  <1>2. ASSUME NEW n \in Name
        PROVE  Balanced(n)'
    <2>1. /\ points[n] \in Int /\ acked[n] \in Int /\ unsure[n] \in Int
          /\ points'[n] \in Int
      BY DEF ClientInv, ClientTypeOK
    <2>2. Open(n)' = Open(n) /\ Up(n)' = Up(n) /\ Down(n)' = Down(n)
      BY <1>1 DEF Open, Up, Down, IsOpen, IsUp, IsDown, Delta
    <2>3. Finite(n) /\ Abs(Ahead(n)) + InBetween(n) <= unsure[n]
      BY DEF LedgerInv, Balanced
    <2>4. /\ Cardinality(Open(n)) \in Nat /\ Cardinality(Up(n)) \in Nat
          /\ Cardinality(Down(n)) \in Nat /\ Cardinality(Late(n)) \in Nat
      BY <2>3, FS_CardinalityType DEF Finite
    <2>5. CASE s[3] = n /\ s[4] # 0
      <3>1. Late(n)' = Late(n) \ {s} /\ s \in Late(n)
        BY <1>1, <2>5 DEF Late
      <3>2. /\ IsFiniteSet(Late(n)')
            /\ Cardinality(Late(n)') = Cardinality(Late(n)) - 1
        BY <2>3, <3>1, FS_RemoveElement DEF Finite
      <3>3. points'[n] - points[n] \in {-1, 0, 1}
        BY <1>1, <2>1, <2>5 DEF Added, ClientInv, ClientTypeOK
      <3>4. /\ Ahead(n) \in Int /\ Ahead(n)' \in Int
            /\ Ahead(n)' - Ahead(n) \in {-1, 0, 1}
        BY <1>1, <2>1, <2>2, <2>4, <3>3 DEF Ahead
      <3>5. /\ Abs(Ahead(n)') <= Abs(Ahead(n)) + 1
            /\ Abs(Ahead(n)') \in Int /\ Abs(Ahead(n)) \in Int
        BY <3>4 DEF Abs
      <3>6. InBetween(n)' = InBetween(n) - 1 /\ InBetween(n) \in Int
        BY <2>2, <2>4, <3>2 DEF InBetween
      <3>7. Abs(Ahead(n)') + InBetween(n)' <= unsure'[n]
        BY <1>1, <2>1, <2>3, <3>5, <3>6
      <3>8. QED
        BY <2>2, <2>3, <3>2, <3>7 DEF Balanced, Finite
    <2>6. CASE ~(s[3] = n /\ s[4] # 0)
      <3>1. Late(n)' = Late(n)
        BY <1>1, <2>6 DEF Late
      <3>2. points'[n] = points[n]
        BY <1>1, <2>1, <2>6 DEF Added, ClientInv, ClientTypeOK
      <3>3. QED
        BY <1>1, <2>2, <2>3, <3>1, <3>2 DEF Balanced, Finite, Ahead, InBetween
    <2>7. QED
      BY <2>5, <2>6
  <1>3. QED
    BY <1>1, <1>2 DEF LedgerInv

\* No turn goes on in the other steps: nobody under way changes its name.
LEMMA IdleLedger ==
    ASSUME LedgerInv, UNCHANGED playVars,
           \A q \in Player : turn[q] # "none" => who'[q] = who[q] /\ pc'[q] = pc[q],
           \A c \in Client : pc'[c] # "start" => who'[c] \in Name
    PROVE  LedgerInv'
  <1>1. UNCHANGED <<word, turn, points, lateScore, acked, unsure>>
    BY DEF playVars
  <1>2. ASSUME NEW n \in Name
        PROVE  Balanced(n)'
    <2>1. /\ Open(n)' = Open(n) /\ Up(n)' = Up(n) /\ Down(n)' = Down(n)
          /\ Late(n)' = Late(n)
      BY <1>1 DEF Open, Up, Down, Late, IsOpen, IsUp, IsDown, Delta
    <2>2. QED
      BY <1>1, <2>1 DEF LedgerInv, Balanced, Finite, Ahead, InBetween
  <1>3. \A q \in Player : turn'[q] # "none" => pc'[q] = "playing"
    BY <1>1 DEF LedgerInv
  <1>4. QED
    BY <1>2, <1>3 DEF LedgerInv

LEMMA LoginLedger ==
    ASSUME ClientInv, LedgerInv, NEW c \in Client, LoginSteps(c)
    PROVE  LedgerInv'
  <1>1. Grows
    <2>1. CASE Auth(c)
      BY <2>1, StepGrows DEF ClientInv
    <2>2. CASE UNCHANGED sessionVars
      BY <2>2 DEF sessionVars, credentials, stores, Grows
    <2>3. QED
      BY <2>1, <2>2, LoginIsAuth
  <1>2. UNCHANGED playVars
    BY LoginLeaves DEF programVars
  <1>3. /\ pc[c] # "playing"
           \/ pc' = pc
        /\ \A d \in Client : d # c => pc'[d] = pc[d]
        /\ pc[c] = "start" /\ pc'[c] # "start" => who'[c] \in Name
    <2>1. CASE Begin(c)
      <3>1. PICK id \in MayBe[c] : Identify(c, id[1], id[2])
        BY <2>1 DEF Begin
      <3>2. id[1] \in Name
        BY ClientsAssumption DEF ClientsAssumption
      <3>3. who'[c] = id[1]
        BY <3>1 DEF Identify, ClientInv, ClientTypeOK, SessionTypeOK
      <3>4. QED
        BY <2>1, <3>2, <3>3 DEF Begin, Goes, ClientInv, ClientTypeOK
    <2>2. CASE ~Begin(c)
      BY <2>2 DEF LoginSteps, Registers, RegisterReturns, LogsIn,
         LoginGoesOn, LoginReturns, LoginFatal, CallTimesOut, LoginExpired,
         Behind, Goes, ClientInv, ClientTypeOK
    <2>3. QED
      BY <2>1, <2>2
  <1>4. \A d \in Client : who[d] \in Name => who'[d] = who[d]
    BY <1>1, SessionsAssumption DEF Grows, SessionsAssumption
  <1>5. \A q \in Player : turn[q] # "none" => who'[q] = who[q] /\ pc'[q] = pc[q]
    BY <1>3, <1>4, WhoIsAClient DEF LedgerInv
  <1>6. \A d \in Client : pc'[d] # "start" => who'[d] \in Name
    BY <1>3, <1>4 DEF LedgerInv
  <1>7. QED
    BY <1>2, <1>5, <1>6, IdleLedger

LEMMA PromptLedger ==
    ASSUME ClientInv, LedgerInv, NEW p \in Player, Prompt(p) \/ Chat(p)
    PROVE  LedgerInv'
  <1>1. UNCHANGED playVars /\ who' = who
    <2>1. CASE Prompt(p)
      BY <2>1 DEF Prompt, OpenChat, ToggleBoard, BoardEnds, BoardBreaks, ChangeMode,
                  Quit, sessionVars
    <2>2. CASE Chat(p)
      BY <2>2 DEF Chat, Say, SendOk, SendFails, ChatRecv, ChatAuth,
                  StreamBreaks, StreamGoes, sessionVars, programVars
    <2>3. QED
      BY <2>1, <2>2
  <1>2. \/ pc' = pc
        \/ /\ pc[p] \in {"connecting", "prompt", "sending"}
           /\ \E to : pc' = [pc EXCEPT ![p] = to]
    <2>1. CASE Prompt(p)
      BY <2>1 DEF Prompt, OpenChat, ToggleBoard, BoardEnds, BoardBreaks, ChangeMode,
                  Quit, Goes
    <2>2. CASE Chat(p)
      BY <2>2 DEF Chat, Say, SendOk, SendFails, ChatRecv, ChatAuth,
                  StreamBreaks, StreamGoes, Goes
    <2>3. QED
      BY <2>1, <2>2
  <1>3. \A q \in Player : turn[q] # "none" => pc'[q] = pc[q]
    BY <1>2, WhoIsAClient DEF LedgerInv, ClientInv, ClientTypeOK
  <1>4. \A d \in Client : pc'[d] # "start" => pc[d] # "start"
    BY <1>2, WhoIsAClient DEF ClientInv, ClientTypeOK
  <1>5. \A d \in Client : pc'[d] # "start" => who'[d] \in Name
    BY <1>1, <1>4 DEF LedgerInv
  <1>6. QED
    BY <1>1, <1>3, <1>5, IdleLedger

LEMMA StepLedger ==
    ASSUME ClientInv, ClientInv', LedgerInv, [ClientsNext]_clientVars
    PROVE  LedgerInv'
  <1>1. ASSUME NEW c \in Client, LoginSteps(c)
        PROVE  LedgerInv'
    BY <1>1, LoginLedger
  <1>2. ASSUME NEW p \in Player, Prompt(p) \/ Play(p) \/ Chat(p)
        PROVE  LedgerInv'
    BY <1>2, PromptLedger, PlayLedger
  <1>3. ASSUME NEW s \in lateScore, LateScore(s)
        PROVE  LedgerInv'
    BY <1>3, LateLedger
  <1>4. CASE UNCHANGED clientVars
    <2>1. UNCHANGED playVars /\ who' = who /\ pc' = pc
      BY <1>4 DEF clientVars, sessionVars, programVars
    <2>2. QED
      BY <2>1, IdleLedger DEF LedgerInv
  <1>5. QED
    BY <1>1, <1>2, <1>3, <1>4 DEF ClientsNext, AllOver

LEMMA InitLedger == ClientsInit => LedgerInv
  <1> SUFFICES ASSUME ClientsInit PROVE LedgerInv
    OBVIOUS
  <1>1. ASSUME NEW n \in Name
        PROVE  Balanced(n)
    <2>1. Open(n) = {} /\ Up(n) = {} /\ Down(n) = {} /\ Late(n) = {}
      BY DEF ClientsInit, Open, Up, Down, Late, IsOpen, IsUp, IsDown
    <2>2. points[n] = 0 /\ acked[n] = 0 /\ unsure[n] = 0
      BY DEF ClientsInit
    <2>3. Finite(n)
      BY <2>1, FS_EmptySet DEF Finite
    <2>4. Ahead(n) = 0 /\ InBetween(n) = 0
      BY <2>1, <2>2, FS_EmptySet DEF Ahead, InBetween
    <2>5. QED
      BY <2>2, <2>3, <2>4 DEF Balanced, Abs
  <1>2. QED
    BY <1>1, WhoIsAClient DEF LedgerInv, ClientsInit

\* Points and answers differ by turns in between, late ones and unsure ones.
LEMMA BalancedCounts == ClientInv /\ LedgerInv => TurnsCount
  <1> SUFFICES ASSUME ClientInv, LedgerInv, NEW n \in Name
               PROVE  Abs(points[n] - acked[n]) <= unsure[n]
    BY DEF TurnsCount
  <1>1. points[n] \in Int /\ acked[n] \in Int /\ unsure[n] \in Int
    BY DEF ClientInv, ClientTypeOK
  <1>2. Finite(n) /\ Abs(Ahead(n)) + InBetween(n) <= unsure[n]
    BY DEF LedgerInv, Balanced
  <1>3. /\ Cardinality(Open(n)) \in Nat /\ Cardinality(Up(n)) \in Nat
        /\ Cardinality(Down(n)) \in Nat /\ Cardinality(Late(n)) \in Nat
    BY <1>2, FS_CardinalityType DEF Finite
  <1>4. QED
    BY <1>1, <1>2, <1>3 DEF Ahead, InBetween, Abs

\* The points of an account are those its players were told of, give or take
\* the turns without an answer, for any number of players of an account and
\* of turns, also when an UPDATE is executed long after its turn was given
\* up (game.go:39-46, client.go:119-125).
THEOREM TurnsAreCounted == ClientsSpec => []TurnsCount
  <1>1. ClientsInit => ClientInv /\ LedgerInv
    BY InitClients, InitLedger
  <1>2. ClientInv /\ LedgerInv /\ [ClientsNext]_clientVars
            => (ClientInv /\ LedgerInv)'
    BY StepClients, StepLedger
  <1>3. QED
    BY <1>1, <1>2, BalancedCounts, PTL DEF ClientsSpec
=============================================================================
