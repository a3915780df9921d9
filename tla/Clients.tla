------------------------------- MODULE Clients -------------------------------
(***************************************************************************)
(* The client programs and what the server does for them: client.go, whose *)
(* user registers, logs in and then types lines at a prompt, and the login *)
(* of logload.go.  Sessions' calls, Play, the Chat stream and Leaderboard  *)
(* streams happen here as their clients make them.                         *)
(*                                                                         *)
(*   player   asked [--> registering] --> loggingIn --> connecting         *)
(*                   --> prompt <--> playing | sending ... --> over        *)
(*   loader   asked --> registering --> loggingIn --> in                   *)
(*                          \--> expired --> over                          *)
(*                                                                         *)
(* Left out: what is displayed, the cache and the signals behind Play (see *)
(* ScoreBoard) and the room behind Chat (see ChatHub).                     *)
(***************************************************************************)
EXTENDS Sessions, Integers

CONSTANTS
    Player,     \* runs of client.go
    Loader,     \* runs of logload.go
    MayBe,      \* MayBe[c]: the credentials c may be given
    Types,      \* Types[p]: the lines the user of p may type
    MaxTurns,   \* bound: turns a player takes
    MaxBoards,  \* bound: watchBoards of a player that run at a time
    Window      \* messages that gRPC's flow control lets a client send ahead

Word == {"cat", "dog", "status", ""}
Mode == {"/game", "/chat"}
Command == Mode \cup {"/leaderboard", "/quit"}

ASSUME ClientsAssumption ==
    /\ Client = Player \cup Loader
    /\ Player \cap Loader = {}
    /\ MayBe \in [Client -> SUBSET (Name \X Password)]
    /\ Types \in [Player -> SUBSET (Word \cup Command)]
    /\ MaxTurns \in Nat
    /\ MaxBoards \in Nat
    /\ Window \in Nat \ {0}

VARIABLES
    pc,        \* pc[c]: where the program stands
    mode,      \* mode[p]: the variable state, modeGame or modeChat
    boardOn,   \* boardOn[p]
    boards,    \* boards[p]: the watchBoard goroutines not told to stop
    leaving,   \* leaving[p]: those whose context is cancelled, still running
    word,      \* word[p]: the word in play
    turns,     \* turns[p]: how many words p has played
    turn,      \* turn[p]: where the handler of Play stands
    actor,     \* actor[p]: the username it resolved
    points,    \* points[n]: the column points of account n
    lateScore, \* UPDATEs nobody waits for any more
    wire,      \* wire[p]: chat messages sent and not yet received
    stream,    \* stream[p]: the handler of the Chat stream
    known,     \* known[p]: the username it resolved
    \* History, read by no guard of the code:
    acked,     \* acked[n]: the points that players of n were told of
    unsure     \* unsure[n]: the size of all turns of n that got no answer

promptVars == <<mode, boardOn, boards, leaving>>
playVars == <<word, turns, turn, actor, points, lateScore, acked, unsure>>
chatVars == <<wire, stream, known>>
programVars == <<promptVars, playVars, chatVars>>
clientVars == <<sessionVars, pc, programVars>>

ClientsInit ==
    /\ Init
    /\ pc = [c \in Client |-> "start"]
    /\ mode = [p \in Player |-> "/game"]
    /\ boardOn = [p \in Player |-> FALSE]
    /\ boards = [p \in Player |-> 0]
    /\ leaving = [p \in Player |-> 0]
    /\ word = [p \in Player |-> ""]
    /\ turns = [p \in Player |-> 0]
    /\ turn = [p \in Player |-> "none"]
    /\ actor = [p \in Player |-> Nobody]
    /\ points = [n \in Name |-> 0]
    /\ lateScore = {}
    /\ wire = [p \in Player |-> 0]
    /\ stream = [p \in Player |-> "none"]
    /\ known = [p \in Player |-> Nobody]
    /\ acked = [n \in Name |-> 0]
    /\ unsure = [n \in Name |-> 0]

Goes(c, from, to) ==
    /\ pc[c] = from
    /\ pc' = [pc EXCEPT ![c] = to]

Abs(i) == IF i < 0 THEN -i ELSE i

NoDeadline == FALSE                                \* bug: no WithTimeout
\* Every unary call is made with a deadline.
HasDeadline == TRUE

-----------------------------------------------------------------------------
(***************************************************************************)
(* From the start to a token.                                              *)
(***************************************************************************)

Begin(c) ==
    /\ Goes(c, "start", "asked")
    /\ \E id \in MayBe[c] : Identify(c, id[1], id[2])
    /\ UNCHANGED programVars

FatalUnlessOK(c, status) ==                        \* bug: as in client.go
    IF status = "OK" THEN "registered" ELSE "over"
\* An error is the end of a player; the loader tries to log in anyway.
AfterRegister(c, status) ==
    IF status = "OK" \/ c \in Loader THEN "registered" ELSE "over"

\* The player was asked and said y; the loader always registers.
Registers(c) ==
    /\ CallRegister(c)
    /\ Goes(c, "asked", IF rpc'[c] = "create" THEN "registering"
                                              ELSE AfterRegister(c, reply'[c]))
    /\ UNCHANGED programVars

RegisterReturns(c) ==
    /\ Create(c) \/ (rpc[c] = "create" /\ CallFails(c))
    /\ Goes(c, "registering", AfterRegister(c, reply'[c]))
    /\ UNCHANGED programVars

LogsIn(c) ==
    /\ CallLogin(c)
    /\ \/ Goes(c, "registered", "loggingIn")
       \/ c \in Player /\ Goes(c, "asked", "loggingIn")
    /\ UNCHANGED programVars

LoginGoesOn(c) == Verify(c) /\ UNCHANGED <<pc, programVars>>

LoginReturns(c) ==
    /\ Save(c)
    /\ Goes(c, "loggingIn", IF c \in Player THEN "connecting" ELSE "in")
    /\ UNCHANGED programVars

LoginFatal(c) ==
    /\ LoginRefused(c) \/ (rpc[c] # "create" /\ CallFails(c))
    /\ Goes(c, "loggingIn", "over")
    /\ UNCHANGED programVars

\* The ten seconds are over.
CallTimesOut(c) ==
    /\ HasDeadline
    /\ CallFails(c)
    /\ \/ Goes(c, "registering", IF c \in Loader THEN "expired" ELSE "over")
       \/ Goes(c, "loggingIn", "over")
    /\ UNCHANGED programVars

\* The loader's calls share their ten seconds: its Login is not sent.
LoginExpired(c) ==
    /\ Goes(c, "expired", "over")
    /\ UNCHANGED <<sessionVars, programVars>>

\* client.Chat; a player that gets no stream gives up.
OpenChat(p) ==
    /\ \/ /\ Goes(p, "connecting", "prompt")
          /\ stream' = [stream EXCEPT ![p] = "recv"]
       \/ /\ Goes(p, "connecting", "over")
          /\ UNCHANGED stream
    /\ UNCHANGED <<sessionVars, promptVars, playVars, wire, known>>

\* What goes on behind the programs.
Behind(c) ==
    /\ LateCreate(c) \/ LateSave(c) \/ SessionEnds(c)
    /\ UNCHANGED <<pc, programVars>>

-----------------------------------------------------------------------------
(***************************************************************************)
(* The prompt.                                                             *)
(***************************************************************************)

Typed(p, text) == pc[p] = "prompt" /\ text \in Types[p]

KeepBoard(p) == UNCHANGED <<boards, leaving>>      \* bug: no stopBoard()
\* stopBoard cancels the context of the last watchBoard, if it still runs;
\* the goroutine goes on until its Recv returns the error.
StopBoard(p) ==
    IF boards[p] = 0
    THEN UNCHANGED <<boards, leaving>>
    ELSE /\ boards' = [boards EXCEPT ![p] = @ - 1]
         /\ leaving' = [leaving EXCEPT ![p] = @ + 1]

\* Another watchBoard, whether or not the one before is gone.
StartBoard(p) ==
    /\ boards[p] + leaving[p] < MaxBoards
    /\ boards' = [boards EXCEPT ![p] = @ + 1]
    /\ UNCHANGED leaving

ToggleBoard(p) ==
    /\ Typed(p, "/leaderboard")
    /\ boardOn' = [boardOn EXCEPT ![p] = ~@]
    /\ IF boardOn[p] THEN StopBoard(p) ELSE StartBoard(p)
    /\ UNCHANGED <<sessionVars, pc, mode, playVars, chatVars>>

\* The Recv of a cancelled watchBoard returns the error.
BoardEnds(p) ==
    /\ leaving[p] > 0
    /\ leaving' = [leaving EXCEPT ![p] = @ - 1]
    /\ UNCHANGED <<sessionVars, pc, mode, boardOn, boards, playVars, chatVars>>

\* watchBoard returns at an error of its stream; boardOn stays.
BoardBreaks(p) ==
    /\ boards[p] > 0
    /\ boards' = [boards EXCEPT ![p] = @ - 1]
    /\ UNCHANGED <<sessionVars, pc, mode, boardOn, leaving, playVars, chatVars>>

ChangeMode(p) ==
    /\ \E m \in Mode : Typed(p, m) /\ mode' = [mode EXCEPT ![p] = m]
    /\ UNCHANGED <<sessionVars, pc, boardOn, boards, leaving, playVars, chatVars>>

\* The handler of the Chat stream returns, with what it knows.
ChatEnds(p) ==
    /\ stream' = [stream EXCEPT ![p] = "ended"]
    /\ known' = [known EXCEPT ![p] = Nobody]
    /\ wire' = [wire EXCEPT ![p] = 0]

\* The process ends, and with it the connection and every stream.
Quit(p) ==
    /\ Typed(p, "/quit")
    /\ Goes(p, "prompt", "over")
    /\ mode' = [mode EXCEPT ![p] = "/game"]
    /\ boardOn' = [boardOn EXCEPT ![p] = FALSE]
    /\ boards' = [boards EXCEPT ![p] = 0]
    /\ leaving' = [leaving EXCEPT ![p] = 0]
    /\ ChatEnds(p)
    /\ UNCHANGED <<sessionVars, playVars>>

-----------------------------------------------------------------------------
(***************************************************************************)
(* A turn: the client and the handler of Play.                             *)
(***************************************************************************)

ScoreWord ==
    [w \in Word |-> CASE w = "cat" -> 1 [] w = "dog" -> -1 [] OTHER -> 0]

Delta(p) == ScoreWord[word[p]]

PlayWord(p) ==
    /\ mode[p] = "/game"
    /\ turns[p] < MaxTurns
    /\ Goes(p, "prompt", "playing")
    /\ \E w \in Word : Typed(p, w) /\ word' = [word EXCEPT ![p] = w]
    /\ turns' = [turns EXCEPT ![p] = @ + 1]
    /\ turn' = [turn EXCEPT ![p] = "resolve"]
    /\ unsure' = [unsure EXCEPT ![who[p]] = @ + Abs(ScoreWord[word'[p]])]
    /\ UNCHANGED <<sessionVars, promptVars, chatVars, actor, points,
                   lateScore, acked>>

\* Play goes on behind the waiting client.
TurnGoes(p, from, to) ==
    /\ turn[p] = from
    /\ turn' = [turn EXCEPT ![p] = to]
    /\ UNCHANGED <<sessionVars, promptVars, chatVars, pc, word, turns,
                   lateScore, acked, unsure>>

\* The turn is over, its variables are gone, and the prompt is back.
TurnEnds(p, from) ==
    /\ turn[p] = from
    /\ turn' = [turn EXCEPT ![p] = "none"]
    /\ Goes(p, "playing", "prompt")
    /\ word' = [word EXCEPT ![p] = ""]
    /\ actor' = [actor EXCEPT ![p] = Nobody]
    /\ UNCHANGED <<sessionVars, promptVars, chatVars, turns, points>>

\* An answer: these points for its player, so nothing is unsure about it.
Answered(p, delta) ==
    /\ acked' = [acked EXCEPT ![who[p]] = @ + delta]
    /\ unsure' = [unsure EXCEPT ![who[p]] = @ - Abs(Delta(p))]
    /\ UNCHANGED lateScore

Resolve(p) ==
    /\ sessions[p] # Nobody
    /\ TurnGoes(p, "resolve", "score")
    /\ actor' = [actor EXCEPT ![p] = sessions[p]]
    /\ UNCHANGED points

\* Unauthenticated.
NotLoggedIn(p) ==
    /\ sessions[p] = Nobody
    /\ TurnEnds(p, "resolve")
    /\ Answered(p, 0)

\* The UPDATE finds the row of n; otherwise AddPoints fails with NotFound.
Found(n) == users[n] # Nobody
Added(n, delta) ==
    IF Found(n) THEN [points EXCEPT ![n] = @ + delta] ELSE points

AddPoints(p) ==
    /\ TurnGoes(p, "score", "scored")
    /\ points' = Added(actor[p], Delta(p))
    /\ UNCHANGED actor

PlayReturns(p) ==
    /\ TurnEnds(p, "scored")
    /\ Answered(p, IF Found(actor[p]) THEN Delta(p) ELSE 0)

\* No answer: an error of a database or of the network, or three seconds.
\* The UPDATE may be on its way, or executed.
Unanswered(p) ==
    /\ \E at \in {"resolve", "score", "scored"} : TurnEnds(p, at)
    /\ lateScore' = IF turn[p] = "score"
                    THEN lateScore \cup {<<p, turns[p], actor[p], Delta(p)>>}
                    ELSE lateScore
    /\ UNCHANGED <<acked, unsure>>

Again(s) == lateScore                              \* bug: tried again
Rest(s) == lateScore \ {s}

LateScore(s) ==
    /\ points' = Added(s[3], s[4])
    /\ lateScore' = Rest(s)
    /\ UNCHANGED <<sessionVars, pc, promptVars, chatVars, word, turns, turn,
                   actor, acked, unsure>>

-----------------------------------------------------------------------------
(***************************************************************************)
(* A chat message: the client, the wire, and the handler of Chat.          *)
(***************************************************************************)

\* An empty line says nothing.
Say(p) ==
    /\ mode[p] = "/chat"
    /\ \E w \in Word \ {""} : Typed(p, w)
    /\ Goes(p, "prompt", "sending")
    /\ UNCHANGED <<sessionVars, programVars>>

AlwaysRoom(p) == TRUE                              \* bug: no flow control
WireHasRoom(p) == wire[p] < Window

\* Send returns as soon as there is room on the wire.
SendOk(p) ==
    /\ stream[p] # "ended"
    /\ WireHasRoom(p)
    /\ Goes(p, "sending", "prompt")
    /\ wire' = [wire EXCEPT ![p] = @ + 1]
    /\ UNCHANGED <<sessionVars, promptVars, playVars, stream, known>>

\* Its break leaves the switch, not the loop: back to the prompt.
SendFails(p) ==
    /\ stream[p] = "ended"
    /\ Goes(p, "sending", "prompt")
    /\ UNCHANGED <<sessionVars, programVars>>

StreamGoes(p, from, to) ==
    /\ stream[p] = from
    /\ stream' = [stream EXCEPT ![p] = to]
    /\ UNCHANGED <<sessionVars, pc, promptVars, playVars>>

\* The head of the wire is heard by the room (see ChatHub).
ChatRecv(p) ==
    /\ wire[p] > 0
    /\ StreamGoes(p, "recv", IF known[p] = Nobody THEN "auth" ELSE "recv")
    /\ wire' = [wire EXCEPT ![p] = @ - 1]
    /\ UNCHANGED known

\* A token that does not resolve costs the message, and the next one is
\* tried again.
ChatAuth(p) ==
    /\ StreamGoes(p, "auth", "recv")
    /\ \E n \in {sessions[p], Nobody} : known' = [known EXCEPT ![p] = n]
    /\ UNCHANGED wire

StreamBreaks(p) ==
    /\ stream[p] \in {"recv", "auth"}
    /\ ChatEnds(p)
    /\ UNCHANGED <<sessionVars, pc, promptVars, playVars>>

-----------------------------------------------------------------------------
LoginSteps(c) ==
    \/ Begin(c)
    \/ Registers(c)
    \/ RegisterReturns(c)
    \/ LogsIn(c)
    \/ LoginGoesOn(c)
    \/ LoginReturns(c)
    \/ LoginFatal(c)
    \/ CallTimesOut(c)
    \/ LoginExpired(c)
    \/ Behind(c)

Prompt(p) ==
    \/ OpenChat(p)
    \/ ToggleBoard(p)
    \/ BoardEnds(p)
    \/ BoardBreaks(p)
    \/ ChangeMode(p)
    \/ Quit(p)

Play(p) ==
    \/ PlayWord(p)
    \/ Resolve(p)
    \/ NotLoggedIn(p)
    \/ AddPoints(p)
    \/ PlayReturns(p)
    \/ Unanswered(p)

Chat(p) ==
    \/ Say(p)
    \/ SendOk(p)
    \/ SendFails(p)
    \/ ChatRecv(p)
    \/ ChatAuth(p)
    \/ StreamBreaks(p)

AllOver == (\A c \in Client : pc[c] \in {"over", "in"}) /\ UNCHANGED clientVars

ClientsNext ==
    \/ \E c \in Client : LoginSteps(c)
    \/ \E p \in Player : Prompt(p) \/ Play(p) \/ Chat(p)
    \/ \E s \in lateScore : LateScore(s)
    \/ AllOver

ClientsSpec == ClientsInit /\ [][ClientsNext]_clientVars

\* Deadlines pass, a program goes on when it can, gRPC ends the Recv of a
\* cancelled context, and the chat handler reads on: go-redis answers or
\* fails within a timeout of its own.  Nothing is assumed of Postgres, of
\* Play, or of a user.
GivesUp(c) == CallTimesOut(c) \/ (c \in Player /\ HasDeadline /\ Unanswered(c))

Fairness ==
    \A c \in Client :
        /\ WF_clientVars(GivesUp(c))
        /\ WF_clientVars(pc[c] = "registered" /\ LogsIn(c))
        /\ WF_clientVars(LoginExpired(c))
        /\ c \in Player =>
              /\ WF_clientVars(OpenChat(c))
              /\ WF_clientVars(BoardEnds(c))
              /\ WF_clientVars(SendOk(c) \/ SendFails(c))
              /\ WF_clientVars(ChatRecv(c) \/ ChatAuth(c))

FairClientsSpec == ClientsSpec /\ Fairness

-----------------------------------------------------------------------------
\* Types.
ClientTypeOK ==
    /\ SessionTypeOK
    /\ pc \in [Client -> {"start", "asked", "registering", "registered",
                          "expired", "loggingIn", "connecting", "in",
                          "prompt", "playing", "sending", "over"}]
    /\ mode \in [Player -> Mode]
    /\ boardOn \in [Player -> BOOLEAN]
    /\ boards \in [Player -> Nat]
    /\ leaving \in [Player -> Nat]
    /\ word \in [Player -> Word]
    /\ turns \in [Player -> Nat]
    /\ turn \in [Player -> {"none", "resolve", "score", "scored"}]
    /\ actor \in [Player -> Name \cup {Nobody}]
    /\ points \in [Name -> Int]
    /\ lateScore \in SUBSET (Player \X Nat \X Name \X {-1, 0, 1})
    /\ wire \in [Player -> 0 .. Window]
    /\ stream \in [Player -> {"none", "recv", "auth", "ended"}]
    /\ known \in [Player -> Name \cup {Nobody}]
    /\ acked \in [Name -> Int]
    /\ unsure \in [Name -> Int]

\* Whoever scores or speaks under a name is the owner of that account, also
\* when the session has ended since: the names that Play and Chat resolved,
\* the one for a turn and the other for a whole stream, stay true
\* (game_handler.go:54-58, 86-100).
NoImpersonation ==
    \A p \in Player :
        /\ turn[p] \in {"score", "scored"} => Owns(p, actor[p])
        /\ known[p] # Nobody => Owns(p, known[p])

\* The points of an account are those its players were told of, give or
\* take the turns that got no answer: an answered turn counts once, the
\* others once at most, whenever their UPDATE is executed (game.go:39-46,
\* client.go:119-125).
TurnsCount ==
    \A n \in Name : Abs(points[n] - acked[n]) <= unsure[n]

\* A leaderboard that was turned off goes away: though stopBoard only
\* cancels a context, and a board may be turned on again while the last one
\* still shows its final reply, nothing is left running once the user leaves
\* it off (client.go:80-104, 142-158).
BoardGoesOff ==
    \A p \in Player :
        ~boardOn[p] ~> (boardOn[p] \/ boards[p] + leaving[p] = 0)

\* The load generator can be run repeatedly: whatever became of Register,
\* also when its answer was lost, it ends without a token only if Login was
\* left without an answer or without time, or if the account, at that moment,
\* does not have its password (logload.go:95-109).
LoaderGetsIn ==
    [][\A c \in Loader :
          pc[c] # "over" /\ pc'[c] = "over" =>
              \/ pc[c] = "expired"
              \/ pc[c] = "loggingIn" /\ reply'[c] = "Internal"
              \/ users[who[c]] # secret[c]]_clientVars

\* A player comes back to the prompt, or ends, though the databases stall:
\* every unary call has a deadline, and a chat message needs only room on
\* the wire (client.go:47-61, 117-135).
PromptReturns ==
    \A c \in Client :
        pc[c] \in {"registering", "registered", "expired", "loggingIn",
                   "connecting", "playing", "sending"}
            ~> pc[c] \in {"prompt", "in", "over"}
=============================================================================
