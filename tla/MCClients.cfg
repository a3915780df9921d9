\* A player and a load generator that want the same account: either may
\* come first, and with another password.
CONSTANTS
    p1 = p1
    bot = bot
    ann = ann
    x = x
    y = y
    Blank = Blank
    Nobody = Nobody
    Client = {p1, bot}
    Player = {p1}
    Loader = {bot}
    Name = {ann, Blank}
    Password = {x, y, Blank}
    MayBe <- Credentials
    Types <- Lines
    MaxTurns = 2
    MaxBoards = 2
    Window = 1
SPECIFICATION FairClientsSpec
INVARIANTS
    ClientTypeOK
    SessionsAreEarned
    AccountIsTheCreators
    NoImpersonation
    TurnsCount
PROPERTIES
    LoaderGetsIn
    BoardGoesOff
    PromptReturns
