\* Channels of capacity one: the second unread message is lost.
CONSTANTS
    alice = alice
    bob = bob
    m1 = m1
    m2 = m2
    m3 = m3
    Msg = {m1, m2, m3}
    Stream = {alice, bob}
    Says <- Conversation
    Buffer = 1
SPECIFICATION FairSpec
INVARIANTS
    TypeOK
    NoSendOnClosed
    OneOrder
    HeardFromThenOn
PROPERTIES
    ImplementsRoom
    SpeakerIsServed
    SenderEnds
