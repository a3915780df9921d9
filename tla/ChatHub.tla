------------------------------ MODULE ChatHub ------------------------------
(***************************************************************************)
(* Chat: one bidirectional stream per client, joined by the in-process     *)
(* ChatBroadcaster.  A stream has two goroutines:                          *)
(*                                                                         *)
(*   the handler   Subscribe, then Recv --> Authenticate --> Publish ...   *)
(*                 until Recv fails, then unsubscribe;                     *)
(*   the sender    for msg := range messages { stream.Send(msg) }          *)
(*                                                                         *)
(* Publish holds the hub's mutex while it sends to one subscriber after    *)
(* another, and the senders empty the channels meanwhile, so each of its   *)
(* sends is a step.  Subscribe and unsubscribe touch the map and close the *)
(* channel in one critical section without a blocking operation: one step  *)
(* each.  A message is a model value; its text and its author are left out.*)
(***************************************************************************)
EXTENDS Naturals, Sequences, Functions

CONSTANTS
    Stream,   \* calls of Chat
    Msg,      \* the messages the clients send, all different
    Says,     \* Says[s]: the messages the client of s sends, in order
    Buffer    \* chatBuffer

ASSUME ChatAssumption ==
    /\ Says \in [Stream -> Seq(Msg)]
    /\ Buffer \in Nat \ {0}

\* A message stands for one call of Send: each is sent once.
ASSUME OnceAssumption ==
    \A s, r \in Stream : \A i \in DOMAIN Says[s], j \in DOMAIN Says[r] :
        Says[s][i] = Says[r][j] => s = r /\ i = j

VARIABLES
    hpc,        \* hpc[s]: where the handler of s stands
    known,      \* known[s]: username is resolved
    inbox,      \* inbox[s]: what the client sends from now on; its head is
                \* the message in the handler's hands
    subs,       \* the streams whose channel is in the map
    ch,         \* ch[s]: the channel of s, of capacity Buffer
    todo,       \* todo[s]: the subscribers Publish has yet to reach
    sender,     \* sender[s]: where the sender of s stands
    \* History, read by no guard of the code:
    got,        \* got[s]: what the sender took from the channel
    published,  \* the messages in the order Publish took the lock
    joined,     \* joined[s]: Len(published) when s subscribed
    overflowed  \* the streams that lost a message to a full channel

vars == <<hpc, known, inbox, subs, ch, todo, sender, got, published, joined,
          overflowed>>

handlerVars == <<hpc, known, inbox, todo>>
hubVars == <<subs, published, joined>>
channelVars == <<ch, overflowed>>
senderVars == <<sender, got>>

\* The hub's mutex: only Publish keeps it for more than one step.
LockFree == \A s \in Stream : hpc[s] # "publishing"

Init ==
    /\ hpc = [s \in Stream |-> "new"]
    /\ known = [s \in Stream |-> FALSE]
    /\ inbox = Says
    /\ subs = {}
    /\ ch = [s \in Stream |-> <<>>]
    /\ todo = [s \in Stream |-> {}]
    /\ sender = [s \in Stream |-> "off"]
    /\ got = [s \in Stream |-> <<>>]
    /\ published = <<>>
    /\ joined = [s \in Stream |-> 0]
    /\ overflowed = {}

-----------------------------------------------------------------------------
(***************************************************************************)
(* The handler.                                                            *)
(***************************************************************************)

Goes(s, from, to) ==
    /\ hpc[s] = from
    /\ hpc' = [hpc EXCEPT ![s] = to]

\* Subscribe, and go func() for the sender.
Subscribe(s) ==
    /\ LockFree
    /\ Goes(s, "new", "recv")
    /\ subs' = subs \cup {s}
    /\ joined' = [joined EXCEPT ![s] = Len(published)]
    /\ sender' = [sender EXCEPT ![s] = "ranging"]
    /\ UNCHANGED <<known, inbox, todo, published, channelVars, got>>

\* Recv returns a message; the token of an unknown stream is looked up.
Recv(s) ==
    /\ inbox[s] # <<>>
    /\ Goes(s, "recv", IF known[s] THEN "speaking" ELSE "authenticating")
    /\ UNCHANGED <<known, inbox, todo, hubVars, channelVars, senderVars>>

Forgets(s) == known                                \* bug: asked every time
\* username = resolved
Remembers(s) == [known EXCEPT ![s] = TRUE]

AuthOk(s) ==
    /\ Goes(s, "authenticating", "speaking")
    /\ known' = Remembers(s)
    /\ UNCHANGED <<inbox, todo, hubVars, channelVars, senderVars>>

\* continue: the message is dropped, the stream stays.
AuthFails(s) ==
    /\ Goes(s, "authenticating", "recv")
    /\ inbox' = [inbox EXCEPT ![s] = Tail(@)]
    /\ UNCHANGED <<known, todo, hubVars, channelVars, senderVars>>

NoLock == TRUE                                     \* bug: Publish unlocked
PublishLocked == LockFree

\* b.mu.Lock(); the loop will visit every channel of the map.
Publish(s) ==
    /\ PublishLocked
    /\ Goes(s, "speaking", "publishing")
    /\ todo' = [todo EXCEPT ![s] = subs]
    /\ published' = Append(published, Head(inbox[s]))
    /\ UNCHANGED <<known, inbox, subs, joined, channelVars, senderVars>>

AlwaysRoom(r) == TRUE                              \* bug: no capacity
Room(r) == Len(ch[r]) < Buffer

\* case ch <- msg
Deliver(r, msg) ==
    /\ Room(r)
    /\ ch' = [ch EXCEPT ![r] = Append(@, msg)]
    /\ UNCHANGED overflowed

\* default: the subscriber loses this message
Drop(r) ==
    /\ ~Room(r)
    /\ overflowed' = overflowed \cup {r}
    /\ UNCHANGED ch

DeliverOnly(r, msg) == Deliver(r, msg)             \* bug: a blocking send
Offer(r, msg) == Deliver(r, msg) \/ Drop(r)

PublishTo(s, r) ==
    /\ hpc[s] = "publishing"
    /\ r \in todo[s]
    /\ Offer(r, Head(inbox[s]))
    /\ todo' = [todo EXCEPT ![s] = @ \ {r}]
    /\ UNCHANGED <<hpc, known, inbox, hubVars, senderVars>>

ReachedSome(s) == todo[s] # subs                   \* bug: the first only
ReachedAll(s) == todo[s] = {}

\* The deferred Unlock, and back to Recv.
PublishDone(s) ==
    /\ Goes(s, "publishing", "recv")
    /\ ReachedAll(s)
    /\ todo' = [todo EXCEPT ![s] = {}]
    /\ inbox' = [inbox EXCEPT ![s] = Tail(@)]
    /\ UNCHANGED <<known, hubVars, channelVars, senderVars>>

\* Recv fails: the client closed, went away or was cut off.
RecvFails(s) ==
    /\ Goes(s, "recv", "leaving")
    /\ UNCHANGED <<known, inbox, todo, hubVars, channelVars, senderVars>>

UnsubscribeLocked == LockFree

\* The deferred unsubscribe: delete and close under the lock.  A channel is
\* closed exactly when its handler is "gone".
Unsubscribe(s) ==
    /\ UnsubscribeLocked
    /\ Goes(s, "leaving", "gone")
    /\ subs' = subs \ {s}
    /\ UNCHANGED <<known, inbox, todo, published, joined, channelVars,
                   senderVars>>

-----------------------------------------------------------------------------
(***************************************************************************)
(* The sender goroutine.                                                   *)
(***************************************************************************)

SenderGoes(s, from, to) ==
    /\ sender[s] = from
    /\ sender' = [sender EXCEPT ![s] = to]
    /\ UNCHANGED <<handlerVars, hubVars, overflowed>>

Take(s) ==
    /\ ch[s] # <<>>
    /\ ch' = [ch EXCEPT ![s] = Tail(@)]
    /\ got' = [got EXCEPT ![s] = Append(@, Head(ch[s]))]
    /\ SenderGoes(s, "ranging", "sending")

SendOk(s) == SenderGoes(s, "sending", "ranging") /\ UNCHANGED <<ch, got>>

\* The sender returns, and its subscription stays until Recv fails as well.
SendFails(s) == SenderGoes(s, "sending", "ended") /\ UNCHANGED <<ch, got>>

NeverClosed(s) == FALSE                            \* bug: no close(ch)
Closed(s) == hpc[s] = "gone"

\* range ends when the channel is closed and empty.
RangeEnds(s) ==
    /\ Closed(s)
    /\ ch[s] = <<>>
    /\ SenderGoes(s, "ranging", "ended")
    /\ UNCHANGED <<ch, got>>

\* Nobody is connected any more (SenderEnds looks after the senders).
AllGone ==
    /\ \A s \in Stream : hpc[s] = "gone"
    /\ UNCHANGED vars

Handle(s) ==
    \/ Subscribe(s)
    \/ Recv(s)
    \/ AuthOk(s)
    \/ AuthFails(s)
    \/ Publish(s)
    \/ \E r \in Stream : PublishTo(s, r)
    \/ PublishDone(s)
    \/ RecvFails(s)
    \/ Unsubscribe(s)

Send(s) ==
    \/ Take(s)
    \/ SendOk(s)
    \/ SendFails(s)
    \/ RangeEnds(s)

Next ==
    \/ \E s \in Stream : Handle(s)
    \/ \E s \in Stream : Send(s)
    \/ AllGone

Spec == Init /\ [][Next]_vars

(***************************************************************************)
(* Fairness.  A handler that can run does.  Go's mutex is handed to the    *)
(* longest waiter once that has starved for a millisecond, hence SF for    *)
(* the two steps that take it.  Nothing is assumed of a sender while its   *)
(* stream lives: Send blocks as long as the client does not read.  Once    *)
(* the handler has returned gRPC has ended the stream and Send cannot      *)
(* block.  No client has to connect, speak or leave.                       *)
(***************************************************************************)
Fairness ==
    \A s \in Stream :
        /\ WF_vars(AuthOk(s) \/ AuthFails(s))
        /\ SF_vars(Publish(s))
        /\ WF_vars(\E r \in Stream : PublishTo(s, r))
        /\ WF_vars(PublishDone(s))
        /\ SF_vars(Unsubscribe(s))
        /\ WF_vars(hpc[s] = "gone" /\ Send(s))

FairSpec == Spec /\ Fairness

-----------------------------------------------------------------------------
\* Everything that came through the channel of s, oldest first.
Heard(s) == got[s] \o ch[s]

\* Types, the capacity of the channels, and the mutex.
TypeOK ==
    /\ hpc \in [Stream -> {"new", "recv", "authenticating", "speaking",
                           "publishing", "leaving", "gone"}]
    /\ known \in [Stream -> BOOLEAN]
    /\ inbox \in [Stream -> Seq(Msg)]
    /\ subs \in SUBSET Stream
    /\ ch \in [Stream -> Seq(Msg)]
    /\ \A s \in Stream : Len(ch[s]) <= Buffer
    /\ todo \in [Stream -> SUBSET Stream]
    /\ sender \in [Stream -> {"off", "ranging", "sending", "ended"}]
    /\ got \in [Stream -> Seq(Msg)]
    /\ published \in Seq(Msg)
    /\ joined \in [Stream -> Nat]
    /\ overflowed \in SUBSET Stream

\* A Publish under way never meets a channel that has been closed, which
\* would panic and end the server (chat_broadcaster.go:44-45).
NoSendOnClosed ==
    \A s \in Stream : \A r \in todo[s] : hpc[r] # "gone"

\* m was published before n.
Before(m, n) ==
    \E i, j \in DOMAIN published :
        i < j /\ published[i] = m /\ published[j] = n

\* All clients see the conversation in the same order and no message twice,
\* however the publishers overlap and whatever was dropped.
OneOrder ==
    \A s \in Stream : \A i, j \in DOMAIN Heard(s) :
        i < j => Before(Heard(s)[i], Heard(s)[j])

\* Message i of s came to Publish, or is behind its handler.
Spoken(s, i) == \E k \in DOMAIN published : published[k] = Says[s][i]
Behind(s, i) == i <= Len(Says[s]) - Len(inbox[s])

\* Before the token resolves a message may be lost without a word; from the
\* first message that was published on none is, also when the session ends
\* meanwhile, and they are published in the order they were sent
\* (game_handler.go:92-100).
HeardFromThenOn ==
    \A s \in Stream : \A i, j \in DOMAIN Says[s] :
        i < j /\ Spoken(s, i) /\ Behind(s, j) => Before(Says[s][i], Says[s][j])

\* A subscriber whose channel was never full has been given everything
\* published since it joined, except what a Publish is still handing out
\* (chat_broadcaster.go:55-58: only the slow lose messages).
OnlyTheSlowMiss ==
    \A s \in subs \ overflowed :
        (\A p \in Stream : s \notin todo[p]) =>
            Heard(s) = SubSeq(published, joined[s] + 1, Len(published))

\* The hub implements ChatRoom: a Publish says its message when it takes the
\* lock, and is due to those that it has yet to reach; lock, channels and
\* goroutines are seen from outside as a message each hears or misses
\* (chat_broadcaster.go:29-68).
OneRoom ==
    INSTANCE ChatRoom WITH
        Member <- Stream,
        log    <- published,
        inside <- subs,
        left   <- {s \in Stream : hpc[s] = "gone"},
        since  <- joined,
        heard  <- [s \in Stream |-> Heard(s)],
        due    <- UNION {todo[s] : s \in Stream},
        slow   <- overflowed

ImplementsRoom == OneRoom!Spec

\* A message that was received and identified is published, and a client
\* that leaves is let go, though no client ever reads: nobody waits for a
\* slow subscriber with the lock in his hands (chat_broadcaster.go:55-58).
SpeakerIsServed ==
    \A s \in Stream :
        /\ hpc[s] = "speaking" ~> hpc[s] = "recv"
        /\ hpc[s] = "leaving" ~> hpc[s] = "gone"

\* The sender goroutine of a stream that is gone ends, so streams that come
\* and go leave no goroutine behind (game_handler.go:76-77).
SenderEnds ==
    \A s \in Stream : hpc[s] = "gone" ~> sender[s] = "ended"
=============================================================================
