---------------------------- MODULE ChatHubProofs ----------------------------
(***************************************************************************)
(* What TLAPS proves of ChatHub, for any number of streams and messages    *)
(* and any size of the channels: the hub never sends on a channel it has   *)
(* closed, because one Publish at most is under way and who is in the map  *)
(* is not gone; its locks, channels and goroutines implement ChatRoom; and *)
(* hence all members hear one order, the slow alone miss messages, and     *)
(* a speaker once heard is heard from then on.                             *)
(***************************************************************************)
EXTENDS ChatHub, SequenceTheorems, TLAPS

\* Who has a message in his hands: the head of the inbox is there.
Holds(s) == hpc[s] \in {"authenticating", "speaking", "publishing"}

\* The mutex, and what it protects: the map holds exactly the streams
\* between Subscribe and unsubscribe, and only the Publish that has the lock
\* goes through a copy of it.
HubShape ==
    /\ \A s \in Stream : s \in subs <=> hpc[s] \notin {"new", "gone"}
    /\ \A s \in Stream : todo[s] # {} => hpc[s] = "publishing"
    /\ \A s \in Stream : todo[s] \subseteq subs
    /\ \A s, r \in Stream : hpc[s] = "publishing" /\ hpc[r] = "publishing" => s = r

HubInv ==
    /\ TypeOK
    /\ \A s \in Stream : Holds(s) => inbox[s] # <<>>
    /\ HubShape

LEMMA InitHub == Init => HubInv
  BY ChatAssumption DEF ChatAssumption, Init, HubInv, TypeOK, Holds, HubShape

\* A queue loses its head, or gets one more at its end.
LEMMA QueueSteps ==
    ASSUME NEW q \in Seq(Msg)
    PROVE  /\ q # <<>> => /\ Head(q) \in Msg /\ Tail(q) \in Seq(Msg)
                          /\ Len(Tail(q)) = Len(q) - 1
           /\ \A m \in Msg : /\ Append(q, m) \in Seq(Msg)
                             /\ Len(Append(q, m)) = Len(q) + 1
  OBVIOUS

-----------------------------------------------------------------------------
LEMMA HandleType ==
    ASSUME HubInv, NEW s \in Stream, Handle(s)
    PROVE  TypeOK' /\ \A r \in Stream : Holds(r)' => inbox'[r] # <<>>
  <1> USE ChatAssumption
      DEF HubInv, TypeOK, Holds, Goes, handlerVars, hubVars, channelVars,
          senderVars
  <1>1. CASE Subscribe(s)
    BY <1>1 DEF Subscribe
  <1>2. CASE Recv(s)
    BY <1>2 DEF Recv
  <1>3. CASE AuthOk(s)
    BY <1>3 DEF AuthOk, Remembers
  <1>4. CASE AuthFails(s)
    <2>1. Tail(inbox[s]) \in Seq(Msg)
      BY <1>4, QueueSteps DEF AuthFails
    <2>2. QED
      BY <1>4, <2>1 DEF AuthFails
  <1>5. CASE Publish(s)
    <2>1. Head(inbox[s]) \in Msg
      BY <1>5, QueueSteps DEF Publish
    <2>2. published' \in Seq(Msg)
      BY <1>5, <2>1, QueueSteps DEF Publish
    <2>3. QED
      BY <1>5, <2>2 DEF Publish
  <1>6. ASSUME NEW r \in Stream, PublishTo(s, r)
        PROVE  TypeOK' /\ \A t \in Stream : Holds(t)' => inbox'[t] # <<>>
    <2>1. Head(inbox[s]) \in Msg
      BY <1>6, QueueSteps DEF PublishTo
    <2>2. CASE Deliver(r, Head(inbox[s]))
      <3>1. /\ Append(ch[r], Head(inbox[s])) \in Seq(Msg)
            /\ Len(Append(ch[r], Head(inbox[s]))) = Len(ch[r]) + 1
        BY <2>1, QueueSteps
      <3>2. Len(ch[r]) + 1 <= Buffer
        BY <2>2 DEF Deliver, Room, ChatAssumption
      <3>3. /\ ch' \in [Stream -> Seq(Msg)]
            /\ \A t \in Stream : Len(ch'[t]) <= Buffer
        BY <2>2, <3>1, <3>2 DEF Deliver
      <3>4. QED
        BY <1>6, <2>2, <3>3 DEF PublishTo, Deliver
    <2>3. CASE Drop(r)
      BY <1>6, <2>3 DEF PublishTo, Drop
    <2>4. QED
      BY <1>6, <2>2, <2>3 DEF PublishTo, Offer
  <1>7. CASE PublishDone(s)
    <2>1. Tail(inbox[s]) \in Seq(Msg)
      BY <1>7, QueueSteps DEF PublishDone
    <2>2. QED
      BY <1>7, <2>1 DEF PublishDone
  <1>8. CASE RecvFails(s)
    BY <1>8 DEF RecvFails
  <1>9. CASE Unsubscribe(s)
    BY <1>9 DEF Unsubscribe
  <1>10. QED
    BY <1>1, <1>2, <1>3, <1>4, <1>5, <1>6, <1>7, <1>8, <1>9 DEF Handle

\* A handler that is in the map, and is in no copy, may go on to any place in
\* the map but the one that takes the lock.
LEMMA MovesInMap ==
    ASSUME HubShape, DOMAIN hpc = Stream,
           NEW s \in Stream, NEW to, to \notin {"new", "gone", "publishing"},
           hpc[s] \notin {"new", "gone"}, todo[s] = {},
           hpc' = [hpc EXCEPT ![s] = to], UNCHANGED <<subs, todo>>
    PROVE  HubShape'
  <1>1. \A r \in Stream : hpc'[r] = IF r = s THEN to ELSE hpc[r]
    OBVIOUS
  <1>2. QED
    BY <1>1 DEF HubShape

LEMMA HandleShape ==
    ASSUME HubInv, NEW s \in Stream, Handle(s)
    PROVE  HubShape'
  <1>0. /\ HubShape /\ DOMAIN hpc = Stream
        /\ todo \in [Stream -> SUBSET Stream]
        /\ hpc[s] # "publishing" => todo[s] = {}
    BY DEF HubInv, TypeOK, HubShape
  <1>1. CASE Subscribe(s)
    <2>1. /\ \A r \in Stream : hpc'[r] = IF r = s THEN "recv" ELSE hpc[r]
          /\ hpc[s] = "new" /\ subs' = subs \cup {s} /\ todo' = todo
      BY <1>0, <1>1 DEF Subscribe, Goes
    <2>2. QED
      BY <1>0, <2>1 DEF HubShape
  <1>2. CASE Recv(s)
    <2> DEFINE to == IF known[s] THEN "speaking" ELSE "authenticating"
    <2>1. /\ hpc[s] = "recv" /\ hpc' = [hpc EXCEPT ![s] = to]
          /\ UNCHANGED <<subs, todo>>
      BY <1>2 DEF Recv, Goes, hubVars
    <2>2. to \notin {"new", "gone", "publishing"}
      OBVIOUS
    <2> HIDE DEF to
    <2>3. QED
      BY <1>0, <2>1, <2>2, MovesInMap
  <1>3. CASE AuthOk(s)
    <2>1. /\ hpc[s] = "authenticating"
          /\ hpc' = [hpc EXCEPT ![s] = "speaking"] /\ UNCHANGED <<subs, todo>>
      BY <1>3 DEF AuthOk, Goes, hubVars
    <2>2. QED
      BY <1>0, <2>1, MovesInMap
  <1>4. CASE AuthFails(s)
    <2>1. /\ hpc[s] = "authenticating"
          /\ hpc' = [hpc EXCEPT ![s] = "recv"] /\ UNCHANGED <<subs, todo>>
      BY <1>4 DEF AuthFails, Goes, hubVars
    <2>2. QED
      BY <1>0, <2>1, MovesInMap
  <1>5. CASE Publish(s)
    <2>1. /\ \A r \in Stream : hpc'[r] = IF r = s THEN "publishing" ELSE hpc[r]
          /\ \A r \in Stream : todo'[r] = IF r = s THEN subs ELSE todo[r]
          /\ hpc[s] = "speaking" /\ subs' = subs
      BY <1>0, <1>5 DEF Publish, Goes
    <2>2. \A r \in Stream : hpc[r] # "publishing"
      BY <1>5 DEF Publish, PublishLocked, LockFree
    <2>3. QED
      BY <1>0, <2>1, <2>2 DEF HubShape
  <1>6. CASE \E r \in Stream : PublishTo(s, r)
    <2>1. /\ \A q \in Stream : todo'[q] \subseteq todo[q]
          /\ hpc' = hpc /\ subs' = subs
      BY <1>0, <1>6 DEF PublishTo, hubVars
    <2>2. QED
      BY <1>0, <2>1 DEF HubShape
  <1>7. CASE PublishDone(s)
    <2>1. /\ \A r \in Stream : hpc'[r] = IF r = s THEN "recv" ELSE hpc[r]
          /\ \A r \in Stream : todo'[r] = IF r = s THEN {} ELSE todo[r]
          /\ hpc[s] = "publishing" /\ subs' = subs
      BY <1>0, <1>7 DEF PublishDone, Goes, hubVars
    <2>2. QED
      BY <1>0, <2>1 DEF HubShape
  <1>8. CASE RecvFails(s)
    <2>1. /\ hpc[s] = "recv"
          /\ hpc' = [hpc EXCEPT ![s] = "leaving"] /\ UNCHANGED <<subs, todo>>
      BY <1>8 DEF RecvFails, Goes, hubVars
    <2>2. QED
      BY <1>0, <2>1, MovesInMap
  <1>9. CASE Unsubscribe(s)
    \* The lock is free, so nobody goes through a copy of the map.
    <2>1. \A r \in Stream : todo[r] = {} /\ hpc[r] # "publishing"
      BY <1>0, <1>9 DEF Unsubscribe, UnsubscribeLocked, LockFree, HubShape
    <2>2. /\ \A r \in Stream : hpc'[r] = IF r = s THEN "gone" ELSE hpc[r]
          /\ hpc[s] = "leaving" /\ subs' = subs \ {s} /\ todo' = todo
      BY <1>0, <1>9 DEF Unsubscribe, Goes
    <2>3. QED
      BY <1>0, <2>1, <2>2 DEF HubShape
  <1>10. QED
    BY <1>1, <1>2, <1>3, <1>4, <1>5, <1>6, <1>7, <1>8, <1>9 DEF Handle

LEMMA SendKeeps ==
    ASSUME HubInv, NEW s \in Stream, Send(s)
    PROVE  HubInv'
  <1> USE DEF HubInv, TypeOK, HubShape, Holds, SenderGoes, handlerVars, hubVars
  <1>1. CASE Take(s)
    <2>1. /\ Head(ch[s]) \in Msg /\ Tail(ch[s]) \in Seq(Msg)
          /\ Len(Tail(ch[s])) = Len(ch[s]) - 1
      BY <1>1, QueueSteps DEF Take
    <2>2. Append(got[s], Head(ch[s])) \in Seq(Msg)
      BY <2>1, QueueSteps
    <2>3. Len(ch[s]) - 1 <= Buffer
      BY ChatAssumption DEF ChatAssumption
    <2>4. /\ ch' \in [Stream -> Seq(Msg)] /\ got' \in [Stream -> Seq(Msg)]
          /\ \A t \in Stream : Len(ch'[t]) <= Buffer
      BY <1>1, <2>1, <2>2, <2>3 DEF Take
    <2>5. QED
      BY <1>1, <2>4 DEF Take
  <1>2. CASE SendOk(s) \/ SendFails(s) \/ RangeEnds(s)
    BY <1>2 DEF SendOk, SendFails, RangeEnds
  <1>3. QED
    BY <1>1, <1>2 DEF Send

LEMMA StepHub ==
    ASSUME HubInv, [Next]_vars
    PROVE  HubInv'
  <1>1. ASSUME NEW s \in Stream, Handle(s)
        PROVE  HubInv'
    BY <1>1, HandleType, HandleShape DEF HubInv
  <1>2. ASSUME NEW s \in Stream, Send(s)
        PROVE  HubInv'
    BY <1>2, SendKeeps
  <1>3. CASE UNCHANGED vars
    BY <1>3 DEF vars, HubInv, TypeOK, HubShape, Holds
  <1>4. QED
    BY <1>1, <1>2, <1>3 DEF Next, AllGone

\* The invariant behind the theorems below.
THEOREM HubInvariant == Spec => []HubInv
  <1>1. HubInv /\ [Next]_vars => HubInv'
    BY StepHub
  <1>2. QED
    BY InitHub, <1>1, PTL DEF Spec

\* Types, and no channel ever holds more than its capacity
\* (chat_broadcaster.go:13).
THEOREM TypeCorrect == Spec => []TypeOK
  BY HubInvariant, PTL DEF HubInv

\* A Publish never meets a closed channel: the map a Publish goes through
\* holds no stream that is gone (chat_broadcaster.go:35-49).
THEOREM NeverOnClosed == Spec => []NoSendOnClosed
  <1>1. HubInv => NoSendOnClosed
    BY DEF HubInv, HubShape, TypeOK, NoSendOnClosed
  <1>2. QED
    BY HubInvariant, <1>1, PTL

-----------------------------------------------------------------------------
(***************************************************************************)
(* The room.                                                               *)
(***************************************************************************)

\* The message in the hands of the Publish that has the lock is the newest.
Newest ==
    \A s \in Stream : hpc[s] = "publishing" =>
        published # <<>> /\ published[Len(published)] = Head(inbox[s])

LEMMA AppendSteps ==
    ASSUME NEW q \in Seq(Msg), NEW m \in Msg
    PROVE  /\ Append(q, m) \in Seq(Msg)
           /\ Append(q, m) # <<>>
           /\ DOMAIN q = 1 .. Len(q)
           /\ DOMAIN Append(q, m) = 1 .. Len(q) + 1
           /\ Len(Append(q, m)) = Len(q) + 1
           /\ Append(q, m)[Len(q) + 1] = m
           /\ \A i \in 1 .. Len(q) : Append(q, m)[i] = q[i]
  BY AppendProperties, LenProperties

\* What a sender takes was there before, and what Publish puts into a
\* channel comes last.
LEMMA HeardSteps ==
    ASSUME NEW a \in Seq(Msg), NEW b \in Seq(Msg)
    PROVE  /\ a \o b \in Seq(Msg)
           /\ b # <<>> => Append(a, Head(b)) \o Tail(b) = a \o b
           /\ \A m \in Msg : a \o Append(b, m) = Append(a \o b, m)
  <1>1. a \o b \in Seq(Msg)
    BY ConcatProperties
  <1>2. ASSUME b # <<>>
        PROVE  Append(a, Head(b)) \o Tail(b) = a \o b
    <2>1. /\ Head(b) \in Msg /\ Head(b) = b[1] /\ Tail(b) \in Seq(Msg)
          /\ Len(Tail(b)) = Len(b) - 1
          /\ \A i \in 1 .. Len(Tail(b)) : Tail(b)[i] = b[i + 1]
      BY <1>2, HeadTailProperties
    <2>2. <<Head(b)>> \in Seq(Msg) /\ Len(<<Head(b)>>) = 1
      BY <2>1
    <2>3. <<Head(b)>> \o Tail(b) = b
      <3>1. /\ <<Head(b)>> \o Tail(b) \in Seq(Msg)
            /\ Len(<<Head(b)>> \o Tail(b)) = Len(b)
            /\ \A i \in 1 .. Len(b) : (<<Head(b)>> \o Tail(b))[i] =
                  IF i <= 1 THEN <<Head(b)>>[i] ELSE Tail(b)[i - 1]
        BY <2>1, <2>2, ConcatProperties, LenProperties
      <3>2. \A i \in 1 .. Len(b) : (<<Head(b)>> \o Tail(b))[i] = b[i]
        BY <2>1, <3>1, LenProperties
      <3>3. QED
        BY <3>1, <3>2, SeqEqual
    <2>4. Append(a, Head(b)) = a \o <<Head(b)>>
      BY <2>1, AppendIsConcat
    <2>5. QED
      BY <2>1, <2>2, <2>3, <2>4, ConcatAssociative
  <1>3. ASSUME NEW m \in Msg
        PROVE  a \o Append(b, m) = Append(a \o b, m)
    <2>1. <<m>> \in Seq(Msg)
      OBVIOUS
    <2>2. Append(b, m) = b \o <<m>> /\ Append(a \o b, m) = (a \o b) \o <<m>>
      BY <1>1, AppendIsConcat
    <2>3. QED
      BY <2>1, <2>2, ConcatAssociative
  <1>4. QED
    BY <1>1, <1>2, <1>3

\* The room, and who is due, as the proofs speak of them.
LEMMA RoomState ==
    ASSUME HubInv
    PROVE  /\ \A r : r \in UNION {todo[s] : s \in Stream} <=>
                        \E s \in Stream : hpc[s] = "publishing" /\ r \in todo[s]
           /\ LockFree => UNION {todo[s] : s \in Stream} = {}
           /\ UNION {todo[s] : s \in Stream} \subseteq subs
  BY DEF HubInv, HubShape, TypeOK, LockFree

\* A step of the senders, or of a handler by itself, is not seen.
LEMMA SendSilent ==
    ASSUME HubInv, NEW s \in Stream, Send(s)
    PROVE  UNCHANGED OneRoom!roomVars
  <1> USE DEF HubInv, TypeOK, SenderGoes, handlerVars, hubVars
  <1>1. \A r \in Stream : Heard(r)' = Heard(r)
    <2>1. CASE Take(s)
      <3>1. Append(got[s], Head(ch[s])) \o Tail(ch[s]) = got[s] \o ch[s]
        BY <2>1, HeardSteps DEF Take
      <3>2. /\ ch'[s] = Tail(ch[s]) /\ got'[s] = Append(got[s], Head(ch[s]))
            /\ \A r \in Stream \ {s} : ch'[r] = ch[r] /\ got'[r] = got[r]
        BY <2>1 DEF Take
      <3>3. QED
        BY <3>1, <3>2 DEF Heard
    <2>2. CASE SendOk(s) \/ SendFails(s) \/ RangeEnds(s)
      BY <2>2 DEF SendOk, SendFails, RangeEnds, Heard
    <2>3. QED
      BY <2>1, <2>2 DEF Send
  <1>2. [r \in Stream |-> Heard(r)]' = [r \in Stream |-> Heard(r)]
    BY <1>1
  <1>3. UNCHANGED <<published, subs, hpc, joined, todo, overflowed>>
    BY DEF Send, Take, SendOk, SendFails, RangeEnds
  <1>4. QED
    BY <1>2, <1>3 DEF OneRoom!roomVars

LEMMA PublishToSays ==
    ASSUME HubInv, Newest, NEW s \in Stream, NEW r \in Stream, PublishTo(s, r)
    PROVE  OneRoom!Hear(r) \/ OneRoom!Miss(r)
  <1> USE DEF HubInv, TypeOK, HubShape, PublishTo, hubVars, senderVars
  <1> DEFINE heard == [t \in Stream |-> Heard(t)]
             due == UNION {todo[t] : t \in Stream}
  <1>1. \A t \in Stream : t # s => todo[t] = {} /\ todo'[t] = {}
    OBVIOUS
  <1>2. r \in due /\ due' = due \ {r}
    BY <1>1
  <1>3. {t \in Stream : hpc'[t] = "gone"} = {t \in Stream : hpc[t] = "gone"}
    OBVIOUS
  <1>4. UNCHANGED <<published, subs, joined>>
    OBVIOUS
  <1>5. CASE Deliver(r, Head(inbox[s]))
    <2>1. Head(inbox[s]) \in Msg /\ published[Len(published)] = Head(inbox[s])
      BY QueueSteps DEF Newest, Holds
    <2>2. /\ ch'[r] = Append(ch[r], Head(inbox[s])) /\ got' = got
          /\ \A t \in Stream : t # r => ch'[t] = ch[t]
          /\ overflowed' = overflowed
      BY <1>5 DEF Deliver
    <2>3. \A t \in Stream : Heard(t)' =
             IF t = r THEN Append(Heard(t), published[Len(published)]) ELSE Heard(t)
      <3>1. got[r] \o Append(ch[r], Head(inbox[s])) =
               Append(got[r] \o ch[r], Head(inbox[s]))
        <4>1. got[r] \in Seq(Msg) /\ ch[r] \in Seq(Msg)
          OBVIOUS
        <4> HIDE DEF HubInv, TypeOK, HubShape, PublishTo
        <4>2. QED
          BY <2>1, <4>1, HeardSteps
      <3>2. Heard(r)' = Append(Heard(r), published[Len(published)])
        BY <2>1, <2>2, <3>1 DEF Heard
      <3>3. \A t \in Stream : t # r => Heard(t)' = Heard(t)
        BY <2>2 DEF Heard
      <3>4. QED
        BY <3>2, <3>3
    <2>4. heard' = [heard EXCEPT ![r] = Append(@, published[Len(published)])]
      BY <2>3
    <2>5. QED
      BY <1>2, <1>3, <1>4, <2>2, <2>4 DEF OneRoom!Hear
  <1>6. CASE Drop(r)
    <2>1. ch' = ch /\ got' = got /\ overflowed' = overflowed \cup {r}
      BY <1>6 DEF Drop
    <2>2. heard' = heard
      BY <2>1 DEF Heard
    <2>3. QED
      BY <1>2, <1>3, <1>4, <2>1, <2>2 DEF OneRoom!Miss
  <1>7. QED
    BY <1>5, <1>6 DEF Offer

\* What a handler does, as the room sees it.
LEMMA HandleSays ==
    ASSUME HubInv, Newest, NEW s \in Stream, Handle(s)
    PROVE  [OneRoom!Next]_OneRoom!roomVars
  <1> USE DEF HubInv, TypeOK, HubShape, Goes, handlerVars, hubVars,
              channelVars, senderVars
  <1> DEFINE heard == [t \in Stream |-> Heard(t)]
             gone == {t \in Stream : hpc[t] = "gone"}
             due == UNION {todo[t] : t \in Stream}
  <1>1. ch' = ch /\ got' = got => heard' = heard
    BY DEF Heard
  <1>2. LockFree => due = {}
    BY RoomState
  <1>3. due \subseteq subs
    BY RoomState
  <1>4. CASE Subscribe(s)
    <2>1. due = {} /\ due' = {} /\ gone' = gone /\ heard' = heard
      BY <1>1, <1>2, <1>4 DEF Subscribe
    <2>2. s \notin subs \cup gone
      BY <1>4 DEF Subscribe
    <2>3. OneRoom!Join(s)
      BY <1>4, <2>1, <2>2 DEF Subscribe, OneRoom!Join
    <2>4. QED
      BY <2>3 DEF OneRoom!Next
  <1>5. CASE Recv(s) \/ AuthOk(s) \/ AuthFails(s) \/ RecvFails(s)
    <2>1. UNCHANGED <<todo, published, subs, joined, ch, got, overflowed>>
      BY <1>5 DEF Recv, AuthOk, AuthFails, RecvFails
    <2>2. gone' = gone
      BY <1>5 DEF Recv, AuthOk, AuthFails, RecvFails
    <2>3. due' = due /\ heard' = heard
      BY <1>1, <2>1
    <2>4. QED
      BY <2>1, <2>2, <2>3 DEF OneRoom!roomVars
  <1>6. CASE Publish(s)
    <2>1. PICK m \in Msg : m = Head(inbox[s])
      BY <1>6, QueueSteps DEF Publish, Holds
    <2>2. due = {} /\ \A t \in Stream : todo[t] = {}
      BY <1>2, <1>6 DEF Publish, PublishLocked
    <2>3. due' = subs
      BY <1>6, <2>2 DEF Publish
    <2>4. gone' = gone /\ heard' = heard
      BY <1>1, <1>6 DEF Publish
    <2>5. OneRoom!Say(m)
      BY <1>6, <2>1, <2>2, <2>3, <2>4 DEF Publish, OneRoom!Say
    <2>6. QED
      BY <2>5 DEF OneRoom!Next
  <1>7. ASSUME NEW r \in Stream, PublishTo(s, r)
        PROVE  [OneRoom!Next]_OneRoom!roomVars
    BY <1>7, PublishToSays DEF OneRoom!Next
  <1>8. CASE PublishDone(s)
    <2>1. todo' = todo
      BY <1>8 DEF PublishDone, ReachedAll
    <2>2. gone' = gone /\ heard' = heard /\ due' = due
      BY <1>1, <1>8, <2>1 DEF PublishDone
    <2>3. QED
      BY <1>8, <2>2 DEF PublishDone, OneRoom!roomVars
  <1>9. CASE Unsubscribe(s)
    <2>1. due = {} /\ due' = {} /\ heard' = heard
      BY <1>1, <1>2, <1>9 DEF Unsubscribe, UnsubscribeLocked
    <2>2. s \in subs
      BY <1>9 DEF Unsubscribe
    <2>3. \A t \in Stream : hpc'[t] = "gone" <=> hpc[t] = "gone" \/ t = s
      BY <1>9 DEF Unsubscribe
    <2>4. gone' = gone \cup {s}
      BY <2>3
    <2>5. OneRoom!Leave(s)
      BY <1>9, <2>1, <2>2, <2>4 DEF Unsubscribe, OneRoom!Leave
    <2>6. QED
      BY <2>5 DEF OneRoom!Next
  <1>10. QED
    BY <1>4, <1>5, <1>6, <1>7, <1>8, <1>9 DEF Handle

LEMMA NewestKeeps ==
    ASSUME HubInv, Newest, [Next]_vars
    PROVE  Newest'
  <1> USE DEF HubInv, TypeOK, HubShape, Newest, Goes, handlerVars, hubVars,
              senderVars
  <1>1. ASSUME NEW s \in Stream, Handle(s)
        PROVE  Newest'
    <2>1. CASE Publish(s)
      <3>1. Head(inbox[s]) \in Msg
        BY <2>1, QueueSteps DEF Publish, Holds
      <3>2. /\ published' # <<>>
            /\ published'[Len(published')] = Head(inbox[s])
        <4>1. published' = Append(published, Head(inbox[s]))
          BY <2>1 DEF Publish
        <4>2. published \in Seq(Msg)
          OBVIOUS
        <4> QED
          BY <3>1, <4>1, <4>2, AppendSteps
      <3>3. \A r \in Stream : hpc'[r] = "publishing" => r = s
        BY <2>1 DEF Publish, PublishLocked, LockFree
      <3>4. QED
        BY <2>1, <3>2, <3>3 DEF Publish
    <2>2. CASE Subscribe(s) \/ Recv(s) \/ AuthOk(s) \/ RecvFails(s)
               \/ Unsubscribe(s) \/ \E r \in Stream : PublishTo(s, r)
      BY <2>2 DEF Subscribe, Recv, AuthOk, RecvFails, Unsubscribe, PublishTo
    <2>3. CASE AuthFails(s) \/ PublishDone(s)
      <3>1. hpc[s] \in {"authenticating", "publishing"} /\ hpc'[s] = "recv"
        BY <2>3 DEF AuthFails, PublishDone
      <3>2. /\ published' = published
            /\ \A r \in Stream : r # s => hpc'[r] = hpc[r] /\ inbox'[r] = inbox[r]
        BY <2>3 DEF AuthFails, PublishDone
      <3>3. QED
        BY <3>1, <3>2
    <2>4. QED
      BY <1>1, <2>1, <2>2, <2>3 DEF Handle
  <1>2. ASSUME NEW s \in Stream, Send(s)
        PROVE  Newest'
    BY <1>2 DEF Send, Take, SendOk, SendFails, RangeEnds, SenderGoes
  <1>3. CASE UNCHANGED vars
    BY <1>3 DEF vars
  <1>4. QED
    BY <1>1, <1>2, <1>3 DEF Next, AllGone

LEMMA StepRoom ==
    ASSUME HubInv, Newest, [Next]_vars
    PROVE  [OneRoom!Next]_OneRoom!roomVars
  <1>1. CASE UNCHANGED vars
    <2>1. [s \in Stream |-> Heard(s)]' = [s \in Stream |-> Heard(s)]
      BY <1>1 DEF vars, Heard
    <2>2. QED
      BY <1>1, <2>1 DEF vars, OneRoom!roomVars
  <1>2. QED
    BY <1>1, HandleSays, SendSilent DEF Next, AllGone

\* The invariants of the hub, and each of its steps as one of the room.
LEMMA InitRoom == Init => Newest /\ OneRoom!Init
  <1> SUFFICES ASSUME Init PROVE Newest /\ OneRoom!Init
    OBVIOUS
  <1>1. Newest
    BY DEF Init, Newest
  <1>2. \A s \in Stream : Heard(s) = <<>>
    BY DEF Init, Heard
  <1>3. OneRoom!Init
    BY <1>2 DEF Init, OneRoom!Init
  <1>4. QED
    BY <1>1, <1>3

\* The broadcaster, its channels and the two goroutines of each stream
\* implement one room, for any number of streams and messages and any size
\* of the channels (chat_broadcaster.go:29-68, game_handler.go:72-104).
THEOREM HubImplementsRoom == Spec => ImplementsRoom
  <1>1. HubInv /\ Newest /\ [Next]_vars => Newest'
    BY NewestKeeps
  <1>2. HubInv /\ Newest /\ [Next]_vars => [OneRoom!Next]_OneRoom!roomVars
    BY StepRoom
  <1>3. QED
    BY InitRoom, HubInvariant, <1>1, <1>2, PTL
    DEF Spec, ImplementsRoom, OneRoom!Spec
-----------------------------------------------------------------------------
(***************************************************************************)
(* The order in which messages are heard.                                  *)
(***************************************************************************)

\* The newest message is on its way to s, or about to be denied.
Due(s) == \E p \in Stream : s \in todo[p]

\* What was heard was published, and before the message that is on its way.
InLog ==
    \A s \in Stream : \A i \in DOMAIN Heard(s) :
        \E k \in DOMAIN published :
            published[k] = Heard(s)[i] /\ (Due(s) => k < Len(published))

OrderInv == InLog /\ OneOrder

LEMMA HeardType == HubInv => \A s \in Stream : Heard(s) \in Seq(Msg)
  BY HeardSteps DEF HubInv, TypeOK, Heard

LEMMA DueInRoom ==
    \A s : s \in UNION {todo[p] : p \in Stream} <=> Due(s)
  BY DEF Due

\* The steps of the room in terms of the hub.
IsSaid(m) ==
    /\ m \in Msg
    /\ \A t \in Stream : ~Due(t)
    /\ \A t \in Stream : Due(t)' <=> t \in subs
    /\ published' = Append(published, m)
    /\ \A t \in Stream : Heard(t)' = Heard(t)
    /\ UNCHANGED <<subs, joined, overflowed>>

Hears(s) ==
    /\ published # <<>>
    /\ Due(s)
    /\ \A t \in Stream : Due(t)' <=> Due(t) /\ t # s
    /\ UNCHANGED <<published, subs, joined, overflowed>>
    /\ Heard(s)' = Append(Heard(s), published[Len(published)])
    /\ \A t \in Stream : t # s => Heard(t)' = Heard(t)

Misses(s) ==
    /\ Due(s)
    /\ \A t \in Stream : Due(t)' <=> Due(t) /\ t # s
    /\ UNCHANGED <<published, subs, joined>>
    /\ overflowed' = overflowed \cup {s}
    /\ \A t \in Stream : Heard(t)' = Heard(t)

ComesOrGoes(s) ==
    /\ UNCHANGED <<published, overflowed>>
    /\ \A t \in Stream : Due(t)' <=> Due(t)
    /\ \A t \in Stream : Heard(t)' = Heard(t)
    /\ \/ /\ s \notin subs /\ hpc[s] # "gone"
          /\ subs' = subs \cup {s}
          /\ joined' = [joined EXCEPT ![s] = Len(published)]
       \/ /\ subs' = subs \ {s}
          /\ UNCHANGED joined

Unseen ==
    /\ UNCHANGED <<published, subs, joined, overflowed>>
    /\ \A t \in Stream : Due(t)' <=> Due(t)
    /\ \A t \in Stream : Heard(t)' = Heard(t)

LEMMA RoomSteps ==
    ASSUME HubInv, Newest, [Next]_vars
    PROVE  \/ \E m \in Msg : IsSaid(m)
           \/ \E s \in Stream : Hears(s) \/ Misses(s) \/ ComesOrGoes(s)
           \/ Unseen
  <1> DEFINE heard == [t \in Stream |-> Heard(t)]
             due == UNION {todo[t] : t \in Stream}
  <1>1. \A t : t \in due <=> Due(t)
    BY DueInRoom
  <1>2. \A t : t \in due' <=> Due(t)'
    BY DEF Due
  <1>3. \A t \in Stream : heard[t] = Heard(t) /\ heard'[t] = Heard(t)'
    OBVIOUS
  <1>4. due \subseteq Stream
    BY DEF HubInv, TypeOK
  <1>5. \A t \in due : published # <<>>
    BY DEF HubInv, TypeOK, HubShape, Newest
  <1> HIDE DEF heard, due
  <1>6. CASE \E m \in Msg : OneRoom!Say(m)
    <2>1. PICK m \in Msg : OneRoom!Say(m)
      BY <1>6
    <2>2. /\ due = {} /\ due' = subs /\ heard' = heard
          /\ published' = Append(published, m)
          /\ UNCHANGED <<subs, joined, overflowed>>
      BY <2>1 DEF OneRoom!Say, heard, due
    <2>3. IsSaid(m)
      BY <1>1, <1>2, <1>3, <2>2 DEF IsSaid
    <2>4. QED
      BY <2>3
  <1>7. ASSUME NEW s \in Stream, OneRoom!Hear(s)
        PROVE  Hears(s)
    <2>1. /\ s \in due /\ due' = due \ {s}
          /\ heard' = [heard EXCEPT ![s] = Append(@, published[Len(published)])]
          /\ UNCHANGED <<published, subs, joined, overflowed>>
      BY <1>7 DEF OneRoom!Hear, heard, due
    <2>2. /\ heard'[s] = Append(heard[s], published[Len(published)])
          /\ \A t \in Stream : t # s => heard'[t] = heard[t]
      BY <2>1 DEF heard
    <2>3. QED
      BY <1>1, <1>2, <1>3, <1>5, <2>1, <2>2 DEF Hears
  <1>8. ASSUME NEW s \in Stream, OneRoom!Miss(s)
        PROVE  Misses(s)
    <2>1. /\ s \in due /\ due' = due \ {s} /\ heard' = heard
          /\ overflowed' = overflowed \cup {s}
          /\ UNCHANGED <<published, subs, joined>>
      BY <1>8 DEF OneRoom!Miss, heard, due
    <2>2. QED
      BY <1>1, <1>2, <1>3, <2>1 DEF Misses
  <1>9. ASSUME NEW s \in Stream, OneRoom!Join(s) \/ OneRoom!Leave(s)
        PROVE  ComesOrGoes(s)
    <2>1. /\ due' = due /\ heard' = heard
          /\ UNCHANGED <<published, overflowed>>
          /\ \/ /\ s \notin subs /\ hpc[s] # "gone"
                /\ subs' = subs \cup {s}
                /\ joined' = [joined EXCEPT ![s] = Len(published)]
             \/ /\ subs' = subs \ {s}
                /\ UNCHANGED joined
      BY <1>9 DEF OneRoom!Join, OneRoom!Leave, heard, due
    <2>2. QED
      BY <1>1, <1>2, <1>3, <2>1 DEF ComesOrGoes
  <1>10. CASE UNCHANGED OneRoom!roomVars
    <2>1. /\ due' = due /\ heard' = heard
          /\ UNCHANGED <<published, subs, joined, overflowed>>
      BY <1>10 DEF OneRoom!roomVars, heard, due
    <2>2. Unseen
      BY <1>1, <1>2, <1>3, <2>1 DEF Unseen
    <2>3. QED
      BY <2>2
  <1>11. QED
    BY <1>6, <1>7, <1>8, <1>9, <1>10, StepRoom DEF OneRoom!Next

LEMMA OrderKeeps ==
    ASSUME HubInv, HubInv', Newest, OrderInv, [Next]_vars
    PROVE  OrderInv'
  <1>1. published \in Seq(Msg) /\ published' \in Seq(Msg)
    BY DEF HubInv, TypeOK
  <1>2. \A s \in Stream : Heard(s) \in Seq(Msg) /\ Heard(s)' \in Seq(Msg)
    BY HeardSteps DEF HubInv, TypeOK, Heard
  <1>3. DOMAIN published = 1 .. Len(published) /\ Len(published) \in Nat
    BY <1>1
  <1>4. CASE \E m \in Msg : IsSaid(m)
    <2>1. PICK m \in Msg : IsSaid(m)
      BY <1>4
    <2>2. /\ DOMAIN published' = 1 .. Len(published) + 1
          /\ Len(published') = Len(published) + 1
          /\ \A k \in 1 .. Len(published) : published'[k] = published[k]
      BY <1>1, <2>1, AppendSteps DEF IsSaid
    <2>3. \A s \in Stream : Heard(s)' = Heard(s)
      BY <2>1 DEF IsSaid
    <2>4. \A a, b : Before(a, b) => Before(a, b)'
      BY <1>3, <2>2 DEF Before
    <2>5. InLog'
      BY <1>3, <2>2, <2>3 DEF OrderInv, InLog
    <2>6. OneOrder'
      BY <2>3, <2>4 DEF OrderInv, OneOrder
    <2>7. QED
      BY <2>5, <2>6 DEF OrderInv
  <1>5. ASSUME NEW s \in Stream, Hears(s)
        PROVE  OrderInv'
    <2>1. /\ published' = published
          /\ Len(published) \in DOMAIN published
          /\ \A t \in Stream : t # s => Heard(t)' = Heard(t)
          /\ Due(s) /\ ~Due(s)'
          /\ \A t \in Stream : Due(t)' => Due(t)
      BY <1>1, <1>3, <1>5 DEF Hears
    <2>2. published[Len(published)] \in Msg
      BY <1>1, <2>1
    <2>3. /\ DOMAIN Heard(s) = 1 .. Len(Heard(s)) /\ Len(Heard(s)) \in Nat
          /\ DOMAIN Heard(s)' = 1 .. Len(Heard(s)) + 1
          /\ Heard(s)'[Len(Heard(s)) + 1] = published[Len(published)]
          /\ \A i \in 1 .. Len(Heard(s)) : Heard(s)'[i] = Heard(s)[i]
      BY <1>2, <1>5, <2>2, AppendSteps DEF Hears
    <2>4. \A a, b : Before(a, b)' <=> Before(a, b)
      BY <2>1 DEF Before
    <2>5. \A i \in DOMAIN Heard(s) : Before(Heard(s)[i], published[Len(published)])
      BY <2>1, <1>3 DEF OrderInv, InLog, Before
    <2>6. InLog'
      <3>1. \A i \in DOMAIN Heard(s)' : \E k \in DOMAIN published :
                published[k] = Heard(s)'[i]
        BY <2>1, <2>3 DEF OrderInv, InLog
      <3>2. QED
        BY <2>1, <3>1 DEF OrderInv, InLog
    <2>7. \A i, j \in DOMAIN Heard(s)' : i < j => Before(Heard(s)'[i], Heard(s)'[j])
      BY <2>3, <2>5 DEF OrderInv, OneOrder
    <2>8. OneOrder'
      BY <2>1, <2>4, <2>7 DEF OrderInv, OneOrder
    <2>9. QED
      BY <2>6, <2>8 DEF OrderInv
  <1>6. CASE Unseen \/ \E s \in Stream : Misses(s) \/ ComesOrGoes(s)
    <2>1. /\ published' = published
          /\ \A t \in Stream : Heard(t)' = Heard(t)
          /\ \A t \in Stream : Due(t)' => Due(t)
      BY <1>6 DEF Unseen, Misses, ComesOrGoes
    <2>2. \A a, b : Before(a, b)' <=> Before(a, b)
      BY <2>1 DEF Before
    <2>3. QED
      BY <2>1, <2>2 DEF OrderInv, InLog, OneOrder
  <1>7. QED
    BY <1>4, <1>5, <1>6, RoomSteps

\* All members hear one order and nothing twice, for any number of streams
\* and messages (chat_broadcaster.go:52-68, game_handler.go:79-83).
THEOREM OneOrderForAll == Spec => []OneOrder
  <1>1. Init => OrderInv
    BY DEF Init, OrderInv, InLog, OneOrder, Heard
  <1>2. HubInv /\ HubInv' /\ Newest /\ OrderInv /\ [Next]_vars => OrderInv'
    BY OrderKeeps
  <1>3. HubInv /\ Newest /\ [Next]_vars => Newest'
    BY NewestKeeps
  <1>4. OrderInv => OneOrder
    BY DEF OrderInv
  <1>5. QED
    BY InitRoom, HubInvariant, <1>1, <1>2, <1>3, <1>4, PTL DEF Spec
-----------------------------------------------------------------------------
(***************************************************************************)
(* Who misses messages.                                                    *)
(***************************************************************************)

\* How much of the conversation s can have been given.
Given(s) == IF Due(s) THEN Len(published) - 1 ELSE Len(published)

\* Nothing is in a channel before it is made, and a subscriber that missed
\* nothing has the conversation, from when it came in, in its channel and
\* behind it.
GivenInv ==
    /\ \A s \in Stream : hpc[s] = "new" => Heard(s) = <<>>
    /\ \A s \in subs \ overflowed :
          /\ joined[s] + Len(Heard(s)) = Given(s)
          /\ \A i \in DOMAIN Heard(s) : Heard(s)[i] = published[joined[s] + i]

LEMMA GivenKeeps ==
    ASSUME HubInv, HubInv', Newest, GivenInv, [Next]_vars
    PROVE  GivenInv'
  <1>1. published \in Seq(Msg) /\ published' \in Seq(Msg)
    BY DEF HubInv, TypeOK
  <1>2. \A s \in Stream :
           /\ Heard(s) \in Seq(Msg)
           /\ Len(Heard(s)) \in Nat
           /\ DOMAIN Heard(s) = 1 .. Len(Heard(s))
    BY HeardSteps DEF HubInv, TypeOK, Heard
  <1>3. /\ DOMAIN published = 1 .. Len(published) /\ Len(published) \in Nat
        /\ \A s \in Stream : joined[s] \in Nat
        /\ subs \subseteq Stream
    BY <1>1 DEF HubInv, TypeOK
  <1>4. \A s \in Stream : Due(s) => s \in subs /\ hpc[s] # "new"
    BY DEF HubInv, TypeOK, HubShape, Due
  <1>5. \A s \in Stream : hpc'[s] = "new" => hpc[s] = "new"
    <2>1. ASSUME NEW r \in Stream, Handle(r)
          PROVE  \A s \in Stream : hpc'[s] = "new" => hpc[s] = "new"
      BY <2>1 DEF HubInv, TypeOK, Handle, Goes, Subscribe, Recv, AuthOk,
         AuthFails, Publish, PublishTo, PublishDone, RecvFails, Unsubscribe
    <2>2. ASSUME NEW r \in Stream, Send(r)
          PROVE  hpc' = hpc
      BY <2>2 DEF Send, Take, SendOk, SendFails, RangeEnds, SenderGoes,
         handlerVars
    <2>3. QED
      BY <2>1, <2>2 DEF Next, AllGone, vars
  <1>6. CASE \E m \in Msg : IsSaid(m)
    <2>1. PICK m \in Msg : IsSaid(m)
      BY <1>6
    <2>2. /\ Len(published') = Len(published) + 1
          /\ \A k \in 1 .. Len(published) : published'[k] = published[k]
      BY <1>1, <2>1, AppendSteps DEF IsSaid
    <2>3. /\ \A s \in Stream : Heard(s)' = Heard(s)
          /\ UNCHANGED <<subs, joined, overflowed>>
      BY <2>1 DEF IsSaid
    <2>4. \A s \in subs : Given(s)' = Given(s)
      BY <1>3, <2>1, <2>2 DEF IsSaid, Given
    <2>5. \A s \in subs : Given(s) = Len(published)
      BY <1>3, <2>1 DEF IsSaid, Given
    <2>6. ASSUME NEW s \in (subs \ overflowed)'
          PROVE  /\ (joined[s] + Len(Heard(s)) = Given(s))'
                 /\ \A i \in (DOMAIN Heard(s))' :
                       (Heard(s)[i] = published[joined[s] + i])'
      <3>1. s \in subs \ overflowed /\ s \in Stream
        BY <1>3, <2>3
      <3>2. \A i \in DOMAIN Heard(s) : joined[s] + i \in 1 .. Len(published)
        BY <1>2, <1>3, <2>5, <3>1 DEF GivenInv
      <3>3. QED
        BY <2>2, <2>3, <2>4, <3>1, <3>2 DEF GivenInv
    <2>7. QED
      BY <1>5, <2>3, <2>6 DEF GivenInv
  <1>7. ASSUME NEW s \in Stream, Hears(s)
        PROVE  GivenInv'
    <2>1. /\ UNCHANGED <<published, subs, joined, overflowed>>
          /\ Due(s) /\ ~Due(s)'
          /\ \A t \in Stream : t # s => /\ Heard(t)' = Heard(t)
                                        /\ Given(t)' = Given(t)
      BY <1>7 DEF Hears, Given
    <2>2. published[Len(published)] \in Msg
      BY <1>1, <1>3, <1>7 DEF Hears
    <2>3. /\ DOMAIN Heard(s)' = 1 .. Len(Heard(s)) + 1
          /\ Len(Heard(s)') = Len(Heard(s)) + 1
          /\ Heard(s)'[Len(Heard(s)) + 1] = published[Len(published)]
          /\ \A i \in 1 .. Len(Heard(s)) : Heard(s)'[i] = Heard(s)[i]
      BY <1>2, <1>7, <2>2, AppendSteps DEF Hears
    <2>4. Given(s) = Len(published) - 1 /\ Given(s)' = Len(published)
      BY <2>1 DEF Given
    <2>5. s \in subs \ overflowed =>
             /\ joined[s] + Len(Heard(s)') = Len(published)
             /\ \A i \in 1 .. Len(Heard(s)) + 1 :
                   Heard(s)'[i] = published[joined[s] + i]
      <3> SUFFICES ASSUME s \in subs \ overflowed
                   PROVE  /\ joined[s] + Len(Heard(s)') = Len(published)
                          /\ \A i \in 1 .. Len(Heard(s)) + 1 :
                                Heard(s)'[i] = published[joined[s] + i]
        OBVIOUS
      <3>1. /\ joined[s] + Len(Heard(s)) = Len(published) - 1
            /\ \A i \in 1 .. Len(Heard(s)) : Heard(s)[i] = published[joined[s] + i]
        BY <1>2, <2>4 DEF GivenInv
      <3>2. joined[s] + (Len(Heard(s)) + 1) = Len(published)
        BY <1>2, <1>3, <3>1
      <3>3. \A i \in 1 .. Len(Heard(s)) + 1 :
               i \in 1 .. Len(Heard(s)) \/ i = Len(Heard(s)) + 1
        BY <1>2
      <3>4. QED
        BY <2>3, <3>1, <3>2, <3>3
    <2>6. hpc'[s] # "new"
      BY <1>4, <1>5, <2>1
    <2>7. \A t \in Stream : hpc'[t] = "new" => Heard(t)' = <<>>
      BY <1>5, <2>1, <2>6 DEF GivenInv
    <2>8. ASSUME NEW t \in (subs \ overflowed)'
          PROVE  /\ (joined[t] + Len(Heard(t)) = Given(t))'
                 /\ \A i \in (DOMAIN Heard(t))' :
                       (Heard(t)[i] = published[joined[t] + i])'
      <3>1. CASE t = s
        BY <2>1, <2>3, <2>4, <2>5, <3>1
      <3>2. CASE t # s
        BY <1>3, <2>1, <3>2 DEF GivenInv
      <3>3. QED
        BY <3>1, <3>2
    <2>9. QED
      BY <2>7, <2>8 DEF GivenInv
  <1>8. ASSUME NEW s \in Stream, Misses(s)
        PROVE  GivenInv'
    <2>1. /\ UNCHANGED <<published, subs, joined>>
          /\ overflowed' = overflowed \cup {s}
          /\ \A t \in Stream : Heard(t)' = Heard(t)
          /\ \A t \in Stream : t # s => Given(t)' = Given(t)
      BY <1>8 DEF Misses, Given
    <2>2. QED
      BY <1>3, <1>5, <2>1 DEF GivenInv
  <1>9. ASSUME NEW s \in Stream, ComesOrGoes(s)
        PROVE  GivenInv'
    <2>1. /\ UNCHANGED <<published, overflowed>>
          /\ \A t \in Stream : Heard(t)' = Heard(t) /\ Given(t)' = Given(t)
      BY <1>9 DEF ComesOrGoes, Given
    <2>2. \A t \in subs' : \/ t \in subs /\ joined'[t] = joined[t]
                           \/ /\ t = s /\ hpc[s] = "new" /\ ~Due(s)
                              /\ joined'[s] = Len(published)
      BY <1>3, <1>4, <1>9 DEF ComesOrGoes, HubInv, TypeOK, HubShape
    <2>3. hpc[s] = "new" /\ ~Due(s) => Heard(s) = <<>> /\ Given(s) = Len(published)
      BY DEF GivenInv, Given
    <2>4. Len(<<>>) = 0 /\ DOMAIN <<>> = {}
      OBVIOUS
    <2>5. (subs \subseteq Stream)'
      BY DEF HubInv, TypeOK
    <2>6. QED
      BY <1>3, <1>5, <2>1, <2>2, <2>3, <2>4, <2>5 DEF GivenInv
  <1>10. CASE Unseen
    <2>1. /\ UNCHANGED <<published, subs, joined, overflowed>>
          /\ \A t \in Stream : Heard(t)' = Heard(t) /\ Given(t)' = Given(t)
      BY <1>10 DEF Unseen, Given
    <2>2. QED
      BY <1>3, <1>5, <2>1 DEF GivenInv
  <1>11. QED
    BY <1>6, <1>7, <1>8, <1>9, <1>10, RoomSteps

LEMMA GivenIsAll ==
    ASSUME HubInv, GivenInv
    PROVE  OnlyTheSlowMiss
  <1> SUFFICES ASSUME NEW s \in subs \ overflowed,
                      \A p \in Stream : s \notin todo[p]
               PROVE  Heard(s) = SubSeq(published, joined[s] + 1, Len(published))
    BY DEF OnlyTheSlowMiss
  <1> DEFINE rest == SubSeq(published, joined[s] + 1, Len(published))
  <1>1. /\ published \in Seq(Msg) /\ Heard(s) \in Seq(Msg)
        /\ joined[s] \in Nat /\ Len(published) \in Nat
        /\ Len(Heard(s)) \in Nat /\ DOMAIN Heard(s) = 1 .. Len(Heard(s))
    BY HeardType DEF HubInv, TypeOK
  <1>2. /\ joined[s] + Len(Heard(s)) = Len(published)
        /\ \A i \in 1 .. Len(Heard(s)) : Heard(s)[i] = published[joined[s] + i]
    BY <1>1 DEF GivenInv, Given, Due
  <1>3. /\ rest \in Seq(Msg)
        /\ Len(rest) = IF joined[s] + 1 <= Len(published)
                         THEN Len(published) - (joined[s] + 1) + 1 ELSE 0
        /\ \A i \in 1 .. Len(published) - (joined[s] + 1) + 1 :
              rest[i] = published[joined[s] + 1 + i - 1]
    <2>1. joined[s] + 1 \in Int /\ Len(published) \in Int
      BY <1>1
    <2>2. \A i \in joined[s] + 1 .. Len(published) : published[i] \in Msg
      BY <1>1
    <2>3. QED
      BY <2>1, <2>2, SubSeqProperties
  <1>4. /\ Len(rest) = Len(Heard(s))
        /\ \A i \in 1 .. Len(Heard(s)) : rest[i] = published[joined[s] + i]
    <2> HIDE DEF rest
    <2>1. Len(published) - (joined[s] + 1) + 1 = Len(Heard(s))
      BY <1>1, <1>2
    <2>2. \A i \in 1 .. Len(Heard(s)) : joined[s] + 1 + i - 1 = joined[s] + i
      BY <1>1
    <2>3. Len(rest) = Len(Heard(s))
      BY <1>1, <1>2, <1>3, <2>1
    <2>4. ASSUME NEW i \in 1 .. Len(Heard(s))
          PROVE  rest[i] = published[joined[s] + i]
      BY <1>3, <2>1, <2>2
    <2>5. QED
      BY <2>3, <2>4
  <1>5. QED
    BY <1>1, <1>2, <1>3, <1>4, SeqEqual

\* Only a subscriber whose channel was full when a message came misses one,
\* for any number of streams and any size of the channels
\* (chat_broadcaster.go:60-67).
THEOREM OthersMissNothing == Spec => []OnlyTheSlowMiss
  <1>1. Init => GivenInv
    BY DEF Init, GivenInv, Heard
  <1>2. HubInv /\ HubInv' /\ Newest /\ GivenInv /\ [Next]_vars => GivenInv'
    BY GivenKeeps
  <1>3. HubInv /\ Newest /\ [Next]_vars => Newest'
    BY NewestKeeps
  <1>4. HubInv /\ GivenInv => OnlyTheSlowMiss
    BY GivenIsAll
  <1>5. QED
    BY InitRoom, HubInvariant, <1>1, <1>2, <1>3, <1>4, PTL DEF Spec
-----------------------------------------------------------------------------
(***************************************************************************)
(* The speakers.                                                           *)
(***************************************************************************)

\* How many of its messages the handler of s is done with, and how many of
\* them have come to Publish or never will.
Done(s) == Len(Says[s]) - Len(inbox[s])
Through(s) == IF hpc[s] = "publishing" THEN Done(s) + 1 ELSE Done(s)

\* What is left in the inbox is the end of what the client says, and the
\* token is looked up exactly until it is known.
RestIsLeft(s) ==
    /\ Done(s) \in Nat
    /\ \A k \in DOMAIN inbox[s] : inbox[s][k] = Says[s][Done(s) + k]

AsksOnce(s) ==
    /\ hpc[s] = "authenticating" => ~known[s]
    /\ hpc[s] \in {"speaking", "publishing"} => known[s]

InboxInv == \A s \in Stream : RestIsLeft(s) /\ AsksOnce(s)

\* Every message in the conversation is one that a known speaker had in his
\* hands; and what came to Publish did so in the order it was sent, with no
\* gap after the first.
SpokenInv ==
    /\ \A k \in DOMAIN published : \E s \in Stream : \E i \in DOMAIN Says[s] :
          published[k] = Says[s][i] /\ i <= Through(s) /\ known[s]
    /\ \A s \in Stream : \A i, j \in DOMAIN Says[s] :
          i < j /\ Spoken(s, i) /\ j <= Through(s)
             => Before(Says[s][i], Says[s][j])

LEMMA SaysType ==
    \A s \in Stream : /\ Says[s] \in Seq(Msg)
                      /\ DOMAIN Says[s] = 1 .. Len(Says[s])
                      /\ Len(Says[s]) \in Nat
  BY ChatAssumption DEF ChatAssumption

LEMMA InboxKeeps ==
    ASSUME HubInv, HubInv', InboxInv, [Next]_vars
    PROVE  InboxInv'
  <1> USE DEF HubInv, TypeOK, Goes, handlerVars, hubVars, senderVars
  <1>1. ASSUME NEW s \in Stream, Handle(s)
        PROVE  InboxInv'
    <2>1. CASE AuthFails(s) \/ PublishDone(s)
      <3>1. /\ inbox[s] # <<>>
            /\ inbox' = [inbox EXCEPT ![s] = Tail(inbox[s])]
            /\ hpc' = [hpc EXCEPT ![s] = "recv"] /\ known' = known
        BY <2>1 DEF AuthFails, PublishDone, Holds
      <3>2. /\ Len(Tail(inbox[s])) = Len(inbox[s]) - 1
            /\ \A k \in 1 .. Len(Tail(inbox[s])) : Tail(inbox[s])[k] = inbox[s][k + 1]
            /\ Len(inbox[s]) \in Nat /\ DOMAIN inbox[s] = 1 .. Len(inbox[s])
            /\ Tail(inbox[s]) \in Seq(Msg)
        <4>1. inbox[s] \in Seq(Msg)
          OBVIOUS
        <4> QED
          BY <3>1, <4>1, HeadTailProperties, LenProperties
      <3>3. inbox'[s] = Tail(inbox[s]) /\ Done(s)' = Done(s) + 1
        BY <3>1, <3>2, SaysType DEF Done
      <3>4. ASSUME NEW k \in DOMAIN inbox'[s]
            PROVE  inbox'[s][k] = Says[s][Done(s)' + k]
        <4>1. k \in 1 .. Len(Tail(inbox[s])) /\ k + 1 \in DOMAIN inbox[s]
          BY <3>2, <3>3
        <4>2. Done(s) \in Nat /\ inbox[s][k + 1] = Says[s][Done(s) + (k + 1)]
          BY <4>1 DEF InboxInv, RestIsLeft
        <4>3. (Done(s) + 1) + k = Done(s) + (k + 1)
          BY <4>1, <4>2
        <4>4. QED
          BY <3>2, <3>3, <4>1, <4>2, <4>3
      <3>5. \A r \in Stream : r # s => inbox'[r] = inbox[r] /\ Done(r)' = Done(r)
        BY <3>1 DEF Done
      <3>6. Done(s)' \in Nat
        BY <3>3 DEF InboxInv, RestIsLeft
      <3>7. \A r \in Stream : RestIsLeft(r)'
        <4>1. RestIsLeft(s)'
          BY <3>4, <3>6 DEF RestIsLeft
        <4>2. ASSUME NEW r \in Stream, r # s
              PROVE  RestIsLeft(r)'
          <5>1. inbox'[r] = inbox[r] /\ Done(r)' = Done(r) /\ RestIsLeft(r)
            BY <3>5, <4>2 DEF InboxInv
          <5>2. QED
            BY <5>1 DEF RestIsLeft
        <4>3. QED
          BY <4>1, <4>2
      <3>8. \A r \in Stream : AsksOnce(r)'
        BY <3>1 DEF InboxInv, AsksOnce
      <3>9. QED
        BY <3>7, <3>8 DEF InboxInv
    <2>2. CASE Subscribe(s) \/ Recv(s) \/ AuthOk(s) \/ Publish(s) \/ RecvFails(s)
               \/ Unsubscribe(s) \/ \E r \in Stream : PublishTo(s, r)
      <3>1. inbox' = inbox
        BY <2>2 DEF Subscribe, Recv, AuthOk, Publish, RecvFails, Unsubscribe,
           PublishTo
      <3>2. \A r \in Stream : RestIsLeft(r)'
        BY <3>1 DEF InboxInv, RestIsLeft, Done
      <3>3. \A r \in Stream : r # s => hpc'[r] = hpc[r] /\ known'[r] = known[r]
        <4>1. CASE AuthOk(s)
          BY <4>1 DEF AuthOk, Remembers
        <4>2. CASE Subscribe(s) \/ Recv(s) \/ Publish(s) \/ RecvFails(s)
                   \/ Unsubscribe(s)
          BY <4>2 DEF Subscribe, Recv, Publish, RecvFails, Unsubscribe
        <4>3. CASE \E r \in Stream : PublishTo(s, r)
          BY <4>3 DEF PublishTo
        <4>4. QED
          BY <2>2, <4>1, <4>2, <4>3
      <3>4. CASE Recv(s) \/ AuthOk(s) \/ Publish(s)
        <4>1. AsksOnce(s)'
          BY <3>4 DEF Recv, AuthOk, Remembers, Publish, InboxInv, AsksOnce
        <4>2. QED
          BY <3>2, <3>3, <4>1 DEF InboxInv, AsksOnce
      <3>5. CASE Subscribe(s) \/ RecvFails(s) \/ Unsubscribe(s)
                 \/ \E r \in Stream : PublishTo(s, r)
        <4>1. AsksOnce(s)'
          BY <3>5 DEF Subscribe, RecvFails, Unsubscribe, PublishTo, InboxInv,
             AsksOnce
        <4>2. QED
          BY <3>2, <3>3, <4>1 DEF InboxInv, AsksOnce
      <3>6. QED
        BY <2>2, <3>4, <3>5
    <2>3. QED
      BY <1>1, <2>1, <2>2 DEF Handle
  <1>2. ASSUME NEW s \in Stream, Send(s)
        PROVE  InboxInv'
    <2>1. inbox' = inbox /\ hpc' = hpc /\ known' = known
      BY <1>2 DEF Send, Take, SendOk, SendFails, RangeEnds, SenderGoes
    <2>2. QED
      BY <2>1 DEF InboxInv, RestIsLeft, AsksOnce, Done
  <1>3. CASE UNCHANGED vars
    <2>1. inbox' = inbox /\ hpc' = hpc /\ known' = known
      BY <1>3 DEF vars
    <2>2. QED
      BY <2>1 DEF InboxInv, RestIsLeft, AsksOnce, Done
  <1>4. QED
    BY <1>1, <1>2, <1>3 DEF Next, AllGone

\* A step that publishes nothing, and takes nobody further who is known.
LEMMA SpokenStays ==
    ASSUME SpokenInv, published' = published,
           \A s \in Stream :
              known[s] => known'[s] /\ Through(s)' = Through(s)
    PROVE  SpokenInv'
  <1>1. ASSUME NEW k \in DOMAIN published'
        PROVE  \E s \in Stream : \E i \in DOMAIN Says[s] :
                  published'[k] = Says[s][i] /\ i <= Through(s)' /\ known'[s]
    BY <1>1 DEF SpokenInv
  <1>2. ASSUME NEW s \in Stream, NEW i \in DOMAIN Says[s], NEW j \in DOMAIN Says[s],
               i < j, Spoken(s, i)', j <= Through(s)'
        PROVE  Before(Says[s][i], Says[s][j])'
    <2>1. Spoken(s, i)
      BY <1>2 DEF Spoken
    <2>2. PICK k \in DOMAIN published : published[k] = Says[s][i]
      BY <2>1 DEF Spoken
    <2>3. PICK r \in Stream : \E n \in DOMAIN Says[r] :
             published[k] = Says[r][n] /\ known[r]
      BY <2>2 DEF SpokenInv
    <2>4. r = s
      BY <2>2, <2>3, OnceAssumption DEF OnceAssumption
    <2>5. j <= Through(s)
      BY <1>2, <2>3, <2>4
    <2>6. Before(Says[s][i], Says[s][j])
      BY <1>2, <2>1, <2>5 DEF SpokenInv
    <2>7. QED
      BY <2>6 DEF Before
  <1>3. QED
    BY <1>1, <1>2 DEF SpokenInv

\* Publish adds the message in the hands of s, which no other message is.
LEMMA SpokenGrows ==
    ASSUME HubInv, HubInv', InboxInv, SpokenInv, NEW s \in Stream, Publish(s)
    PROVE  SpokenInv'
  <1> DEFINE n == Done(s) + 1
             m == Says[s][n]
  <1>1. /\ n \in DOMAIN Says[s] /\ m = Head(inbox[s]) /\ Done(s) \in Nat
        /\ m \in Msg /\ known[s]
    <2>1. /\ inbox[s] \in Seq(Msg) /\ inbox[s] # <<>>
      BY DEF HubInv, TypeOK, Holds, Publish, Goes
    <2>2. /\ Len(inbox[s]) \in Nat /\ Len(inbox[s]) >= 1
          /\ DOMAIN inbox[s] = 1 .. Len(inbox[s])
          /\ Head(inbox[s]) = inbox[s][1]
      BY <2>1, LenProperties, HeadTailProperties
    <2>3. Done(s) \in Nat /\ inbox[s][1] = Says[s][n] /\ known[s]
      BY <2>2 DEF InboxInv, RestIsLeft, AsksOnce, Publish, Goes
    <2>4. n <= Len(Says[s]) /\ n >= 1
      BY <2>2, <2>3, SaysType DEF Done
    <2>5. n \in DOMAIN Says[s]
      BY <2>3, <2>4, SaysType
    <2>6. m \in Msg
      BY <2>5, SaysType
    <2>7. QED
      BY <2>2, <2>3, <2>5, <2>6
  <1> HIDE DEF n, m
  <1>2. published \in Seq(Msg) /\ published' = Append(published, m)
    BY <1>1 DEF HubInv, TypeOK, Publish
  <1>3. /\ DOMAIN published = 1 .. Len(published) /\ Len(published) \in Nat
        /\ DOMAIN published' = 1 .. Len(published) + 1
        /\ published'[Len(published) + 1] = m
        /\ \A k \in 1 .. Len(published) : published'[k] = published[k]
    BY <1>1, <1>2, AppendSteps, LenProperties
  <1>4. /\ \A r \in Stream : r # s => Through(r)' = Through(r)
        /\ Through(s) = n - 1 /\ Through(s)' = n /\ known' = known
    BY <1>1 DEF HubInv, TypeOK, Publish, Goes, Through, Done, n
  <1>5. \A r \in Stream : \A i \in DOMAIN Says[r] :
           Says[r][i] = m => r = s /\ i = n
    BY <1>1, OnceAssumption DEF OnceAssumption, m
  <1>6. ASSUME NEW k \in DOMAIN published'
        PROVE  \E r \in Stream : \E i \in DOMAIN Says[r] :
                  published'[k] = Says[r][i] /\ i <= Through(r)' /\ known'[r]
    <2>1. CASE k \in DOMAIN published
      <3>0. PICK r \in Stream : \E i \in DOMAIN Says[r] :
               published[k] = Says[r][i] /\ i <= Through(r) /\ known[r]
        BY <2>1 DEF SpokenInv
      <3>1. PICK i \in DOMAIN Says[r] :
               published[k] = Says[r][i] /\ i <= Through(r) /\ known[r]
        BY <3>0
      <3>2. i \in Nat /\ n \in Nat
        BY <1>1, SaysType DEF n
      <3>3. i <= Through(r)'
        BY <1>4, <3>1, <3>2
      <3>4. QED
        BY <1>3, <1>4, <2>1, <3>1, <3>3
    <2>2. CASE k = Len(published) + 1
      <3>1. published'[k] = Says[s][n] /\ n <= Through(s)' /\ known'[s]
        BY <1>1, <1>3, <1>4, <2>2 DEF m, n
      <3>2. QED
        BY <1>1, <3>1
    <2>3. QED
      BY <1>3, <1>6, <2>1, <2>2
  <1>7. ASSUME NEW r \in Stream, NEW i \in DOMAIN Says[r], NEW j \in DOMAIN Says[r],
               i < j, Spoken(r, i)', j <= Through(r)'
        PROVE  Before(Says[r][i], Says[r][j])'
    <2>1. PICK k \in DOMAIN published' : published'[k] = Says[r][i]
      BY <1>7 DEF Spoken
    <2>2. i \in Nat /\ j \in Nat /\ n \in Nat
      BY <1>1, SaysType DEF n
    <2>3. k \in DOMAIN published
      <3>1. ASSUME k = Len(published) + 1
            PROVE  FALSE
        <4>1. r = s /\ i = n
          BY <1>3, <1>5, <2>1, <3>1
        <4>2. QED
          BY <1>4, <1>7, <2>2, <4>1
      <3>2. QED
        BY <1>3, <3>1
    <2>4. published[k] = Says[r][i]
      BY <1>3, <2>1, <2>3
    <2>5. CASE r = s /\ j = n
      <3>1. published'[Len(published) + 1] = Says[r][j]
        BY <1>3, <2>5 DEF m
      <3>2. k < Len(published) + 1 /\ Len(published) + 1 \in DOMAIN published'
        BY <1>3, <2>3
      <3>3. QED
        BY <2>1, <3>1, <3>2 DEF Before
    <2>6. CASE ~(r = s /\ j = n)
      <3>1. j <= Through(r)
        BY <1>4, <1>7, <2>2, <2>6
      <3>2. Before(Says[r][i], Says[r][j])
        BY <1>7, <2>3, <2>4, <3>1 DEF SpokenInv, Spoken
      <3>3. QED
        BY <1>3, <3>2 DEF Before
    <2>7. QED
      BY <2>5, <2>6
  <1>8. QED
    BY <1>6, <1>7 DEF SpokenInv

LEMMA SpokenKeeps ==
    ASSUME HubInv, HubInv', InboxInv, InboxInv', SpokenInv, [Next]_vars
    PROVE  SpokenInv'
  <1> USE DEF HubInv, TypeOK, Goes, handlerVars, hubVars, senderVars
  <1>1. \A r \in Stream : /\ Done(r) \in Nat /\ Done(r)' \in Nat
                          /\ Through(r) \in Nat /\ Through(r)' \in Nat
    BY DEF InboxInv, RestIsLeft, Through
  <1>2. ASSUME NEW s \in Stream, AuthFails(s) \/ PublishDone(s)
        PROVE  SpokenInv'
    <2>1. /\ inbox[s] # <<>> /\ inbox[s] \in Seq(Msg)
          /\ inbox' = [inbox EXCEPT ![s] = Tail(inbox[s])]
          /\ hpc' = [hpc EXCEPT ![s] = "recv"] /\ known' = known
          /\ published' = published
          /\ hpc[s] \in {"authenticating", "publishing"}
      BY <1>2 DEF AuthFails, PublishDone, Holds
    <2>2. Len(inbox'[s]) = Len(inbox[s]) - 1
      BY <2>1, HeadTailProperties
    <2>3. Len(inbox[s]) \in Nat
      BY <2>1, LenProperties
    <2>4. Done(s)' = Done(s) + 1
      BY <2>2, <2>3, SaysType DEF Done
    <2>5. \A r \in Stream : r # s => Through(r)' = Through(r)
      BY <2>1 DEF Through, Done
    <2>6. Through(s)' = Done(s) + 1
      BY <2>1, <2>4 DEF Through
    <2>7. known[s] => Through(s)' = Through(s)
      BY <1>1, <2>1, <2>6 DEF InboxInv, AsksOnce, Through
    <2>8. \A r \in Stream :
             known[r] => known'[r] /\ Through(r)' = Through(r)
      BY <2>1, <2>5, <2>7
    <2>9. QED
      BY <2>1, <2>8, SpokenStays
  <1>3. ASSUME NEW s \in Stream,
               \/ Subscribe(s) \/ Recv(s) \/ AuthOk(s) \/ RecvFails(s)
               \/ Unsubscribe(s) \/ (\E r \in Stream : PublishTo(s, r)) \/ Send(s)
        PROVE  SpokenInv'
    <2>1. published' = published /\ inbox' = inbox
      BY <1>3 DEF Subscribe, Recv, AuthOk, RecvFails, Unsubscribe, PublishTo,
         Send, Take, SendOk, SendFails, RangeEnds, SenderGoes
    <2>2. \A r \in Stream : hpc[r] = "publishing" <=> hpc'[r] = "publishing"
      BY <1>3 DEF Subscribe, Recv, AuthOk, RecvFails, Unsubscribe, PublishTo,
         Send, Take, SendOk, SendFails, RangeEnds, SenderGoes
    <2>3. \A r \in Stream : known[r] => known'[r]
      BY <1>3 DEF Subscribe, Recv, AuthOk, Remembers, RecvFails, Unsubscribe,
         PublishTo, Send, Take, SendOk, SendFails, RangeEnds, SenderGoes
    <2>4. \A r \in Stream : Through(r)' = Through(r)
      BY <2>1, <2>2 DEF Through, Done
    <2>5. \A r \in Stream :
             known[r] => known'[r] /\ Through(r)' = Through(r)
      BY <2>3, <2>4
    <2>6. QED
      BY <2>1, <2>5, SpokenStays
  <1>4. CASE UNCHANGED vars
    <2>1. UNCHANGED <<published, inbox, hpc, known>>
      BY <1>4 DEF vars
    <2>2. \A r \in Stream : Through(r)' = Through(r)
      BY <2>1 DEF Through, Done
    <2>3. QED
      BY <1>1, <2>1, <2>2, SpokenStays
  <1>5. QED
    BY <1>2, <1>3, <1>4, SpokenGrows DEF Next, Handle, AllGone

LEMMA SpokenIsHeard ==
    ASSUME InboxInv, SpokenInv
    PROVE  HeardFromThenOn
  <1> SUFFICES ASSUME NEW s \in Stream, NEW i \in DOMAIN Says[s],
                      NEW j \in DOMAIN Says[s], i < j, Spoken(s, i), Behind(s, j)
               PROVE  Before(Says[s][i], Says[s][j])
    BY DEF HeardFromThenOn
  <1>1. j <= Done(s)
    BY DEF Behind, Done
  <1>2. j <= Through(s)
    <2>1. j \in Nat /\ Done(s) \in Nat
      BY SaysType DEF InboxInv, RestIsLeft
    <2>2. QED
      BY <1>1, <2>1 DEF Through
  <1>3. QED
    BY <1>2 DEF SpokenInv

\* From the first message of a stream that was published on none is lost,
\* and they are published in the order they were sent, for any number of
\* streams and messages (game_handler.go:92-103).
THEOREM HeardOnceHeard == Spec => []HeardFromThenOn
  <1>1. Init => InboxInv /\ SpokenInv
    <2>1. \A s \in Stream : Len(Says[s]) - Len(Says[s]) = 0
      BY SaysType
    <2>2. \A s \in Stream : \A k \in DOMAIN Says[s] : 0 + k = k
      BY SaysType
    <2>3. Init => InboxInv
      BY <2>1, <2>2 DEF Init, InboxInv, RestIsLeft, AsksOnce, Done
    <2>4. Init => SpokenInv
      BY DEF Init, SpokenInv, Spoken
    <2>5. QED
      BY <2>3, <2>4
  <1>2. HubInv /\ HubInv' /\ InboxInv /\ [Next]_vars => InboxInv'
    BY InboxKeeps
  <1>3. HubInv /\ HubInv' /\ InboxInv /\ InboxInv' /\ SpokenInv /\ [Next]_vars
           => SpokenInv'
    BY SpokenKeeps
  <1>4. InboxInv /\ SpokenInv => HeardFromThenOn
    BY SpokenIsHeard
  <1>5. QED
    BY HubInvariant, <1>1, <1>2, <1>3, <1>4, PTL DEF Spec
=============================================================================
