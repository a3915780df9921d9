------------------------------ MODULE ChatRoom ------------------------------
(***************************************************************************)
(* What the chat promises its members, without locks, channels, senders or *)
(* handlers: one conversation, which every member hears in its order from  *)
(* when it comes in, but for messages it was too slow for.                 *)
(*                                                                         *)
(* domain/chat.go and the comments of chat_broadcaster.go are the source:  *)
(* Publish hands a message to every subscriber, and a slow one loses it.   *)
(***************************************************************************)
EXTENDS Naturals, Sequences

CONSTANTS Member, Msg

VARIABLES
    log,       \* the conversation
    inside,    \* who is in the room
    left,      \* who was, and never comes back
    since,     \* since[s]: Len(log) when s came in
    heard,     \* heard[s]: what s was given, oldest first
    due,       \* who has yet to be given, or denied, the newest message
    slow       \* who was denied a message

roomVars == <<log, inside, left, since, heard, due, slow>>

Init ==
    /\ log = <<>>
    /\ inside = {}
    /\ left = {}
    /\ since = [s \in Member |-> 0]
    /\ heard = [s \in Member |-> <<>>]
    /\ due = {}
    /\ slow = {}

Join(s) ==
    /\ s \notin inside \cup left
    /\ inside' = inside \cup {s}
    /\ since' = [since EXCEPT ![s] = Len(log)]
    /\ UNCHANGED <<log, left, heard, due, slow>>

\* The next message, when everybody has had the last one.
Say(m) ==
    /\ due = {}
    /\ log' = Append(log, m)
    /\ due' = inside
    /\ UNCHANGED <<inside, left, since, heard, slow>>

Hear(s) ==
    /\ s \in due
    /\ due' = due \ {s}
    /\ heard' = [heard EXCEPT ![s] = Append(@, log[Len(log)])]
    /\ UNCHANGED <<log, inside, left, since, slow>>

Miss(s) ==
    /\ s \in due
    /\ due' = due \ {s}
    /\ slow' = slow \cup {s}
    /\ UNCHANGED <<log, inside, left, since, heard>>

\* Nobody leaves with a message on its way to him.
Leave(s) ==
    /\ s \in inside \ due
    /\ inside' = inside \ {s}
    /\ left' = left \cup {s}
    /\ UNCHANGED <<log, since, heard, due, slow>>

Next ==
    \/ \E s \in Member : Join(s) \/ Hear(s) \/ Miss(s) \/ Leave(s)
    \/ \E m \in Msg : Say(m)

Spec == Init /\ [][Next]_roomVars
=============================================================================
