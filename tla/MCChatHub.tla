----------------------------- MODULE MCChatHub -----------------------------
(* A small instance of ChatHub for TLC: two clients that hear each other   *)
(* and themselves; alice speaks twice.                                     *)
EXTENDS ChatHub, TLC

CONSTANTS alice, bob, m1, m2, m3

Conversation == alice :> <<m1, m2>> @@ bob :> <<m3>>
=============================================================================
