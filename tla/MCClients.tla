----------------------------- MODULE MCClients -----------------------------
(* A small instance of Clients for TLC: a player who gets his credentials  *)
(* right, wrong, or empty, and a load generator that wants the same        *)
(* account.                                                                *)
EXTENDS Clients, TLC

CONSTANTS p1, bot, ann, x, y

Credentials ==
    p1 :> {<<ann, x>>, <<ann, y>>, <<ann, Blank>>} @@ bot :> {<<ann, x>>}

Lines == p1 :> {"cat", "/leaderboard", "/chat", "/quit"}
=============================================================================
