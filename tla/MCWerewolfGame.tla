--------------------------- MODULE MCWerewolfGame ---------------------------
(* Small games: the members are interchangeable, so one deal per deck. *)
EXTENDS WerewolfViews, TLC

CONSTANTS a, b, c, d, e

MCPlayers == {a, b, c, d, e}
Deck(r1, r2, r3, r4, r5) == a :> r1 @@ b :> r2 @@ c :> r3 @@ d :> r4 @@ e :> r5
AllRoles == Deck("werewolf", "seer", "witch", "guard", "hunter")
TwoWolves == Deck("werewolf", "werewolf", "witch", "hunter", "villager")
MCDeals == {AllRoles, TwoWolves}
OneDeal == {AllRoles}
MCTurned == a :> b @@ b :> c @@ c :> d @@ d :> e @@ e :> a
=============================================================================
