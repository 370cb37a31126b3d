---------------------------- MODULE WerewolfViews ----------------------------
(***************************************************************************)
(* What a werewolf game shows: the view of each player and of a human      *)
(* moderator (WerewolfGameModule), the interaction sent with it, and the   *)
(* room as members and the Room Owner see it, with who is connected and    *)
(* how many of those who are asked are (werewolfClientRoomProjection, and  *)
(* hostRecoveryStatus of the Node host). Names, texts and ids of actions   *)
(* are left out; a player stands for the reference sent of it.             *)
(***************************************************************************)
EXTENDS WerewolfGame

CONSTANTS
  Turned   \* a permutation of the players that moves each of them

ASSUME TurnedAssumption ==
  /\ Turned \in [Players -> Players]
  /\ \A p \in Players : Turned[p] # p
  /\ \A p, q \in Players : Turned[p] = Turned[q] => p = q

\* The night steps done; indexOf is one less.
NightSteps == <<"night_guard", "night_werewolf", "night_witch", "night_seer",
                "night_complete">>
CompletedNightSteps(g) ==
  Cardinality({i \in 1 .. 5 : \E j \in i .. 5 : NightSteps[j] = g.phase})

\* commonRoomGameView
PublicView(g) ==
  [phase |-> g.phase, confirmed |-> Cardinality(g.confirmed),
   steps |-> CompletedNightSteps(g),
   dayNumber |-> g.dayNumber, nightNumber |-> g.nightNumber,
   aliveCount |-> Cardinality(Living(g)), votesRequired |-> Cardinality(Voters(g)),
   votesCast |-> Cardinality({p \in Players : g.votes[p] # None}),
   pk |-> g.pk, eliminated |-> g.eliminated, noKill |-> g.noKill,
   winner |-> g.winner, dead |-> g.dead]

\* getModeratorView: the tally says how many votes each player has.
VoteTally(g) ==
  IF g.phase \in Ballots \union {"day_result"} THEN [q \in Players |-> VotesFor(g, q)]
  ELSE [q \in Players |-> 0]
ModeratorView(g) == <<PublicView(g), VoteTally(g)>>

Waiting == [mode |-> "waiting"]
HasTurn(g, p) ==
  /\ g.roles[p] \in NightRoles /\ NightPhase[g.roles[p]] = g.phase
  /\ p \notin g.dead

\* The seer's result: for the target, which the model does not name, whether it
\* is a wolf; so for whomever it might be.
SeerResult(g) ==
  [mode |-> "seer_result", checked |-> {q \in Players : g.roles[q] = "werewolf"}]

NightView(g, p) ==
  CASE g.phase = "night_werewolf" -> [mode |-> "wolf_action", targets |-> Living(g)]
    [] g.phase = "night_guard" ->
         [mode |-> "guard_action", targets |-> Living(g) \ {g.guardLast}]
    [] g.phase = "night_witch" ->
         [mode |-> "witch_action", targets |-> Living(g) \ {p},
          attacked |-> g.wolfTarget, poison |-> ~g.poisonSpent,
          antidote |-> ~g.antidoteSpent /\ g.wolfTarget # None]
    [] OTHER -> IF g.seerTarget THEN SeerResult(g)
                ELSE [mode |-> "seer_action", targets |-> Living(g) \ {p}]

BallotView(g, p) ==
  IF p \in g.dead THEN [mode |-> "spectator", deaths |-> g.deaths]
  ELSE IF g.phase = "day_pk" /\ p \in g.pk THEN [mode |-> "waiting", deaths |-> g.deaths]
  ELSE [mode |-> g.phase, deaths |-> g.deaths, myVote |-> g.votes[p],
        targets |-> (IF g.phase = "day_pk" THEN Living(g) \intersect g.pk
                     ELSE Living(g)) \ {p}]

HunterView(g, p) ==
  IF g.roles[p] = "hunter" THEN [mode |-> "hunter_execution", targets |-> Living(g)]
  ELSE IF g.hunterTrigger = "night" THEN [mode |-> "day_announce", deaths |-> g.deaths]
  ELSE Waiting

DayView(g, p) ==
  CASE g.phase = "night_complete" -> [mode |-> g.phase, deaths |-> g.deaths]
    [] g.phase \in Ballots -> BallotView(g, p)
    [] g.phase = "day_result" -> [mode |-> g.phase, deaths |-> g.deaths,
                                  eliminated |-> g.eliminated, noKill |-> g.noKill]
    [] g.phase = "day_hunter" -> HunterView(g, p)
    [] g.phase = "game_over" -> [mode |-> g.phase, winner |-> g.winner]
    [] g.phase = "night_start" -> [mode |-> g.phase]
    [] OTHER -> [mode |-> "role_reveal", confirmed |-> p \in g.confirmed]

\* getPlayerView
PlayerView(g, p) ==
  [phase |-> g.phase, role |-> g.roles[p], dead |-> g.dead,
   shown |-> IF g.phase \notin NightPhases THEN DayView(g, p)
             ELSE IF HasTurn(g, p) THEN NightView(g, p) ELSE Waiting]

\* werewolfPlayerGameView: with the interaction, for those it asks. None stands for a
\* human moderator, who is not one of the players of the game.
PlayerGameView(g, p) ==
  IF p = None THEN [phase |-> g.phase, mode |-> "moderator"]
  ELSE [view |-> PlayerView(g, p), asked |-> p \in Asked(g)]

\* What is sent of the game with the room: the tally to a human moderator only.
RoomGameViewF(g, p) == ModeratorView(g)
RoomGameView(g, p) == IF p = None THEN ModeratorView(g) ELSE <<PublicView(g)>>

\* hostRecoveryStatus and hostRecoveryProjection, for the Room Owner alone.
Recovery(g, online) ==
  LET actors == IF Asked(g) # {} THEN Asked(g) ELSE Acting(g)
      there == Cardinality(actors \intersect online)
  IN  [pending |-> Asked(g) # {}, waiting |-> Cardinality(actors),
       onlineWaiting |-> there, offlineWaiting |-> Cardinality(actors) - there]

\* createWerewolfClientRoomProjection
RoomProjection(g, p, online) == [connected |-> online, game |-> RoomGameView(g, p)]

\* createGameRoomStateEnvelope, createGamePlayerStateEnvelope: all that a member is
\* sent of a state, at every push and every synchronisation.
Envelopes(g, p, online) ==
  [room |-> RoomProjection(g, p, online), player |-> PlayerGameView(g, p)]

---------------------------------------------------------- (* properties *)
\* The game with everything in it that player p may not know otherwise: roles and
\* votes of others, the night's choices. What p is told in its own phase stays (the
\* witch's victim and potions, the guard's last choice, the seer's result).
Other(t) == IF t = None THEN None ELSE Turned[t]
Altered(g, p) ==
  LET turn == IF HasTurn(g, p) THEN g.phase ELSE "none"
      told == turn = "night_seer" /\ g.seerTarget
  IN  [g EXCEPT
        !.roles = [q \in Players |->
                     IF q = p \/ (told /\ g.roles[q] = "werewolf") THEN g.roles[q]
                     ELSE IF g.roles[q] = "villager" THEN "hunter" ELSE "villager"],
        !.votes = [q \in Players |-> IF q = p THEN g.votes[p] ELSE Other(g.votes[q])],
        !.wolfTarget = IF turn = "night_witch" THEN @ ELSE Other(@),
        !.antidoteSpent = IF turn = "night_witch" THEN @ ELSE ~@,
        !.poisonSpent = IF turn = "night_witch" THEN @ ELSE ~@,
        !.seerTarget = IF turn = "night_seer" THEN @ ELSE ~@,
        !.guardLast = IF turn = "night_guard" THEN @ ELSE Other(@),
        !.guardProtected = Other(@), !.poisonTarget = Other(@),
        !.hunterTarget = Other(@), !.usedAntidote = ~@, !.seerConfirmed = ~@]

\* The game with the roles and votes of its players dealt round among them.
DealtRound(g) == [g EXCEPT !.roles = [q \in Players |-> g.roles[Turned[q]]],
                           !.votes = [q \in Players |-> g.votes[Turned[q]]]]

\* The game in which p and q hold each other's role.
Swapped(g, p, q) ==
  [g EXCEPT !.roles = [@ EXCEPT ![p] = g.roles[q], ![q] = g.roles[p]]]

\* No view gives away what its viewer may not know: it would be the same in a
\* game where that is otherwise. Players do not see the roles, choices and votes
\* of others; a human moderator sees the tally without the voters and no role;
\* and the counts the Room Owner is given of those asked would be the same if it
\* were others, while all are connected (GameModerator.ts:18, hostRecovery.ts:8).
SecretsKept ==
  /\ \A p \in Players : \E h \in {Altered(game, p)} :
       PlayerGameView(h, p) = PlayerGameView(game, p)
  /\ \A p \in {CHOOSE p \in Players : TRUE} :  \* it is the same for them all
       Envelopes(Altered(game, p), p, Players) = Envelopes(game, p, Players)
  /\ Envelopes(DealtRound(game), None, Players) = Envelopes(game, None, Players)
  /\ game.phase \in NightPhases =>
       \A p \in Asked(game), q \in Living(game) :
         Recovery(Swapped(game, p, q), Players) = Recovery(game, Players)
=============================================================================
