------------------------------ MODULE BotcViews ------------------------------
(***************************************************************************)
(* What a game of Blood on the Clocktower shows: the whole view of each    *)
(* player with what it is told in private (getPlayerView and               *)
(* BotcPlayerPrivateViews), what all members see and what the storyteller  *)
(* sees besides (getPublicView, getModeratorView, and                      *)
(* botcClientRoomProjection). BotcGame has the part of them that says who  *)
(* may do what. Names and ids of actions are left out; what there is no    *)
(* value for is the empty set, what there is one for the set of it.        *)
(***************************************************************************)
EXTENDS BotcGame

\* createBotcMinionInfoView, createBotcDemonInfoView
MinionInfo(g, p) ==
  [demon |-> Holders(g.role, Demons), fellows |-> Holders(g.role, Minions) \ {p}]
DemonInfo(g) == [minions |-> Holders(g.role, Minions), bluffs |-> g.bluffs]

\* createBotcPrivateInformationView: to the recipient, and not whether it is true.
PrivateInformation(g, p) == IF g.info.to = p THEN {g.info} ELSE {}

\* playerNightStepView, with what is told in the step
NightStepView(g, p) ==
  [kind |-> g.step.kind, role |-> g.step.role,
   choice |-> IF ChoiceShown(g) THEN Allowed(g, g.step, p) ELSE {},
   minionInfo |-> IF g.step.role = "minion_info" THEN {MinionInfo(g, p)} ELSE {},
   demonInfo |-> IF g.step.role = "demon_info" /\ g.bluffs # {} THEN {DemonInfo(g)} ELSE {},
   information |-> PrivateInformation(g, p)]

Woken(g, p) == InNight(g) /\ p \in g.step.actors

\* getPlayerView
WholeView(g, p) ==
  [phase |-> g.phase, confirmed |-> p \in g.confirmed, may |-> PlayerView(g, p),
   voteSubmitted |-> p \in g.day.ballot.voted,
   night |-> IF Woken(g, p) THEN {NightStepView(g, p)} ELSE {}]

\* The day as all see it: of a ballot, how many have voted (publicView).
DayFacts(g) ==
  [nominators |-> g.day.nominators, nominees |-> g.day.nominees,
   tallies |-> g.day.tallies, closed |-> g.day.closed, execution |-> g.day.execution,
   by |-> g.day.ballot.by, of |-> g.day.ballot.of,
   submitted |-> Cardinality(g.day.ballot.voted)]

\* publicView: who died in the night is not shown before the day.
PublicFactsF(g) ==
  [can |-> PublicView(g).canCompleteNightStep, phase |-> g.phase,
   players |-> Cardinality(Seats(g)), confirmed |-> Cardinality(g.confirmed),
   dayNumber |-> g.dayNumber, nightNumber |-> g.nightNumber,
   dead |-> g.dead, spent |-> g.spent, winner |-> g.winner,
   day |-> IF g.phase \in {"day", "finished"} THEN {DayFacts(g)} ELSE {}]
PublicFacts(g) ==
  [can |-> PublicView(g).canCompleteNightStep, phase |-> g.phase,
   players |-> Cardinality(Seats(g)), confirmed |-> Cardinality(g.confirmed),
   dayNumber |-> g.dayNumber, nightNumber |-> g.nightNumber,
   dead |-> PublicView(g).dead, spent |-> g.spent, winner |-> g.winner,
   day |-> IF g.phase \in {"day", "finished"} THEN {DayFacts(g)} ELSE {}]

\* getModeratorView, for a human storyteller
StorytellerFacts(g) ==
  [public |-> PublicFacts(g), role |-> g.role, shown |-> g.shown,
   poisoned |-> g.poisoned, master |-> g.master, step |-> g.step, herring |-> g.herring,
   demonInfo |-> IF g.bluffs # {} THEN {DemonInfo(g)} ELSE {},
   decision |-> ModeratorView(g).decision, information |-> g.info]

\* createBotcClientRoomProjection, of a game in play.
\* None stands for a human storyteller, who has no seat.
RoomProjection(g, viewer, online) ==
  [connected |-> online,
   game |-> IF viewer = None THEN StorytellerFacts(g) ELSE PublicFacts(g)]

-------------------------------------------------------- (* what should hold *)
\* The game with everything in it that p may not know otherwise. The roles are
\* dealt round, except p's, who holds what it is shown: the drunk is what it
\* believes. Whoever has died tonight has not and the others have; the night asks
\* others, in a step of its own, unless it asks p; hands raised are down.
Others(g, p) == Seats(g) \ {p}
Altered(g, p) ==
  LET woken == Woken(g, p)
      evil == woken /\ g.step.role \in {"minion_info", "demon_info"}
      open == g.dead \ g.tonight
      tonight == IF InNight(g) THEN (Seats(g) \ open) \ g.tonight ELSE g.tonight
      voted == g.day.ballot.voted
      Moved(f, mine) == [q \in Seats(g) |-> IF q = p THEN mine
                                            ELSE f[Next1(q, Cardinality(Seats(g)))]]
  IN [g EXCEPT
       !.role = IF evil THEN @ ELSE Moved(@, g.shown[p]),
       !.shown = Moved(@, @[p]),
       !.tonight = tonight, !.dead = open \union tonight,
       !.poisoned = IF @ = p THEN None ELSE p, !.master = IF @ = p THEN None ELSE p,
       !.monk = IF @ = p THEN None ELSE p, !.herring = IF @ = p THEN None ELSE p,
       !.bluffs = IF woken /\ g.step.role = "demon_info" THEN @ ELSE {},
       !.chosen = IF woken THEN @ ELSE {}, !.raven = IF woken THEN @ ELSE p,
       !.transitions = {}, !.notices = {},
       !.step = IF woken \/ ~InNight(g) THEN @
                ELSE RoleStep(1, "spy", First(Others(g, p)), "shown_drunk"),
       !.info = IF @.to = p THEN @ ELSE NoInfo,
       !.day.ballot.yes = (voted \ @) \ {p}]

\* What a player and all members are sent gives away nothing the player may not know:
\* neither the roles of others, nor that one is the drunk, poisoned or dead before
\* dawn, whom the night asks and what it tells others, nor how a ballot goes while it
\* is open. But for one bit: all members are sent whether the night's step is one
\* that asks nobody and tells nobody of an ability (canCompleteNightStep), which in a
\* first night is the evil learning of each other, in another a new imp learning of it.
SecretsKept ==
  LET can == PublicView(game).canCompleteNightStep
      sent(g, p) == RoomProjection(g, p, Seats(game))
  IN /\ \A p \in Seats(game) :
          /\ WholeView(Altered(game, p), p) = WholeView(game, p)
          /\ [sent(Altered(game, p), p) EXCEPT !.game.can = can] = sent(game, p)
     /\ can <=> game.step.kind \in {"system_info", "role_change"}
=============================================================================
