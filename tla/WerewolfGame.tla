---------------------------- MODULE WerewolfGame ----------------------------
(***************************************************************************)
(* One werewolf game: the rules of domain/game.ts, the role registry's     *)
(* hunter hook and planner, the timeout recovery, and what the two hosts   *)
(* do by themselves once a command is applied. The Node host starts the    *)
(* day vote when a night is over and closes a vote all have cast; the      *)
(* Durable Object starts the vote only when a timeout ended the night.     *)
(*                                                                         *)
(* The rule functions change a game in place; here they are operators      *)
(* from a game to the game they leave. A command with an action id other   *)
(* than the current one is refused and a repeated one is answered without  *)
(* a change: both are stuttering steps, so a command is one made for the   *)
(* phase the game is in. The time limit is an action that may come at any  *)
(* moment of a timed phase; module InteractionTimeout says when it does.   *)
(***************************************************************************)
EXTENDS Integers, FiniteSets

CONSTANTS
  Players,    \* the stable ids of the members
  None,       \* no player: an absent field
  Deals,      \* the deals of roles considered
  Hosts,      \* the hosts considered, of "node" and "cloudflare"
  MaxDays,    \* a bound on the nights and days of a game
  MaxVotes    \* a bound on the votes standing in one round

Roles == {"werewolf", "seer", "witch", "guard", "hunter", "villager"}
Unique == {"seer", "witch", "guard", "hunter"}
Holders(deal, r) == {p \in Players : deal[p] = r}

\* configFromRoleDeck, and the deck dealt to the members.
Legal(deal) ==
  LET wolves == Cardinality(Holders(deal, "werewolf"))
  IN  /\ wolves >= 1
      /\ wolves < Cardinality(Players) - wolves
      /\ \A r \in Unique : Cardinality(Holders(deal, r)) <= 1

ASSUME PlayersAssumption == IsFiniteSet(Players) /\ None \notin Players
ASSUME DealsAssumption == \A d \in Deals : d \in [Players -> Roles] /\ Legal(d)
ASSUME HostsAssumption == Hosts \subseteq {"node", "cloudflare"}
ASSUME BoundAssumption == MaxDays \in Nat \ {0} /\ MaxVotes \in Nat

VARIABLES
  host,   \* who runs the room
  game,   \* GameState
  past    \* history: what the properties remember of the game

vars == <<host, game, past>>

Target == Players \union {None}
NightOrder == <<"guard", "werewolf", "witch", "seer">>
NightRoles == {NightOrder[i] : i \in 1 .. 4}
NightPhase == [guard |-> "night_guard", werewolf |-> "night_werewolf",
               witch |-> "night_witch", seer |-> "night_seer"]
NightPhases == {NightPhase[r] : r \in NightRoles}
Ballots == {"day_vote", "day_pk"}
Phases == NightPhases \union Ballots
          \union {"role_reveal", "night_start", "night_complete", "day_hunter",
                  "day_result", "game_over"}

Game == [roles : [Players -> Roles], phase : Phases,
         confirmed : SUBSET Players, dead : SUBSET Players, deaths : SUBSET Players,
         nightNumber : 1 .. MaxDays, dayNumber : 0 .. MaxDays,
         wolfTarget : Target, guardProtected : Target, guardLast : Target,
         usedAntidote : BOOLEAN, antidoteSpent : BOOLEAN, poisonSpent : BOOLEAN,
         poisonTarget : Target, seerTarget : BOOLEAN, seerConfirmed : BOOLEAN,
         hunterTrigger : {"none", "night", "day"}, hunterTarget : Target,
         votes : [Players -> Target], pk : SUBSET Players,
         eliminated : Target, noKill : BOOLEAN,
         winner : {"none", "wolf", "village"}]

Past == [protected : [1 .. MaxDays -> Target],  \* whom the guard protected each night
         antidotes : Nat, poisons : Nat,        \* potions used in the game
         fell : {"no", "attack", "poison", "vote"},  \* how the hunter died
         offered : Nat,                         \* times a shot was offered
         dusk : SUBSET Roles,                   \* roles with a living holder at dusk
         asked : SUBSET Roles,                  \* roles whose phase came tonight
         seerChose : BOOLEAN]                   \* the seer chose a target tonight

\* startGame: seerTarget only says whether a target is chosen, no rule reads which.
NoVotes == [p \in Players |-> None]
Dealt(deal) ==
  [roles |-> deal, phase |-> "role_reveal",
   confirmed |-> {}, dead |-> {}, deaths |-> {}, nightNumber |-> 1, dayNumber |-> 0,
   wolfTarget |-> None, guardProtected |-> None, guardLast |-> None,
   usedAntidote |-> FALSE, antidoteSpent |-> FALSE, poisonSpent |-> FALSE,
   poisonTarget |-> None, seerTarget |-> FALSE, seerConfirmed |-> FALSE,
   hunterTrigger |-> "none", hunterTarget |-> None,
   votes |-> NoVotes, pk |-> {}, eliminated |-> None, noKill |-> FALSE,
   winner |-> "none"]

Init ==
  /\ host \in Hosts
  /\ \E deal \in Deals : game = Dealt(deal)
  /\ past = [protected |-> [n \in 1 .. MaxDays |-> None], antidotes |-> 0,
             poisons |-> 0, fell |-> "no", offered |-> 0, dusk |-> {},
             asked |-> {}, seerChose |-> FALSE]

------------------------------------------------------------- (* the rules *)
Living(g) == Players \ g.dead
Alive(g, r) == {p \in Living(g) : g.roles[p] = r}

\* checkVictory
Victory(g) ==
  LET wolves == Cardinality(Alive(g, "werewolf"))
  IN  IF wolves = 0 THEN "village"
      ELSE IF wolves >= Cardinality(Living(g)) - wolves THEN "wolf" ELSE "none"

\* The game goes on to the phase next, unless it is decided.
GoOn(g, next) ==
  IF Victory(g) = "none" THEN [g EXCEPT !.phase = next]
  ELSE [g EXCEPT !.phase = "game_over", !.winner = Victory(g)]

\* witchCanAct, the copy of the condition the role registry gives the planner.
WitchCanAct(g) == \/ ~g.antidoteSpent /\ g.wolfTarget # None
                  \/ ~g.poisonSpent

\* shouldRunNightRole
ShouldRun(g, r) ==
  /\ Alive(g, r) # {}
  /\ r = "witch" => \/ ~g.antidoteSpent /\ g.wolfTarget # None
                    \/ ~g.poisonSpent

\* Faulty variants (named ...F) stand before the operator they vary.
\* The hunter's afterDeath hook: of those who die now, not by a potion.
ShootsF(g, dying) == {p \in dying : g.roles[p] = "hunter" /\ Living(g) \ {p} # {}}
Shoots(g, dying) == {p \in dying \ {g.poisonTarget} :
                       g.roles[p] = "hunter" /\ Living(g) \ {p} # {}}
Hunt(g, when) == [g EXCEPT !.phase = "day_hunter", !.hunterTrigger = when]

\* resolveNightDeaths: guarded and saved at once, the target dies.
NightDeaths(g) ==
  {p \in {g.wolfTarget} \ {None} : (p = g.guardProtected) = g.usedAntidote}
  \union ({g.poisonTarget} \ {None})

SettleNight(g) ==
  LET deaths == NightDeaths(g)
      h == [g EXCEPT !.deaths = deaths, !.dead = @ \union deaths]
  IN  IF Shoots(h, deaths) # {} THEN Hunt(h, "night") ELSE GoOn(h, "night_complete")

\* The phase of the first of the roles left; the night is settled if there is none.
NightOf(g, left) ==
  IF left = {} THEN SettleNight(g)
  ELSE LET j == CHOOSE j \in left : \A k \in left : j <= k
       IN  [g EXCEPT !.phase = NightPhase[NightOrder[j]]]

\* nextNightPhase: of the roles after the i-th, those with something to do.
NightFromF(g, i) == NightOf(g, {j \in i + 2 .. 4 : ShouldRun(g, NightOrder[j])})
NightFrom(g, i) == NightOf(g, {j \in i + 1 .. 4 : ShouldRun(g, NightOrder[j])})

\* What each role's choice makes of the game.
GuardTurn(g, t) == NightFrom([g EXCEPT !.guardProtected = t], 1)
WolfTurn(g, t) == NightFrom([g EXCEPT !.wolfTarget = t], 2)
WitchTurn(g, antidote, t) ==
  NightFrom([g EXCEPT !.usedAntidote = antidote,
                      !.antidoteSpent = @ \/ antidote,
                      !.poisonTarget = t,
                      !.poisonSpent = @ \/ t # None], 3)
SeerTurn(g) == SettleNight([g EXCEPT !.seerConfirmed = TRUE])

Shot(g, t) == [g EXCEPT !.hunterTarget = t, !.dead = @ \union ({t} \ {None}),
                        !.hunterTrigger = "none"]
AfterShot(g) == IF g.hunterTrigger = "night" THEN "night_complete" ELSE "day_result"
HunterTurnF(g, t) == [Shot(g, t) EXCEPT !.phase = AfterShot(g)]
HunterTurn(g, t) == GoOn(Shot(g, t), AfterShot(g))

StartDayVote(g) ==
  [g EXCEPT !.dayNumber = @ + 1, !.votes = NoVotes, !.pk = {}, !.eliminated = None,
            !.noKill = FALSE, !.phase = "day_vote"]

\* Whom most of the votes are for: nobody, one, or several.
VotesFor(g, q) == Cardinality({v \in Players : g.votes[v] = q})
Leaders(g) == {q \in Players : /\ VotesFor(g, q) > 0
                               /\ \A r \in Players : VotesFor(g, q) >= VotesFor(g, r)}

NoKill(g) ==
  [g EXCEPT !.noKill = TRUE, !.phase = "day_result",
            !.eliminated = IF g.phase = "day_pk" THEN None ELSE @]

\* applyElimination
Eliminate(g, q) ==
  LET h == [g EXCEPT !.dead = @ \union {q}, !.eliminated = q, !.noKill = FALSE]
  IN  IF g.roles[q] = "hunter" /\ Living(h) \ {q} # {} THEN Hunt(h, "day")
      ELSE GoOn(h, "day_result")

\* A tie is voted on again, among the others.
TieF(g) == [g EXCEPT !.pk = Leaders(g), !.phase = "day_pk"]
Tie(g) == [g EXCEPT !.pk = Leaders(g), !.votes = NoVotes, !.phase = "day_pk"]

CloseVote(g) ==
  IF Leaders(g) = {} THEN NoKill(g)
  ELSE IF \E q \in Players : Leaders(g) = {q}
       THEN Eliminate(g, CHOOSE q \in Players : Leaders(g) = {q})
  ELSE IF g.phase = "day_pk" THEN NoKill(g) ELSE Tie(g)

\* allAliveVoted: the candidates of a PK have no vote in it.
Voters(g) == IF g.phase = "day_pk" THEN Living(g) \ g.pk ELSE Living(g)
AllVoted(g) == Voters(g) # {} /\ \A p \in Voters(g) : g.votes[p] # None

\* getActiveWerewolfInteraction: who is asked, as the planner sees it.
Asked(g) ==
  IF g.phase = "day_hunter" THEN Holders(g.roles, "hunter") \intersect g.dead
  ELSE UNION {Alive(g, r) : r \in {s \in NightRoles :
                 NightPhase[s] = g.phase /\ (s = "witch" => WitchCanAct(g))}}

\* getActingPlayerIds: who is to act, as the game module tells the clients.
Acting(g) ==
  IF g.phase \in Ballots THEN Voters(g)
  ELSE IF g.phase = "day_hunter" THEN Holders(g.roles, "hunter")
  ELSE UNION {Alive(g, r) : r \in {s \in NightRoles : NightPhase[s] = g.phase}}

----------------------------------------------------------- (* the history *)
HunterFell(g, h) ==
  LET died == {p \in h.dead \ g.dead : g.roles[p] = "hunter"}
  IN  IF died = {} THEN past.fell
      ELSE IF g.phase \in Ballots THEN "vote"
      ELSE IF died = {h.poisonTarget} THEN "poison" ELSE "attack"

Noted(g, h) ==
  LET dusk == g.phase = "night_start"
      now == {r \in NightRoles : NightPhase[r] = h.phase}
  IN  [protected |-> [past.protected EXCEPT ![h.nightNumber] = h.guardProtected],
       antidotes |-> past.antidotes
                     + (IF h.usedAntidote /\ ~g.usedAntidote THEN 1 ELSE 0),
       poisons |-> past.poisons
                   + (IF h.poisonTarget # None /\ g.poisonTarget = None THEN 1 ELSE 0),
       fell |-> HunterFell(g, h),
       offered |-> past.offered
                   + (IF h.phase = "day_hunter" /\ g.phase # "day_hunter" THEN 1 ELSE 0),
       dusk |-> IF dusk THEN {r \in NightRoles : Alive(g, r) # {}} ELSE past.dusk,
       asked |-> (IF dusk THEN {} ELSE past.asked) \union now,
       seerChose |-> \/ h.phase = "night_seer" /\ h.seerTarget
                     \/ ~dusk /\ past.seerChose]

Become(h) == game' = h /\ past' = Noted(game, h) /\ UNCHANGED host

------------------------------------------------------------ (* commands *)
\* A night that is over becomes day: at once where the host sees to it.
Dawn(g) == IF g.phase = "night_complete" THEN StartDayVote(g) ELSE g
Answer(g) == Become(IF host = "node" THEN Dawn(g) ELSE g)

ConfirmRole(p) ==
  /\ game.phase = "role_reveal" /\ p \notin game.confirmed
  /\ LET all == game.confirmed \union {p}
     IN  Become([game EXCEPT !.confirmed = all,
                   !.phase = IF all = Players THEN "night_start" ELSE @])

\* startNight: what was chosen last night is forgotten, but for the guard's choice.
Forget(g) ==
  [g EXCEPT !.guardProtected = None, !.wolfTarget = None, !.poisonTarget = None,
            !.usedAntidote = FALSE, !.seerTarget = FALSE, !.seerConfirmed = FALSE,
            !.hunterTarget = None, !.hunterTrigger = "none",
            !.eliminated = None, !.noKill = FALSE, !.deaths = {},
            !.votes = NoVotes, !.pk = {}]
Tonight(g) == IF g.dayNumber > 0 THEN g.nightNumber + 1 ELSE g.nightNumber
DuskUnguardedF(g) == [Forget(g) EXCEPT !.nightNumber = Tonight(g)]
DuskCountsF(g) == [Forget(g) EXCEPT !.guardLast = g.guardProtected,
                                    !.nightNumber = @ + 1]
Dusk(g) == [Forget(g) EXCEPT !.guardLast = g.guardProtected,
                             !.nightNumber = Tonight(g)]

StartNight ==
  /\ game.phase = "night_start"
  /\ game.dayNumber < MaxDays
  /\ Answer(NightFrom(Dusk(game), 0))

SubmitGuardTarget(p, t) ==
  /\ game.phase = "night_guard" /\ p \in Alive(game, "guard")
  /\ t # None => t \in Living(game) /\ t # game.guardLast
  /\ Answer(GuardTurn(game, t))

\* Any one of the wolves decides for all.
SubmitWolfTarget(p, t) ==
  /\ game.phase = "night_werewolf" /\ p \in Alive(game, "werewolf")
  /\ t # None => t \in Living(game)
  /\ Answer(WolfTurn(game, t))

\* Whoever else is poisoned may be dead already.
SubmitWitchAction(p, antidote, t) ==
  /\ game.phase = "night_witch" /\ p \in Alive(game, "witch")
  /\ antidote => t = None /\ ~game.antidoteSpent /\ game.wolfTarget # None
  /\ t # None => ~game.poisonSpent /\ t # p
  /\ Answer(WitchTurn(game, antidote, t))

SubmitSeerTarget(p) ==
  /\ game.phase = "night_seer" /\ p \in Alive(game, "seer")
  /\ ~game.seerTarget
  /\ \E q \in Players : q # p
  /\ Become([game EXCEPT !.seerTarget = TRUE])

ConfirmSeerResult(p) ==
  /\ game.phase = "night_seer" /\ p \in Alive(game, "seer")
  /\ game.seerTarget
  /\ Answer(SeerTurn(game))

SubmitHunterExecution(p, t) ==
  /\ game.phase = "day_hunter"
  /\ game.roles[p] = "hunter" /\ p \in game.dead
  /\ t # None => t \in Living(game)
  /\ Answer(HunterTurn(game, t))

\* The last vote closes the round on the Node host.
SubmitVote(v, q) ==
  LET cast == [game EXCEPT !.votes[v] = q]
  IN  /\ game.phase \in Ballots
      /\ v \in Voters(game) /\ q \in Living(game) \ {v}
      /\ game.phase = "day_pk" => q \in game.pk
      /\ game.votes[v] # q
      /\ Cardinality({p \in Players : cast.votes[p] # None}) <= MaxVotes
      /\ Become(IF host = "node" /\ AllVoted(cast) THEN CloseVote(cast) ELSE cast)

CloseDayVote == game.phase \in Ballots /\ Become(CloseVote(game))

BeginNightStart ==
  game.phase = "day_result" /\ Become([game EXCEPT !.phase = "night_start"])

------------------------------------------------------- (* the time limit *)
\* recoverTimedOutWerewolfInteraction, then the vote on both hosts. It throws
\* where nobody is asked, and where the seer has nobody to check.
Timed == \/ game.phase \in NightPhases
         \/ game.phase = "day_hunter" /\ game.hunterTrigger = "night"

TimeoutGuard == game.phase = "night_guard" /\ Become(Dawn(GuardTurn(game, None)))
TimeoutWolf == game.phase = "night_werewolf" /\ Become(Dawn(WolfTurn(game, None)))
TimeoutWitch ==
  game.phase = "night_witch" /\ Become(Dawn(WitchTurn(game, FALSE, None)))

\* The check the seer did not make is forfeited.
TimeoutSeer ==
  /\ game.phase = "night_seer" /\ ~game.seerTarget
  /\ Living(game) \ Asked(game) # {}
  /\ Become(Dawn([SeerTurn(game) EXCEPT !.seerConfirmed = FALSE]))
TimeoutSeerResult ==
  game.phase = "night_seer" /\ game.seerTarget /\ Become(Dawn(SeerTurn(game)))
TimeoutHunter ==
  /\ game.phase = "day_hunter" /\ game.hunterTrigger = "night"
  /\ Become(Dawn(HunterTurn(game, None)))

TimeoutF ==
  /\ Asked(game) # {}
  /\ TimeoutGuard \/ TimeoutWolf \/ TimeoutWitch \/ TimeoutSeer \/ TimeoutSeerResult
Timeout ==
  /\ Asked(game) # {}
  /\ \/ TimeoutGuard
     \/ TimeoutWolf
     \/ TimeoutWitch
     \/ TimeoutSeer
     \/ TimeoutSeerResult
     \/ TimeoutHunter

Next ==
  \/ \E p \in Players : ConfirmRole(p)
  \/ StartNight
  \/ \E p \in Players, t \in Target : SubmitGuardTarget(p, t)
  \/ \E p \in Players, t \in Target : SubmitWolfTarget(p, t)
  \/ \E p \in Players, a \in BOOLEAN, t \in Target : SubmitWitchAction(p, a, t)
  \/ \E p \in Players : SubmitSeerTarget(p)
  \/ \E p \in Players : ConfirmSeerResult(p)
  \/ \E p \in Players, t \in Target : SubmitHunterExecution(p, t)
  \/ \E v \in Players, q \in Players : SubmitVote(v, q)
  \/ CloseDayVote
  \/ BeginNightStart
  \/ Timeout

Spec == Init /\ [][Next]_vars

\* The time limit is on, and the alarm or the Node timer delivers it.
FairSpec == Spec /\ WF_vars(Timeout)

---------------------------------------------------------- (* properties *)
\* Every field has its type and the nights and days keep to their bound.
TypeOK == host \in Hosts /\ game \in Game /\ past \in Past

\* A decided game is over and no undecided one is: play goes on only while
\* there are wolves and fewer of them than others, on every path by which a
\* player dies, but for the hunter's last shot, which is awaited first
\* (settleNight, applyElimination and submitHunterExecution each decide).
DecidedIsOver ==
  /\ game.phase = "game_over" => game.winner = Victory(game)
  /\ (game.phase = "game_over") = (game.winner # "none")
  /\ game.phase \notin {"game_over", "day_hunter"} => Victory(game) = "none"

\* Whenever a role's phase is on, somebody is asked for its choice, the planner
\* and the game module agree on whom, and the timeout recovery does not throw
\* (shouldRunNightRole and the registry's witchCanAct are two copies of one rule).
PendingHasActor ==
  Timed \/ game.phase = "day_hunter" =>
    /\ Asked(game) # {}
    /\ Asked(game) = Acting(game)
    /\ game.phase = "night_seer" => Living(game) \ Asked(game) # {}

\* The votes of a round are votes of the living for others of the living; in a
\* PK they are for a candidate and by no candidate, and the candidates are
\* several: none is left over from the round or the day before.
VotesAreLive ==
  game.phase \in Ballots =>
    /\ \A v \in Players : game.votes[v] # None =>
         v \in Voters(game) /\ game.votes[v] \in Living(game) \ {v}
    /\ game.pk \subseteq Living(game)
    /\ game.phase = "day_pk" =>
         /\ \A v \in Players : game.votes[v] # None => game.votes[v] \in game.pk
         /\ \A q \in game.pk : game.pk # {q}
         /\ game.pk # {}

\* The hunter is offered one shot in the game if killed by the wolves or voted
\* out, and none if poisoned, alive, or poisoned again when dead (the registry's
\* description of the role).
ShotIsEarned ==
  past.offered = IF past.fell \in {"attack", "vote"} THEN 1 ELSE 0

\* Over the whole game, skipped and timed-out nights included: each potion is
\* used once, not both in a night, and nobody is protected two nights running;
\* and the check a timeout makes for the seer leaves no trace, neither a target
\* nor a confirmation is on record unless the seer chose (WerewolfTimeoutRecovery).
LimitsKept ==
  /\ past.antidotes <= 1 /\ past.poisons <= 1
  /\ game.usedAntidote => game.poisonTarget = None
  /\ \A n \in 1 .. MaxDays - 1 :
       past.protected[n] # None => past.protected[n] # past.protected[n + 1]
  /\ game.seerTarget \/ game.seerConfirmed => past.seerChose

\* Once a night is over, every role somebody alive held at dusk has had its
\* phase, but for a witch with nothing she could have used.
EveryRoleHasItsTurn ==
  game.phase \notin NightPhases =>
    \A r \in past.dusk \ past.asked :
      /\ r = "witch"
      /\ game.poisonSpent
      /\ game.antidoteSpent \/ game.wolfTarget = None

\* A night asks every role it should and none that cannot answer: no phase is
\* skipped for somebody with something to do, and none is entered that asks
\* nobody or that the timeout recovery could not end (nextNightPhase and the
\* planner decide this apart).
NightIsComplete == PendingHasActor /\ EveryRoleHasItsTurn

\* A night that has begun comes to a day vote or to the end of the game, whether
\* or not the players act: the time limit sees to every phase of it.
NightLeadsToDay == game.phase \in NightPhases ~> game.phase \in {"day_vote", "game_over"}
=============================================================================
