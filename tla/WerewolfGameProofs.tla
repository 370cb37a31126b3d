------------------------- MODULE WerewolfGameProofs -------------------------
(***************************************************************************)
(* The games WerewolfGame describes are well formed for every number of    *)
(* members, set of deals and bound; a decided game is over, somebody is    *)
(* asked in every phase of a role, no vote is left over, and no view of    *)
(* WerewolfViews gives a secret away. The invariant is a predicate of a    *)
(* game, so that each rule has one lemma: what it makes of any game it may *)
(* be applied to.                                                          *)
(***************************************************************************)
EXTENDS WerewolfViews, FiniteSetTheorems, TLAPS

\* What day it is in each phase.
Calendar(g) ==
  /\ g.phase \in NightPhases \union {"night_complete"} => g.nightNumber = g.dayNumber + 1
  /\ g.phase = "day_hunter" /\ g.hunterTrigger = "night" => g.nightNumber = g.dayNumber + 1
  /\ g.phase = "day_hunter" /\ g.hunterTrigger # "night" => g.nightNumber = g.dayNumber
  /\ g.phase \in Ballots \union {"day_result"} => g.nightNumber = g.dayNumber
  /\ g.phase \in {"role_reveal", "night_start"} =>
       g.nightNumber = IF g.dayNumber = 0 THEN 1 ELSE g.dayNumber

\* DecidedIsOver, VotesAreLive and PendingHasActor of a game.
Decided(g) ==
  /\ g.phase = "game_over" => g.winner = Victory(g)
  /\ (g.phase = "game_over") = (g.winner # "none")
  /\ g.phase \notin {"game_over", "day_hunter"} => Victory(g) = "none"

BallotLive(g) ==
  g.phase \in Ballots =>
    /\ \A v \in Players : g.votes[v] # None =>
         v \in Voters(g) /\ g.votes[v] \in Living(g) \ {v}
    /\ g.pk \subseteq Living(g)
    /\ g.phase = "day_pk" =>
         /\ \A v \in Players : g.votes[v] # None => g.votes[v] \in g.pk
         /\ \A q \in g.pk : g.pk # {q}
         /\ g.pk # {}

ActorAsked(g) ==
  g.phase \in NightPhases \union {"day_hunter"} =>
    /\ Asked(g) # {}
    /\ Asked(g) = Acting(g)
    /\ g.phase = "night_seer" => Living(g) \ Asked(g) # {}

OneHunter(g) == \A p, q \in Holders(g.roles, "hunter") : p = q

Sound(g) == /\ g \in Game /\ OneHunter(g)
            /\ Calendar(g) /\ Decided(g) /\ BallotLive(g) /\ ActorAsked(g)

\* A game whose night goes on.
InNight(g) == /\ g \in Game /\ OneHunter(g)
              /\ g.nightNumber = g.dayNumber + 1
              /\ g.winner = "none" /\ Victory(g) = "none"

------------------------------------------------------ (* about the rules *)
LEMMA PhasesDistinct ==
  /\ NightRoles = {"guard", "werewolf", "witch", "seer"}
  /\ NightPhases = {"night_guard", "night_werewolf", "night_witch", "night_seer"}
<1>1. NightRoles = {"guard", "werewolf", "witch", "seer"}
  <2>1. 1 .. 4 = {1, 2, 3, 4}
    OBVIOUS
  <2>2. QED  BY <2>1 DEF NightRoles, NightOrder
<1>2. QED  BY <1>1 DEF NightPhases, NightPhase

LEMMA Numbered ==
  ASSUME NEW g \in Game
  PROVE  g.nightNumber \in 1 .. MaxDays /\ g.dayNumber \in 0 .. MaxDays
BY DEF Game

\* Who has won depends on the roles and on who is dead.
LEMMA VictoryOfDead ==
  ASSUME NEW g, NEW h, g.roles = h.roles, g.dead = h.dead
  PROVE  Victory(g) = Victory(h)
<1>1. Living(g) = Living(h)
  BY DEF Living
<1>2. Alive(g, "werewolf") = Alive(h, "werewolf")
  BY <1>1 DEF Alive
<1>3. QED  BY <1>1, <1>2 DEF Victory

LEMMA VictoryTyped ==
  ASSUME NEW g
  PROVE  Victory(g) \in {"none", "wolf", "village"}
BY DEF Victory

\* A game that is not decided has a living wolf.
LEMMA WolfLives ==
  ASSUME NEW g, Victory(g) = "none"
  PROVE  Alive(g, "werewolf") # {}
BY FS_EmptySet DEF Victory

LEMMA GoOnSound ==
  ASSUME NEW g \in Game, OneHunter(g), g.winner = "none",
         NEW next \in {"night_complete", "day_result"},
         g.nightNumber = g.dayNumber + (IF next = "night_complete" THEN 1 ELSE 0)
  PROVE  Sound(GoOn(g, next))
<1> DEFINE h == GoOn(g, next)
<1>1. next \in Phases /\ "game_over" \in Phases /\ next # "game_over" /\ next # "day_hunter"
  BY DEF Phases
<1>2. h \in Game
  BY <1>1, VictoryTyped DEF GoOn, Game
<1>3. /\ h.roles = g.roles /\ h.dead = g.dead
      /\ h.nightNumber = g.nightNumber /\ h.dayNumber = g.dayNumber
      /\ IF Victory(g) = "none" THEN h.phase = next /\ h.winner = "none"
         ELSE h.phase = "game_over" /\ h.winner = Victory(g)
  BY DEF GoOn, Game
<1>4. Victory(h) = Victory(g)
  BY <1>3, VictoryOfDead
<1>5. Decided(h)
  BY <1>1, <1>3, <1>4 DEF Decided
<1>6. Calendar(h)
  BY <1>3, Numbered, BoundAssumption, PhasesDistinct DEF Calendar, Ballots
<1>7. BallotLive(h) /\ ActorAsked(h)
  BY <1>3, PhasesDistinct DEF BallotLive, ActorAsked, Ballots
<1>8. OneHunter(h)
  BY <1>3 DEF OneHunter
<1>9. QED  BY <1>2, <1>5, <1>6, <1>7, <1>8 DEF Sound

LEMMA HuntSound ==
  ASSUME NEW g \in Game, OneHunter(g), g.winner = "none", NEW when \in {"night", "day"},
         g.nightNumber = g.dayNumber + (IF when = "night" THEN 1 ELSE 0),
         NEW p \in g.dead, g.roles[p] = "hunter"
  PROVE  Sound(Hunt(g, when))
<1> DEFINE h == Hunt(g, when)
<1>1. "day_hunter" \in Phases
  BY DEF Phases
<1>2. h \in Game
  BY <1>1 DEF Hunt, Game
<1>3. /\ h.phase = "day_hunter" /\ h.winner = "none" /\ h.hunterTrigger = when
      /\ h.nightNumber = g.nightNumber /\ h.dayNumber = g.dayNumber
      /\ h.roles = g.roles /\ h.dead = g.dead
  BY DEF Hunt, Game
<1>4. Decided(h)
  BY <1>3 DEF Decided
<1>5. Calendar(h)
  BY <1>3, Numbered, BoundAssumption, PhasesDistinct DEF Calendar, Ballots
<1>6. BallotLive(h)
  BY <1>3 DEF BallotLive, Ballots
<1>7. OneHunter(h)
  BY <1>3 DEF OneHunter
<1>8. ActorAsked(h)
  <2>1. p \in Holders(h.roles, "hunter")
    BY <1>3 DEF Holders, Game
  <2>2. Holders(h.roles, "hunter") = {p}
    BY <1>7, <2>1 DEF OneHunter
  <2>3. Asked(h) = {p} /\ Acting(h) = {p}
    BY <1>3, <2>2 DEF Asked, Acting, Ballots
  <2>4. QED  BY <1>3, <2>3 DEF ActorAsked
<1>9. QED  BY <1>2, <1>4, <1>5, <1>6, <1>7, <1>8 DEF Sound

LEMMA SettleNightSound ==
  ASSUME NEW g, InNight(g)
  PROVE  Sound(SettleNight(g))
<1> DEFINE deaths == NightDeaths(g)
           h == [g EXCEPT !.deaths = deaths, !.dead = @ \union deaths]
<1>1. deaths \subseteq Players
  BY DEF NightDeaths, InNight, Game, Target
<1>2. h \in Game
  BY <1>1 DEF InNight, Game
<1>3. /\ h.roles = g.roles /\ h.winner = "none" /\ deaths \subseteq h.dead
      /\ h.nightNumber = h.dayNumber + 1
  BY DEF InNight, Game
<1>4. OneHunter(h)
  BY <1>3 DEF InNight, OneHunter
<1>5. CASE Shoots(h, deaths) # {}
  <2>1. PICK p \in deaths : h.roles[p] = "hunter"
    BY <1>5 DEF Shoots
  <2>2. Sound(Hunt(h, "night"))
    BY <1>2, <1>3, <1>4, <2>1, HuntSound
  <2>3. QED  BY <1>5, <2>2 DEF SettleNight
<1>6. CASE Shoots(h, deaths) = {}
  <2>1. Sound(GoOn(h, "night_complete"))
    BY <1>2, <1>3, <1>4, GoOnSound
  <2>2. QED  BY <1>6, <2>1 DEF SettleNight
<1>7. QED  BY <1>5, <1>6

\* The role whose phase it becomes is the only one asked, and has something to do.
LEMMA RolePhaseSound ==
  ASSUME NEW g, InNight(g), NEW r \in NightRoles, ShouldRun(g, r)
  PROVE  Sound([g EXCEPT !.phase = NightPhase[r]])
<1> DEFINE h == [g EXCEPT !.phase = NightPhase[r]]
<1>0. NightPhase[r] \in NightPhases /\ NightPhase[r] \in Phases
  BY DEF NightPhases, Phases
<1>1. h \in Game
  BY <1>0 DEF InNight, Game
<1>2. /\ h.phase = NightPhase[r] /\ h.winner = "none"
      /\ h.roles = g.roles /\ h.dead = g.dead
      /\ h.antidoteSpent = g.antidoteSpent /\ h.poisonSpent = g.poisonSpent
      /\ h.wolfTarget = g.wolfTarget
      /\ h.nightNumber = g.nightNumber /\ h.dayNumber = g.dayNumber
  BY DEF InNight, Game
<1>3. Victory(h) = "none"
  BY <1>2, VictoryOfDead DEF InNight
<1>4. h.phase \notin Ballots /\ h.phase \notin {"game_over", "day_hunter"}
  BY <1>0, <1>2, PhasesDistinct DEF Ballots
<1>5. Decided(h) /\ BallotLive(h)
  BY <1>2, <1>3, <1>4 DEF Decided, BallotLive
<1>6. Calendar(h)
  BY <1>0, <1>2, PhasesDistinct DEF Calendar, InNight, Ballots
<1>7. OneHunter(h)
  BY <1>2 DEF InNight, OneHunter
<1>8. ActorAsked(h)
  <2>1. \A s \in NightRoles : NightPhase[s] = h.phase <=> s = r
    BY <1>2, PhasesDistinct DEF NightPhase
  <2>2. Living(h) = Living(g)
    BY <1>2 DEF Living
  <2>3. \A s \in NightRoles : Alive(h, s) = Alive(g, s)
    BY <1>2, <2>2 DEF Alive
  <2>4. r = "witch" => WitchCanAct(h)
    BY <1>2 DEF ShouldRun, WitchCanAct
  <2>5. Asked(h) = Alive(h, r)
    <3>1. {s \in NightRoles : NightPhase[s] = h.phase /\ (s = "witch" => WitchCanAct(h))}
            = {r}
      BY <2>1, <2>4
    <3>2. QED  BY <1>4, <3>1 DEF Asked
  <2>6. Acting(h) = Alive(h, r)
    <3>1. {s \in NightRoles : NightPhase[s] = h.phase} = {r}
      BY <2>1
    <3>2. h.phase \notin Ballots
      BY <1>2, PhasesDistinct DEF NightPhase, Ballots
    <3>3. QED  BY <1>4, <3>1, <3>2 DEF Acting
  <2>7. Alive(h, r) # {}
    BY <2>3 DEF ShouldRun
  <2>8. h.phase = "night_seer" => Living(h) \ Asked(h) # {}
    <3>1. PICK w \in Living(h) : h.roles[w] = "werewolf"
      BY <1>3, WolfLives DEF Alive
    <3>2. h.phase = "night_seer" => r = "seer"
      BY <1>2, PhasesDistinct DEF NightPhase
    <3>3. h.phase = "night_seer" => w \notin Alive(h, r)
      BY <3>1, <3>2 DEF Alive
    <3>4. QED  BY <2>5, <3>1, <3>3
  <2>9. QED  BY <2>5, <2>6, <2>7, <2>8 DEF ActorAsked
<1>9. QED  BY <1>1, <1>5, <1>6, <1>7, <1>8 DEF Sound

LEMMA NightFromSound ==
  ASSUME NEW g, InNight(g), NEW i \in 0 .. 3
  PROVE  Sound(NightFrom(g, i))
<1> DEFINE left == {j \in i + 1 .. 4 : ShouldRun(g, NightOrder[j])}
           first == CHOOSE j \in left : \A k \in left : j <= k
<1>1. CASE left = {}
  BY <1>1, SettleNightSound DEF NightFrom, NightOf
<1>2. CASE left # {}
  <2>1. \E j \in left : \A k \in left : j <= k
    <3>1. left \subseteq {1, 2, 3, 4}
      OBVIOUS
    <3>2. QED  BY <1>2, <3>1
  <2>2. first \in left
    BY <2>1
  <2>3. NightOrder[first] \in NightRoles /\ ShouldRun(g, NightOrder[first])
    BY <2>2 DEF NightRoles
  <2>4. Sound([g EXCEPT !.phase = NightPhase[NightOrder[first]]])
    BY <2>3, RolePhaseSound
  <2>5. QED  BY <1>2, <2>4 DEF NightFrom, NightOf
<1>3. QED  BY <1>1, <1>2

\* A change of anything but the roles, the dead, the numbers and the winner.
LEMMA StillInNight ==
  ASSUME NEW g, InNight(g), NEW h \in Game, h.roles = g.roles, h.dead = g.dead,
         h.nightNumber = g.nightNumber, h.dayNumber = g.dayNumber, h.winner = g.winner
  PROVE  InNight(h)
BY VictoryOfDead DEF InNight, OneHunter

LEMMA RoleTurnsSound ==
  ASSUME NEW g, InNight(g), NEW t \in Target, NEW antidote \in BOOLEAN
  PROVE  /\ Sound(GuardTurn(g, t)) /\ Sound(WolfTurn(g, t))
         /\ Sound(WitchTurn(g, antidote, t)) /\ Sound(SeerTurn(g))
<1>0. g \in Game
  BY DEF InNight
<1>1. Sound(GuardTurn(g, t))
  <2> DEFINE h == [g EXCEPT !.guardProtected = t]
  <2>1. h \in Game
    BY <1>0 DEF Game
  <2>2. InNight(h)
    BY <1>0, <2>1, StillInNight DEF Game
  <2>3. QED  BY <2>2, NightFromSound DEF GuardTurn
<1>2. Sound(WolfTurn(g, t))
  <2> DEFINE h == [g EXCEPT !.wolfTarget = t]
  <2>1. h \in Game
    BY <1>0 DEF Game
  <2>2. InNight(h)
    BY <1>0, <2>1, StillInNight DEF Game
  <2>3. QED  BY <2>2, NightFromSound DEF WolfTurn
<1>3. Sound(WitchTurn(g, antidote, t))
  <2> DEFINE h == [g EXCEPT !.usedAntidote = antidote, !.antidoteSpent = @ \/ antidote,
                            !.poisonTarget = t, !.poisonSpent = @ \/ t # None]
  <2>1. h \in Game
    BY <1>0 DEF Game
  <2>2. /\ h.roles = g.roles /\ h.dead = g.dead /\ h.winner = g.winner
        /\ h.nightNumber = g.nightNumber /\ h.dayNumber = g.dayNumber
    BY <1>0 DEF Game
  <2> HIDE DEF h
  <2>3. InNight(h)
    BY <2>1, <2>2, StillInNight
  <2>4. Sound(NightFrom(h, 3))
    BY <2>3, NightFromSound
  <2>5. QED  BY <2>4 DEF WitchTurn, h
<1>4. Sound(SeerTurn(g))
  <2> DEFINE h == [g EXCEPT !.seerConfirmed = TRUE]
  <2>1. h \in Game
    BY <1>0 DEF Game
  <2>2. InNight(h)
    BY <1>0, <2>1, StillInNight DEF Game
  <2>3. QED  BY <2>2, SettleNightSound DEF SeerTurn
<1>5. QED  BY <1>1, <1>2, <1>3, <1>4

LEMMA HunterTurnSound ==
  ASSUME NEW g, Sound(g), g.phase = "day_hunter", NEW t \in Target
  PROVE  Sound(HunterTurn(g, t))
<1> DEFINE h == Shot(g, t)
<1>0. g \in Game /\ Calendar(g) /\ Decided(g) /\ OneHunter(g)
  BY DEF Sound
<1>1. h \in Game
  BY <1>0 DEF Shot, Game, Target
<1>2. /\ h.roles = g.roles /\ h.winner = g.winner
      /\ h.nightNumber = g.nightNumber /\ h.dayNumber = g.dayNumber
  BY <1>0 DEF Shot, Game
<1>3. h.winner = "none" /\ OneHunter(h)
  BY <1>0, <1>2 DEF Decided, OneHunter
<1>4. /\ AfterShot(g) \in {"night_complete", "day_result"}
      /\ h.nightNumber = h.dayNumber + (IF AfterShot(g) = "night_complete" THEN 1 ELSE 0)
  BY <1>0, <1>2, Numbered, BoundAssumption DEF Calendar, AfterShot
<1>5. QED  BY <1>1, <1>3, <1>4, GoOnSound DEF HunterTurn

\* The phases of the game in which nobody is asked and no vote is taken.
LEMMA QuietSound ==
  ASSUME NEW g \in Game, OneHunter(g), Calendar(g), Decided(g),
         g.phase \in {"role_reveal", "night_start", "day_result", "night_complete"}
  PROVE  Sound(g)
BY PhasesDistinct DEF Sound, BallotLive, ActorAsked, Ballots

LEMMA DawnSound ==
  ASSUME NEW g, Sound(g)
  PROVE  Sound(Dawn(g))
<1>1. CASE g.phase = "night_complete"
  <2> DEFINE h == StartDayVote(g)
  <2>0. g \in Game /\ Calendar(g) /\ Decided(g) /\ OneHunter(g)
    BY DEF Sound
  <2>1. g.nightNumber = g.dayNumber + 1 /\ Victory(g) = "none" /\ g.winner = "none"
    BY <1>1, <2>0 DEF Calendar, Decided
  <2>2. g.dayNumber + 1 \in 0 .. MaxDays /\ "day_vote" \in Phases
    BY <2>0, <2>1, Numbered, BoundAssumption DEF Phases, Ballots
  <2>3. h \in Game
    BY <2>0, <2>2 DEF StartDayVote, Game, NoVotes, Target
  <2>4. /\ h.phase = "day_vote" /\ h.roles = g.roles /\ h.dead = g.dead
        /\ h.winner = "none" /\ h.votes = NoVotes /\ h.pk = {}
        /\ h.nightNumber = h.dayNumber
    BY <2>0, <2>1 DEF StartDayVote, Game
  <2>5. Decided(h)
    BY <2>1, <2>4, VictoryOfDead DEF Decided
  <2>6. Calendar(h)
    BY <2>4, PhasesDistinct DEF Calendar
  <2>7. BallotLive(h)
    BY <2>4 DEF BallotLive, NoVotes
  <2>8. OneHunter(h) /\ ActorAsked(h)
    BY <2>0, <2>4, PhasesDistinct DEF OneHunter, ActorAsked
  <2>9. Sound(h)
    BY <2>3, <2>5, <2>6, <2>7, <2>8 DEF Sound
  <2>10. QED  BY <1>1, <2>9 DEF Dawn
<1>2. CASE g.phase # "night_complete"
  BY <1>2 DEF Dawn
<1>3. QED  BY <1>1, <1>2

LEMMA DuskInNight ==
  ASSUME NEW g, Sound(g), g.phase = "night_start", g.dayNumber < MaxDays
  PROVE  InNight(Dusk(g))
<1> DEFINE f == Forget(g)
           h == [f EXCEPT !.guardLast = g.guardProtected, !.nightNumber = Tonight(g)]
<1>0. g \in Game /\ Calendar(g) /\ Decided(g) /\ OneHunter(g)
  BY DEF Sound
<1>1. Tonight(g) = g.dayNumber + 1 /\ Tonight(g) \in 1 .. MaxDays
  BY <1>0, Numbered, BoundAssumption DEF Calendar, Tonight
<1>2. f \in Game
  BY <1>0 DEF Forget, Game, NoVotes, Target
<1>3. f.roles = g.roles /\ f.dead = g.dead /\ f.winner = g.winner /\ f.dayNumber = g.dayNumber
  BY <1>0 DEF Forget, Game
<1> HIDE DEF f
<1>4. h \in Game
  BY <1>0, <1>1, <1>2 DEF Game
<1>5. /\ h.roles = g.roles /\ h.dead = g.dead /\ h.winner = g.winner
      /\ h.dayNumber = g.dayNumber /\ h.nightNumber = Tonight(g)
  BY <1>2, <1>3 DEF Game
<1>6. h.winner = "none" /\ Victory(h) = "none"
  BY <1>0, <1>5, VictoryOfDead DEF Decided
<1>7. InNight(h)
  BY <1>0, <1>1, <1>4, <1>5, <1>6 DEF InNight, OneHunter
<1>8. QED  BY <1>7 DEF Dusk, f

LEMMA NoKillSound ==
  ASSUME NEW g, Sound(g), g.phase \in Ballots
  PROVE  Sound(NoKill(g))
<1> DEFINE h == NoKill(g)
           e == IF g.phase = "day_pk" THEN None ELSE g.eliminated
<1>0. g \in Game /\ Calendar(g) /\ Decided(g) /\ OneHunter(g)
  BY DEF Sound
<1>1. "day_result" \in Phases
  BY DEF Phases
<1>2. h \in Game
  <2>1. e \in Target
    BY <1>0 DEF Game, Target
  <2>2. h = [g EXCEPT !.noKill = TRUE, !.phase = "day_result", !.eliminated = e]
    BY <1>0 DEF NoKill, Game
  <2> HIDE DEF e
  <2>3. QED  BY <1>0, <1>1, <2>1, <2>2 DEF Game
<1>3. /\ h.phase = "day_result" /\ h.roles = g.roles /\ h.dead = g.dead
      /\ h.winner = g.winner /\ h.nightNumber = g.nightNumber /\ h.dayNumber = g.dayNumber
  BY <1>0 DEF NoKill, Game
<1>4. OneHunter(h) /\ Calendar(h)
  BY <1>0, <1>3, PhasesDistinct DEF OneHunter, Calendar
<1>5. Decided(h)
  BY <1>0, <1>3, VictoryOfDead DEF Decided, Ballots
<1>6. QED  BY <1>2, <1>3, <1>4, <1>5, QuietSound

LEMMA EliminateSound ==
  ASSUME NEW g, Sound(g), g.phase \in Ballots, NEW q \in Players
  PROVE  Sound(Eliminate(g, q))
<1> DEFINE h == [g EXCEPT !.dead = @ \union {q}, !.eliminated = q, !.noKill = FALSE]
<1>0. g \in Game /\ Calendar(g) /\ Decided(g) /\ OneHunter(g)
  BY DEF Sound
<1>1. h \in Game
  BY <1>0 DEF Game, Target
<1>2. /\ h.roles = g.roles /\ h.winner = g.winner /\ q \in h.dead
      /\ h.nightNumber = g.nightNumber /\ h.dayNumber = g.dayNumber
  BY <1>0 DEF Game
<1>3. h.winner = "none" /\ OneHunter(h)
  BY <1>0, <1>2 DEF Decided, OneHunter, Ballots
<1>4. h.nightNumber = h.dayNumber + 0
  BY <1>0, <1>2, Numbered, BoundAssumption DEF Calendar
<1>5. CASE g.roles[q] = "hunter" /\ Living(h) \ {q} # {}
  <2>1. Sound(Hunt(h, "day"))
    BY <1>1, <1>2, <1>3, <1>4, <1>5, HuntSound
  <2>2. QED  BY <1>5, <2>1 DEF Eliminate
<1>6. CASE ~(g.roles[q] = "hunter" /\ Living(h) \ {q} # {})
  <2>1. Sound(GoOn(h, "day_result"))
    BY <1>1, <1>3, <1>4, GoOnSound
  <2>2. QED  BY <1>6, <2>1 DEF Eliminate
<1>7. QED  BY <1>5, <1>6

\* Somebody has voted for a leader, and votes are for the living.
LEMMA LeadersLive ==
  ASSUME NEW g, Sound(g), g.phase \in Ballots
  PROVE  Leaders(g) \subseteq Living(g)
<1> SUFFICES ASSUME NEW q \in Leaders(g) PROVE q \in Living(g)
  OBVIOUS
<1>1. VotesFor(g, q) # 0 /\ q \in Players
  <2>1. q \in Players /\ VotesFor(g, q) > 0
    BY DEF Leaders
  <2>2. QED  BY <2>1
<1>2. {v \in Players : g.votes[v] = q} # {}
  BY <1>1, FS_EmptySet DEF VotesFor
<1>3. PICK v \in Players : g.votes[v] = q
  BY <1>2
<1>4. g.votes[v] # None
  BY <1>1, <1>3, PlayersAssumption
<1>5. QED  BY <1>3, <1>4 DEF Sound, BallotLive

LEMMA TieSound ==
  ASSUME NEW g, Sound(g), g.phase \in Ballots, Leaders(g) # {},
         ~ \E q \in Players : Leaders(g) = {q}
  PROVE  Sound(Tie(g))
<1> DEFINE h == Tie(g)
<1>0. g \in Game /\ Calendar(g) /\ Decided(g) /\ OneHunter(g)
  BY DEF Sound
<1>1. "day_pk" \in Phases /\ Leaders(g) \subseteq Players /\ Leaders(g) \subseteq Living(g)
  BY LeadersLive DEF Phases, Ballots, Leaders
<1>2. h \in Game
  BY <1>0, <1>1 DEF Tie, Game, NoVotes, Target
<1>3. /\ h.phase = "day_pk" /\ h.pk = Leaders(g) /\ h.votes = NoVotes
      /\ h.roles = g.roles /\ h.dead = g.dead /\ h.winner = g.winner
      /\ h.nightNumber = g.nightNumber /\ h.dayNumber = g.dayNumber
  BY <1>0 DEF Tie, Game
<1>4. OneHunter(h) /\ Calendar(h)
  BY <1>0, <1>3, PhasesDistinct DEF OneHunter, Calendar, Ballots
<1>5. Decided(h)
  BY <1>0, <1>3, VictoryOfDead DEF Decided, Ballots
<1>6. BallotLive(h)
  BY <1>1, <1>3 DEF BallotLive, NoVotes, Living
<1>7. ActorAsked(h)
  BY <1>3, PhasesDistinct DEF ActorAsked
<1>8. QED  BY <1>2, <1>4, <1>5, <1>6, <1>7 DEF Sound

LEMMA CloseVoteSound ==
  ASSUME NEW g, Sound(g), g.phase \in Ballots
  PROVE  Sound(CloseVote(g))
<1>1. CASE Leaders(g) = {}
  BY <1>1, NoKillSound DEF CloseVote
<1>2. CASE \E q \in Players : Leaders(g) = {q}
  <2> DEFINE top == CHOOSE q \in Players : Leaders(g) = {q}
  <2>1. top \in Players
    BY <1>2
  <2>2. Sound(Eliminate(g, top))
    BY <2>1, EliminateSound
  <2>3. Leaders(g) # {}
    BY <1>2
  <2>4. QED  BY <1>2, <2>2, <2>3 DEF CloseVote
<1>3. CASE Leaders(g) # {} /\ ~ \E q \in Players : Leaders(g) = {q}
  BY <1>3, NoKillSound, TieSound DEF CloseVote
<1>4. QED  BY <1>1, <1>2, <1>3

--------------------------------------------------- (* the specification *)
IInv == host \in Hosts /\ Sound(game) /\ past \in Past

LEMMA NotedTyped ==
  ASSUME past \in Past, NEW g, NEW h \in Game
  PROVE  Noted(g, h) \in Past
<1>1. h.guardProtected \in Target /\ h.nightNumber \in 1 .. MaxDays
  BY DEF Game
<1>2. HunterFell(g, h) \in {"no", "attack", "poison", "vote"}
  BY DEF HunterFell, Past
<1>3. {r \in NightRoles : NightPhase[r] = h.phase} \subseteq Roles
  BY PhasesDistinct DEF Roles
<1>4. {r \in NightRoles : Alive(g, r) # {}} \subseteq Roles
  BY PhasesDistinct DEF Roles
<1>5. [past.protected EXCEPT ![h.nightNumber] = h.guardProtected]
        \in [1 .. MaxDays -> Target]
  BY <1>1 DEF Past
<1> DEFINE a == past.antidotes + (IF h.usedAntidote /\ ~g.usedAntidote THEN 1 ELSE 0)
           b == past.poisons
                + (IF h.poisonTarget # None /\ g.poisonTarget = None THEN 1 ELSE 0)
           o == past.offered
                + (IF h.phase = "day_hunter" /\ g.phase # "day_hunter" THEN 1 ELSE 0)
           d == IF g.phase = "night_start" THEN {r \in NightRoles : Alive(g, r) # {}}
                ELSE past.dusk
           k == (IF g.phase = "night_start" THEN {} ELSE past.asked)
                \union {r \in NightRoles : NightPhase[r] = h.phase}
           c == \/ h.phase = "night_seer" /\ h.seerTarget
                \/ ~(g.phase = "night_start") /\ past.seerChose
<1>6. a \in Nat /\ b \in Nat /\ o \in Nat
  BY DEF Past
<1>7. d \subseteq Roles /\ k \subseteq Roles
  BY <1>3, <1>4 DEF Past
<1>8. c \in BOOLEAN
  OBVIOUS
<1> HIDE DEF a, b, o, d, k, c
<1>9. Noted(g, h) = [protected |-> [past.protected EXCEPT ![h.nightNumber] = h.guardProtected],
                     antidotes |-> a, poisons |-> b, fell |-> HunterFell(g, h),
                     offered |-> o, dusk |-> d, asked |-> k, seerChose |-> c]
  BY DEF Noted, a, b, o, d, k, c
<1>10. QED  BY <1>2, <1>5, <1>6, <1>7, <1>8, <1>9 DEF Past

LEMMA BecomeSound ==
  ASSUME IInv, NEW h, Sound(h), Become(h)
  PROVE  IInv'
<1>1. game' = h /\ host' = host /\ past' = Noted(game, h)
  BY DEF Become
<1>2. Sound(game')
  BY <1>1
<1>3. past' \in Past
  BY <1>1, NotedTyped DEF IInv, Sound
<1>4. QED  BY <1>1, <1>2, <1>3 DEF IInv

LEMMA AnswerSound ==
  ASSUME IInv, NEW h, Sound(h), Answer(h) \/ Become(Dawn(h))
  PROVE  IInv'
<1>1. Sound(Dawn(h))
  BY DawnSound
<1>2. Become(h) \/ Become(Dawn(h))
  BY DEF Answer
<1>3. QED  BY <1>1, <1>2, BecomeSound

\* A legal deck has at most one hunter, and wolves, fewer of them than others.
LEMMA DealtSound ==
  ASSUME NEW deal \in Deals
  PROVE  Sound(Dealt(deal))
<1> DEFINE g == Dealt(deal)
<1>0. deal \in [Players -> Roles] /\ Legal(deal)
  BY DealsAssumption
<1>1. g \in Game
  <2>1. "role_reveal" \in Phases /\ 1 \in 1 .. MaxDays /\ 0 \in 0 .. MaxDays
    BY BoundAssumption DEF Phases
  <2>2. QED  BY <1>0, <2>1 DEF Dealt, Game, NoVotes, Target
<1>2. OneHunter(g)
  <2> DEFINE S == Holders(deal, "hunter")
  <2>1. IsFiniteSet(S) /\ Cardinality(S) <= 1
    <3>1. S \subseteq Players
      BY DEF Holders
    <3>2. IsFiniteSet(S)
      BY <3>1, PlayersAssumption, FS_Subset
    <3>3. QED  BY <1>0, <3>2 DEF Legal, Unique
  <2>2. ASSUME NEW p \in S, NEW q \in S PROVE p = q
    <3>1. Cardinality(S) \in Nat /\ Cardinality(S) # 0
      BY <2>1, FS_CardinalityType, FS_EmptySet
    <3>2. PICK x : S = {x}
      BY <2>1, <3>1, FS_Singleton
    <3>3. QED  BY <3>2
  <2>3. g.roles = deal
    BY DEF Dealt
  <2>4. QED  BY <2>2, <2>3 DEF OneHunter
<1>3. Victory(g) = "none"
  <2>1. g.roles = deal /\ g.dead = {}
    BY DEF Dealt
  <2>2. Living(g) = Players
    BY <2>1 DEF Living
  <2>3. Alive(g, "werewolf") = Holders(deal, "werewolf")
    BY <2>1, <2>2 DEF Alive, Holders
  <2>4. Cardinality(Holders(deal, "werewolf")) \in Nat /\ Cardinality(Players) \in Nat
    <3>1. Holders(deal, "werewolf") \subseteq Players
      BY DEF Holders
    <3>2. QED  BY <3>1, PlayersAssumption, FS_Subset, FS_CardinalityType
  <2>5. QED  BY <1>0, <2>2, <2>3, <2>4 DEF Legal, Victory
<1>4. Calendar(g)
  BY PhasesDistinct DEF Calendar, Dealt, Ballots
<1>5. Decided(g)
  BY <1>3 DEF Decided, Dealt
<1>6. g.phase = "role_reveal"
  BY DEF Dealt
<1>7. QED  BY <1>1, <1>2, <1>4, <1>5, <1>6, QuietSound

LEMMA InitSound == Init => IInv
<1> SUFFICES ASSUME Init PROVE IInv
  OBVIOUS
<1>1. Sound(game)
  BY DealtSound DEF Init
<1>2. past \in Past
  BY DEF Init, Past, Target
<1>3. QED  BY <1>1, <1>2 DEF Init, IInv

\* In the phase of a role the night goes on.
LEMMA NightPhaseInNight ==
  ASSUME NEW g, Sound(g), g.phase \in NightPhases
  PROVE  InNight(g)
BY PhasesDistinct DEF Sound, Calendar, Decided, InNight

LEMMA PlayersSound ==
  ASSUME IInv, NEW p \in Players
  PROVE  /\ ConfirmRole(p) => IInv'
         /\ SubmitSeerTarget(p) => IInv'
         /\ ConfirmSeerResult(p) => IInv'
<1>0. Sound(game) /\ game \in Game /\ Calendar(game) /\ Decided(game) /\ OneHunter(game)
  BY DEF IInv, Sound
<1>1. ASSUME ConfirmRole(p) PROVE IInv'
  <2> DEFINE all == game.confirmed \union {p}
             next == IF all = Players THEN "night_start" ELSE game.phase
             h == [game EXCEPT !.confirmed = all, !.phase = next]
  <2>1. game.phase = "role_reveal" /\ Become(h)
    BY <1>1, <1>0 DEF ConfirmRole, Game
  <2>2. next \in {"role_reveal", "night_start"} /\ next \in Phases /\ all \subseteq Players
    BY <2>1, <1>0 DEF Phases, Game
  <2> HIDE DEF next, all
  <2>3. h \in Game
    BY <1>0, <2>2 DEF Game
  <2>4. /\ h.roles = game.roles /\ h.dead = game.dead /\ h.winner = game.winner
        /\ h.phase = next
        /\ h.nightNumber = game.nightNumber /\ h.dayNumber = game.dayNumber
    BY <1>0 DEF Game
  <2>5. Decided(h) /\ OneHunter(h)
    BY <1>0, <2>1, <2>2, <2>4, VictoryOfDead DEF Decided, OneHunter
  <2>6. Calendar(h)
    BY <1>0, <2>1, <2>2, <2>4, PhasesDistinct DEF Calendar, Ballots
  <2>7. Sound(h)
    BY <2>2, <2>3, <2>4, <2>5, <2>6, QuietSound
  <2>8. QED  BY <2>1, <2>7, BecomeSound
<1>2. ASSUME SubmitSeerTarget(p) PROVE IInv'
  <2> DEFINE h == [game EXCEPT !.seerTarget = TRUE]
  <2>1. game.phase = "night_seer" /\ Become(h)
    BY <1>2 DEF SubmitSeerTarget
  <2>2. h \in Game
    BY <1>0 DEF Game
  <2>3. /\ h.roles = game.roles /\ h.dead = game.dead /\ h.winner = game.winner
        /\ h.phase = game.phase
        /\ h.nightNumber = game.nightNumber /\ h.dayNumber = game.dayNumber
        /\ h.antidoteSpent = game.antidoteSpent /\ h.poisonSpent = game.poisonSpent
        /\ h.wolfTarget = game.wolfTarget
    BY <1>0 DEF Game
  <2>4. Decided(h) /\ OneHunter(h)
    BY <1>0, <2>3, VictoryOfDead DEF Decided, OneHunter
  <2>5. Calendar(h)
    BY <1>0, <2>1, <2>3, PhasesDistinct DEF Calendar, Ballots
  <2>6. BallotLive(h)
    BY <2>1, <2>3 DEF BallotLive, Ballots
  <2>7. ActorAsked(h)
    <3>1. Living(h) = Living(game) /\ WitchCanAct(h) = WitchCanAct(game)
      BY <2>3 DEF Living, WitchCanAct
    <3>2. \A r : Alive(h, r) = Alive(game, r)
      BY <2>3, <3>1 DEF Alive
    <3>3. Asked(h) = Asked(game) /\ Acting(h) = Acting(game)
      BY <2>1, <2>3, <3>1, <3>2 DEF Asked, Acting, Voters
    <3>4. ActorAsked(game)
      BY DEF IInv, Sound
    <3>5. QED  BY <2>3, <3>1, <3>3, <3>4 DEF ActorAsked
  <2>8. Sound(h)
    BY <2>2, <2>4, <2>5, <2>6, <2>7 DEF Sound
  <2>9. QED  BY <2>1, <2>8, BecomeSound
<1>3. ASSUME ConfirmSeerResult(p) PROVE IInv'
  <2>1. game.phase \in NightPhases /\ Answer(SeerTurn(game))
    BY <1>3, PhasesDistinct DEF ConfirmSeerResult
  <2>2. Sound(SeerTurn(game))
    BY <1>0, <2>1, NightPhaseInNight, RoleTurnsSound DEF Target
  <2>3. QED  BY <2>1, <2>2, AnswerSound
<1>4. QED  BY <1>1, <1>2, <1>3

LEMMA ModeratorSound ==
  ASSUME IInv
  PROVE  /\ StartNight => IInv'
         /\ BeginNightStart => IInv'
         /\ CloseDayVote => IInv'
<1>0. Sound(game) /\ game \in Game /\ Calendar(game) /\ Decided(game) /\ OneHunter(game)
  BY DEF IInv, Sound
<1>1. ASSUME StartNight PROVE IInv'
  <2>1. InNight(Dusk(game))
    BY <1>0, <1>1, DuskInNight DEF StartNight
  <2>2. Sound(NightFrom(Dusk(game), 0))
    BY <2>1, NightFromSound
  <2>3. QED  BY <1>1, <2>2, AnswerSound DEF StartNight
<1>2. ASSUME BeginNightStart PROVE IInv'
  <2> DEFINE h == [game EXCEPT !.phase = "night_start"]
  <2>1. game.phase = "day_result" /\ Become(h)
    BY <1>2 DEF BeginNightStart
  <2>2. "night_start" \in Phases
    BY DEF Phases
  <2>3. h \in Game
    BY <1>0, <2>2 DEF Game
  <2>4. /\ h.roles = game.roles /\ h.dead = game.dead /\ h.winner = game.winner
        /\ h.phase = "night_start"
        /\ h.nightNumber = game.nightNumber /\ h.dayNumber = game.dayNumber
    BY <1>0 DEF Game
  <2>5. Decided(h) /\ OneHunter(h)
    BY <1>0, <2>1, <2>4, VictoryOfDead DEF Decided, OneHunter
  <2>6. Calendar(h)
    <3>1. game.nightNumber = game.dayNumber /\ game.nightNumber \in 1 .. MaxDays
      BY <1>0, <2>1, Numbered DEF Calendar
    <3>2. game.dayNumber # 0
      BY <3>1
    <3>3. QED  BY <2>4, <3>1, <3>2, PhasesDistinct DEF Calendar, Ballots
  <2>7. Sound(h)
    BY <2>3, <2>4, <2>5, <2>6, QuietSound
  <2>8. QED  BY <2>1, <2>7, BecomeSound
<1>3. ASSUME CloseDayVote PROVE IInv'
  BY <1>0, <1>3, CloseVoteSound, BecomeSound DEF CloseDayVote
<1>4. QED  BY <1>1, <1>2, <1>3

LEMMA ChoicesSound ==
  ASSUME IInv, NEW p \in Players, NEW t \in Target, NEW antidote \in BOOLEAN
  PROVE  /\ SubmitGuardTarget(p, t) => IInv'
         /\ SubmitWolfTarget(p, t) => IInv'
         /\ SubmitWitchAction(p, antidote, t) => IInv'
         /\ SubmitHunterExecution(p, t) => IInv'
<1>0. Sound(game)
  BY DEF IInv
<1>1. game.phase \in NightPhases =>
        /\ Sound(GuardTurn(game, t)) /\ Sound(WolfTurn(game, t))
        /\ Sound(WitchTurn(game, antidote, t))
  BY <1>0, NightPhaseInNight, RoleTurnsSound
<1>2. SubmitGuardTarget(p, t) => IInv'
  BY <1>1, AnswerSound, PhasesDistinct DEF SubmitGuardTarget
<1>3. SubmitWolfTarget(p, t) => IInv'
  BY <1>1, AnswerSound, PhasesDistinct DEF SubmitWolfTarget
<1>4. SubmitWitchAction(p, antidote, t) => IInv'
  BY <1>1, AnswerSound, PhasesDistinct DEF SubmitWitchAction
<1>5. SubmitHunterExecution(p, t) => IInv'
  BY <1>0, HunterTurnSound, AnswerSound DEF SubmitHunterExecution
<1>6. QED  BY <1>2, <1>3, <1>4, <1>5

\* A vote is one of the living for another, and is counted or closes the round.
LEMMA CastSound ==
  ASSUME IInv, NEW v \in Players, NEW q \in Players, SubmitVote(v, q)
  PROVE  LET h == [game EXCEPT !.votes[v] = q] IN
           Sound(h) /\ h.phase \in Ballots /\ (Become(CloseVote(h)) \/ Become(h))
<1> DEFINE h == [game EXCEPT !.votes[v] = q]
<1>0. game \in Game /\ Calendar(game) /\ Decided(game) /\ OneHunter(game) /\ BallotLive(game)
  BY DEF IInv, Sound
<1>1. /\ game.phase \in Ballots /\ v \in Voters(game) /\ q \in Living(game) \ {v}
      /\ game.phase = "day_pk" => q \in game.pk
  BY DEF SubmitVote
<1>2. h \in Game
  BY <1>0 DEF Game, Target
<1>3. /\ h.roles = game.roles /\ h.dead = game.dead /\ h.winner = game.winner
      /\ h.phase = game.phase /\ h.pk = game.pk
      /\ h.nightNumber = game.nightNumber /\ h.dayNumber = game.dayNumber
      /\ h.votes = [game.votes EXCEPT ![v] = q]
  BY <1>0 DEF Game
<1>4. \A w \in Players : h.votes[w] = IF w = v THEN q ELSE game.votes[w]
  BY <1>0, <1>3 DEF Game
<1> HIDE DEF h
<1>5. Living(h) = Living(game) /\ Voters(h) = Voters(game)
  BY <1>3 DEF Living, Voters
<1>6. Decided(h) /\ OneHunter(h)
  BY <1>0, <1>1, <1>3, VictoryOfDead DEF Decided, OneHunter
<1>7. Calendar(h)
  BY <1>0, <1>1, <1>3, PhasesDistinct DEF Calendar, Ballots
<1>8. BallotLive(h)
  BY <1>0, <1>1, <1>3, <1>4, <1>5 DEF BallotLive
<1>9. ActorAsked(h)
  BY <1>1, <1>3, PhasesDistinct DEF ActorAsked, Ballots
<1>10. Sound(h)
  BY <1>2, <1>6, <1>7, <1>8, <1>9 DEF Sound
<1>11. Become(CloseVote(h)) \/ Become(h)
  BY DEF SubmitVote, h
<1>12. QED  BY <1>1, <1>3, <1>10, <1>11 DEF h

LEMMA SubmitVoteSound ==
  ASSUME IInv, NEW v \in Players, NEW q \in Players, SubmitVote(v, q)
  PROVE  IInv'
<1> DEFINE h == [game EXCEPT !.votes[v] = q]
<1>1. Sound(h) /\ h.phase \in Ballots /\ (Become(CloseVote(h)) \/ Become(h))
  BY CastSound
<1>2. Sound(CloseVote(h))
  BY <1>1, CloseVoteSound
<1>3. QED  BY <1>1, <1>2, BecomeSound

LEMMA TimeoutSound ==
  ASSUME IInv, Timeout
  PROVE  IInv'
<1>0. Sound(game)
  BY DEF IInv
<1>1. None \in Target /\ FALSE \in BOOLEAN
  BY DEF Target
<1>2. game.phase \in NightPhases =>
        /\ Sound(GuardTurn(game, None)) /\ Sound(WolfTurn(game, None))
        /\ Sound(WitchTurn(game, FALSE, None)) /\ Sound(SeerTurn(game))
  BY <1>0, <1>1, NightPhaseInNight, RoleTurnsSound
<1>3. CASE TimeoutGuard
  BY <1>2, <1>3, AnswerSound, PhasesDistinct DEF TimeoutGuard
<1>4. CASE TimeoutWolf
  BY <1>2, <1>4, AnswerSound, PhasesDistinct DEF TimeoutWolf
<1>5. CASE TimeoutWitch
  BY <1>2, <1>5, AnswerSound, PhasesDistinct DEF TimeoutWitch
<1>6. CASE TimeoutSeer
  <2> DEFINE g == SeerTurn(game)
             h == [g EXCEPT !.seerConfirmed = FALSE]
  <2>1. Sound(g) /\ Become(Dawn(h))
    BY <1>2, <1>6, PhasesDistinct DEF TimeoutSeer
  <2> HIDE DEF g
  <2>2. g \in Game
    BY <2>1 DEF Sound
  <2>3. h \in Game
    BY <2>2 DEF Game
  <2>4. /\ h.roles = g.roles /\ h.dead = g.dead /\ h.winner = g.winner
        /\ h.phase = g.phase /\ h.votes = g.votes /\ h.pk = g.pk
        /\ h.nightNumber = g.nightNumber /\ h.dayNumber = g.dayNumber
        /\ h.antidoteSpent = g.antidoteSpent /\ h.poisonSpent = g.poisonSpent
        /\ h.wolfTarget = g.wolfTarget /\ h.hunterTrigger = g.hunterTrigger
    BY <2>2 DEF Game
  <2> HIDE DEF h
  <2>5. Living(h) = Living(g) /\ WitchCanAct(h) = WitchCanAct(g) /\ Voters(h) = Voters(g)
    BY <2>4 DEF Living, WitchCanAct, Voters
  <2>6. \A r : Alive(h, r) = Alive(g, r)
    BY <2>4, <2>5 DEF Alive
  <2>7. Asked(h) = Asked(g) /\ Acting(h) = Acting(g)
    BY <2>4, <2>5, <2>6 DEF Asked, Acting
  <2>8. Victory(h) = Victory(g)
    BY <2>4, VictoryOfDead
  <2>9. Decided(h) /\ OneHunter(h) /\ Calendar(h)
    BY <2>1, <2>4, <2>8 DEF Sound, Decided, OneHunter, Calendar
  <2>10. BallotLive(h)
    BY <2>1, <2>4, <2>5 DEF Sound, BallotLive
  <2>11. ActorAsked(h)
    BY <2>1, <2>4, <2>5, <2>7 DEF Sound, ActorAsked
  <2>12. Sound(h)
    BY <2>3, <2>9, <2>10, <2>11 DEF Sound
  <2>13. QED  BY <2>1, <2>12, AnswerSound
<1>7. CASE TimeoutSeerResult
  BY <1>2, <1>7, AnswerSound, PhasesDistinct DEF TimeoutSeerResult
<1>8. CASE TimeoutHunter
  BY <1>0, <1>1, <1>8, HunterTurnSound, AnswerSound DEF TimeoutHunter
<1>9. QED  BY <1>3, <1>4, <1>5, <1>6, <1>7, <1>8 DEF Timeout

THEOREM Invariance == Spec => []IInv
<1>1. Init => IInv
  BY InitSound
<1>2. IInv /\ [Next]_vars => IInv'
  <2>1. ASSUME IInv, Next PROVE IInv'
    <3>1. ASSUME NEW p \in Players,
                 ConfirmRole(p) \/ SubmitSeerTarget(p) \/ ConfirmSeerResult(p)
          PROVE  IInv'
      BY <2>1, <3>1, PlayersSound
    <3>2. ASSUME NEW p \in Players, NEW t \in Target, NEW a \in BOOLEAN,
                 \/ SubmitGuardTarget(p, t)
                 \/ SubmitWolfTarget(p, t)
                 \/ SubmitWitchAction(p, a, t)
                 \/ SubmitHunterExecution(p, t)
          PROVE  IInv'
      BY <2>1, <3>2, ChoicesSound
    <3>3. ASSUME NEW v \in Players, NEW q \in Players, SubmitVote(v, q) PROVE IInv'
      BY <2>1, <3>3, SubmitVoteSound
    <3>4. StartNight \/ BeginNightStart \/ CloseDayVote => IInv'
      BY <2>1, ModeratorSound
    <3>5. Timeout => IInv'
      BY <2>1, TimeoutSound
    <3>6. QED  BY <2>1, <3>1, <3>2, <3>3, <3>4, <3>5 DEF Next
  <2>2. ASSUME IInv, UNCHANGED vars PROVE IInv'
    BY <2>2 DEF IInv, vars
  <2>3. QED  BY <2>1, <2>2
<1>3. QED  BY <1>1, <1>2, PTL DEF Spec

\* Every field keeps its type, and the nights and days their bound.
THEOREM TypeCorrect == Spec => []TypeOK
<1>1. IInv => TypeOK
  BY DEF IInv, Sound, TypeOK
<1>2. QED  BY <1>1, Invariance, PTL

\* A decided game is over, and play goes on only while it is undecided.
THEOREM OverWhenDecided == Spec => []DecidedIsOver
<1>1. IInv => DecidedIsOver
  BY DEF IInv, Sound, Decided, DecidedIsOver
<1>2. QED  BY <1>1, Invariance, PTL

\* Somebody is asked in every phase of a role, the same in both lists of the
\* code, and the timeout recovery has what it needs.
THEOREM ActorsPending == Spec => []PendingHasActor
<1>1. IInv => PendingHasActor
  BY DEF IInv, Sound, ActorAsked, PendingHasActor, Timed
<1>2. QED  BY <1>1, Invariance, PTL

\* No vote and no candidate is left over from another round or of the dead.
THEOREM VotesOfTheLiving == Spec => []VotesAreLive
<1>1. IInv => VotesAreLive
  BY DEF IInv, Sound, BallotLive, VotesAreLive
<1>2. QED  BY <1>1, Invariance, PTL

------------------------------------------------- (* what a view shows *)
\* Altered leaves alone what p is told, of itself, of all and in its own turn.
LEMMA AlteredKeeps ==
  ASSUME NEW g \in Game, NEW p \in Players, NEW h, h = Altered(g, p)
  PROVE  /\ h.roles \in [Players -> Roles] /\ h.roles[p] = g.roles[p]
         /\ h.phase = g.phase /\ h.confirmed = g.confirmed /\ h.dead = g.dead
         /\ h.deaths = g.deaths /\ h.nightNumber = g.nightNumber
         /\ h.dayNumber = g.dayNumber /\ h.hunterTrigger = g.hunterTrigger
         /\ h.pk = g.pk /\ h.eliminated = g.eliminated /\ h.noKill = g.noKill
         /\ h.winner = g.winner
         /\ h.votes[p] = g.votes[p]
         /\ \A q \in Players : (h.votes[q] = None) = (g.votes[q] = None)
         /\ HasTurn(g, p) /\ g.phase = "night_witch" =>
              /\ h.wolfTarget = g.wolfTarget /\ h.antidoteSpent = g.antidoteSpent
              /\ h.poisonSpent = g.poisonSpent
         /\ HasTurn(g, p) /\ g.phase = "night_seer" => h.seerTarget = g.seerTarget
         /\ HasTurn(g, p) /\ g.phase = "night_guard" => h.guardLast = g.guardLast
         /\ HasTurn(g, p) /\ g.phase = "night_seer" /\ g.seerTarget =>
              {q \in Players : h.roles[q] = "werewolf"}
                = {q \in Players : g.roles[q] = "werewolf"}
<1>. DEFINE turn == IF HasTurn(g, p) THEN g.phase ELSE "none"
            told == turn = "night_seer" /\ g.seerTarget
            roles == [q \in Players |->
                        IF q = p \/ (told /\ g.roles[q] = "werewolf") THEN g.roles[q]
                        ELSE IF g.roles[q] = "villager" THEN "hunter" ELSE "villager"]
            votes == [q \in Players |-> IF q = p THEN g.votes[p] ELSE Other(g.votes[q])]
            attacked == IF turn = "night_witch" THEN g.wolfTarget ELSE Other(g.wolfTarget)
            antidote == IF turn = "night_witch" THEN g.antidoteSpent ELSE ~g.antidoteSpent
            poison == IF turn = "night_witch" THEN g.poisonSpent ELSE ~g.poisonSpent
            seer == IF turn = "night_seer" THEN g.seerTarget ELSE ~g.seerTarget
            guard == IF turn = "night_guard" THEN g.guardLast ELSE Other(g.guardLast)
<1>1. h = [g EXCEPT
        !.roles = roles, !.votes = votes, !.wolfTarget = attacked,
        !.antidoteSpent = antidote, !.poisonSpent = poison, !.seerTarget = seer,
        !.guardLast = guard,
        !.guardProtected = Other(g.guardProtected), !.poisonTarget = Other(g.poisonTarget),
        !.hunterTarget = Other(g.hunterTarget), !.usedAntidote = ~g.usedAntidote,
        !.seerConfirmed = ~g.seerConfirmed]
  BY Zenon DEF Altered, Game
<1>2. roles \in [Players -> Roles] /\ roles[p] = g.roles[p]
  BY DEF Game, Roles
<1>3. votes[p] = g.votes[p]
  OBVIOUS
<1>4. \A q \in Players : (votes[q] = None) = (g.votes[q] = None)
  BY PlayersAssumption, TurnedAssumption DEF Game, Target, Other
<1>5. told => {q \in Players : roles[q] = "werewolf"}
                = {q \in Players : g.roles[q] = "werewolf"}
  OBVIOUS
<1>6. /\ turn = "night_witch" => /\ attacked = g.wolfTarget
                                 /\ antidote = g.antidoteSpent /\ poison = g.poisonSpent
      /\ turn = "night_seer" => seer = g.seerTarget
      /\ turn = "night_guard" => guard = g.guardLast
      /\ HasTurn(g, p) => turn = g.phase
      /\ turn = "night_seer" /\ g.seerTarget => told
  OBVIOUS
<1>. HIDE DEF roles, votes, attacked, antidote, poison, seer, guard, turn, told
<1>7. /\ h.roles = roles /\ h.votes = votes /\ h.wolfTarget = attacked
      /\ h.antidoteSpent = antidote /\ h.poisonSpent = poison /\ h.seerTarget = seer
      /\ h.guardLast = guard
      /\ h.phase = g.phase /\ h.confirmed = g.confirmed /\ h.dead = g.dead
      /\ h.deaths = g.deaths /\ h.nightNumber = g.nightNumber
      /\ h.dayNumber = g.dayNumber /\ h.hunterTrigger = g.hunterTrigger
      /\ h.pk = g.pk /\ h.eliminated = g.eliminated /\ h.noKill = g.noKill
      /\ h.winner = g.winner
  BY <1>1 DEF Game
<1>8. QED  BY <1>2, <1>3, <1>4, <1>5, <1>6, <1>7

\* The view of a player: its own role and turn, the dead, and the day's results.
LEMMA ViewKeepsSecrets ==
  ASSUME NEW g \in Game, NEW p \in Players
  PROVE  PlayerGameView(Altered(g, p), p) = PlayerGameView(g, p)
<1>. DEFINE h == Altered(g, p)
<1>1. /\ h.roles \in [Players -> Roles] /\ h.roles[p] = g.roles[p]
      /\ h.phase = g.phase /\ h.confirmed = g.confirmed /\ h.dead = g.dead
      /\ h.deaths = g.deaths /\ h.hunterTrigger = g.hunterTrigger
      /\ h.pk = g.pk /\ h.eliminated = g.eliminated /\ h.noKill = g.noKill
      /\ h.winner = g.winner
      /\ h.votes[p] = g.votes[p]
      /\ HasTurn(g, p) /\ g.phase = "night_witch" =>
           /\ h.wolfTarget = g.wolfTarget /\ h.antidoteSpent = g.antidoteSpent
           /\ h.poisonSpent = g.poisonSpent
      /\ HasTurn(g, p) /\ g.phase = "night_seer" => h.seerTarget = g.seerTarget
      /\ HasTurn(g, p) /\ g.phase = "night_guard" => h.guardLast = g.guardLast
      /\ HasTurn(g, p) /\ g.phase = "night_seer" /\ g.seerTarget =>
           {q \in Players : h.roles[q] = "werewolf"}
             = {q \in Players : g.roles[q] = "werewolf"}
  BY AlteredKeeps
<1>. HIDE DEF h
<1>2. Living(h) = Living(g) /\ HasTurn(h, p) = HasTurn(g, p)
  BY <1>1 DEF Living, HasTurn
<1>3. g.phase \notin NightPhases => DayView(h, p) = DayView(g, p)
  <2>1. BallotView(h, p) = BallotView(g, p)
    BY <1>1, <1>2 DEF BallotView
  <2>2. HunterView(h, p) = HunterView(g, p)
    BY <1>1, <1>2 DEF HunterView
  <2>3. QED  BY <1>1, <2>1, <2>2 DEF DayView
<1>4. g.phase \in NightPhases /\ HasTurn(g, p) => NightView(h, p) = NightView(g, p)
  <2>. SUFFICES ASSUME g.phase \in NightPhases, HasTurn(g, p)
                PROVE  NightView(h, p) = NightView(g, p)
    OBVIOUS
  <2>1. CASE g.phase = "night_werewolf"
    BY <1>1, <1>2, <2>1 DEF NightView
  <2>2. CASE g.phase = "night_guard"
    BY <1>1, <1>2, <2>2 DEF NightView
  <2>3. CASE g.phase = "night_witch"
    BY <1>1, <1>2, <2>3 DEF NightView
  <2>4. CASE g.phase = "night_seer"
    <3>1. g.seerTarget => SeerResult(h) = SeerResult(g)
      BY <1>1, <2>4 DEF SeerResult
    <3>2. QED  BY <1>1, <1>2, <2>4, <3>1 DEF NightView
  <2>5. QED  BY <2>1, <2>2, <2>3, <2>4, PhasesDistinct
<1>5. PlayerView(h, p) = PlayerView(g, p)
  BY <1>1, <1>2, <1>3, <1>4 DEF PlayerView
<1>6. (p \in Asked(h)) = (p \in Asked(g))
  <2>1. CASE g.phase = "day_hunter"
    BY <1>1, <2>1 DEF Asked, Holders
  <2>2. CASE g.phase # "day_hunter"
    <3>1. p \in Living(g) /\ NightPhase[g.roles[p]] = g.phase /\ g.roles[p] = "witch" =>
            WitchCanAct(h) = WitchCanAct(g)
      BY <1>1, PhasesDistinct DEF HasTurn, NightPhase, WitchCanAct, Living
    <3>2. ASSUME NEW k, k.phase = g.phase, k.roles[p] = g.roles[p], Living(k) = Living(g)
          PROVE  p \in Asked(k) <=>
                   /\ p \in Living(g) /\ g.roles[p] \in NightRoles
                   /\ NightPhase[g.roles[p]] = g.phase
                   /\ g.roles[p] = "witch" => WitchCanAct(k)
      BY <2>2, <3>2 DEF Asked, Alive
    <3>3. QED  BY <1>1, <1>2, <3>1, <3>2
  <2>3. QED  BY <2>1, <2>2
<1>7. p # None
  BY PlayersAssumption
<1>8. PlayerGameView(h, p) = PlayerGameView(g, p)
  BY <1>5, <1>6, <1>7 DEF PlayerGameView
<1>9. QED  BY <1>8 DEF h

\* The room as all see it counts the votes, and says nothing of a role or a choice.
LEMMA PublicViewKeepsSecrets ==
  ASSUME NEW g \in Game, NEW h,
         h.phase = g.phase, h.confirmed = g.confirmed, h.dead = g.dead,
         h.nightNumber = g.nightNumber, h.dayNumber = g.dayNumber,
         h.pk = g.pk, h.eliminated = g.eliminated, h.noKill = g.noKill,
         h.winner = g.winner,
         Cardinality({q \in Players : h.votes[q] # None})
           = Cardinality({q \in Players : g.votes[q] # None})
  PROVE  PublicView(h) = PublicView(g)
<1>1. Living(h) = Living(g) /\ Voters(h) = Voters(g)
  BY DEF Living, Voters
<1>2. CompletedNightSteps(h) = CompletedNightSteps(g)
  BY DEF CompletedNightSteps
<1>3. QED  BY <1>1, <1>2 DEF PublicView

LEMMA EnvelopesKeepSecrets ==
  ASSUME NEW g \in Game, NEW p \in Players
  PROVE  Envelopes(Altered(g, p), p, Players) = Envelopes(g, p, Players)
<1>. DEFINE h == Altered(g, p)
<1>1. /\ h.phase = g.phase /\ h.confirmed = g.confirmed /\ h.dead = g.dead
      /\ h.nightNumber = g.nightNumber /\ h.dayNumber = g.dayNumber
      /\ h.pk = g.pk /\ h.eliminated = g.eliminated /\ h.noKill = g.noKill
      /\ h.winner = g.winner
      /\ \A q \in Players : (h.votes[q] = None) = (g.votes[q] = None)
  BY AlteredKeeps
<1>2. PlayerGameView(h, p) = PlayerGameView(g, p)
  BY ViewKeepsSecrets
<1>. HIDE DEF h
<1>3. {q \in Players : h.votes[q] # None} = {q \in Players : g.votes[q] # None}
  BY <1>1
<1>4. PublicView(h) = PublicView(g)
  BY <1>1, <1>3, PublicViewKeepsSecrets
<1>5. p # None
  BY PlayersAssumption
<1>6. Envelopes(h, p, Players) = Envelopes(g, p, Players)
  BY <1>2, <1>4, <1>5 DEF Envelopes, RoomProjection, RoomGameView
<1>7. QED  BY <1>6 DEF h

\* Whoever votes, there are as many votes.
LEMMA TurnedBijects ==
  Turned \in Surjection(Players, Players) /\ Turned \in Injection(Players, Players)
<1>1. Turned \in Injection(Players, Players)
  BY TurnedAssumption DEF Injection, IsInjective
<1>2. QED  BY <1>1, PlayersAssumption, FS_Injection

LEMMA SameCount ==
  ASSUME NEW S, NEW T, NEW f \in [S -> T], IsFiniteSet(S),
         \A a, b \in S : f[a] = f[b] => a = b,
         \A t \in T : \E a \in S : f[a] = t
  PROVE  Cardinality(T) = Cardinality(S)
<1>1. f \in Surjection(S, T) /\ f \in Injection(S, T)
  BY DEF Surjection, Injection, IsInjective
<1>2. QED  BY <1>1, FS_Surjection

LEMMA DealtRoundCounts ==
  ASSUME NEW A
  PROVE  Cardinality({v \in Players : Turned[v] \in A})
           = Cardinality({v \in Players : v \in A})
<1>. DEFINE S == {v \in Players : Turned[v] \in A}
            T == {v \in Players : v \in A}
            f == [v \in S |-> Turned[v]]
<1>1. f \in [S -> T]
  BY TurnedAssumption
<1>2. IsFiniteSet(S)
  BY PlayersAssumption, FS_Subset
<1>3. \A a, b \in S : f[a] = f[b] => a = b
  BY TurnedAssumption
<1>4. \A t \in T : \E a \in S : f[a] = t
  <2>1. \A t \in Players : \E a \in Players : Turned[a] = t
    BY TurnedBijects DEF Surjection
  <2>2. QED  BY <2>1
<1>. HIDE DEF S, T, f
<1>5. Cardinality(T) = Cardinality(S)
  BY <1>1, <1>2, <1>3, <1>4, SameCount
<1>6. QED  BY <1>5 DEF S, T

\* A human moderator sees how many votes each has, and not whose they are.
LEMMA TallyKeepsSecrets ==
  ASSUME NEW g \in Game
  PROVE  Envelopes(DealtRound(g), None, Players) = Envelopes(g, None, Players)
<1>. DEFINE h == DealtRound(g)
<1>1. /\ h.phase = g.phase /\ h.confirmed = g.confirmed /\ h.dead = g.dead
      /\ h.nightNumber = g.nightNumber /\ h.dayNumber = g.dayNumber
      /\ h.pk = g.pk /\ h.eliminated = g.eliminated /\ h.noKill = g.noKill
      /\ h.winner = g.winner
      /\ \A v \in Players : h.votes[v] = g.votes[Turned[v]]
  BY DEF DealtRound, Game
<1>. HIDE DEF h
<1>2. Cardinality({q \in Players : h.votes[q] # None})
        = Cardinality({q \in Players : g.votes[q] # None})
  <2>. DEFINE A == {q \in Players : g.votes[q] # None}
  <2>1. {q \in Players : h.votes[q] # None} = {v \in Players : Turned[v] \in A}
    BY <1>1, TurnedAssumption
  <2>2. {q \in Players : g.votes[q] # None} = {v \in Players : v \in A}
    OBVIOUS
  <2>. HIDE DEF A
  <2>3. QED  BY <2>1, <2>2, DealtRoundCounts
<1>3. ASSUME NEW q \in Players
      PROVE  VotesFor(h, q) = VotesFor(g, q)
  <2>. DEFINE A == {v \in Players : g.votes[v] = q}
  <2>1. {v \in Players : h.votes[v] = q} = {v \in Players : Turned[v] \in A}
    BY <1>1, TurnedAssumption
  <2>2. {v \in Players : g.votes[v] = q} = {v \in Players : v \in A}
    OBVIOUS
  <2>. HIDE DEF A
  <2>3. QED  BY <2>1, <2>2, DealtRoundCounts DEF VotesFor
<1>4. PublicView(h) = PublicView(g)
  BY <1>1, <1>2, PublicViewKeepsSecrets
<1>5. VoteTally(h) = VoteTally(g)
  BY <1>1, <1>3 DEF VoteTally
<1>6. PlayerGameView(h, None) = PlayerGameView(g, None)
  BY <1>1 DEF PlayerGameView
<1>7. Envelopes(h, None, Players) = Envelopes(g, None, Players)
  BY <1>4, <1>5, <1>6 DEF Envelopes, RoomProjection, RoomGameView, ModeratorView
<1>8. QED  BY <1>7 DEF h

\* As many are asked, whoever of the living they are.
LEMMA SwappedCounts ==
  ASSUME NEW g \in Game, NEW p \in Living(g), NEW q \in Living(g), NEW r
  PROVE  Cardinality(Alive(Swapped(g, p, q), r)) = Cardinality(Alive(g, r))
<1>. DEFINE h == Swapped(g, p, q)
            S == Alive(g, r)
            T == Alive(h, r)
            f == [x \in S |-> IF x = p THEN q ELSE IF x = q THEN p ELSE x]
<1>1. /\ p \in Players /\ q \in Players /\ Living(h) = Living(g)
      /\ \A x \in Players : h.roles[x] = IF x = q THEN g.roles[p]
                                         ELSE IF x = p THEN g.roles[q] ELSE g.roles[x]
  BY DEF Swapped, Game, Living
<1>. HIDE DEF h
<1>2. f \in [S -> T]
  BY <1>1 DEF Alive, Living
<1>3. IsFiniteSet(S)
  <2>1. S \subseteq Players
    BY DEF Alive, Living
  <2>2. QED  BY <2>1, PlayersAssumption, FS_Subset
<1>4. \A a, b \in S : f[a] = f[b] => a = b
  OBVIOUS
<1>5. \A t \in T : \E a \in S : f[a] = t
  <2>. SUFFICES ASSUME NEW t \in T PROVE \E a \in S : f[a] = t
    OBVIOUS
  <2>. DEFINE a == IF t = p THEN q ELSE IF t = q THEN p ELSE t
  <2>1. a \in S
    BY <1>1 DEF Alive, Living
  <2>2. f[a] = t
    BY <2>1
  <2>3. QED  BY <2>1, <2>2
<1>. HIDE DEF S, T, f
<1>6. Cardinality(T) = Cardinality(S)
  BY <1>2, <1>3, <1>4, <1>5, SameCount
<1>7. QED  BY <1>6 DEF S, T, h

LEMMA RecoveryKeepsSecrets ==
  ASSUME Sound(game), game.phase \in NightPhases,
         NEW p \in Asked(game), NEW q \in Living(game)
  PROVE  Recovery(Swapped(game, p, q), Players) = Recovery(game, Players)
<1>. DEFINE g == game
            h == Swapped(g, p, q)
<1>1. g \in Game /\ Asked(g) = Acting(g) /\ Asked(g) # {} /\ g.phase # "day_hunter"
  BY PhasesDistinct DEF Sound, ActorAsked
<1>2. PICK r \in NightRoles : /\ NightPhase[r] = g.phase /\ p \in Alive(g, r)
                              /\ r = "witch" => WitchCanAct(g)
  BY <1>1 DEF Asked
<1>3. \A s \in NightRoles : NightPhase[s] = g.phase => s = r
  BY <1>2, PhasesDistinct DEF NightPhase
<1>4. /\ h.phase = g.phase /\ h.dead = g.dead /\ h.wolfTarget = g.wolfTarget
      /\ h.antidoteSpent = g.antidoteSpent /\ h.poisonSpent = g.poisonSpent
  BY <1>1 DEF Swapped, Game
<1>. HIDE DEF g, h
<1>5. WitchCanAct(h) = WitchCanAct(g)
  BY <1>4 DEF WitchCanAct
<1>6. Asked(g) = Alive(g, r) /\ Asked(h) = Alive(h, r)
  BY <1>1, <1>2, <1>3, <1>4, <1>5 DEF Asked
<1>7. p \in Living(g)
  BY <1>2 DEF Alive
<1>8. Cardinality(Alive(h, r)) = Cardinality(Alive(g, r))
  BY <1>1, <1>7, SwappedCounts DEF h, g
<1>9. Alive(g, r) \subseteq Players /\ Alive(h, r) \subseteq Players
  BY DEF Alive, Living
<1>10. Alive(g, r) # {} /\ Alive(h, r) # {}
  <2>1. IsFiniteSet(Alive(g, r)) /\ IsFiniteSet(Alive(h, r))
    BY <1>9, PlayersAssumption, FS_Subset
  <2>2. QED  BY <1>2, <1>8, <2>1, FS_EmptySet
<1>11. /\ Alive(g, r) \intersect Players = Alive(g, r)
       /\ Alive(h, r) \intersect Players = Alive(h, r)
  BY <1>9
<1>12. Recovery(h, Players) = Recovery(g, Players)
  BY <1>6, <1>8, <1>10, <1>11 DEF Recovery
<1>13. QED  BY <1>12 DEF g, h

LEMMA SomebodyPlays == Spec => [](Players # {})
<1>1. Init => Players # {}
  <2>. SUFFICES ASSUME Init, Players = {} PROVE FALSE
    OBVIOUS
  <2>1. PICK deal \in Deals : game = Dealt(deal)
    BY DEF Init
  <2>2. Cardinality(Holders(deal, "werewolf")) >= 1
    BY DealsAssumption DEF Legal
  <2>3. Holders(deal, "werewolf") = {}
    BY DEF Holders
  <2>4. QED  BY <2>2, <2>3, FS_EmptySet
<1>2. Players # {} /\ [Next]_vars => (Players # {})'
  OBVIOUS
<1>3. QED  BY <1>1, <1>2, PTL DEF Spec

\* No view gives away what its viewer may not know: it would be the same in a game
\* where that is otherwise, for any deal and whatever has been played
\* (WerewolfGameModule, werewolfClientRoomProjection, hostRecovery).
THEOREM SecretsStayKept == Spec => []SecretsKept
<1>1. IInv /\ Players # {} => SecretsKept
  <2>. SUFFICES ASSUME IInv, Players # {} PROVE SecretsKept
    OBVIOUS
  <2>1. Sound(game) /\ game \in Game
    BY DEF IInv, Sound
  <2>2. \A p \in Players : \E h \in {Altered(game, p)} :
          PlayerGameView(h, p) = PlayerGameView(game, p)
    BY <2>1, ViewKeepsSecrets
  <2>3. (CHOOSE p \in Players : TRUE) \in Players
    OBVIOUS
  <2>4. \A p \in {CHOOSE p \in Players : TRUE} :
          Envelopes(Altered(game, p), p, Players) = Envelopes(game, p, Players)
    BY <2>1, <2>3, EnvelopesKeepSecrets
  <2>5. Envelopes(DealtRound(game), None, Players) = Envelopes(game, None, Players)
    BY <2>1, TallyKeepsSecrets
  <2>6. game.phase \in NightPhases =>
          \A p \in Asked(game), q \in Living(game) :
            Recovery(Swapped(game, p, q), Players) = Recovery(game, Players)
    BY <2>1, RecoveryKeepsSecrets
  <2>7. QED  BY <2>2, <2>4, <2>5, <2>6 DEF SecretsKept
<1>2. QED  BY <1>1, Invariance, SomebodyPlays, PTL
=============================================================================
