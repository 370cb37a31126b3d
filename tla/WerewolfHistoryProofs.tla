------------------------ MODULE WerewolfHistoryProofs ------------------------
(***************************************************************************)
(* What WerewolfGame promises of a whole game and not of one state of it:  *)
(* the limits of the roles, the hunter's one shot, and that every role has *)
(* its turn each night. Each relates the game to its history past, so the  *)
(* invariant here says what each field of past has to do with the game,    *)
(* on top of the invariant of WerewolfGameProofs.                          *)
(***************************************************************************)
EXTENDS WerewolfGameProofs

---------------------------------------- (* what the history has recorded *)
\* A target or a confirmation on record was chosen.
SeerKept(g, p) == g.seerTarget \/ g.seerConfirmed => p.seerChose

\* A potion is spent when it is used, and both are not used in a night.
PotionsKept(g, p) ==
  /\ p.antidotes = IF g.antidoteSpent THEN 1 ELSE 0
  /\ p.poisons = IF g.poisonSpent THEN 1 ELSE 0
  /\ g.usedAntidote => g.antidoteSpent /\ g.poisonTarget = None
  /\ g.poisonTarget # None => g.poisonSpent

\* guardLast is whom the guard protected the night before, if there was one.
GuardKept(g, p) ==
  /\ p.protected[g.nightNumber] = g.guardProtected
  /\ \A n \in 1 .. MaxDays : n > g.nightNumber => p.protected[n] = None
  /\ g.nightNumber > 1 => g.guardLast = p.protected[g.nightNumber - 1]
  /\ \A n \in 1 .. MaxDays - 1 :
       p.protected[n] # None => p.protected[n] # p.protected[n + 1]

\* The hunter has fallen when dead, and shoots unless poisoned.
HunterKept(g, p) ==
  /\ p.fell = "no" <=> Holders(g.roles, "hunter") \intersect g.dead = {}
  /\ p.offered = IF p.fell \in {"attack", "vote"} THEN 1 ELSE 0
  /\ g.phase \in NightPhases => g.wolfTarget \notin g.dead

\* A witch with nothing she could use, no phase is made for.
UsedUp(g, r) ==
  /\ r = "witch"
  /\ g.poisonSpent
  /\ g.antidoteSpent \/ g.wolfTarget = None

\* The turn of the j-th role has come, or gone by.
Reached(g, j) ==
  g.phase \in NightPhases => \E i \in j .. 4 : g.phase = NightPhase[NightOrder[i]]

Awake(g) == {r \in NightRoles : Alive(g, r) # {}}

TurnsKept(g, p) ==
  /\ p.dusk \subseteq NightRoles
  /\ g.phase \in NightPhases => p.dusk = Awake(g)
  /\ \A j \in 1 .. 4 :
       Reached(g, j) /\ NightOrder[j] \in p.dusk \ p.asked => UsedUp(g, NightOrder[j])

HistoryKept(g, p) ==
  /\ SeerKept(g, p) /\ PotionsKept(g, p) /\ GuardKept(g, p)
  /\ HunterKept(g, p) /\ TurnsKept(g, p)

HInv == IInv /\ HistoryKept(game, past)

LEMMA OrderOfNight ==
  /\ NightOrder[1] = "guard" /\ NightOrder[2] = "werewolf"
  /\ NightOrder[3] = "witch" /\ NightOrder[4] = "seer"
  /\ NightPhase["guard"] = "night_guard" /\ NightPhase["werewolf"] = "night_werewolf"
  /\ NightPhase["witch"] = "night_witch" /\ NightPhase["seer"] = "night_seer"
BY DEF NightOrder, NightPhase

LEMMA PhaseOfRole ==
  /\ \A j \in 1 .. 4 : /\ NightOrder[j] \in NightRoles
                       /\ NightPhase[NightOrder[j]] \in NightPhases
  /\ \A j, k \in 1 .. 4 : NightPhase[NightOrder[j]] = NightPhase[NightOrder[k]] => j = k
  /\ \A r \in NightRoles : \E j \in 1 .. 4 : r = NightOrder[j]
<1>1. \A j \in 1 .. 4 : j = 1 \/ j = 2 \/ j = 3 \/ j = 4
  OBVIOUS
<1>2. \A j, k \in 1 .. 4 : NightPhase[NightOrder[j]] = NightPhase[NightOrder[k]] => j = k
  BY <1>1, OrderOfNight
<1>3. QED  BY <1>2 DEF NightRoles, NightPhases

\* What Noted makes of each field of the history.
LEMMA NotedFields ==
  ASSUME NEW g, NEW h
  PROVE  LET n == Noted(g, h) IN
    /\ n.protected = [past.protected EXCEPT ![h.nightNumber] = h.guardProtected]
    /\ n.antidotes = past.antidotes + (IF h.usedAntidote /\ ~g.usedAntidote THEN 1 ELSE 0)
    /\ n.poisons = past.poisons
         + (IF h.poisonTarget # None /\ g.poisonTarget = None THEN 1 ELSE 0)
    /\ n.fell = HunterFell(g, h)
    /\ n.offered = past.offered
         + (IF h.phase = "day_hunter" /\ g.phase # "day_hunter" THEN 1 ELSE 0)
    /\ n.dusk = IF g.phase = "night_start" THEN Awake(g) ELSE past.dusk
    /\ n.asked = (IF g.phase = "night_start" THEN {} ELSE past.asked)
                 \union {r \in NightRoles : NightPhase[r] = h.phase}
    /\ n.seerChose <=> \/ h.phase = "night_seer" /\ h.seerTarget
                       \/ g.phase # "night_start" /\ past.seerChose
BY DEF Noted, Awake

\* The roles awake at dusk and asked since, in any step but the dusk itself.
LEMMA NotedTurns ==
  ASSUME NEW g, NEW h, g.phase # "night_start"
  PROVE  /\ Noted(g, h).dusk = past.dusk
         /\ Noted(g, h).asked = past.asked \union {r \in NightRoles : NightPhase[r] = h.phase}
BY DEF Noted

----------------------------------------- (* a step, field by field of past *)
SeerStep(g, h) ==
  h.seerTarget \/ h.seerConfirmed =>
    \/ h.phase = "night_seer" /\ h.seerTarget
    \/ g.phase # "night_start" /\ (g.seerTarget \/ g.seerConfirmed)

LEMMA SeerNoted ==
  ASSUME NEW g, NEW h, SeerKept(g, past), SeerStep(g, h)
  PROVE  SeerKept(h, Noted(g, h))
BY NotedFields DEF SeerKept, SeerStep

\* A potion is used that is not spent, and then it is.
PotionStep(g, h) ==
  /\ h.antidoteSpent <=> g.antidoteSpent \/ h.usedAntidote
  /\ h.usedAntidote => /\ g.usedAntidote \/ ~g.antidoteSpent
                       /\ h.poisonTarget = None
  /\ h.poisonSpent <=> g.poisonSpent \/ h.poisonTarget # None
  /\ h.poisonTarget # None => g.poisonTarget # None \/ ~g.poisonSpent

LEMMA PotionsNoted ==
  ASSUME NEW g, NEW h, PotionsKept(g, past), PotionStep(g, h)
  PROVE  PotionsKept(h, Noted(g, h))
<1> DEFINE n == Noted(g, h)
<1>1. /\ n.antidotes = past.antidotes + (IF h.usedAntidote /\ ~g.usedAntidote THEN 1 ELSE 0)
      /\ n.poisons = past.poisons
           + (IF h.poisonTarget # None /\ g.poisonTarget = None THEN 1 ELSE 0)
  BY NotedFields
<1> HIDE DEF n
<1>2. n.antidotes = IF h.antidoteSpent THEN 1 ELSE 0
  BY <1>1 DEF PotionsKept, PotionStep
<1>3. n.poisons = IF h.poisonSpent THEN 1 ELSE 0
  BY <1>1 DEF PotionsKept, PotionStep
<1>4. PotionsKept(h, n)
  BY <1>2, <1>3 DEF PotionsKept, PotionStep
<1>5. QED  BY <1>4 DEF n

\* A choice is not last night's; at dusk tonight's choice becomes last night's.
GuardStep(g, h) ==
  \/ /\ h.nightNumber = g.nightNumber /\ h.guardLast = g.guardLast
     /\ \/ h.guardProtected = None
        \/ h.guardProtected = g.guardProtected
        \/ h.guardProtected # g.guardLast
  \/ /\ h.guardProtected = None /\ h.guardLast = g.guardProtected
     /\ \/ h.nightNumber = g.nightNumber + 1
        \/ h.nightNumber = 1 /\ g.nightNumber = 1

LEMMA GuardNoted ==
  ASSUME past \in Past, NEW g \in Game, NEW h \in Game,
         GuardKept(g, past), GuardStep(g, h)
  PROVE  GuardKept(h, Noted(g, h))
<1> DEFINE n == Noted(g, h).protected
           N == h.nightNumber
           P == past.protected
<1>1. n = [P EXCEPT ![N] = h.guardProtected] /\ P \in [1 .. MaxDays -> Target]
  BY NotedFields DEF Past
<1>2. N \in 1 .. MaxDays /\ g.nightNumber \in 1 .. MaxDays /\ MaxDays \in Nat
  BY Numbered, BoundAssumption
<1>3. \A m \in 1 .. MaxDays : n[m] = IF m = N THEN h.guardProtected ELSE P[m]
  BY <1>1
<1> HIDE DEF n
<1>4. n[N] = h.guardProtected
  BY <1>2, <1>3
<1>5. ASSUME NEW m \in 1 .. MaxDays, m > N PROVE n[m] = None
  BY <1>2, <1>3, <1>5 DEF GuardKept, GuardStep
<1>6. ASSUME N > 1 PROVE h.guardLast = n[N - 1]
  <2>1. N - 1 \in 1 .. MaxDays /\ N - 1 # N
    BY <1>2, <1>6
  <2>2. n[N - 1] = P[N - 1]
    BY <1>3, <2>1
  <2>3. QED  BY <1>2, <1>6, <2>2 DEF GuardKept, GuardStep
<1>7. ASSUME NEW m \in 1 .. MaxDays - 1, n[m] # None PROVE n[m] # n[m + 1]
  <2>1. m \in 1 .. MaxDays /\ m + 1 \in 1 .. MaxDays /\ m + 1 # m
    BY <1>2
  <2>2. CASE m = N
    <3>1. n[m + 1] = None
      BY <1>2, <1>5, <2>1, <2>2
    <3>2. QED  BY <1>7, <3>1
  <2>3. CASE m + 1 = N
    <3>1. N > 1 /\ n[m] = P[m] /\ n[m] = h.guardLast
      BY <1>2, <1>3, <1>6, <2>1, <2>3
    <3>2. n[m + 1] = h.guardProtected
      BY <1>3, <2>1, <2>3
    <3>3. h.guardProtected = None \/ h.guardProtected # h.guardLast
      <4>1. CASE h.guardProtected = g.guardProtected /\ h.nightNumber = g.nightNumber
        BY <1>7, <2>1, <2>3, <3>1, <4>1 DEF GuardKept
      <4>2. CASE ~(h.guardProtected = g.guardProtected /\ h.nightNumber = g.nightNumber)
        BY <4>2 DEF GuardStep
      <4>3. QED  BY <4>1, <4>2
    <3>4. QED  BY <1>7, <3>1, <3>2, <3>3
  <2>4. CASE m # N /\ m + 1 # N
    BY <1>3, <1>7, <2>1, <2>4 DEF GuardKept
  <2>5. QED  BY <2>2, <2>3, <2>4
<1>8. GuardKept(h, Noted(g, h))
  BY <1>4, <1>5, <1>6, <1>7 DEF GuardKept, n
<1>9. QED  BY <1>8

\* The hunters who die in a step, and that a shot is offered just when it is earned.
Died(g, h) == {p \in h.dead \ g.dead : g.roles[p] = "hunter"}
ShotStep(g, h) ==
  /\ h.roles = g.roles /\ g.dead \subseteq h.dead
  /\ h.phase \in NightPhases => h.wolfTarget \notin h.dead
  /\ h.phase = "day_hunter" /\ g.phase # "day_hunter" <=>
       Died(g, h) # {} /\ (g.phase \in Ballots \/ Died(g, h) # {h.poisonTarget})

LEMMA HunterNoted ==
  ASSUME past \in Past, NEW g \in Game, NEW h \in Game, OneHunter(g),
         HunterKept(g, past), ShotStep(g, h)
  PROVE  HunterKept(h, Noted(g, h))
<1> DEFINE n == Noted(g, h)
           H == Holders(g.roles, "hunter")
           earned == g.phase \in Ballots \/ Died(g, h) # {h.poisonTarget}
<1>1. /\ n.fell = IF Died(g, h) = {} THEN past.fell
                  ELSE IF g.phase \in Ballots THEN "vote"
                  ELSE IF Died(g, h) = {h.poisonTarget} THEN "poison" ELSE "attack"
      /\ n.offered = past.offered
           + (IF h.phase = "day_hunter" /\ g.phase # "day_hunter" THEN 1 ELSE 0)
  BY NotedFields DEF HunterFell, Died
<1> HIDE DEF n
<1>2. Holders(h.roles, "hunter") = H /\ h.dead \subseteq Players
  BY DEF ShotStep, Game
<1>3. CASE Died(g, h) = {}
  <2>1. n.fell = past.fell /\ n.offered = past.offered
    BY <1>1, <1>3 DEF ShotStep, Past
  <2>2. H \intersect h.dead = H \intersect g.dead
    BY <1>3 DEF ShotStep, Died, Holders
  <2>3. HunterKept(h, n)
    BY <1>2, <2>1, <2>2 DEF HunterKept, ShotStep
  <2>4. QED  BY <2>3 DEF n
<1>4. CASE Died(g, h) # {}
  <2>1. PICK p \in h.dead \ g.dead : g.roles[p] = "hunter"
    BY <1>4 DEF Died
  <2>2. p \in H /\ H = {p}
    BY <1>2, <2>1 DEF Holders, OneHunter
  <2>3. H \intersect g.dead = {} /\ H \intersect h.dead # {}
    BY <2>1, <2>2
  <2>4. past.fell = "no"
    BY <2>3 DEF HunterKept
  <2>5. past.offered = 0
    BY <2>4 DEF HunterKept
  <2>6. n.fell # "no" /\ (n.fell \in {"attack", "vote"} <=> earned)
    BY <1>1, <1>4
  <2>7. n.offered = IF n.fell \in {"attack", "vote"} THEN 1 ELSE 0
    BY <1>1, <1>4, <2>5, <2>6 DEF ShotStep
  <2>8. HunterKept(h, n)
    BY <1>2, <2>3, <2>6, <2>7 DEF HunterKept, ShotStep
  <2>9. QED  BY <2>8 DEF n
<1>5. QED  BY <1>3, <1>4

---------------------------------------------- (* what the rules leave alone *)
\* The fields the history speaks of.
Carried(g, h) ==
  /\ h.roles = g.roles /\ h.nightNumber = g.nightNumber
  /\ h.guardProtected = g.guardProtected /\ h.guardLast = g.guardLast
  /\ h.wolfTarget = g.wolfTarget /\ h.poisonTarget = g.poisonTarget
  /\ h.usedAntidote = g.usedAntidote
  /\ h.antidoteSpent = g.antidoteSpent /\ h.poisonSpent = g.poisonSpent
  /\ (h.seerTarget => g.seerTarget) /\ (h.seerConfirmed => g.seerConfirmed)

LEMMA GoOnCarries ==
  ASSUME NEW g \in Game, NEW next
  PROVE  /\ Carried(g, GoOn(g, next)) /\ GoOn(g, next).dead = g.dead
         /\ GoOn(g, next).phase \in {next, "game_over"}
BY DEF GoOn, Game, Carried

LEMMA HuntCarries ==
  ASSUME NEW g \in Game, NEW when
  PROVE  /\ Carried(g, Hunt(g, when)) /\ Hunt(g, when).dead = g.dead
         /\ Hunt(g, when).phase = "day_hunter"
BY DEF Hunt, Game, Carried

LEMMA DawnCarries ==
  ASSUME NEW g \in Game
  PROVE  /\ Carried(g, Dawn(g)) /\ Dawn(g).dead = g.dead
         /\ Dawn(g).phase = IF g.phase = "night_complete" THEN "day_vote" ELSE g.phase
BY DEF Dawn, StartDayVote, Game, Carried

\* An undecided game has three living members, so one outlives any two deaths.
LEMMA SomebodySurvives ==
  ASSUME NEW g, Victory(g) = "none", NEW a, NEW b
  PROVE  Living(g) \ {a, b} # {}
<1> SUFFICES ASSUME Living(g) \subseteq {a, b} PROVE FALSE
  OBVIOUS
<1> DEFINE W == Alive(g, "werewolf")
<1>1. IsFiniteSet({a, b}) /\ Cardinality({a, b}) \in Nat /\ Cardinality({a, b}) <= 2
  <2>1. IsFiniteSet({a}) /\ Cardinality({a}) = 1
    BY FS_Singleton
  <2>2. {a, b} = {a} \union {b}
    OBVIOUS
  <2>3. IsFiniteSet({a} \union {b}) /\ Cardinality({a} \union {b}) \in {1, 2}
    BY <2>1, FS_AddElement
  <2>4. QED  BY <2>2, <2>3
<1>2. /\ IsFiniteSet(Living(g)) /\ Cardinality(Living(g)) \in Nat
      /\ Cardinality(Living(g)) <= 2
  BY <1>1, FS_Subset, FS_CardinalityType
<1>3. IsFiniteSet(W) /\ Cardinality(W) \in Nat
  BY <1>2, FS_Subset, FS_CardinalityType DEF Alive
<1>4. Cardinality(W) # 0 /\ ~(Cardinality(W) >= Cardinality(Living(g)) - Cardinality(W))
  BY DEF Victory
<1>5. QED  BY <1>2, <1>3, <1>4

\* The night's deaths, and the shot they earn.
LEMMA SettleNightShoots ==
  ASSUME NEW g, InNight(g), g.wolfTarget \notin g.dead
  PROVE  LET h == SettleNight(g) IN
           /\ Carried(g, h) /\ h.dead = g.dead \union NightDeaths(g)
           /\ h.phase \in {"day_hunter", "night_complete", "game_over"}
           /\ h.phase = "day_hunter" <=> Died(g, h) # {} /\ Died(g, h) # {g.poisonTarget}
<1> DEFINE deaths == NightDeaths(g)
           m == [g EXCEPT !.deaths = deaths, !.dead = @ \union deaths]
           h == SettleNight(g)
<1>0. g \in Game /\ OneHunter(g) /\ Victory(g) = "none"
  BY DEF InNight
<1>1. deaths \subseteq {g.wolfTarget, g.poisonTarget} /\ deaths \subseteq Players
  BY <1>0 DEF NightDeaths, Game, Target
<1>2. m \in Game
  BY <1>0, <1>1 DEF Game
<1>3. Carried(g, m) /\ m.dead = g.dead \union deaths
  BY <1>0 DEF Game, Carried
<1> HIDE DEF deaths, m
<1>4. Living(m) # {}
  <2>1. Living(g) \ {g.wolfTarget, g.poisonTarget} # {}
    BY <1>0, SomebodySurvives
  <2>2. QED  BY <1>1, <1>3, <2>1 DEF Living
<1>5. Shoots(m, deaths) = {p \in deaths \ {g.poisonTarget} : g.roles[p] = "hunter"}
  <2>1. \A p \in deaths : Living(m) \ {p} = Living(m)
    BY <1>3 DEF Living
  <2>2. m.poisonTarget = g.poisonTarget /\ m.roles = g.roles
    BY <1>3 DEF Carried
  <2>3. QED  BY <1>4, <2>1, <2>2 DEF Shoots
<1>6. h = IF Shoots(m, deaths) # {} THEN Hunt(m, "night") ELSE GoOn(m, "night_complete")
  BY DEF SettleNight, deaths, m
<1>7. /\ Carried(m, h) /\ h.dead = m.dead
      /\ IF Shoots(m, deaths) # {} THEN h.phase = "day_hunter"
         ELSE h.phase \in {"night_complete", "game_over"}
  BY <1>2, <1>6, GoOnCarries, HuntCarries
<1> HIDE DEF h
<1>8. Carried(g, h) /\ h.dead = g.dead \union deaths
  BY <1>3, <1>7 DEF Carried
<1>9. Shoots(m, deaths) # {} <=> Died(g, h) # {} /\ Died(g, h) # {g.poisonTarget}
  <2>1. ASSUME NEW p \in Shoots(m, deaths)
        PROVE  p \in Died(g, h) /\ p # g.poisonTarget
    <3>1. p \in deaths /\ p # g.poisonTarget /\ g.roles[p] = "hunter"
      BY <1>5
    <3>2. p = g.wolfTarget
      BY <1>1, <3>1
    <3>3. QED  BY <1>8, <3>1, <3>2 DEF Died
  <2>2. ASSUME NEW p \in Died(g, h), Died(g, h) # {g.poisonTarget}
        PROVE  p \in Shoots(m, deaths)
    <3>1. p \in deaths /\ g.roles[p] = "hunter"
      BY <1>8 DEF Died
    <3>2. \A q \in Died(g, h) : q = p
      <4>1. \A q \in Died(g, h) : q \in Holders(g.roles, "hunter")
        BY <1>1, <1>8 DEF Died, Holders
      <4>2. QED  BY <1>0, <4>1 DEF OneHunter
    <3>3. p # g.poisonTarget
      BY <2>2, <3>2
    <3>4. QED  BY <1>5, <3>1, <3>3
  <2>3. QED  BY <2>1, <2>2
<1>10. QED  BY <1>7, <1>8, <1>9 DEF h, deaths

---------------------------------------------------- (* the turns of a night *)
\* What is left of the night once the i-th role has had its turn: the next phase
\* with something to do, or the night's deaths and the shot they earn.
TurnOf(g, i, j, h) ==
  /\ h.phase = NightPhase[NightOrder[j]] /\ h.dead = g.dead
  /\ \A k \in i + 1 .. 4 : k < j => ~ShouldRun(g, NightOrder[k])
NightOver(g, i, h) ==
  /\ \A k \in i + 1 .. 4 : ~ShouldRun(g, NightOrder[k])
  /\ h.dead = g.dead \union NightDeaths(g)
  /\ h.phase \in {"day_hunter", "night_complete", "day_vote", "game_over"}
  /\ h.phase = "day_hunter" <=> Died(g, h) # {} /\ Died(g, h) # {g.poisonTarget}
NightGoesOn(g, i, h) ==
  /\ Carried(g, h)
  /\ (\E j \in i + 1 .. 4 : TurnOf(g, i, j, h)) \/ NightOver(g, i, h)

LEMMA NightFromGoesOn ==
  ASSUME NEW g, InNight(g), g.wolfTarget \notin g.dead, NEW i \in 0 .. 4
  PROVE  NightGoesOn(g, i, NightFrom(g, i))
<1> DEFINE left == {j \in i + 1 .. 4 : ShouldRun(g, NightOrder[j])}
           first == CHOOSE j \in left : \A k \in left : j <= k
           h == NightFrom(g, i)
<1>0. g \in Game
  BY DEF InNight
<1>1. CASE left = {}
  <2>1. h = SettleNight(g)
    BY <1>1 DEF NightFrom, NightOf
  <2>2. \A k \in i + 1 .. 4 : ~ShouldRun(g, NightOrder[k])
    BY <1>1
  <2> HIDE DEF h
  <2>3. /\ Carried(g, h) /\ h.dead = g.dead \union NightDeaths(g)
        /\ h.phase \in {"day_hunter", "night_complete", "game_over"}
        /\ h.phase = "day_hunter" <=> Died(g, h) # {} /\ Died(g, h) # {g.poisonTarget}
    BY <2>1, SettleNightShoots
  <2>4. NightOver(g, i, h)
    BY <2>2, <2>3 DEF NightOver
  <2>5. QED  BY <2>3, <2>4 DEF NightGoesOn, h
<1>2. CASE left # {}
  <2>1. \E j \in left : \A k \in left : j <= k
    <3>1. left \subseteq {1, 2, 3, 4}
      OBVIOUS
    <3>2. QED  BY <1>2, <3>1
  <2>2. first \in left /\ \A k \in left : first <= k
    BY <2>1
  <2>3. h = [g EXCEPT !.phase = NightPhase[NightOrder[first]]]
    BY <1>2 DEF NightFrom, NightOf
  <2>4. Carried(g, h) /\ h.phase = NightPhase[NightOrder[first]] /\ h.dead = g.dead
    BY <1>0, <2>3 DEF Carried, Game
  <2>5. \A k \in i + 1 .. 4 : k < first => ~ShouldRun(g, NightOrder[k])
    BY <2>2
  <2>6. TurnOf(g, i, first, h) /\ first \in i + 1 .. 4
    BY <2>2, <2>4, <2>5 DEF TurnOf
  <2> HIDE DEF h, first
  <2>7. NightGoesOn(g, i, h)
    BY <2>4, <2>6 DEF NightGoesOn
  <2>8. QED  BY <2>7 DEF h
<1>3. QED  BY <1>1, <1>2

LEMMA NightGoesOnAtDawn ==
  ASSUME NEW g, NEW i \in 0 .. 4, NEW h \in Game, NightGoesOn(g, i, h)
  PROVE  NightGoesOn(g, i, Dawn(h))
<1> DEFINE d == Dawn(h)
<1>1. /\ Carried(h, d) /\ d.dead = h.dead
      /\ d.phase = IF h.phase = "night_complete" THEN "day_vote" ELSE h.phase
  BY DawnCarries
<1> HIDE DEF d
<1>2. Carried(g, d)
  BY <1>1 DEF Carried, NightGoesOn
<1>3. Died(g, d) = Died(g, h)
  BY <1>1 DEF Died
<1>4. CASE \E j \in i + 1 .. 4 : TurnOf(g, i, j, h)
  <2>1. PICK j \in i + 1 .. 4 : TurnOf(g, i, j, h)
    BY <1>4
  <2>2. j \in 1 .. 4 /\ h.phase = NightPhase[NightOrder[j]]
    BY <2>1 DEF TurnOf
  <2>3. h.phase # "night_complete"
    BY <2>2, PhaseOfRole, PhasesDistinct
  <2>4. TurnOf(g, i, j, d)
    BY <1>1, <2>1, <2>3 DEF TurnOf
  <2>5. NightGoesOn(g, i, d)
    BY <1>2, <2>1, <2>4 DEF NightGoesOn
  <2>6. QED  BY <2>5 DEF d
<1>5. CASE NightOver(g, i, h)
  <2>1. NightOver(g, i, d)
    BY <1>1, <1>3, <1>5 DEF NightOver
  <2>2. NightGoesOn(g, i, d)
    BY <1>2, <2>1 DEF NightGoesOn
  <2>3. QED  BY <2>2 DEF d
<1>6. QED  BY <1>4, <1>5 DEF NightGoesOn

\* Of the roles awake at dusk, those that have had no phase had no use for one.
LEMMA TurnsGoOn ==
  ASSUME NEW g, NEW i \in 0 .. 4, NEW h, NightGoesOn(g, i, h), NEW A,
         \A j \in 1 .. i : NightOrder[j] \in Awake(g) \ A => UsedUp(g, NightOrder[j])
  PROVE  LET B == A \union {r \in NightRoles : NightPhase[r] = h.phase} IN
           /\ h.phase \in NightPhases => Awake(h) = Awake(g)
           /\ \A j \in 1 .. 4 :
                Reached(h, j) /\ NightOrder[j] \in Awake(g) \ B => UsedUp(h, NightOrder[j])
<1> DEFINE B == A \union {r \in NightRoles : NightPhase[r] = h.phase}
<1>1. \A r : UsedUp(h, r) <=> UsedUp(g, r)
  BY DEF NightGoesOn, Carried, UsedUp
<1>2. ASSUME NEW r \in Awake(g), ~ShouldRun(g, r) PROVE UsedUp(g, r)
  BY <1>2 DEF Awake, ShouldRun, UsedUp
<1>3. \A k \in i + 1 .. 4 : k \in 1 .. 4
  OBVIOUS
<1>4. CASE \E j \in i + 1 .. 4 : TurnOf(g, i, j, h)
  <2>0. PICK m \in i + 1 .. 4 : TurnOf(g, i, m, h)
    BY <1>4
  <2>1. /\ h.phase = NightPhase[NightOrder[m]] /\ h.dead = g.dead
        /\ \A k \in i + 1 .. 4 : k < m => ~ShouldRun(g, NightOrder[k])
    BY <2>0 DEF TurnOf
  <2>2. Awake(h) = Awake(g)
    BY <2>1 DEF Awake, Alive, Living, NightGoesOn, Carried
  <2>3. ASSUME NEW j \in 1 .. 4, Reached(h, j), NightOrder[j] \in Awake(g) \ B
        PROVE  UsedUp(h, NightOrder[j])
    <3>1. m \in 1 .. 4 /\ h.phase \in NightPhases
      BY <1>3, <2>1, PhaseOfRole
    <3>2. PICK k \in j .. 4 : h.phase = NightPhase[NightOrder[k]]
      BY <2>3, <3>1 DEF Reached
    <3>3. k \in 1 .. 4
      BY <3>2
    <3>4. k = m
      BY <2>1, <3>1, <3>2, <3>3, PhaseOfRole
    <3>5. j <= m /\ j # m
      BY <2>1, <2>3, <3>1, <3>2, <3>4, PhaseOfRole
    <3>6. CASE j \in 1 .. i
      BY <1>1, <2>3, <3>6
    <3>7. CASE j \notin 1 .. i
      <4>1. j \in i + 1 .. 4 /\ j < m
        BY <3>1, <3>5, <3>7
      <4>2. ~ShouldRun(g, NightOrder[j])
        BY <2>1, <4>1
      <4>3. QED  BY <1>1, <1>2, <2>3, <4>2
    <3>8. QED  BY <3>6, <3>7
  <2>4. QED  BY <2>2, <2>3
<1>5. CASE NightOver(g, i, h)
  <2>0. \A k \in i + 1 .. 4 : ~ShouldRun(g, NightOrder[k])
    BY <1>5 DEF NightOver
  <2>1. h.phase \notin NightPhases
    BY <1>5, PhasesDistinct DEF NightOver
  <2>2. ASSUME NEW j \in 1 .. 4, NightOrder[j] \in Awake(g) \ B
        PROVE  UsedUp(h, NightOrder[j])
    <3>1. j \in 1 .. i \/ j \in i + 1 .. 4
      OBVIOUS
    <3>2. QED  BY <1>1, <1>2, <2>0, <2>2, <3>1
  <2>3. QED  BY <2>1, <2>2
<1>6. QED  BY <1>4, <1>5 DEF NightGoesOn

\* The night goes on from g to h: the hunter is offered what is earned.
LEMMA NightShoots ==
  ASSUME NEW f, NEW g, NEW i \in 0 .. 4, NEW h, NightGoesOn(g, i, h),
         f.phase \in NightPhases \union {"night_start"}, g.roles = f.roles, g.dead = f.dead,
         g.wolfTarget \notin g.dead
  PROVE  ShotStep(f, h)
<1>1. f.phase \notin Ballots /\ f.phase # "day_hunter"
  BY PhasesDistinct DEF Ballots
<1>2. Died(f, h) = Died(g, h)
  BY DEF Died
<1>3. /\ h.roles = f.roles /\ h.wolfTarget = g.wolfTarget
      /\ h.poisonTarget = g.poisonTarget
  BY DEF NightGoesOn, Carried
<1>4. CASE \E j \in i + 1 .. 4 : TurnOf(g, i, j, h)
  <2>1. PICK j \in i + 1 .. 4 : TurnOf(g, i, j, h)
    BY <1>4
  <2>2. j \in 1 .. 4 /\ h.phase = NightPhase[NightOrder[j]] /\ h.dead = g.dead
    BY <2>1 DEF TurnOf
  <2>3. h.phase # "day_hunter"
    BY <2>2, PhaseOfRole, PhasesDistinct
  <2>4. Died(f, h) = {}
    BY <2>2 DEF Died
  <2>5. QED  BY <1>1, <1>3, <2>2, <2>3, <2>4 DEF ShotStep
<1>5. CASE NightOver(g, i, h)
  <2>1. h.phase \notin NightPhases /\ g.dead \subseteq h.dead
    BY <1>5, PhasesDistinct DEF NightOver
  <2>2. h.phase = "day_hunter" <=> Died(f, h) # {} /\ Died(f, h) # {h.poisonTarget}
    BY <1>2, <1>3, <1>5 DEF NightOver
  <2>3. QED  BY <1>1, <1>3, <2>1, <2>2 DEF ShotStep
<1>6. QED  BY <1>4, <1>5 DEF NightGoesOn

--------------------------------------------------- (* the steps of the game *)
LEMMA BecomeKept ==
  ASSUME HInv, NEW h \in Game, Become(h), SeerStep(game, h), PotionStep(game, h),
         GuardStep(game, h), ShotStep(game, h), TurnsKept(h, Noted(game, h))
  PROVE  HistoryKept(game, past)'
<1>1. game' = h /\ past' = Noted(game, h)
  BY DEF Become
<1>2. past \in Past /\ game \in Game /\ OneHunter(game) /\ HistoryKept(game, past)
  BY DEF HInv, IInv, Sound
<1>3. SeerKept(h, Noted(game, h))
  BY <1>2, SeerNoted DEF HistoryKept
<1>4. PotionsKept(h, Noted(game, h))
  BY <1>2, PotionsNoted DEF HistoryKept
<1>5. GuardKept(h, Noted(game, h))
  BY <1>2, GuardNoted DEF HistoryKept
<1>6. HunterKept(h, Noted(game, h))
  BY <1>2, HunterNoted DEF HistoryKept
<1>7. HistoryKept(h, Noted(game, h))
  BY <1>3, <1>4, <1>5, <1>6 DEF HistoryKept
<1>8. QED  BY <1>1, <1>7

LEMMA CarriedSteps ==
  ASSUME NEW g, NEW h, PotionsKept(g, past), Carried(g, h), g.phase # "night_start"
  PROVE  SeerStep(g, h) /\ PotionStep(g, h) /\ GuardStep(g, h)
BY DEF PotionsKept, Carried, SeerStep, PotionStep, GuardStep

\* A step of the day, or of the hours before the first night.
LEMMA QuietStep ==
  ASSUME HInv, NEW h \in Game, Become(h), Carried(game, h), ShotStep(game, h),
         game.phase \notin NightPhases, game.phase # "night_start",
         h.phase \notin NightPhases
  PROVE  HistoryKept(game, past)'
<1> DEFINE n == Noted(game, h)
<1>1. PotionsKept(game, past) /\ TurnsKept(game, past)
  BY DEF HInv, HistoryKept
<1>2. n.dusk = past.dusk /\ past.asked \subseteq n.asked
  BY NotedTurns
<1> HIDE DEF n
<1>3. \A r : UsedUp(game, r) => UsedUp(h, r)
  BY DEF UsedUp, Carried
<1>4. TurnsKept(h, n)
  BY <1>1, <1>2, <1>3 DEF TurnsKept, Reached
<1>5. QED  BY <1>1, <1>4, CarriedSteps, BecomeKept DEF n

\* A step in which nobody dies, by a game that is not settled or shot in.
LEMMA QuietShot ==
  ASSUME NEW g, NEW h, Carried(g, h), h.dead = g.dead, h.phase \notin NightPhases,
         h.phase # "day_hunter"
  PROVE  ShotStep(g, h)
BY DEF Carried, ShotStep, Died

\* The i-th role's turn makes g of the game, and the night goes on from there.
LEMMA RoleStep ==
  ASSUME HInv, NEW i \in 1 .. 4, NEW g, NEW h \in Game, Become(h),
         game.phase = NightPhase[NightOrder[i]], NightGoesOn(g, i, h),
         g.roles = game.roles, g.dead = game.dead, g.wolfTarget \notin g.dead,
         g.seerTarget \/ g.seerConfirmed => game.seerTarget \/ game.seerConfirmed,
         PotionStep(game, g), GuardStep(game, g),
         \A j \in 1 .. i : UsedUp(game, NightOrder[j]) => UsedUp(g, NightOrder[j])
  PROVE  HistoryKept(game, past)'
<1> DEFINE n == Noted(game, h)
<1>1. TurnsKept(game, past) /\ Carried(g, h)
  BY DEF HInv, HistoryKept, NightGoesOn
<1>2. game.phase \in NightPhases /\ game.phase # "night_start"
  BY PhaseOfRole, PhasesDistinct
<1>3. SeerStep(game, h)
  BY <1>1, <1>2 DEF SeerStep, Carried
<1>4. PotionStep(game, h) /\ GuardStep(game, h)
  BY <1>1 DEF PotionStep, GuardStep, Carried
<1>5. ShotStep(game, h)
  BY <1>2, NightShoots
<1>6. Awake(g) = Awake(game) /\ past.dusk = Awake(game)
  BY <1>1, <1>2 DEF Awake, Alive, Living, TurnsKept
<1>7. ASSUME NEW j \in 1 .. i, NightOrder[j] \in Awake(g) \ past.asked
      PROVE  UsedUp(g, NightOrder[j])
  <2>1. j \in 1 .. 4 /\ i \in j .. 4
    OBVIOUS
  <2>2. Reached(game, j)
    BY <2>1 DEF Reached
  <2>3. QED  BY <1>1, <1>6, <1>7, <2>1, <2>2 DEF TurnsKept
<1>8. /\ n.dusk = past.dusk
      /\ n.asked = past.asked \union {r \in NightRoles : NightPhase[r] = h.phase}
  BY <1>2, NotedTurns
<1> HIDE DEF n
<1>9. /\ h.phase \in NightPhases => Awake(h) = Awake(g)
      /\ \A j \in 1 .. 4 :
           Reached(h, j) /\ NightOrder[j] \in Awake(g) \ n.asked => UsedUp(h, NightOrder[j])
  BY <1>7, <1>8, TurnsGoOn
<1>10. TurnsKept(h, n)
  BY <1>1, <1>6, <1>8, <1>9 DEF TurnsKept
<1>11. QED  BY <1>3, <1>4, <1>5, <1>10, BecomeKept DEF n

\* Or the night goes on at dawn, where the host starts the day vote at once.
LEMMA RoleAnswer ==
  ASSUME HInv, NEW i \in 1 .. 4, NEW g, InNight(g), NEW h \in Game,
         Answer(h) \/ Become(Dawn(h)), IInv',
         game.phase = NightPhase[NightOrder[i]], NightGoesOn(g, i, h),
         g.roles = game.roles, g.dead = game.dead, g.wolfTarget \notin g.dead,
         g.seerTarget \/ g.seerConfirmed => game.seerTarget \/ game.seerConfirmed,
         PotionStep(game, g), GuardStep(game, g),
         \A j \in 1 .. i : UsedUp(game, NightOrder[j]) => UsedUp(g, NightOrder[j])
  PROVE  HistoryKept(game, past)'
<1>1. CASE Become(h)
  BY <1>1, RoleStep
<1>2. CASE Become(Dawn(h))
  <2>1. Dawn(h) \in Game
    BY <1>2 DEF Become, IInv, Sound
  <2>2. NightGoesOn(g, i, Dawn(h))
    BY NightGoesOnAtDawn
  <2>3. QED  BY <1>2, <2>1, <2>2, RoleStep
<1>3. QED  BY <1>1, <1>2 DEF Answer

\* What a game in the phase of a role has left for the role to do.
LEMMA AtNight ==
  ASSUME HInv, game.phase \in NightPhases
  PROVE  /\ InNight(game) /\ game \in Game /\ Sound(game)
         /\ game.wolfTarget \notin game.dead
         /\ PotionStep(game, game) /\ GuardStep(game, game) /\ PotionsKept(game, past)
BY NightPhaseInNight
   DEF HInv, IInv, Sound, HistoryKept, HunterKept, PotionsKept, PotionStep, GuardStep

LEMMA GuardKeeps ==
  ASSUME HInv, IInv', game.phase = "night_guard", NEW t \in Target,
         t # None => t # game.guardLast,
         Answer(GuardTurn(game, t)) \/ Become(Dawn(GuardTurn(game, t)))
  PROVE  HistoryKept(game, past)'
<1> DEFINE g == [game EXCEPT !.guardProtected = t]
           h == GuardTurn(game, t)
<1>1. game.phase \in NightPhases /\ game.phase = NightPhase[NightOrder[1]]
  BY PhasesDistinct, OrderOfNight
<1>2. /\ InNight(game) /\ game \in Game /\ game.wolfTarget \notin game.dead
      /\ PotionStep(game, game) /\ PotionsKept(game, past)
  BY <1>1, AtNight
<1>3. g \in Game
  BY <1>2 DEF Game
<1>4. /\ g.guardProtected = t /\ g.roles = game.roles /\ g.dead = game.dead
      /\ g.nightNumber = game.nightNumber /\ g.dayNumber = game.dayNumber
      /\ g.winner = game.winner /\ g.guardLast = game.guardLast
      /\ g.wolfTarget = game.wolfTarget /\ g.poisonTarget = game.poisonTarget
      /\ g.usedAntidote = game.usedAntidote /\ g.antidoteSpent = game.antidoteSpent
      /\ g.poisonSpent = game.poisonSpent
      /\ g.seerTarget = game.seerTarget /\ g.seerConfirmed = game.seerConfirmed
  BY <1>2 DEF Game
<1>5. h = NightFrom(g, 1) /\ h \in Game
  BY <1>2, RoleTurnsSound DEF GuardTurn, Sound
<1> HIDE DEF g, h
<1>6. InNight(g)
  BY <1>2, <1>3, <1>4, StillInNight
<1>7. NightGoesOn(g, 1, h)
  BY <1>2, <1>4, <1>5, <1>6, NightFromGoesOn
<1>8. PotionStep(game, g)
  BY <1>2, <1>4 DEF PotionStep
<1>9. GuardStep(game, g)
  BY <1>4 DEF GuardStep
<1>10. \A r : UsedUp(game, r) => UsedUp(g, r)
  BY <1>4 DEF UsedUp
<1>11. Answer(h) \/ Become(Dawn(h))
  BY DEF h
<1>12. QED
  BY <1>1, <1>2, <1>4, <1>5, <1>6, <1>7, <1>8, <1>9, <1>10, <1>11, RoleAnswer

LEMMA WolvesKeep ==
  ASSUME HInv, IInv', game.phase = "night_werewolf", NEW t \in Target,
         t # None => t \in Living(game),
         Answer(WolfTurn(game, t)) \/ Become(Dawn(WolfTurn(game, t)))
  PROVE  HistoryKept(game, past)'
<1> DEFINE g == [game EXCEPT !.wolfTarget = t]
           h == WolfTurn(game, t)
<1>1. game.phase \in NightPhases /\ game.phase = NightPhase[NightOrder[2]]
  BY PhasesDistinct, OrderOfNight
<1>2. /\ InNight(game) /\ game \in Game /\ PotionStep(game, game) /\ GuardStep(game, game)
  BY <1>1, AtNight
<1>3. g \in Game
  BY <1>2 DEF Game
<1>4. /\ g.wolfTarget = t /\ g.roles = game.roles /\ g.dead = game.dead
      /\ g.nightNumber = game.nightNumber /\ g.dayNumber = game.dayNumber
      /\ g.winner = game.winner /\ g.guardLast = game.guardLast
      /\ g.guardProtected = game.guardProtected /\ g.poisonTarget = game.poisonTarget
      /\ g.usedAntidote = game.usedAntidote /\ g.antidoteSpent = game.antidoteSpent
      /\ g.poisonSpent = game.poisonSpent
      /\ g.seerTarget = game.seerTarget /\ g.seerConfirmed = game.seerConfirmed
  BY <1>2 DEF Game
<1>5. h = NightFrom(g, 2) /\ h \in Game
  BY <1>2, RoleTurnsSound DEF WolfTurn, Sound
<1> HIDE DEF g, h
<1>6. InNight(g)
  BY <1>2, <1>3, <1>4, StillInNight
<1>7. g.wolfTarget \notin g.dead
  BY <1>2, <1>4, PlayersAssumption DEF Living, Game
<1>8. NightGoesOn(g, 2, h)
  BY <1>5, <1>6, <1>7, NightFromGoesOn
<1>9. PotionStep(game, g) /\ GuardStep(game, g)
  BY <1>2, <1>4 DEF PotionStep, GuardStep
<1>10. \A j \in 1 .. 2 : UsedUp(game, NightOrder[j]) => UsedUp(g, NightOrder[j])
  <2>1. \A j \in 1 .. 2 : j = 1 \/ j = 2
    OBVIOUS
  <2>2. \A j \in 1 .. 2 : NightOrder[j] # "witch"
    BY <2>1, OrderOfNight
  <2>3. QED  BY <2>2 DEF UsedUp
<1>11. Answer(h) \/ Become(Dawn(h))
  BY DEF h
<1>12. QED
  BY <1>1, <1>4, <1>5, <1>6, <1>7, <1>8, <1>9, <1>10, <1>11, RoleAnswer

LEMMA WitchKeeps ==
  ASSUME HInv, IInv', game.phase = "night_witch", NEW t \in Target, NEW antidote \in BOOLEAN,
         antidote => t = None /\ ~game.antidoteSpent,
         t # None => ~game.poisonSpent,
         \/ Answer(WitchTurn(game, antidote, t))
         \/ Become(Dawn(WitchTurn(game, antidote, t)))
  PROVE  HistoryKept(game, past)'
<1> DEFINE spent == game.antidoteSpent \/ antidote
           poisoned == game.poisonSpent \/ t # None
           g == [game EXCEPT !.usedAntidote = antidote, !.antidoteSpent = spent,
                             !.poisonTarget = t, !.poisonSpent = poisoned]
           h == WitchTurn(game, antidote, t)
<1>1. game.phase \in NightPhases /\ game.phase = NightPhase[NightOrder[3]]
  BY PhasesDistinct, OrderOfNight
<1>2. /\ InNight(game) /\ game \in Game /\ game.wolfTarget \notin game.dead
      /\ PotionsKept(game, past) /\ GuardStep(game, game)
  BY <1>1, AtNight
<1>3. h = NightFrom(g, 3) /\ h \in Game
  <2>1. h = NightFrom(g, 3)
    BY <1>2 DEF WitchTurn, Game
  <2>2. Sound(h)
    BY <1>2, RoleTurnsSound
  <2>3. QED  BY <2>1, <2>2 DEF Sound
<1>4. spent \in BOOLEAN /\ poisoned \in BOOLEAN
  OBVIOUS
<1>5. /\ spent <=> game.antidoteSpent \/ antidote
      /\ poisoned <=> game.poisonSpent \/ t # None
  OBVIOUS
<1> HIDE DEF spent, poisoned, h
<1>6. g \in Game
  BY <1>2, <1>4 DEF Game
<1>7. /\ g.wolfTarget = game.wolfTarget /\ g.roles = game.roles /\ g.dead = game.dead
      /\ g.nightNumber = game.nightNumber /\ g.dayNumber = game.dayNumber
      /\ g.winner = game.winner /\ g.guardLast = game.guardLast
      /\ g.guardProtected = game.guardProtected /\ g.poisonTarget = t
      /\ g.usedAntidote = antidote /\ g.antidoteSpent = spent
      /\ g.poisonSpent = poisoned
      /\ g.seerTarget = game.seerTarget /\ g.seerConfirmed = game.seerConfirmed
  BY <1>2 DEF Game
<1> HIDE DEF g
<1>8. InNight(g)
  BY <1>2, <1>6, <1>7, StillInNight
<1>9. NightGoesOn(g, 3, h)
  BY <1>2, <1>3, <1>7, <1>8, NightFromGoesOn
<1>10. PotionStep(game, g)
  BY <1>2, <1>5, <1>7 DEF PotionStep, PotionsKept
<1>11. GuardStep(game, g)
  BY <1>7 DEF GuardStep
<1>12. \A r : UsedUp(game, r) => UsedUp(g, r)
  BY <1>5, <1>7 DEF UsedUp
<1>13. Answer(h) \/ Become(Dawn(h))
  BY DEF h
<1>14. QED
  BY <1>1, <1>2, <1>3, <1>7, <1>8, <1>9, <1>10, <1>11, <1>12, <1>13, RoleAnswer

\* The seer's turn is the last: with it the night is settled.
LEMMA LastTurn ==
  ASSUME NEW g
  PROVE  NightFrom(g, 4) = SettleNight(g)
<1>1. 4 + 1 .. 4 = {}
  OBVIOUS
<1>2. {j \in 4 + 1 .. 4 : ShouldRun(g, NightOrder[j])} = {}
  BY <1>1
<1>3. QED  BY <1>2 DEF NightFrom, NightOf

LEMMA SeerConfirmKeeps ==
  ASSUME HInv, IInv', game.phase = "night_seer", game.seerTarget,
         Answer(SeerTurn(game)) \/ Become(Dawn(SeerTurn(game)))
  PROVE  HistoryKept(game, past)'
<1> DEFINE g == [game EXCEPT !.seerConfirmed = TRUE]
           h == SeerTurn(game)
<1>1. game.phase \in NightPhases /\ game.phase = NightPhase[NightOrder[4]]
  BY PhasesDistinct, OrderOfNight
<1>2. /\ InNight(game) /\ game \in Game /\ game.wolfTarget \notin game.dead
      /\ PotionStep(game, game) /\ GuardStep(game, game)
  BY <1>1, AtNight
<1>3. g \in Game
  BY <1>2 DEF Game
<1>4. /\ g.wolfTarget = game.wolfTarget /\ g.roles = game.roles /\ g.dead = game.dead
      /\ g.nightNumber = game.nightNumber /\ g.dayNumber = game.dayNumber
      /\ g.winner = game.winner /\ g.guardLast = game.guardLast
      /\ g.guardProtected = game.guardProtected /\ g.poisonTarget = game.poisonTarget
      /\ g.usedAntidote = game.usedAntidote /\ g.antidoteSpent = game.antidoteSpent
      /\ g.poisonSpent = game.poisonSpent
  BY <1>2 DEF Game
<1>5. h = NightFrom(g, 4) /\ h \in Game
  <2>1. h = NightFrom(g, 4)
    BY LastTurn DEF SeerTurn
  <2>2. Sound(h)
    BY <1>2, RoleTurnsSound DEF Target
  <2>3. QED  BY <2>1, <2>2 DEF Sound
<1> HIDE DEF g, h
<1>6. InNight(g)
  BY <1>2, <1>3, <1>4, StillInNight
<1>7. NightGoesOn(g, 4, h)
  BY <1>2, <1>4, <1>5, <1>6, NightFromGoesOn
<1>8. PotionStep(game, g) /\ GuardStep(game, g)
  BY <1>2, <1>4 DEF PotionStep, GuardStep
<1>9. \A r : UsedUp(game, r) => UsedUp(g, r)
  BY <1>4 DEF UsedUp
<1>10. Answer(h) \/ Become(Dawn(h))
  BY DEF h
<1>11. QED
  BY <1>1, <1>2, <1>4, <1>5, <1>6, <1>7, <1>8, <1>9, <1>10, RoleAnswer

\* A check that timed out leaves the seer's record as it was.
LEMMA SeerTimeoutKeeps ==
  ASSUME HInv, IInv', game.phase = "night_seer", Become(Dawn([SeerTurn(game) EXCEPT !.seerConfirmed = FALSE]))
  PROVE  HistoryKept(game, past)'
<1> DEFINE g == [game EXCEPT !.seerConfirmed = TRUE]
           m == SeerTurn(game)
           h == [m EXCEPT !.seerConfirmed = FALSE]
<1>1. game.phase \in NightPhases /\ game.phase = NightPhase[NightOrder[4]]
  BY PhasesDistinct, OrderOfNight
<1>2. /\ InNight(game) /\ game \in Game /\ game.wolfTarget \notin game.dead
      /\ PotionStep(game, game) /\ GuardStep(game, game)
  BY <1>1, AtNight
<1>3. g \in Game
  BY <1>2 DEF Game
<1>4. /\ g.wolfTarget = game.wolfTarget /\ g.roles = game.roles /\ g.dead = game.dead
      /\ g.nightNumber = game.nightNumber /\ g.dayNumber = game.dayNumber
      /\ g.winner = game.winner /\ g.guardLast = game.guardLast
      /\ g.guardProtected = game.guardProtected /\ g.poisonTarget = game.poisonTarget
      /\ g.usedAntidote = game.usedAntidote /\ g.antidoteSpent = game.antidoteSpent
      /\ g.poisonSpent = game.poisonSpent /\ g.seerTarget = game.seerTarget
  BY <1>2 DEF Game
<1>5. m = SettleNight(g) /\ m \in Game
  <2>1. Sound(m)
    BY <1>2, RoleTurnsSound DEF Target
  <2>2. QED  BY <2>1 DEF Sound, SeerTurn
<1> HIDE DEF g, m
<1>6. InNight(g)
  BY <1>2, <1>3, <1>4, StillInNight
<1>7. /\ Carried(g, m) /\ m.dead = g.dead \union NightDeaths(g)
      /\ m.phase \in {"day_hunter", "night_complete", "game_over"}
      /\ m.phase = "day_hunter" <=> Died(g, m) # {} /\ Died(g, m) # {g.poisonTarget}
  BY <1>2, <1>4, <1>5, <1>6, SettleNightShoots
<1>8. h \in Game
  BY <1>5 DEF Game
<1>9. /\ h.wolfTarget = m.wolfTarget /\ h.roles = m.roles /\ h.dead = m.dead
      /\ h.nightNumber = m.nightNumber /\ h.phase = m.phase /\ h.guardLast = m.guardLast
      /\ h.guardProtected = m.guardProtected /\ h.poisonTarget = m.poisonTarget
      /\ h.usedAntidote = m.usedAntidote /\ h.antidoteSpent = m.antidoteSpent
      /\ h.poisonSpent = m.poisonSpent /\ h.seerTarget = m.seerTarget
      /\ h.seerConfirmed = FALSE
  BY <1>5 DEF Game
<1> HIDE DEF h
<1>10. Carried(game, h)
  BY <1>4, <1>7, <1>9 DEF Carried
<1>11. Died(game, h) = Died(g, m) /\ NightDeaths(game) = NightDeaths(g)
  BY <1>4, <1>9 DEF Died, NightDeaths
<1>12. NightOver(game, 4, h)
  <2>1. \A k \in 4 + 1 .. 4 : ~ShouldRun(game, NightOrder[k])
    OBVIOUS
  <2>2. QED  BY <1>4, <1>7, <1>9, <1>11, <2>1 DEF NightOver
<1>13. NightGoesOn(game, 4, h)
  BY <1>10, <1>12 DEF NightGoesOn
<1>14. Become(Dawn(h))
  BY DEF h, m
<1>15. QED
  BY <1>1, <1>2, <1>8, <1>13, <1>14, RoleAnswer

LEMMA DuskKeeps ==
  ASSUME HInv, IInv', StartNight
  PROVE  HistoryKept(game, past)'
<1> DEFINE f == Forget(game)
           g == [f EXCEPT !.guardLast = game.guardProtected, !.nightNumber = Tonight(game)]
           h == NightFrom(g, 0)
<1>1. /\ Sound(game) /\ game \in Game /\ Calendar(game) /\ game.phase = "night_start"
      /\ game.dayNumber < MaxDays
  BY DEF HInv, IInv, Sound, StartNight
<1>2. PotionsKept(game, past)
  BY DEF HInv, HistoryKept
<1>3. InNight(g)
  BY <1>1, DuskInNight DEF Dusk
<1>4. f \in Game
  BY <1>1 DEF Forget, Game, NoVotes, Target
<1>5. /\ f.guardProtected = None /\ f.wolfTarget = None /\ f.poisonTarget = None
      /\ f.usedAntidote = FALSE /\ f.seerTarget = FALSE /\ f.seerConfirmed = FALSE
      /\ f.roles = game.roles /\ f.dead = game.dead
      /\ f.antidoteSpent = game.antidoteSpent /\ f.poisonSpent = game.poisonSpent
  BY <1>1 DEF Forget, Game
<1> HIDE DEF f
<1>6. /\ g.guardProtected = None /\ g.wolfTarget = None /\ g.poisonTarget = None
      /\ g.usedAntidote = FALSE /\ g.seerTarget = FALSE /\ g.seerConfirmed = FALSE
      /\ g.roles = game.roles /\ g.dead = game.dead
      /\ g.antidoteSpent = game.antidoteSpent /\ g.poisonSpent = game.poisonSpent
      /\ g.guardLast = game.guardProtected /\ g.nightNumber = Tonight(game)
  BY <1>4, <1>5 DEF Game
<1>7. Answer(h)
  BY DEF StartNight, Dusk, f
<1> HIDE DEF g
<1>8. g.wolfTarget \notin g.dead
  BY <1>1, <1>6, PlayersAssumption DEF Game
<1>9. h \in Game /\ NightGoesOn(g, 0, h)
  BY <1>3, <1>8, NightFromSound, NightFromGoesOn DEF Sound
<1> HIDE DEF h
<1>10. PICK k : NightGoesOn(g, 0, k) /\ Become(k)
  BY <1>7, <1>9, NightGoesOnAtDawn DEF Answer
<1>11. k \in Game
  BY <1>10 DEF Become, IInv, Sound
<1>12. Carried(g, k)
  BY <1>10 DEF NightGoesOn
<1>13. SeerStep(game, k)
  BY <1>6, <1>12 DEF SeerStep, Carried
<1>14. PotionStep(game, k)
  BY <1>2, <1>6, <1>12 DEF PotionStep, PotionsKept, Carried
<1>15. GuardStep(game, k)
  <2>1. \/ Tonight(game) = game.nightNumber + 1
        \/ Tonight(game) = 1 /\ game.nightNumber = 1
    BY <1>1, Numbered DEF Tonight, Calendar
  <2>2. QED  BY <1>6, <1>12, <2>1 DEF GuardStep, Carried
<1>16. ShotStep(game, k)
  BY <1>1, <1>6, <1>8, <1>10, NightShoots
<1> DEFINE n == Noted(game, k)
<1>17. Awake(g) = Awake(game)
  BY <1>6 DEF Awake, Alive, Living
<1>18. n.dusk = Awake(g) /\ n.asked = {} \union {r \in NightRoles : NightPhase[r] = k.phase}
  BY <1>1, <1>17 DEF Noted, Awake
<1> HIDE DEF n
<1>19. /\ k.phase \in NightPhases => Awake(k) = Awake(g)
       /\ \A j \in 1 .. 4 :
            Reached(k, j) /\ NightOrder[j] \in Awake(g) \ n.asked => UsedUp(k, NightOrder[j])
  BY <1>10, <1>18, TurnsGoOn
<1>20. TurnsKept(k, n)
  BY <1>18, <1>19 DEF TurnsKept, Awake
<1>21. QED  BY <1>10, <1>11, <1>13, <1>14, <1>15, <1>16, <1>20, BecomeKept DEF n

\* A vote that is closed kills one of the living at most, and the hunter shoots.
LEMMA EliminateShoots ==
  ASSUME NEW g, Sound(g), g.phase \in Ballots, NEW q \in Living(g)
  PROVE  LET h == Eliminate(g, q) IN
           /\ Carried(g, h) /\ h.phase \in {"day_hunter", "day_result", "game_over"}
           /\ ShotStep(g, h)
<1> DEFINE m == [g EXCEPT !.dead = @ \union {q}, !.eliminated = q, !.noKill = FALSE]
           h == Eliminate(g, q)
<1>0. g \in Game /\ Victory(g) = "none" /\ q \in Players /\ q \notin g.dead
  BY DEF Sound, Decided, Living, Ballots
<1>1. m \in Game
  BY <1>0 DEF Game, Target
<1>2. Carried(g, m) /\ m.dead = g.dead \union {q}
  BY <1>0 DEF Game, Carried
<1> HIDE DEF m
<1>3. Living(m) \ {q} # {}
  <2>1. Living(g) \ {q, q} # {}
    BY <1>0, SomebodySurvives
  <2>2. QED  BY <1>2, <2>1 DEF Living
<1>4. h = IF g.roles[q] = "hunter" THEN Hunt(m, "day") ELSE GoOn(m, "day_result")
  BY <1>3 DEF Eliminate, m
<1>5. /\ Carried(m, h) /\ h.dead = m.dead
      /\ IF g.roles[q] = "hunter" THEN h.phase = "day_hunter"
         ELSE h.phase \in {"day_result", "game_over"}
  BY <1>1, <1>4, GoOnCarries, HuntCarries
<1> HIDE DEF h
<1>6. Carried(g, h) /\ h.dead = g.dead \union {q}
  BY <1>2, <1>5 DEF Carried
<1>7. Died(g, h) # {} <=> g.roles[q] = "hunter"
  BY <1>0, <1>6 DEF Died
<1>8. h.phase \notin NightPhases /\ g.phase # "day_hunter"
  BY <1>5, PhasesDistinct DEF Ballots
<1>9. h.phase = "day_hunter" /\ g.phase # "day_hunter" <=>
        Died(g, h) # {} /\ (g.phase \in Ballots \/ Died(g, h) # {h.poisonTarget})
  BY <1>5, <1>7, <1>8
<1>10. ShotStep(g, h)
  BY <1>6, <1>8, <1>9 DEF ShotStep, Carried
<1>11. QED  BY <1>5, <1>6, <1>10 DEF h

LEMMA CloseVoteShoots ==
  ASSUME NEW g, Sound(g), g.phase \in Ballots
  PROVE  LET h == CloseVote(g) IN
           Carried(g, h) /\ h.phase \notin NightPhases /\ ShotStep(g, h)
<1>0. g \in Game
  BY DEF Sound
<1>1. /\ Carried(g, NoKill(g)) /\ NoKill(g).dead = g.dead /\ NoKill(g).phase = "day_result"
      /\ Carried(g, Tie(g)) /\ Tie(g).dead = g.dead /\ Tie(g).phase = "day_pk"
  BY <1>0 DEF NoKill, Tie, Game, Carried
<1>2. ASSUME NEW h \in {NoKill(g), Tie(g)}
      PROVE  Carried(g, h) /\ h.phase \notin NightPhases /\ ShotStep(g, h)
  BY <1>1, <1>2, QuietShot, PhasesDistinct
<1>3. CASE \E q \in Players : Leaders(g) = {q}
  <2> DEFINE top == CHOOSE q \in Players : Leaders(g) = {q}
  <2>1. Leaders(g) = {top}
    BY <1>3
  <2>2. top \in Living(g)
    BY <2>1, LeadersLive
  <2>3. CloseVote(g) = Eliminate(g, top)
    BY <1>3, <2>1 DEF CloseVote
  <2> HIDE DEF top
  <2>4. QED  BY <2>2, <2>3, EliminateShoots, PhasesDistinct
<1>4. CASE ~ \E q \in Players : Leaders(g) = {q}
  <2>1. CloseVote(g) \in {NoKill(g), Tie(g)}
    BY <1>4 DEF CloseVote
  <2>2. QED  BY <1>2, <2>1
<1>5. QED  BY <1>3, <1>4

LEMMA BallotKeeps ==
  ASSUME HInv, IInv', game.phase \in Ballots,
         CloseDayVote \/ \E v \in Players, q \in Players : SubmitVote(v, q)
  PROVE  HistoryKept(game, past)'
<1>0. Sound(game) /\ game \in Game /\ IInv
  BY DEF HInv, IInv, Sound
<1>1. game.phase \notin NightPhases /\ game.phase # "night_start"
  BY PhasesDistinct DEF Ballots
<1>2. CASE CloseDayVote
  <2>1. Become(CloseVote(game)) /\ CloseVote(game) \in Game
    BY <1>0, <1>2, CloseVoteSound DEF CloseDayVote, Sound
  <2>2. QED  BY <1>0, <1>1, <2>1, CloseVoteShoots, QuietStep
<1>3. ASSUME NEW v \in Players, NEW q \in Players, SubmitVote(v, q)
      PROVE  HistoryKept(game, past)'
  <2> DEFINE g == [game EXCEPT !.votes[v] = q]
  <2>1. Sound(g) /\ g.phase \in Ballots /\ (Become(CloseVote(g)) \/ Become(g))
    BY <1>0, <1>3, CastSound
  <2>2. Carried(game, g) /\ g.dead = game.dead /\ g.phase = game.phase
    BY <1>0 DEF Carried, Game
  <2> HIDE DEF g
  <2>3. CASE Become(g)
    <3>1. g.phase \notin NightPhases /\ g.phase # "day_hunter"
      BY <2>1, PhasesDistinct DEF Ballots
    <3>2. ShotStep(game, g)
      BY <2>2, <3>1, QuietShot
    <3>3. QED  BY <1>1, <2>1, <2>2, <2>3, <3>1, <3>2, QuietStep DEF Sound
  <2>4. CASE Become(CloseVote(g))
    <3> DEFINE h == CloseVote(g)
    <3>1. h \in Game /\ Carried(g, h) /\ h.phase \notin NightPhases /\ ShotStep(g, h)
      BY <2>1, CloseVoteShoots, CloseVoteSound DEF Sound
    <3> HIDE DEF h
    <3>2. Carried(game, h)
      BY <2>2, <3>1 DEF Carried
    <3>3. Died(game, h) = Died(g, h)
      BY <2>2 DEF Died, Carried
    <3>4. ShotStep(game, h)
      BY <2>2, <3>1, <3>3 DEF ShotStep, Carried
    <3>5. Become(h)
      BY <2>4 DEF h
    <3>6. QED  BY <1>1, <3>1, <3>2, <3>4, <3>5, QuietStep
  <2>5. QED  BY <2>1, <2>3, <2>4
<1>4. QED  BY <1>2, <1>3

\* The hunter who shoots is dead, and there is no other.
LEMMA HunterKeeps ==
  ASSUME HInv, IInv', game.phase = "day_hunter", NEW t \in Target,
         t # None => t \in Living(game),
         Answer(HunterTurn(game, t)) \/ Become(Dawn(HunterTurn(game, t)))
  PROVE  HistoryKept(game, past)'
<1> DEFINE m == Shot(game, t)
           h == HunterTurn(game, t)
<1>0. Sound(game) /\ game \in Game /\ OneHunter(game) /\ ActorAsked(game)
  BY DEF HInv, IInv, Sound
<1>1. m \in Game /\ Carried(game, m) /\ m.dead = game.dead \union ({t} \ {None})
  <2>1. m \in Game
    BY <1>0 DEF Shot, Game, Target
  <2>2. Carried(game, m)
    BY <1>0 DEF Shot, Game, Carried
  <2>3. m.dead = game.dead \union ({t} \ {None})
    BY <1>0 DEF Shot, Game
  <2>4. QED  BY <2>1, <2>2, <2>3
<1>2. h \in Game
  BY <1>0, HunterTurnSound DEF Sound
<1>3. AfterShot(game) \in {"night_complete", "day_result"}
  BY DEF AfterShot
<1> HIDE DEF m
<1>4. /\ Carried(m, h) /\ h.dead = m.dead
      /\ h.phase \in {"night_complete", "day_result", "game_over"}
  BY <1>1, <1>3, GoOnCarries DEF HunterTurn, m
<1>5. PICK p \in Holders(game.roles, "hunter") : p \in game.dead
  BY <1>0 DEF ActorAsked, Asked
<1> HIDE DEF h
<1>6. ASSUME NEW k \in Game, Become(k), Carried(h, k), k.dead = h.dead,
             k.phase \in {"night_complete", "day_vote", "day_result", "game_over"}
      PROVE  HistoryKept(game, past)'
  <2>1. Carried(game, k) /\ k.dead = game.dead \union ({t} \ {None})
    BY <1>1, <1>4, <1>6 DEF Carried
  <2>2. Died(game, k) = {}
    <3> SUFFICES ASSUME NEW q \in k.dead \ game.dead, game.roles[q] = "hunter" PROVE FALSE
      BY DEF Died
    <3>1. q = t /\ q \in Players
      BY <2>1, <1>6 DEF Game
    <3>2. q = p
      BY <1>0, <1>5, <3>1 DEF OneHunter, Holders
    <3>3. QED  BY <1>5, <3>2
  <2>3. k.phase \notin NightPhases /\ k.phase # "day_hunter"
    BY <1>6, PhasesDistinct
  <2>4. ShotStep(game, k)
    BY <2>1, <2>2, <2>3 DEF ShotStep, Carried
  <2>5. game.phase \notin NightPhases /\ game.phase # "night_start"
    BY PhasesDistinct
  <2>6. QED  BY <1>6, <2>1, <2>3, <2>4, <2>5, QuietStep
<1>7. Become(h) \/ Become(Dawn(h))
  BY DEF Answer, h
<1>8. CASE Become(h)
  BY <1>2, <1>4, <1>6, <1>8 DEF Carried
<1>9. CASE Become(Dawn(h))
  <2>1. Dawn(h) \in Game
    BY <1>9 DEF Become, IInv, Sound
  <2>2. /\ Carried(h, Dawn(h)) /\ Dawn(h).dead = h.dead
        /\ Dawn(h).phase = IF h.phase = "night_complete" THEN "day_vote" ELSE h.phase
    BY <1>2, DawnCarries
  <2>3. QED  BY <1>4, <1>6, <1>9, <2>1, <2>2
<1>10. QED  BY <1>7, <1>8, <1>9

\* A role confirmed, a night called for, and the seer's choice.
LEMMA OthersKeep ==
  ASSUME HInv, IInv', NEW p \in Players,
         ConfirmRole(p) \/ BeginNightStart \/ SubmitSeerTarget(p)
  PROVE  HistoryKept(game, past)'
<1>0. game \in Game /\ PotionsKept(game, past) /\ TurnsKept(game, past)
  BY DEF HInv, IInv, Sound, HistoryKept
<1>1. CASE ConfirmRole(p)
  <2> DEFINE all == game.confirmed \union {p}
             next == IF all = Players THEN "night_start" ELSE game.phase
             h == [game EXCEPT !.confirmed = all, !.phase = next]
  <2>1. game.phase = "role_reveal" /\ Become(h)
    BY <1>0, <1>1 DEF ConfirmRole, Game
  <2>2. next \in {"role_reveal", "night_start"}
    BY <2>1
  <2> HIDE DEF next, all
  <2>3. Carried(game, h) /\ h.dead = game.dead /\ h.phase = next
    BY <1>0 DEF Carried, Game
  <2> HIDE DEF h
  <2>4. h \in Game
    BY <2>1 DEF Become, IInv, Sound
  <2>5. /\ game.phase \notin NightPhases /\ game.phase # "night_start"
        /\ h.phase \notin NightPhases /\ h.phase # "day_hunter"
    BY <2>1, <2>2, <2>3, PhasesDistinct
  <2>6. QED  BY <2>1, <2>3, <2>4, <2>5, QuietShot, QuietStep
<1>2. CASE BeginNightStart
  <2> DEFINE h == [game EXCEPT !.phase = "night_start"]
  <2>1. game.phase = "day_result" /\ Become(h)
    BY <1>2 DEF BeginNightStart
  <2>2. Carried(game, h) /\ h.dead = game.dead /\ h.phase = "night_start"
    BY <1>0 DEF Carried, Game
  <2> HIDE DEF h
  <2>3. h \in Game
    BY <2>1 DEF Become, IInv, Sound
  <2>4. /\ game.phase \notin NightPhases /\ game.phase # "night_start"
        /\ h.phase \notin NightPhases /\ h.phase # "day_hunter"
    BY <2>1, <2>2, PhasesDistinct
  <2>5. QED  BY <2>1, <2>2, <2>3, <2>4, QuietShot, QuietStep
<1>3. CASE SubmitSeerTarget(p)
  <2> DEFINE h == [game EXCEPT !.seerTarget = TRUE]
             n == Noted(game, h)
  <2>1. game.phase = "night_seer" /\ Become(h)
    BY <1>3 DEF SubmitSeerTarget
  <2>2. /\ h.roles = game.roles /\ h.dead = game.dead /\ h.phase = game.phase
        /\ h.nightNumber = game.nightNumber /\ h.guardLast = game.guardLast
        /\ h.guardProtected = game.guardProtected /\ h.wolfTarget = game.wolfTarget
        /\ h.poisonTarget = game.poisonTarget /\ h.usedAntidote = game.usedAntidote
        /\ h.antidoteSpent = game.antidoteSpent /\ h.poisonSpent = game.poisonSpent
        /\ h.seerTarget
    BY <1>0 DEF Game
  <2> HIDE DEF h
  <2>3. h \in Game
    BY <2>1 DEF Become, IInv, Sound
  <2>4. game.phase \in NightPhases /\ game.phase # "night_start" /\ game.phase # "day_hunter"
    BY <2>1, PhasesDistinct
  <2>5. SeerStep(game, h) /\ GuardStep(game, h)
    BY <2>1, <2>2 DEF SeerStep, GuardStep
  <2>6. PotionStep(game, h)
    BY <1>0, <2>2 DEF PotionStep, PotionsKept
  <2>7. ShotStep(game, h)
    <3>1. Died(game, h) = {} /\ h.wolfTarget \notin h.dead
      BY <2>2, <2>4, AtNight DEF Died
    <3>2. QED  BY <2>2, <2>4, <3>1 DEF ShotStep
  <2>8. n.dusk = past.dusk /\ past.asked \subseteq n.asked
    BY <2>4, NotedTurns
  <2> HIDE DEF n
  <2>9. Awake(h) = Awake(game) /\ \A r : UsedUp(h, r) <=> UsedUp(game, r)
    BY <2>2 DEF Awake, Alive, Living, UsedUp
  <2>10. TurnsKept(h, n)
    BY <1>0, <2>2, <2>8, <2>9 DEF TurnsKept, Reached
  <2>11. QED  BY <2>1, <2>3, <2>5, <2>6, <2>7, <2>10, BecomeKept DEF n
<1>4. QED  BY <1>1, <1>2, <1>3

LEMMA TimeoutKeeps ==
  ASSUME HInv, IInv', Timeout
  PROVE  HistoryKept(game, past)'
<1>1. None \in Target /\ FALSE \in BOOLEAN
  BY DEF Target
<1>2. TimeoutGuard => HistoryKept(game, past)'
  BY <1>1, GuardKeeps DEF TimeoutGuard
<1>3. TimeoutWolf => HistoryKept(game, past)'
  BY <1>1, WolvesKeep DEF TimeoutWolf
<1>4. TimeoutWitch => HistoryKept(game, past)'
  BY <1>1, WitchKeeps DEF TimeoutWitch
<1>5. TimeoutSeer => HistoryKept(game, past)'
  BY SeerTimeoutKeeps DEF TimeoutSeer
<1>6. TimeoutSeerResult => HistoryKept(game, past)'
  BY SeerConfirmKeeps DEF TimeoutSeerResult
<1>7. TimeoutHunter => HistoryKept(game, past)'
  BY <1>1, HunterKeeps DEF TimeoutHunter
<1>8. QED  BY <1>2, <1>3, <1>4, <1>5, <1>6, <1>7 DEF Timeout

LEMMA HistoryBegins == Init => HistoryKept(game, past)
<1> SUFFICES ASSUME Init PROVE HistoryKept(game, past)
  OBVIOUS
<1>1. PICK deal \in Deals : game = Dealt(deal)
  BY DEF Init
<1>2. /\ game.phase = "role_reveal" /\ game.dead = {} /\ game.nightNumber = 1
      /\ game.guardProtected = None /\ game.usedAntidote = FALSE
      /\ game.antidoteSpent = FALSE /\ game.poisonSpent = FALSE
      /\ game.poisonTarget = None /\ game.seerTarget = FALSE /\ game.seerConfirmed = FALSE
  BY <1>1 DEF Dealt
<1>3. /\ past.protected = [n \in 1 .. MaxDays |-> None] /\ past.antidotes = 0
      /\ past.poisons = 0 /\ past.fell = "no" /\ past.offered = 0 /\ past.dusk = {}
  BY DEF Init
<1>4. game.phase \notin NightPhases /\ MaxDays \in Nat \ {0}
  BY <1>2, PhasesDistinct, BoundAssumption
<1>5. SeerKept(game, past) /\ PotionsKept(game, past)
  BY <1>2, <1>3 DEF SeerKept, PotionsKept
<1>6. GuardKept(game, past)
  BY <1>2, <1>3, <1>4 DEF GuardKept
<1>7. HunterKept(game, past) /\ TurnsKept(game, past)
  BY <1>2, <1>3, <1>4 DEF HunterKept, TurnsKept
<1>8. QED  BY <1>5, <1>6, <1>7 DEF HistoryKept

\* What the game keeps of its past (GameModule's targets, spent potions, last
\* protection, the hunter's fall) agrees with what happened, in every game.
THEOREM HistoryInvariance == Spec => []HInv
<1>1. Init => HistoryKept(game, past)
  BY HistoryBegins
<1>2. IInv /\ HistoryKept(game, past) /\ [Next]_vars /\ IInv' => HistoryKept(game, past)'
  <2>1. ASSUME HInv, Next, IInv' PROVE HistoryKept(game, past)'
    <3>1. ASSUME NEW p \in Players, ConfirmRole(p) \/ SubmitSeerTarget(p)
          PROVE  HistoryKept(game, past)'
      BY <2>1, <3>1, OthersKeep
    <3>2. ASSUME BeginNightStart PROVE HistoryKept(game, past)'
      <4>1. game.phase = "day_result" /\ IInv
        BY <2>1, <3>2 DEF BeginNightStart, HInv
      <4>2. PICK p : p \in Players
        BY <4>1, SomebodySurvives DEF IInv, Sound, Decided, Living
      <4>3. QED  BY <2>1, <3>2, <4>2, OthersKeep
    <3>3. ASSUME NEW p \in Players, ConfirmSeerResult(p) PROVE HistoryKept(game, past)'
      BY <2>1, <3>3, SeerConfirmKeeps DEF ConfirmSeerResult
    <3>4. ASSUME NEW p \in Players, NEW t \in Target, SubmitGuardTarget(p, t)
          PROVE  HistoryKept(game, past)'
      BY <2>1, <3>4, GuardKeeps DEF SubmitGuardTarget
    <3>5. ASSUME NEW p \in Players, NEW t \in Target, SubmitWolfTarget(p, t)
          PROVE  HistoryKept(game, past)'
      BY <2>1, <3>5, WolvesKeep DEF SubmitWolfTarget
    <3>6. ASSUME NEW p \in Players, NEW t \in Target, NEW a \in BOOLEAN,
                 SubmitWitchAction(p, a, t)
          PROVE  HistoryKept(game, past)'
      BY <2>1, <3>6, WitchKeeps DEF SubmitWitchAction
    <3>7. ASSUME NEW p \in Players, NEW t \in Target, SubmitHunterExecution(p, t)
          PROVE  HistoryKept(game, past)'
      BY <2>1, <3>7, HunterKeeps DEF SubmitHunterExecution
    <3>8. ASSUME NEW v \in Players, NEW q \in Players, SubmitVote(v, q)
          PROVE  HistoryKept(game, past)'
      BY <2>1, <3>8, BallotKeeps DEF SubmitVote
    <3>9. CloseDayVote => HistoryKept(game, past)'
      BY <2>1, BallotKeeps DEF CloseDayVote
    <3>10. StartNight => HistoryKept(game, past)'
      BY <2>1, DuskKeeps
    <3>11. Timeout => HistoryKept(game, past)'
      BY <2>1, TimeoutKeeps
    <3>12. QED
      BY <2>1, <3>1, <3>2, <3>3, <3>4, <3>5, <3>6, <3>7, <3>8, <3>9, <3>10, <3>11
         DEF Next
  <2>2. ASSUME HInv, UNCHANGED vars PROVE HistoryKept(game, past)'
    BY <2>2 DEF HInv, vars, HistoryKept, SeerKept, PotionsKept, GuardKept, HunterKept,
                TurnsKept
  <2>3. QED  BY <2>1, <2>2 DEF HInv
<1>3. QED  BY <1>1, <1>2, Invariance, PTL DEF Spec, HInv

\* The hunter is offered one shot if killed by the wolves or voted out, none if
\* poisoned or alive, whatever the deal and however long the game.
THEOREM OneShot == Spec => []ShotIsEarned
<1>1. HInv => ShotIsEarned
  BY DEF HInv, HistoryKept, HunterKept, ShotIsEarned
<1>2. QED  BY <1>1, HistoryInvariance, PTL

\* Each potion is used once in a game and not both in a night, nobody is protected
\* two nights running, and a check that timed out leaves nothing on record.
THEOREM LimitsOfRoles == Spec => []LimitsKept
<1>1. HInv => LimitsKept
  <2> SUFFICES ASSUME HInv PROVE LimitsKept
    OBVIOUS
  <2>1. SeerKept(game, past) /\ PotionsKept(game, past) /\ GuardKept(game, past)
    BY DEF HInv, HistoryKept
  <2>2. past.antidotes <= 1 /\ past.poisons <= 1
    BY <2>1 DEF PotionsKept
  <2>3. QED  BY <2>1, <2>2 DEF SeerKept, PotionsKept, GuardKept, LimitsKept
<1>2. QED  BY <1>1, HistoryInvariance, PTL

\* Every role somebody alive held at dusk has had its phase when the night is over,
\* but for a witch with nothing to use, and every phase entered can be ended.
THEOREM NightComplete == Spec => []NightIsComplete
<1>1. HInv => EveryRoleHasItsTurn
  <2> SUFFICES ASSUME HInv, game.phase \notin NightPhases, NEW r \in past.dusk \ past.asked
               PROVE  UsedUp(game, r)
    BY DEF EveryRoleHasItsTurn, UsedUp
  <2>1. TurnsKept(game, past)
    BY DEF HInv, HistoryKept
  <2>2. PICK j \in 1 .. 4 : r = NightOrder[j]
    BY <2>1, PhaseOfRole DEF TurnsKept
  <2>3. QED  BY <2>1, <2>2 DEF TurnsKept, Reached
<1>2. QED  BY <1>1, HistoryInvariance, ActorsPending, PTL DEF NightIsComplete
=============================================================================
