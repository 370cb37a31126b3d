------------------------------- MODULE BotcGame -------------------------------
(***************************************************************************)
(* One game of Blood on the Clocktower, script Trouble Brewing, as         *)
(* BotcGameModule runs it for the Durable Object: the roles confirmed, the *)
(* first night, then days of nominations and votes and the nights between  *)
(* them. A night is a sequence of steps; the cursor asks one player at a   *)
(* time for a choice, or shows one player a piece of information and waits *)
(* for the acknowledgement. No time limit runs in this game.               *)
(*                                                                         *)
(* handleCommand works on a draft and keeps it only if nothing throws, so  *)
(* a command is one action, and one that throws leaves no trace. Rules are *)
(* operators from a game to the game they leave. The module knows the      *)
(* players by their seats and a night step by its place in the order.      *)
(***************************************************************************)
EXTENDS TroubleBrewing, FiniteSetsExt

CONSTANTS
  Deals   \* the games considered: setups with their bounds, see IsDeal

VARIABLES
  table,  \* the storyteller of the room and the bounds of the deal
  game,   \* BotcGameState
  past    \* history: what the properties remember of the game

vars == <<table, game, past>>

Chairs == UNION {Seated(d.role) : d \in Deals}
Targets == UNION {d.targets : d \in Deals}
Callers == UNION {d.callers : d \in Deals}

FirstNightOrder == <<"poisoner", "spy", "washerwoman", "librarian", "investigator",
                     "chef", "empath", "fortune_teller", "butler">>
OtherNightOrder == <<"poisoner", "monk", "spy", "scarlet_woman", "imp", "self_kill",
                     "ravenkeeper", "undertaker", "empath", "fortune_teller", "butler">>
PairRoles == {"washerwoman", "librarian", "investigator"}
InformationRoles ==
  PairRoles \union {"chef", "empath", "fortune_teller", "spy", "ravenkeeper", "undertaker"}
OneTarget == {"poisoner", "monk", "imp", "butler"}
Nights == {"first_night", "other_night"}
Reasons == {"none", "demon_dead", "two_alive", "saint_executed"}

\* role and shown say what each seat holds and is shown; auto, whether the
\* storyteller is automatic; nights, targets, callers and bluffs are bounds: on
\* the nights played, on whom choices and nominations name, on who nominates
\* and votes, and on the characters the demon's bluffs are sampled from;
\* nominations bounds those of a day.
IsDeal(d) ==
  /\ {d.role, d.shown} \subseteq [1 .. Cardinality(Seated(d.role)) -> Roles]
  /\ Drawable(d.role, d.shown)
  /\ d.auto \in BOOLEAN /\ d.nights \in Nat \ {0} /\ d.nominations \in Nat
  /\ d.targets \subseteq Seated(d.role) /\ d.callers \subseteq Seated(d.role)
  /\ d.bluffs \subseteq Roles
ASSUME DealsAssumption == \A d \in Deals : IsDeal(d)

NoStep == [at |-> 0, kind |-> "none", role |-> "none", actors |-> {}, source |-> "none"]
NoInfo == [ability |-> "none", to |-> None, value |-> [number |-> 0]]
NoBallot == [by |-> None, of |-> None, yes |-> {}, voted |-> {}]
NewDay == [nominators |-> {}, nominees |-> {}, ballot |-> NoBallot, tallies |-> {},
           closed |-> FALSE, execution |-> None]

\* createGame
Created(d) ==
  [phase |-> "role_reveal", role |-> d.role, shown |-> d.shown, confirmed |-> {},
   dayNumber |-> 0, nightNumber |-> 0, dead |-> {}, tonight |-> {}, transitions |-> {},
   executed |-> None, poisoned |-> None, master |-> None, monk |-> None,
   herring |-> None, bluffs |-> {}, chosen |-> {}, raven |-> None,
   step |-> NoStep, info |-> NoInfo, notices |-> {},
   day |-> NewDay, spent |-> {}, winner |-> "none"]

Init ==
  \E d \in Deals :
    /\ table = [auto |-> d.auto, nights |-> d.nights, nominations |-> d.nominations,
                targets |-> d.targets, callers |-> d.callers, bluffs |-> d.bluffs]
    /\ game = Created(d)
    /\ past = [dusk |-> d.shown, fallen |-> {}, executed |-> None, woken |-> {}, changed |-> {}, preview |-> {},
               counted |-> [p \in Seated(d.role) |-> 0]]

Seats(g) == Seated(g.role)
Living(g) == Seats(g) \ g.dead
InNight(g) == g.phase \in Nights

------------------------------------------------------- (* the steps of a night *)
RoleStep(at, r, p, source) ==
  [at |-> at, kind |-> "role", role |-> r, actors |-> {p}, source |-> source]

DrunkShown(g, r) == {p \in Holders(g.role, {"drunk"}) : g.shown[p] = r}

\* The step of r, if any of those it may wake: actual holders before the drunk.
Wake(at, r, actual, drunk) ==
  IF actual # {} THEN {RoleStep(at, r, First(actual), "actual")}
  ELSE IF drunk # {} THEN {RoleStep(at, r, First(drunk), "shown_drunk")} ELSE {}

\* createTroubleBrewingFirstNightSequence: two steps of information come first
FirstNightSteps(g) ==
  LET known(at, r, cs) == [at |-> at, kind |-> "system_info", role |-> r,
                           actors |-> Holders(g.role, cs), source |-> "none"]
      told == IF Cardinality(Seats(g)) < 7 THEN {}
              ELSE {known(1, "minion_info", Minions), known(2, "demon_info", Demons)}
      Of(i) == Wake(i + 2, FirstNightOrder[i], Holders(g.role, {FirstNightOrder[i]}),
                    DrunkShown(g, FirstNightOrder[i]))
  IN told \union UNION {Of(i) : i \in 1 .. 9}

\* otherNightActor: whether p, who holds r or is shown it, has its step tonight
MayWake(g, r, p) ==
  CASE r = "ravenkeeper" -> p \in g.tonight
    [] r = "undertaker" -> p \notin g.dead /\ g.executed # None
    [] OTHER -> p \notin g.dead

OtherActor(g, at, r) ==
  Wake(at, r, {p \in Holders(g.role, {r}) : MayWake(g, r, p)},
              {p \in DrunkShown(g, r) : MayWake(g, r, p)})

Successions(g, kind) == {t \in g.transitions : t.kind = kind}

\* roleTransitionFacts does not throw
TransitionsSound(g) ==
  LET scarlet == Successions(g, "scarlet_woman")
      kills == Successions(g, "self_kill")
  IN /\ Cardinality(scarlet) <= 1 /\ Cardinality(kills) <= 1
     /\ \A t \in scarlet : g.role[t.to] \in {"scarlet_woman", "imp"}
     /\ \A t \in kills :
          /\ t.from # t.to /\ t.to \notin g.dead
          /\ g.role[t.to] \in Minions \union {"imp"}
          /\ IF scarlet = {} THEN g.role[t.from] = "imp"
             ELSE \A s \in scarlet : s.to = t.from

\* impActionStep
ImpStep(g) ==
  LET scarlet == Successions(g, "scarlet_woman")
      kills == Successions(g, "self_kill")
  IN IF kills # {} THEN {RoleStep(5, "imp", t.from, "role_transition") : t \in kills}
     ELSE IF scarlet # {}
       THEN {RoleStep(5, "imp", t.to, "role_transition") : t \in {t \in scarlet : t.to \notin g.dead}}
       ELSE OtherActor(g, 5, "imp")

ChangeStep(at, t) == [at |-> at, kind |-> "role_change", role |-> "imp",
                      actors |-> {t.to}, source |-> "none"]

\* createTroubleBrewingOtherNightSequence
OtherNightSteps(g) ==
  LET plain == (1 .. 11) \ {4, 5, 6}
  IN (UNION {OtherActor(g, i, OtherNightOrder[i]) : i \in plain})
       \union {ChangeStep(4, t) : t \in Successions(g, "scarlet_woman")}
       \union ImpStep(g)
       \union {ChangeStep(6, t) : t \in Successions(g, "self_kill")}

Steps(g) == IF g.phase = "first_night" THEN FirstNightSteps(g) ELSE OtherNightSteps(g)

FirstStep(steps) == CHOOSE s \in steps : \A t \in steps : s.at <= t.at

\* Faulty variants (named ...F) stand before the operator they vary.
NextStepF(g, at) ==
  LET after == {s \in Steps(g) : s.at > at /\ s.kind # "role_change"}
  IN IF after = {} THEN NoStep ELSE FirstStep(after)

\* nextStepAfter the step at the given place: the cursor never goes back, and asks
\* the facts of the moment
NextStep(g, at) ==
  LET after == {s \in Steps(g) : s.at > at}
  IN IF after = {} THEN NoStep ELSE FirstStep(after)

------------------------------------------------------- (* deaths and the end *)
\* troubleBrewingWinner
Winner(g) ==
  IF Holders(g.role, {"imp"}) \ g.dead = {} THEN "demon_dead"
  ELSE IF Cardinality(Living(g)) <= 2 THEN "two_alive" ELSE "none"

\* resolveTroubleBrewingDeath of one who is alive: whom the imp's death makes the imp
Successor(g, p, cause) ==
  LET scarlet == Holders(g.role, {"scarlet_woman"}) \ (g.dead \union {p, g.poisoned})
      minions == Holders(g.role, Minions) \ (g.dead \union {p})
  IN IF g.role[p] # "imp" THEN None
     ELSE IF Cardinality(Living(g)) >= 5 /\ scarlet # {} THEN First(scarlet)
     ELSE IF cause = "imp" THEN FirstOrNone(minions) ELSE None

\* The rest of resolveTroubleBrewingDeath
Dies(g, p, cause) ==
  LET s == Successor(g, p, cause)
      t == IF cause = "imp" THEN [kind |-> "self_kill", from |-> p, to |-> s]
           ELSE [kind |-> "scarlet_woman", from |-> None, to |-> s]
      h == [g EXCEPT !.dead = @ \union {p}]
  IN IF s = None THEN h
     ELSE [h EXCEPT !.role[s] = "imp", !.shown[s] = "imp", !.transitions = @ \union {t}]

AttackF(g, p, q) ==
  IF g.poisoned = p \/ g.monk = q THEN [g EXCEPT !.tonight = @ \union {q}]
  ELSE [Dies(g, q, "imp") EXCEPT !.tonight = @ \union {q}]

\* resolveTroubleBrewingImpAttack, and what its caller keeps of it
Attack(g, p, q) ==
  IF \/ g.role[p] # "imp" \/ g.poisoned = p \/ g.monk = q
     \/ g.role[q] = "soldier" /\ g.poisoned # q
     \/ q \in g.dead
  THEN g ELSE [Dies(g, q, "imp") EXCEPT !.tonight = @ \union {q}]

\* enterDay
EnterDayF(g) == [g EXCEPT !.phase = "day", !.day = NewDay]
EnterDay(g) ==
  [g EXCEPT !.phase = IF Winner(g) = "none" THEN "day" ELSE "finished",
            !.day = NewDay, !.winner = Winner(g)]

\* A night without a step left. commitResolvedRoleTransitions makes the imps of
\* the transitions, who are imps already; clearCompletedOtherNightFacts.
Dawn(g) ==
  LET imps == {t.to : t \in g.transitions}
      over == [g EXCEPT !.dayNumber = @ + 1, !.step = NoStep, !.info = NoInfo]
  IN IF g.phase = "first_night" THEN EnterDay(over)
     ELSE EnterDay([over EXCEPT
            !.role = [p \in Seats(g) |-> IF p \in imps THEN "imp" ELSE @[p]],
            !.shown = [p \in Seats(g) |-> IF p \in imps THEN "imp" ELSE @[p]],
            !.tonight = {}, !.transitions = {}, !.executed = None, !.monk = None,
            !.raven = None])

\* advanceCurrentNightStep. What was shown in the step is of no use after it: the
\* record of it stays in the history, under a step and a night that never return.
Advance(g) ==
  LET s == NextStep(g, g.step.at)
  IN IF s = NoStep THEN Dawn(g) ELSE [g EXCEPT !.step = s, !.info = NoInfo]
CanAdvance(g) == g.phase = "other_night" => TransitionsSound(g)

--------------------------------------------------------- (* what a step asks *)
\* troubleBrewingNightChoiceSpec, of the player the step is for
AsksChoice(s) ==
  s.kind = "role" /\ s.role \in OneTarget \union {"ravenkeeper", "fortune_teller"}
Allowed(g, s, p) == IF s.role \in {"butler", "monk"} THEN Seats(g) \ {p} ELSE Seats(g)

\* informationReadyStep
Ready(g) ==
  /\ g.step.kind = "role" /\ g.step.role \in InformationRoles
  /\ g.step.role = "fortune_teller" => g.chosen # {}
  /\ g.step.role = "ravenkeeper" => g.raven # None

Recipient(g) == First(g.step.actors)

Least(ns) == CHOOSE n \in ns : \A m \in ns : n <= m
\* The baseline recommendations: the least number, no before yes, and of the pairs
\* the first by name. Names are not modelled; CHOOSE is as constant as they are.
LeastOf(ns) == IF ns = {} THEN {} ELSE {[number |-> Least(ns)]}
FirstAnswer(bs) == IF bs = {} THEN {} ELSE {[yes |-> FALSE \notin bs]}
OnePair(cs) == IF cs = {} THEN {} ELSE {CHOOSE c \in cs : TRUE}

\* firstNightPairInformationReminders: what the pair abilities will be told, with
\* the recipient found once more by itself
PreviewF(g) ==
  LET of(r) == Holders(g.role, {r})
      actual(r) == {c \in PairValues(g.role, r) : \E p \in c.among : g.role[p] = c.learned}
      shown(r) == {[ability |-> r, to |-> First(of(r)), value |-> c] : c \in OnePair(actual(r))}
  IN UNION {shown(r) : r \in {r \in PairRoles : of(r) # {}}}
Preview(g) ==
  LET of(r) == LET actual == Holders(g.role, {r})
               IN IF actual # {} THEN actual ELSE DrunkShown(g, r)
      shown(r) == {[ability |-> r, to |-> First(of(r)), value |-> c] :
                     c \in OnePair(PairValues(g.role, r))}
  IN IF g.phase # "first_night" THEN {}
     ELSE UNION {shown(r) : r \in {r \in PairRoles : of(r) # {}}}

\* createTroubleBrewingSpyGrimoireSnapshot
Grimoire(g) ==
  [role |-> g.role, shown |-> g.shown, dead |-> g.dead,
   drunk |-> Holders(g.role, {"drunk"}), poisoned |-> g.poisoned, master |-> g.master,
   herring |-> g.herring, pairs |-> Preview(g)]

PairTold(g) == OnePair(PairValues(g.role, g.step.role))
NumberTold(g) ==
  LeastOf(IF g.step.role = "chef" THEN ChefValues(g.role)
          ELSE EmpathValues(g.role, g.dead, Recipient(g)))
AnswerTold(g) == FirstAnswer(FortuneTellerValues(g.role, g.chosen, g.herring))
CharacterTold(g) ==
  LET target == IF g.step.role = "ravenkeeper" THEN g.raven ELSE g.executed
  IN IF target = None THEN {} ELSE {[character |-> g.role[target]]}

\* resolveCurrentNightInformation: the value it settles on, none if it throws.
\* Drunk and poisoned players are told the truth like the others.
Told(g) ==
  LET r == g.step.role
  IN CASE r \in PairRoles -> PairTold(g)
       [] r \in {"chef", "empath"} -> NumberTold(g)
       [] r = "fortune_teller" -> AnswerTold(g)
       [] r = "spy" -> {Grimoire(g)}
       [] OTHER -> CharacterTold(g)

Commit(g, v) == [g EXCEPT !.info = [ability |-> g.step.role, to |-> Recipient(g), value |-> v]]

\* commitCurrentNotices: who is told what it says in the step that has come
Notify(g) ==
  LET step == g.step
      content == \/ step.kind = "role_change" \/ step.role = "minion_info"
                 \/ step.role = "demon_info" /\ g.bluffs # {}
  IN IF ~InNight(g) \/ ~content THEN g
     ELSE [g EXCEPT !.notices = @ \union
             {[night |-> g.nightNumber, at |-> step.at, to |-> p] : p \in step.actors}]

--------------------------------------------------------------- (* the day *)
\* finishVote: whose raised hands count
Counted(g) ==
  LET yes == g.day.ballot.yes
      held == {p \in Holders(g.role, {"butler"}) \ (g.dead \union {g.poisoned}) :
                 g.master # None /\ g.master \notin yes}
  IN (yes \ (g.dead \intersect g.spent)) \ held

TalliedF(g) ==
  LET tally == [of |-> g.day.ballot.of, count |-> Cardinality(Counted(g)),
                threshold |-> (Cardinality(Living(g)) + 1) \div 2]
  IN [g EXCEPT !.day.tallies = @ \union {tally}, !.day.ballot = NoBallot]
Tallied(g) ==
  LET n == Cardinality(Living(g))
      tally == [of |-> g.day.ballot.of, count |-> Cardinality(Counted(g)),
                threshold |-> (n + 1) \div 2]
  IN [g EXCEPT !.day.tallies = @ \union {tally}, !.day.ballot = NoBallot,
               !.spent = @ \union (Counted(g) \intersect g.dead)]

\* closeDay: the one with most votes of those who have enough, unless they tie
Leader(g) ==
  LET enough == {t \in g.day.tallies : t.count >= t.threshold}
      leaders == {t \in enough : \A u \in enough : u.count <= t.count}
  IN IF Cardinality(leaders) = 1 THEN (CHOOSE t \in leaders : TRUE).of ELSE None

\* The execution and the end it may bring (applyCommand, the part of the day)
Executed(g, p) == IF p \in g.dead THEN g ELSE [Dies(g, p, "execution") EXCEPT !.executed = p]
Closed(g) ==
  LET p == Leader(g)
      h == [g EXCEPT !.day.closed = TRUE, !.day.execution = p]
      k == IF p = None THEN h ELSE Executed(h, p)
      saint == k.executed # None /\ g.role[p] = "saint" /\ g.poisoned # p
      w == IF saint THEN "saint_executed" ELSE Winner(k)
  IN [k EXCEPT !.winner = w, !.phase = IF w = "none" THEN @ ELSE "finished"]

---------------------------------------------------------- (* who is asked *)
\* What the commands check before they act.
NominationAccepted(g, p, q) ==
  /\ g.phase = "day" /\ ~g.day.closed /\ p \in Living(g)
  /\ g.day.ballot = NoBallot
  /\ p \notin g.day.nominators /\ q \notin g.day.nominees
VoteAccepted(g, p) ==
  /\ g.phase = "day" /\ ~g.day.closed /\ g.day.ballot # NoBallot
  /\ p \in g.dead => p \notin g.spent
  /\ p \notin g.day.ballot.voted
ChoiceAccepted(g, p) ==
  /\ InNight(g) /\ p \in g.step.actors /\ AsksChoice(g.step)
  /\ g.step.role = "fortune_teller" => g.chosen = {}
  /\ g.step.role = "ravenkeeper" => g.raven = None
AcknowledgementAccepted(g, p) == Ready(g) /\ p \in g.step.actors /\ g.info # NoInfo
CompletionAcceptedF(g) == InNight(g) /\ ~Ready(g) /\ g.step.kind # "system_info" /\ ~AsksChoice(g.step)
CompletionAccepted(g) == InNight(g) /\ ~Ready(g) /\ ~AsksChoice(g.step)
CommitAccepted(g) == Ready(g) /\ g.info = NoInfo /\ Told(g) # {}

\* moderatorInformationDecision: a value is to be committed
DecisionDue(g) == Ready(g) /\ g.info = NoInfo

\* publicView, and what getModeratorView adds to it
PublicView(g) ==
  [canCompleteNightStep |-> g.step # NoStep /\ ~Ready(g) /\ ~AsksChoice(g.step),
   dead |-> g.dead \ g.tonight]
ModeratorView(g) == [public |-> PublicView(g), decision |-> DecisionDue(g)]

\* playerNightStepView, with the choice suppressed once it is recorded
ChoiceShownF(g) == AsksChoice(g.step)
ChoiceShown(g) ==
  /\ AsksChoice(g.step)
  /\ ~(g.step.role = "fortune_teller" /\ g.chosen # {})
  /\ ~(g.step.role = "ravenkeeper" /\ g.raven # None)

\* getPlayerView: what the client of p is told it may do, and as whom
PlayerView(g, p) ==
  LET step == g.step
      active == InNight(g) /\ p \in step.actors
      renamed == step.kind = "role_change" \/ step.source = "role_transition"
      ballot == g.day.ballot # NoBallot
      byDay == g.phase = "day"
  IN [alive |-> p \notin PublicView(g).dead,
      role |-> IF active /\ renamed THEN step.role ELSE g.shown[p],
      canNominate |-> byDay /\ p \notin g.dead /\ ~g.day.closed /\ ~ballot
                        /\ p \notin g.day.nominators,
      targets |-> IF byDay THEN Seats(g) \ g.day.nominees ELSE {},
      canVote |-> byDay /\ ballot /\ (p \notin g.dead \/ p \notin g.spent)
                    /\ p \notin g.day.ballot.voted,
      choice |-> active /\ ChoiceShown(g),
      information |-> active /\ g.info.to = p]

----------------------------------------------------------- (* the commands *)
\* What the properties remember of a step from game to game'.
Remember ==
  LET began == game'.nightNumber # game.nightNumber
      closing == game'.day.closed /\ ~game.day.closed
      imps == {p \in Seats(game) : game'.role[p] = "imp" /\ game.role[p] # "imp"}
      wakes == IF game'.step.kind = "role" THEN game'.step.actors ELSE {}
      tallied == game.day.ballot # NoBallot /\ game'.day.ballot = NoBallot
      ghosts == IF tallied THEN Counted(game) \intersect game.dead ELSE {}
  IN past' = [dusk |-> IF began THEN game'.shown ELSE past.dusk,
              fallen |-> IF began THEN game'.dead ELSE past.fallen,
              executed |-> IF began THEN game'.executed ELSE past.executed,
              woken |-> (IF began THEN {} ELSE past.woken) \union wakes,
              changed |-> (IF closing THEN {} ELSE past.changed) \union imps,
              preview |-> IF game'.phase # "first_night" THEN {}
                          ELSE IF game'.info.ability = "spy" THEN game'.info.value.pairs
                          ELSE past.preview,
              counted |-> [p \in Seats(game) |->
                             past.counted[p] + IF p \in ghosts THEN 1 ELSE 0]]

\* handleCommand, once the command has made h of the draft: with an automatic
\* storyteller the information now due is committed at once, and the command
\* fails with it. A command for another interaction than the current one is
\* refused, which changes nothing.
Accept(made) ==
  /\ \E h \in {made} :
       LET due == table.auto /\ DecisionDue(h)
       IN \E k \in (IF due THEN {Commit(h, v) : v \in Told(h)} ELSE {h}) : game' = Notify(k)
  /\ Remember
  /\ UNCHANGED table

\* A second confirmation is accepted too, and changes nothing.
ConfirmRole(p) ==
  /\ game.phase = "role_reveal" /\ p \in Seats(game) \ game.confirmed
  /\ Accept([game EXCEPT !.confirmed = @ \union {p}])

HasFortuneTeller(g) ==
  Holders(g.role, {"fortune_teller"}) \union DrunkShown(g, "fortune_teller") # {}

\* Only a human storyteller sets the red herring by hand (mutate).
SetRedHerring(p) ==
  /\ ~table.auto /\ game.phase = "role_reveal" /\ HasFortuneTeller(game)
  /\ p \in HerringCandidates(game.role)
  /\ Accept([game EXCEPT !.herring = p])

\* ensureAutomaticDemonBluffs; the sample is of the characters of the deal's bound
Bluffs(g) ==
  IF Cardinality(Seats(g)) < 7 THEN {{}}
  ELSE kSubset(3, BluffPool(g.role, g.shown) \intersect table.bluffs)
\* ensureAutomaticRedHerring: the good player whose id comes first
Herrings(g) ==
  IF HasFortuneTeller(g) /\ g.herring = None THEN HerringCandidates(g.role) ELSE {g.herring}

\* The night starts with its first step, or is over at once.
Begun(g, night) ==
  LET h == [g EXCEPT !.phase = night]
      s == NextStep(h, 0)
  IN IF s = NoStep THEN Dawn(h) ELSE [h EXCEPT !.step = s]

BeginFirstNight ==
  /\ game.phase = "role_reveal" /\ game.confirmed = Seats(game)
  /\ \E b \in Bluffs(game), p \in Herrings(game) :
       Accept(Begun([game EXCEPT !.nightNumber = 1, !.bluffs = b, !.herring = p],
                    "first_night"))

\* submitNightChoice, by the one the step is for: the effect, unless the actor is poisoned or the drunk
Effect(g, p, q) ==
  LET s == g.step
  IN IF g.poisoned = p \/ s.source = "shown_drunk" THEN g
     ELSE CASE s.role = "poisoner" -> [g EXCEPT !.poisoned = q]
            [] s.role = "butler" -> [g EXCEPT !.master = q]
            [] s.role = "monk" -> [g EXCEPT !.monk = q]
            [] s.role = "imp" -> Attack(g, p, q)

NightChoice(q) ==
  /\ game.step.role \in OneTarget /\ ChoiceAccepted(game, Recipient(game))
  /\ q \in Allowed(game, game.step, Recipient(game)) \intersect table.targets
  /\ \E h \in {Effect(game, Recipient(game), q)} : CanAdvance(h) /\ Accept(Advance(h))

RavenkeeperChoice(q) ==
  /\ game.step.role = "ravenkeeper" /\ ChoiceAccepted(game, Recipient(game))
  /\ q \in Seats(game) \intersect table.targets
  /\ Accept([game EXCEPT !.raven = q])

FortuneTellerChoice(q, r) ==
  /\ game.step.role = "fortune_teller" /\ ChoiceAccepted(game, Recipient(game))
  /\ q < r /\ {q, r} \subseteq Seats(game) \intersect table.targets
  /\ Accept([game EXCEPT !.chosen = {q, r}])

CommitNightInformation ==
  /\ CommitAccepted(game)
  /\ \E v \in Told(game) : Accept(Commit(game, v))

AcknowledgeNightInformation ==
  /\ game.step # NoStep /\ AcknowledgementAccepted(game, Recipient(game)) /\ CanAdvance(game)
  /\ LET told == IF game.step.role = "fortune_teller" THEN {} ELSE game.chosen
     IN Accept([Advance(game) EXCEPT !.chosen = told])

CompleteNightStep ==
  /\ CompletionAccepted(game) /\ CanAdvance(game)
  /\ Accept(Advance(game))

Nominate(p, q) ==
  /\ p \in table.callers /\ q \in table.targets
  /\ Cardinality(game.day.nominators) < table.nominations
  /\ NominationAccepted(game, p, q)
  /\ Accept([game EXCEPT !.day.nominators = @ \union {p}, !.day.nominees = @ \union {q},
                         !.day.ballot = [NoBallot EXCEPT !.by = p, !.of = q]])

Vote(p, approve) ==
  /\ p \in table.callers /\ VoteAccepted(game, p)
  /\ Accept([game EXCEPT !.day.ballot.voted = @ \union {p},
                         !.day.ballot.yes = IF approve THEN @ \union {p} ELSE @])

FinishVote ==
  /\ game.phase = "day" /\ ~game.day.closed /\ game.day.ballot # NoBallot
  /\ Accept(Tallied(game))

CloseDay ==
  /\ game.phase = "day" /\ ~game.day.closed /\ game.day.ballot = NoBallot
  /\ Accept(Closed(game))

\* beginOtherNight. handleCommand first closes a day on which nobody nominated.
Dusk(g) == [g EXCEPT !.nightNumber = @ + 1, !.poisoned = None, !.master = None,
                     !.chosen = {}, !.raven = None, !.monk = None, !.tonight = {}]
DayOver(g) == IF g.day.closed \/ g.day.nominators # {} THEN g ELSE Closed(g)

BeginOtherNight ==
  /\ game.phase = "day" /\ game.nightNumber < table.nights
  /\ \E h \in {DayOver(game)} :
       /\ h.phase = "day" /\ h.day.closed /\ TransitionsSound(h)
       /\ Accept(Begun(Dusk(h), "other_night"))

\* What the night waits for: somebody's choice or acknowledgement, or the
\* storyteller's next step.
NightGoesOn ==
  \/ \E q \in Targets : NightChoice(q) \/ RavenkeeperChoice(q)
  \/ \E q \in Targets, r \in Targets : FortuneTellerChoice(q, r)
  \/ CommitNightInformation
  \/ AcknowledgeNightInformation
  \/ CompleteNightStep

Next ==
  \/ \E p \in Chairs : ConfirmRole(p)
  \/ \E p \in Chairs : SetRedHerring(p)
  \/ BeginFirstNight
  \/ \E q \in Targets : NightChoice(q)
  \/ \E q \in Targets : RavenkeeperChoice(q)
  \/ \E q \in Targets, r \in Targets : FortuneTellerChoice(q, r)
  \/ CommitNightInformation
  \/ AcknowledgeNightInformation
  \/ CompleteNightStep
  \/ \E p \in Callers, q \in Targets : Nominate(p, q)
  \/ \E p \in Callers, approve \in BOOLEAN : Vote(p, approve)
  \/ FinishVote
  \/ CloseDay
  \/ BeginOtherNight

Spec == Init /\ [][Next]_vars
\* Whoever the night waits for answers at last; nothing makes the day go on.
FairSpec == Spec /\ WF_vars(NightGoesOn)

-------------------------------------------------------- (* what should hold *)
IsSeat(p) == p \in Seats(game) \union {None}
Step == [at : 0 .. 11, kind : {"none", "role", "system_info", "role_change"},
         role : Roles \union {"none", "minion_info", "demon_info"},
         actors : SUBSET Seats(game),
         source : {"none", "actual", "shown_drunk", "role_transition"}]

\* Every field of the game state stays in its domain, and a night step is active
\* exactly in a night.
TypeOK ==
  /\ game.phase \in Nights \union {"role_reveal", "day", "finished"}
  /\ game.role \in [Seats(game) -> Roles] /\ game.shown \in [Seats(game) -> Roles]
  /\ game.confirmed \subseteq Seats(game) /\ game.tonight \subseteq game.dead
  /\ game.dead \subseteq Seats(game) /\ game.spent \subseteq game.dead
  /\ game.dayNumber \in Nat /\ game.nightNumber \in 0 .. table.nights
  /\ \A p \in {game.executed, game.poisoned, game.master, game.monk, game.herring,
               game.raven, game.day.execution, game.info.to} : IsSeat(p)
  /\ game.step \in Step /\ (game.step = NoStep <=> ~InNight(game))
  /\ \A t \in game.transitions : IsSeat(t.from) /\ t.to \in Seats(game)
  /\ game.winner \in Reasons /\ (game.winner = "none" <=> game.phase # "finished")
  /\ game.day.nominators \union game.day.nominees \subseteq Seats(game)
  /\ game.day.ballot.yes \subseteq game.day.ballot.voted

\* A game that is decided is over, and one that is over is decided rightly: no day
\* begins or goes on without one living imp and a third player alive, whoever
\* died, was executed or became the imp on the way.
DecidedIsOver ==
  LET imps == Holders(game.role, {"imp"}) \ game.dead
  IN /\ Cardinality(imps) <= 1
     /\ game.phase = "day" => imps # {} /\ Cardinality(Living(game)) > 2
     /\ game.winner = "demon_dead" => imps = {}
     /\ game.winner = "two_alive" => imps # {} /\ Cardinality(Living(game)) <= 2
     /\ game.winner = "saint_executed" => game.role[game.executed] = "saint"

\* Whoever a night step of a role is for holds that role or believes to, and is
\* alive; only the ravenkeeper is woken dead, in the night it died.
OnlyTheEntitledAct ==
  game.step.kind = "role" =>
    \A p \in game.step.actors :
      /\ game.shown[p] = game.step.role
      /\ p \in game.dead => game.step.role = "ravenkeeper" /\ p \in game.tonight

\* By dawn everyone the night is for had its step: the living who hold a night
\* role or believe to, the undertaker after an execution, the ravenkeeper who
\* died; and whoever became the imp since the last dawn was told.
EveryOneWakes ==
  LET regular == IF game.nightNumber = 1 THEN {FirstNightOrder[i] : i \in 1 .. 9}
                 ELSE {"poisoner", "monk", "spy", "imp", "empath", "fortune_teller", "butler"}
      night == {p \in Living(game) :
                  \/ past.dusk[p] \in regular
                  \/ past.dusk[p] = "undertaker" /\ past.executed # None}
      ravenkeepers == {p \in game.dead \ past.fallen : past.dusk[p] = "ravenkeeper"}
  IN game.phase \in {"day", "finished"} /\ ~game.day.closed =>
       /\ (night \ past.changed) \union ravenkeepers \subseteq past.woken
       /\ past.changed \subseteq {n.to : n \in {n \in game.notices : n.night = game.nightNumber}}

(***************************************************************************)
(* The night wakes whom it should and nobody else, although the steps left *)
(* are worked out again after each from facts the step has changed         *)
(* (nextStepAfter, advanceTroubleBrewingOtherNightProgress).               *)
(***************************************************************************)
NightWakes == OnlyTheEntitledAct /\ EveryOneWakes

\* What a player is told agrees with the table: the number of the empath with its
\* two living neighbours, those with nobody alive in between; the number of the
\* chef with the circle; the fortune teller's answer with whom it chose; and
\* the demon's bluffs with the characters in play.
Between(p, q) == {x \in Seats(game) : IF p < q THEN p < x /\ x < q ELSE p < x \/ x < q}
InformationTrue ==
  LET info == game.info
      n == Cardinality(Seats(game))
      near(p) == {q \in Living(game) \ {p} :
                    Between(p, q) \subseteq game.dead \/ Between(q, p) \subseteq game.dead}
      sure(ps) == {p \in ps : ~MayBeGood(game.role[p])}
      possible(ps) == {p \in ps : MayBeEvil(game.role[p])}
      next(p) == IF p = n THEN 1 ELSE p + 1
      surePairs == {p \in Seats(game) : {p, next(p)} \subseteq sure(Seats(game))}
      possiblePairs == {p \in Seats(game) : {p, next(p)} \subseteq possible(Seats(game))}
  IN /\ info.ability = "empath" =>
          info.value.number \in Cardinality(sure(near(info.to)))
                                  .. Cardinality(possible(near(info.to)))
     /\ info.ability = "chef" =>
          info.value.number \in Cardinality(surePairs) .. Cardinality(possiblePairs)
     /\ info.ability = "fortune_teller" =>
          LET demons == {p \in game.chosen : game.role[p] = "imp"}
              asDemons == {p \in game.chosen : game.role[p] \in {"imp", "recluse"}}
          IN IF info.value.yes THEN asDemons # {} \/ game.herring \in game.chosen
             ELSE demons = {} /\ game.herring \notin game.chosen
     /\ game.bluffs \subseteq Good \ {game.role[p] : p \in Seats(game)}

\* The spy is shown on the first night what the washerwoman, the librarian and
\* the investigator will be told after it, and that is what they are told.
GrimoireForetells ==
  game.info.ability \in PairRoles /\ past.preview # {} => game.info \in past.preview

\* The night has a step to come, or come, for an empath with one other player alive:
\* nothing can be told to it, and no command passes the step.
EmpathAlone ==
  /\ game.phase = "other_night"
  /\ \E s \in OtherNightSteps(game) :
       s.role = "empath" /\ EmpathValues(game.role, game.dead, First(s.actors)) = {}

\* The views offer a player exactly what the commands accept from it, and the
\* storyteller nothing that would be refused, but for the empath left alone.
OfferedIsAccepted ==
  /\ \A p \in Seats(game) :
       LET v == PlayerView(game, p)
       IN /\ v.canNominate <=> \E q \in v.targets : NominationAccepted(game, p, q)
          /\ v.canVote <=> VoteAccepted(game, p)
          /\ v.choice <=> ChoiceAccepted(game, p)
          /\ v.information <=> AcknowledgementAccepted(game, p)
  /\ ModeratorView(game).public.canCompleteNightStep <=> CompletionAccepted(game)
  /\ ModeratorView(game).decision => CommitAccepted(game) \/ EmpathAlone

\* The dead vote once in the rest of the game: of no player more than one vote is
\* counted after its death, however the days follow each other.
GhostVoteOnce == \A p \in Seats(game) : past.counted[p] <= 1

\* A night ends, if those it waits for answer; but not when its killing leaves an
\* empath with one other player alive.
NightEnds == InNight(game) ~> (~InNight(game) \/ EmpathAlone)

\* "Empath resolves ... works on both first night and later nights": every night ends.
EveryNightEnds == InNight(game) ~> ~InNight(game)
=============================================================================
