----------------------------- MODULE BotcGameProofs -----------------------------
(***************************************************************************)
(* Proofs about BotcGame, for any deals the setup code may draw, of any    *)
(* number of players, with any bounds: the type invariant, that a game     *)
(* that is decided is over and decided rightly, that the night is for      *)
(* nobody but whom the step is meant for and for each of them, that the    *)
(* dead vote once, that views keep secrets and offer what is accepted, and *)
(* that what a night tells is what was shown to the spy, and true.         *)
(*                                                                         *)
(* The invariants are about one game record: they are stated of g, with    *)
(* no state in them, and every rule of BotcGame is shown to keep them.     *)
(***************************************************************************)
EXTENDS BotcViews, FiniteSetTheorems, WellFoundedInduction, TLAPS

Fields ==
  {"phase", "role", "shown", "confirmed", "dayNumber", "nightNumber", "dead", "tonight",
   "transitions", "executed", "poisoned", "master", "monk", "herring", "bluffs",
   "chosen", "raven", "step", "info", "notices", "day", "spent", "winner"}
DayFields == {"nominators", "nominees", "ballot", "tallies", "closed", "execution"}
BallotFields == {"by", "of", "yes", "voted"}

Shaped(g) ==
  DOMAIN g = Fields /\ DOMAIN g.day = DayFields /\ DOMAIN g.day.ballot = BallotFields

Seating(g) == \E n \in 5 .. 15 : Seats(g) = 1 .. n
Seat(g) == Seats(g) \union {None}

\* Who is who: only the drunk is shown another character, one imp at most is alive,
\* and whoever a transition made the imp is the imp.
People(g) ==
  /\ g.role \in [Seats(g) -> Roles] /\ g.shown \in [Seats(g) -> Roles]
  /\ g.dead \subseteq Seats(g) /\ g.tonight \subseteq g.dead /\ g.spent \subseteq g.dead
  /\ \A p \in Seats(g) : g.role[p] # "drunk" => g.shown[p] = g.role[p]
  /\ \A p, q \in Living(g) : g.role[p] = "imp" /\ g.role[q] = "imp" => p = q
  /\ \A t \in g.transitions : /\ t.from \in Seat(g) /\ t.to \in Seats(g)
                              /\ g.role[t.to] = "imp"

Marks(g) ==
  /\ g.executed \in Seat(g) /\ g.poisoned \in Seat(g) /\ g.master \in Seat(g)
  /\ g.monk \in Seat(g) /\ g.herring \in Seat(g) /\ g.raven \in Seat(g)
  /\ g.confirmed \subseteq Seats(g) /\ g.dayNumber \in Nat /\ g.nightNumber \in Nat
  /\ g.info = NoInfo \/ g.info.to \in Seats(g)

\* Nobody dies before the first day, and the imp kills itself in its step of a night.
Timely(g) ==
  /\ g.phase \in Nights \union {"role_reveal", "day", "finished"}
  /\ g.step.at \in Nat
  /\ g.phase \in {"role_reveal", "first_night"} =>
       g.dead = {} /\ g.transitions = {} /\ g.executed = None
  /\ (\E t \in g.transitions : t.kind = "self_kill") =>
       g.phase = "other_night" /\ g.step.at >= 5

\* A ballot is open only while the day is, for the last nomination.
Daily(g) ==
  /\ g.day.nominators \subseteq Seats(g) /\ g.day.nominees \subseteq Seats(g)
  /\ g.day.closed \in BOOLEAN /\ g.day.execution \in Seat(g)
  /\ \A t \in g.day.tallies : t.of \in Seats(g)
  /\ g.day.ballot.yes \subseteq g.day.ballot.voted
  /\ g.day.ballot # NoBallot =>
       /\ g.phase = "day" /\ ~g.day.closed
       /\ g.day.ballot.by \in g.day.nominators /\ g.day.ballot.of \in Seats(g)
  /\ g.phase = "day" /\ ~g.day.closed => g.executed = None

\* The winner is who should have won, and a day goes on only while nobody has.
Ended(g) ==
  /\ g.winner \in Reasons /\ (g.winner = "none" <=> g.phase # "finished")
  /\ g.phase = "day" => Winner(g) = "none"
  /\ g.winner \in {"demon_dead", "two_alive"} => Winner(g) = g.winner
  /\ g.winner = "saint_executed" => g.role[g.executed] = "saint"

Sound(g) ==
  /\ Shaped(g) /\ Seating(g) /\ People(g) /\ Marks(g) /\ Timely(g) /\ Daily(g) /\ Ended(g)

\* What a step of the night may be, and whom one of a role is for.
StepOf(S) ==
  [at : 1 .. 11, kind : {"role", "system_info", "role_change"},
   role : Roles \union {"minion_info", "demon_info"}, actors : SUBSET S,
   source : {"none", "actual", "shown_drunk", "role_transition"}]
Entitled(g, s) ==
  /\ s \in StepOf(Seats(g))
  /\ s.kind = "role" =>
       \E p \in Seats(g) :
         /\ s.actors = {p} /\ g.shown[p] = s.role
         /\ p \in g.dead => s.role = "ravenkeeper" /\ p \in g.tonight
         /\ s.role = "imp" => s.at = 5 /\ g.phase = "other_night"

AtStep(g) == IF InNight(g) THEN Entitled(g, g.step) ELSE g.step = NoStep

Holds(g) == Sound(g) /\ AtStep(g)

-----------------------------------------------------------------------------
\* A nonempty set of naturals has a least element.
LEMMA LeastThere ==
  ASSUME NEW T, T \subseteq Nat, T # {}
  PROVE  \E x \in T : \A y \in T : x <= y
<1> DEFINE R == {ss \in Nat \X Nat : ss[1] < ss[2]}
<1>1. R = OpToRel(<, Nat)
  BY Zenon DEF OpToRel
<1>2. IsWellFoundedOn(R, Nat)
  BY <1>1, NatLessThanWellFounded, Zenon
<1> HIDE DEF R
<1>3. PICK x \in T : \A y \in T : ~ (<<y, x>> \in R)
  BY <1>2, WFMin
<1>4. \A y, z \in Nat : <<y, z>> \in R <=> y < z
  BY DEF R
<1>5. \A y \in T : y \in Nat /\ x \in Nat /\ ~(y < x)
  BY <1>3, <1>4
<1>6. \A y \in T : x <= y
  BY <1>5
<1> QED BY <1>6

LEMMA SeatNumbers ==
  ASSUME NEW g, Seating(g)
  PROVE  /\ Seats(g) \subseteq Nat /\ None \notin Seats(g)
         /\ IsFiniteSet(Seats(g))
<1>1. PICK n \in 5 .. 15 : Seats(g) = 1 .. n
  BY DEF Seating
<1>2. IsFiniteSet(1 .. n)
  BY FS_Interval
<1> QED BY <1>1, <1>2 DEF None

LEMMA FirstOfThem ==
  ASSUME NEW ps, ps \subseteq Nat, ps # {}
  PROVE  First(ps) \in ps
<1>1. \E x \in ps : \A y \in ps : x <= y
  BY LeastThere
<1> QED BY <1>1 DEF First

LEMMA FirstOfOne ==
  ASSUME NEW p \in Nat
  PROVE  First({p}) = p
BY FirstOfThem

LEMMA FirstStepThere ==
  ASSUME NEW steps, steps # {}, \A s \in steps : s.at \in Nat
  PROVE  FirstStep(steps) \in steps
<1> DEFINE T == {s.at : s \in steps}
<1>1. T \subseteq Nat /\ T # {}
  OBVIOUS
<1>2. PICK n \in T : \A m \in T : n <= m
  BY <1>1, LeastThere
<1>3. PICK s \in steps : s.at = n
  BY <1>2
<1>4. \A t \in steps : s.at <= t.at
  BY <1>2, <1>3
<1> QED BY <1>3, <1>4 DEF FirstStep

-----------------------------------------------------------------------------
(***************************************************************************)
(* The steps of a night are for whom they should be.                       *)
(***************************************************************************)
LEMMA FirstOrder ==
  ASSUME NEW i \in 1 .. 9
  PROVE  FirstNightOrder[i] \in Roles /\ FirstNightOrder[i] \notin {"drunk", "imp"}
BY DEF FirstNightOrder, Roles, Townsfolk, Outsiders, Minions, Demons

LEMMA OtherOrder ==
  ASSUME NEW i \in (1 .. 11) \ {4, 5, 6}
  PROVE  OtherNightOrder[i] \in Roles /\ OtherNightOrder[i] \notin {"drunk", "imp"}
BY DEF OtherNightOrder, Roles, Townsfolk, Outsiders, Minions, Demons

\* The holders of a role other than the drunk's, and the drunk shown it, believe to
\* hold it.
LEMMA HoldersBelieve ==
  ASSUME NEW g, People(g), NEW r, r # "drunk"
  PROVE  /\ Holders(g.role, {r}) \subseteq Seats(g) /\ DrunkShown(g, r) \subseteq Seats(g)
         /\ \A p \in Holders(g.role, {r}) \union DrunkShown(g, r) : g.shown[p] = r
BY DEF Holders, DrunkShown, Seats, People

LEMMA WokenEntitled ==
  ASSUME NEW g, Seating(g), People(g), NEW at \in 1 .. 11, NEW r \in Roles \ {"drunk"},
         r = "imp" => at = 5 /\ g.phase = "other_night",
         NEW ps, ps \subseteq Holders(g.role, {r}), NEW qs, qs \subseteq DrunkShown(g, r),
         \A p \in ps \union qs : p \in g.dead => r = "ravenkeeper" /\ p \in g.tonight,
         NEW s \in Wake(at, r, ps, qs)
  PROVE  s.at = at /\ Entitled(g, s)
<1>1. PICK xs, source :
        /\ xs \in {ps, qs} /\ source \in {"actual", "shown_drunk"}
        /\ xs # {} /\ s = RoleStep(at, r, First(xs), source)
  <2>1. CASE ps # {}
    BY <2>1 DEF Wake
  <2>2. CASE ps = {}
    BY <2>2 DEF Wake
  <2> QED BY <2>1, <2>2
<1>2. /\ xs \subseteq Seats(g)
      /\ \A p \in xs : g.shown[p] = r
      /\ \A p \in xs : p \in g.dead => r = "ravenkeeper" /\ p \in g.tonight
  BY <1>1, HoldersBelieve
<1>3. First(xs) \in xs
  BY <1>1, <1>2, SeatNumbers, FirstOfThem
<1> DEFINE p == First(xs)
<1>4. /\ s.at = at /\ s.kind = "role" /\ s.role = r /\ s.actors = {p}
      /\ p \in Seats(g) /\ s \in StepOf(Seats(g))
  BY <1>1, <1>2, <1>3 DEF RoleStep, StepOf
<1> HIDE DEF p
<1>5. p \in xs
  BY <1>3 DEF p
<1> QED BY <1>2, <1>4, <1>5 DEF Entitled

LEMMA FirstStepsEntitled ==
  ASSUME NEW g, Seating(g), People(g), g.dead = {}, NEW s \in FirstNightSteps(g)
  PROVE  Entitled(g, s)
<1> DEFINE Of(i) == Wake(i + 2, FirstNightOrder[i], Holders(g.role, {FirstNightOrder[i]}),
                         DrunkShown(g, FirstNightOrder[i]))
           known(at, r, cs) == [at |-> at, kind |-> "system_info", role |-> r,
                                actors |-> Holders(g.role, cs), source |-> "none"]
<1>1. \/ s \in {known(1, "minion_info", Minions), known(2, "demon_info", Demons)}
      \/ \E i \in 1 .. 9 : s \in Of(i)
  BY DEF FirstNightSteps
<1>2. CASE s \in {known(1, "minion_info", Minions), known(2, "demon_info", Demons)}
  <2>1. \A cs : Holders(g.role, cs) \subseteq Seats(g)
    BY DEF Holders, Seats
  <2> QED BY <1>2, <2>1 DEF Entitled, StepOf
<1>3. ASSUME NEW i \in 1 .. 9, s \in Of(i) PROVE Entitled(g, s)
  <2> DEFINE r == FirstNightOrder[i]
  <2>1. r \in Roles \ {"drunk"} /\ r # "imp" /\ i + 2 \in 1 .. 11
    BY FirstOrder
  <2> HIDE DEF r
  <2>2. s \in Wake(i + 2, r, Holders(g.role, {r}), DrunkShown(g, r))
    BY <1>3 DEF r
  <2> QED BY <2>1, <2>2, WokenEntitled
<1> QED BY <1>1, <1>2, <1>3

LEMMA ActorsEntitled ==
  ASSUME NEW g, Seating(g), People(g), NEW at \in 1 .. 11, NEW r \in Roles \ {"drunk"},
         r = "imp" => at = 5 /\ g.phase = "other_night", NEW s \in OtherActor(g, at, r)
  PROVE  s.at = at /\ Entitled(g, s)
<1> DEFINE ps == {p \in Holders(g.role, {r}) : MayWake(g, r, p)}
           qs == {p \in DrunkShown(g, r) : MayWake(g, r, p)}
<1>1. \A p \in ps \union qs : p \in g.dead => r = "ravenkeeper" /\ p \in g.tonight
  BY DEF MayWake
<1>2. s \in Wake(at, r, ps, qs)
  BY DEF OtherActor
<1> QED BY <1>1, <1>2, WokenEntitled

LEMMA ChangesEntitled ==
  ASSUME NEW g, People(g), NEW at \in 1 .. 11, NEW t \in g.transitions
  PROVE  Entitled(g, ChangeStep(at, t)) /\ ChangeStep(at, t).at = at
BY DEF ChangeStep, Entitled, StepOf, People, Roles, Demons

\* The imp's step, before the imp has killed itself.
LEMMA ImpEntitled ==
  ASSUME NEW g, Seating(g), People(g), \A t \in g.transitions : t.kind # "self_kill",
         g.phase = "other_night", NEW s \in ImpStep(g)
  PROVE  Entitled(g, s)
<1>1. Successions(g, "self_kill") = {}
  BY DEF Successions
<1>2. CASE s \in OtherActor(g, 5, "imp")
  BY <1>2, ActorsEntitled DEF Roles, Demons
<1>3. ASSUME NEW t \in g.transitions, t.to \notin g.dead,
             s = RoleStep(5, "imp", t.to, "role_transition")
      PROVE  Entitled(g, s)
  <2>1. t.to \in Seats(g) /\ g.shown[t.to] = "imp"
    BY DEF People
  <2> QED BY <1>3, <2>1 DEF RoleStep, Entitled, StepOf, Roles, Demons
<1> QED BY <1>1, <1>2, <1>3 DEF ImpStep, Successions

LEMMA OtherStepsEntitled ==
  ASSUME NEW g, Seating(g), People(g), g.phase = "other_night", NEW s \in OtherNightSteps(g),
         s.at = 5 => \A t \in g.transitions : t.kind # "self_kill"
  PROVE  Entitled(g, s)
<1>1. \/ \E i \in (1 .. 11) \ {4, 5, 6} : s \in OtherActor(g, i, OtherNightOrder[i])
      \/ \E i \in {4, 6}, t \in g.transitions : s = ChangeStep(i, t)
      \/ s \in ImpStep(g)
  BY DEF OtherNightSteps, Successions
<1>2. ASSUME NEW i \in (1 .. 11) \ {4, 5, 6}, s \in OtherActor(g, i, OtherNightOrder[i])
      PROVE  Entitled(g, s)
  BY <1>2, OtherOrder, ActorsEntitled
<1>3. CASE \E i \in {4, 6}, t \in g.transitions : s = ChangeStep(i, t)
  BY <1>3, ChangesEntitled
<1>4. CASE s \in ImpStep(g)
  <2>1. s.at = 5
    <3>1. \A x \in OtherActor(g, 5, "imp") : x.at = 5
      BY ActorsEntitled DEF Roles, Demons
    <3> QED BY <1>4, <3>1 DEF ImpStep, RoleStep
  <2> QED BY <1>4, <2>1, ImpEntitled
<1> QED BY <1>1, <1>2, <1>3, <1>4

\* Every step has a place in the order, whoever it is for.
LEMMA StepPlaces ==
  ASSUME NEW g, Seating(g), NEW s \in FirstNightSteps(g) \union OtherNightSteps(g)
  PROVE  s.at \in Nat
<1>1. \A at \in Nat : \A r, ps, qs : \A x \in Wake(at, r, ps, qs) : x.at = at
  BY DEF Wake, RoleStep
<1>2. \A at \in Nat : \A r : \A x \in OtherActor(g, at, r) : x.at = at
  BY <1>1 DEF OtherActor
<1>3. CASE s \in FirstNightSteps(g)
  <2>1. \/ s.at \in {1, 2}
        \/ \E i \in 1 .. 9 : s \in Wake(i + 2, FirstNightOrder[i],
                                        Holders(g.role, {FirstNightOrder[i]}),
                                        DrunkShown(g, FirstNightOrder[i]))
    BY <1>3 DEF FirstNightSteps
  <2> QED BY <1>1, <2>1
<1>4. CASE s \in OtherNightSteps(g)
  <2>1. \/ \E i \in (1 .. 11) \ {4, 5, 6} : s \in OtherActor(g, i, OtherNightOrder[i])
        \/ s \in ImpStep(g) \/ s.at \in {4, 6}
    BY <1>4 DEF OtherNightSteps, ChangeStep
  <2>2. s \in ImpStep(g) => s.at = 5
    BY <1>2 DEF ImpStep, RoleStep
  <2> QED BY <1>2, <2>1, <2>2
<1> QED BY <1>3, <1>4

(***************************************************************************)
(* The step that comes is for whom it should be, worked out from the facts *)
(* of the moment (nextStepAfter).                                          *)
(***************************************************************************)
LEMMA NextEntitled ==
  ASSUME NEW g, Seating(g), People(g), Timely(g), InNight(g),
         NextStep(g, g.step.at) # NoStep
  PROVE  /\ Entitled(g, NextStep(g, g.step.at))
         /\ NextStep(g, g.step.at).at > g.step.at
<1> DEFINE after == {x \in Steps(g) : x.at > g.step.at}
           s == FirstStep(after)
<1>1. s = NextStep(g, g.step.at) /\ after # {}
  BY DEF NextStep
<1>2. \A x \in Steps(g) : x.at \in Nat
  BY StepPlaces DEF Steps
<1>3. s \in after
  BY <1>1, <1>2, FirstStepThere
<1> HIDE DEF s
<1>4. CASE g.phase = "first_night"
  BY <1>1, <1>3, <1>4, FirstStepsEntitled DEF Steps, Timely
<1>5. CASE g.phase # "first_night"
  <2>0. g.phase = "other_night"
    BY <1>5 DEF InNight, Nights
  <2>1. s.at = 5 => \A t \in g.transitions : t.kind # "self_kill"
    BY <1>2, <1>3 DEF Timely
  <2>2. s \in OtherNightSteps(g)
    BY <1>3, <1>5 DEF Steps
  <2> QED BY <1>1, <1>3, <2>0, <2>1, <2>2, OtherStepsEntitled
<1> QED BY <1>4, <1>5


-----------------------------------------------------------------------------
(***************************************************************************)
(* What changes nothing but marks keeps the rest.                          *)
(***************************************************************************)
Loose == {"notices", "chosen", "bluffs", "herring", "confirmed", "raven", "info",
          "poisoned", "master", "monk", "dayNumber", "nightNumber"}
SameBut(g, e, fs) == DOMAIN e = Fields /\ \A f \in Fields \ fs : e[f] = g[f]

LEMMA WinnerSame ==
  ASSUME NEW g, NEW e, e.role = g.role, e.dead = g.dead
  PROVE  Winner(e) = Winner(g)
BY DEF Winner, Holders, Seated, Living, Seats

LEMMA MarkedSound ==
  ASSUME NEW g, Sound(g), NEW e, SameBut(g, e, Loose), Marks(e)
  PROVE  /\ Sound(e) /\ Seats(e) = Seats(g)
         /\ AtStep(g) => AtStep(e)
<1>1. /\ e.phase = g.phase /\ e.role = g.role /\ e.shown = g.shown /\ e.dead = g.dead
      /\ e.tonight = g.tonight /\ e.transitions = g.transitions
      /\ e.executed = g.executed /\ e.step = g.step /\ e.day = g.day
      /\ e.spent = g.spent /\ e.winner = g.winner /\ DOMAIN e = Fields
  BY DEF SameBut, Fields, Loose
<1>2. Shaped(e) /\ Seating(e) /\ Seats(e) = Seats(g)
  BY <1>1 DEF Sound, Shaped, Seating, Seats, Seated
<1>3. People(e)
  BY <1>1 DEF Sound, People, Living, Seats, Seated, Seat
<1>4. Timely(e) /\ Daily(e)
  BY <1>1 DEF Sound, Timely, Daily, Seats, Seated, Seat
<1>5. Ended(e)
  BY <1>1, WinnerSame DEF Sound, Ended
<1>6. AtStep(g) => AtStep(e)
  BY <1>1 DEF AtStep, InNight, Entitled, Seats, Seated
<1> QED BY <1>2, <1>3, <1>4, <1>5, <1>6 DEF Sound

LEMMA Noted ==
  ASSUME NEW g, Holds(g), NEW ns
  PROVE  /\ Holds([g EXCEPT !.notices = ns])
         /\ SameBut(g, [g EXCEPT !.notices = ns], {"notices"})
<1> DEFINE e == [g EXCEPT !.notices = ns]
<1>1. SameBut(g, e, {"notices"})
  BY DEF SameBut, Holds, Sound, Shaped
<1> HIDE DEF e
<1>2. SameBut(g, e, Loose) /\ Marks(e)
  BY <1>1 DEF SameBut, Loose, Fields, Holds, Sound, Marks, Seat, Seats, Seated
<1> QED BY <1>1, <1>2, MarkedSound DEF Holds, e

LEMMA NotifyHolds ==
  ASSUME NEW g, Holds(g)
  PROVE  Holds(Notify(g)) /\ SameBut(g, Notify(g), {"notices"})
<1>1. SameBut(g, g, {"notices"})
  BY DEF SameBut, Holds, Sound, Shaped
<1> QED BY <1>1, Noted DEF Notify

LEMMA CommitHolds ==
  ASSUME NEW g, Holds(g), Ready(g), NEW v
  PROVE  Holds(Commit(g, v)) /\ SameBut(g, Commit(g, v), {"info"})
<1> DEFINE e == Commit(g, v)
<1>1. SameBut(g, e, {"info"}) /\ e.info.to = Recipient(g)
  BY DEF SameBut, Holds, Sound, Shaped, Commit, Fields
<1>2. Recipient(g) \in Seats(g)
  <2>1. g.step # NoStep /\ g.step.kind = "role"
    BY DEF Ready, NoStep
  <2>2. PICK p \in Seats(g) : g.step.actors = {p}
    BY <2>1 DEF Holds, AtStep, Entitled
  <2>3. p \in Nat
    BY SeatNumbers DEF Holds, Sound
  <2> QED BY <2>2, <2>3, FirstOfOne DEF Recipient
<1> HIDE DEF e
<1>3. SameBut(g, e, Loose) /\ Marks(e)
  BY <1>1, <1>2 DEF SameBut, Loose, Fields, Holds, Sound, Marks, Seat, Seats, Seated
<1> QED BY <1>1, <1>3, MarkedSound DEF Holds, e

-----------------------------------------------------------------------------
(***************************************************************************)
(* A death, and whom it makes the imp.                                     *)
(***************************************************************************)
LEMMA SuccessorLives ==
  ASSUME NEW g, Seating(g), NEW p, NEW cause, Successor(g, p, cause) # None
  PROVE  Successor(g, p, cause) \in Living(g) \ {p} /\ g.role[p] = "imp"
<1> DEFINE scarlet == Holders(g.role, {"scarlet_woman"}) \ (g.dead \union {p, g.poisoned})
           minions == Holders(g.role, Minions) \ (g.dead \union {p})
<1>1. scarlet \subseteq Living(g) \ {p} /\ minions \subseteq Living(g) \ {p}
  BY DEF Holders, Living, Seats
<1>2. Living(g) \subseteq Nat
  BY SeatNumbers DEF Living
<1>3. /\ scarlet # {} => First(scarlet) \in scarlet
      /\ minions # {} => First(minions) \in minions
  BY <1>1, <1>2, FirstOfThem
<1>4. /\ g.role[p] = "imp"
      /\ \/ Successor(g, p, cause) = First(scarlet) /\ scarlet # {}
         \/ Successor(g, p, cause) = First(minions) /\ minions # {}
  BY DEF Successor, FirstOrNone
<1> QED BY <1>1, <1>3, <1>4

\* e is g with s made the imp in p's place.
Inherits(g, e, p, s, kind, from) ==
  /\ g.role[p] = "imp" /\ s \in Living(g) \ {p} /\ from \in {p, None}
  /\ e.role = [g.role EXCEPT ![s] = "imp"]
  /\ e.shown = [g.shown EXCEPT ![s] = "imp"]
  /\ e.transitions = g.transitions \union {[kind |-> kind, from |-> from, to |-> s]}

LEMMA DiesFields ==
  ASSUME NEW g, Shaped(g), Seating(g), NEW p, NEW cause
  PROVE  LET e == Dies(g, p, cause)
         IN  /\ SameBut(g, e, {"role", "shown", "dead", "transitions"})
             /\ e.dead = g.dead \union {p}
             /\ \/ e.role = g.role /\ e.shown = g.shown /\ e.transitions = g.transitions
                \/ \E s, kind, from : /\ Inherits(g, e, p, s, kind, from)
                                      /\ kind = "self_kill" => cause = "imp"
<1> DEFINE e == Dies(g, p, cause)
           s == Successor(g, p, cause)
           t == IF cause = "imp" THEN [kind |-> "self_kill", from |-> p, to |-> s]
                ELSE [kind |-> "scarlet_woman", from |-> None, to |-> s]
           h == [g EXCEPT !.dead = @ \union {p}]
           k == [h EXCEPT !.role[s] = "imp", !.shown[s] = "imp",
                          !.transitions = @ \union {t}]
<1>1. /\ SameBut(g, h, {"dead"}) /\ h.dead = g.dead \union {p}
      /\ h.role = g.role /\ h.shown = g.shown /\ h.transitions = g.transitions
  BY DEF SameBut, Shaped, Fields
<1> HIDE DEF h
<1>2. /\ SameBut(h, k, {"role", "shown", "transitions"})
      /\ k.role = [h.role EXCEPT ![s] = "imp"] /\ k.shown = [h.shown EXCEPT ![s] = "imp"]
      /\ k.transitions = h.transitions \union {t} /\ k.dead = h.dead
  BY <1>1 DEF SameBut, Fields
<1> HIDE DEF k
<1>3. e = IF s = None THEN h ELSE k
  BY DEF Dies, h, k
<1>4. CASE s = None
  BY <1>1, <1>3, <1>4 DEF SameBut
<1>5. CASE s # None
  <2>1. s \in Living(g) \ {p} /\ g.role[p] = "imp"
    BY <1>5, SuccessorLives
  <2>2. e = k /\ Inherits(g, k, p, s, t.kind, t.from) /\ (t.kind = "self_kill" => cause = "imp")
    BY <1>1, <1>2, <1>3, <1>5, <2>1 DEF Inherits
  <2> QED BY <1>1, <1>2, <2>2 DEF SameBut
<1> QED BY <1>4, <1>5

LEMMA DiesPeople ==
  ASSUME NEW g, Shaped(g), Seating(g), People(g), NEW p \in Living(g), NEW cause
  PROVE  People(Dies(g, p, cause)) /\ Seats(Dies(g, p, cause)) = Seats(g)
<1> DEFINE e == Dies(g, p, cause)
<1>1. /\ SameBut(g, e, {"role", "shown", "dead", "transitions"})
      /\ e.dead = g.dead \union {p} /\ e.tonight = g.tonight /\ e.spent = g.spent
  BY DiesFields DEF SameBut, Fields
<1>2. p \in Seats(g) /\ p \notin g.dead
  BY DEF Living
<1>3. CASE e.role = g.role /\ e.shown = g.shown /\ e.transitions = g.transitions
  <2> HIDE DEF e
  <2> QED BY <1>1, <1>2, <1>3 DEF People, Living, Seats, Seated, Seat, e
<1>4. ASSUME NEW s, NEW kind, NEW from, Inherits(g, e, p, s, kind, from)
      PROVE  People(e) /\ Seats(e) = Seats(g)
  <2> HIDE DEF e
  <2>1. /\ Seats(e) = Seats(g) /\ s \in Seats(g) /\ s # p /\ s \notin g.dead
        /\ e.role \in [Seats(g) -> Roles] /\ e.shown \in [Seats(g) -> Roles]
    BY <1>4 DEF Inherits, People, Living, Seats, Seated, Roles, Demons
  <2>2. \A q \in Seats(g) : /\ e.role[q] = IF q = s THEN "imp" ELSE g.role[q]
                            /\ e.shown[q] = IF q = s THEN "imp" ELSE g.shown[q]
    BY <1>4 DEF Inherits, People
  <2>3. \A q \in Seats(g) : e.role[q] # "drunk" => e.shown[q] = e.role[q]
    BY <2>2 DEF People
  <2>4. \A q \in Living(e) : e.role[q] = "imp" => q = s
    BY <1>1, <1>2, <1>4, <2>1, <2>2 DEF Inherits, People, Living
  <2>5. \A t \in e.transitions : /\ t.from \in Seat(g) /\ t.to \in Seats(g)
                                 /\ e.role[t.to] = "imp"
    <3>1. \A t \in g.transitions : /\ t.from \in Seat(g) /\ t.to \in Seats(g)
                                   /\ e.role[t.to] = "imp"
      BY <2>2 DEF People
    <3>2. from \in Seat(g) /\ s \in Seats(g) /\ e.role[s] = "imp"
      BY <1>2, <1>4, <2>1, <2>2 DEF Inherits, Seat
    <3> QED BY <1>4, <3>1, <3>2 DEF Inherits
  <2> QED BY <1>1, <1>2, <2>1, <2>3, <2>4, <2>5 DEF People, Seat
<1>5. e.role = g.role => Seats(e) = Seats(g)
  BY DEF Seats, Seated
<1> QED BY <1>3, <1>4, <1>5, DiesFields

(***************************************************************************)
(* The imp's attack, and what else a choice does.                          *)
(***************************************************************************)
LEMMA AttackSound ==
  ASSUME NEW g, Sound(g), g.phase = "other_night", g.step.at >= 5,
         NEW p, NEW q \in Seats(g)
  PROVE  LET e == Attack(g, p, q)
         IN  /\ Sound(e) /\ e.phase = g.phase /\ e.step = g.step
             /\ e.day = g.day /\ g.spent \subseteq e.spent
             /\ Seats(e) = Seats(g) /\ e.nightNumber = g.nightNumber
<1> DEFINE d == Dies(g, q, "imp")
           e == [d EXCEPT !.tonight = @ \union {q}]
<1>0. Shaped(g) /\ Seating(g) /\ People(g) /\ Marks(g) /\ Timely(g) /\ Daily(g) /\ Ended(g)
  BY DEF Sound
<1>1. Attack(g, p, q) = g \/ (q \in Living(g) /\ Attack(g, p, q) = e)
  BY DEF Attack, Living
<1>2. CASE q \in Living(g)
  <2>1. /\ SameBut(g, d, {"role", "shown", "dead", "transitions"})
        /\ d.dead = g.dead \union {q} /\ People(d) /\ Seats(d) = Seats(g)
    BY <1>0, <1>2, DiesFields, DiesPeople
  <2> HIDE DEF d
  <2>2. /\ SameBut(g, e, {"role", "shown", "dead", "transitions", "tonight"})
        /\ e.role = d.role /\ e.shown = d.shown /\ e.dead = d.dead
        /\ e.transitions = d.transitions /\ e.tonight = g.tonight \union {q}
        /\ d.spent = g.spent /\ d.tonight = g.tonight
    BY <2>1 DEF SameBut, Fields
  <2> HIDE DEF e
  <2>3. /\ e.phase = g.phase /\ e.step = g.step /\ e.day = g.day /\ e.spent = g.spent
        /\ e.executed = g.executed /\ e.winner = g.winner /\ e.nightNumber = g.nightNumber
        /\ e.poisoned = g.poisoned /\ e.master = g.master /\ e.monk = g.monk
        /\ e.herring = g.herring /\ e.raven = g.raven /\ e.confirmed = g.confirmed
        /\ e.dayNumber = g.dayNumber /\ e.info = g.info /\ DOMAIN e = Fields
    BY <2>2 DEF SameBut, Fields
  <2>4. Seats(e) = Seats(g) /\ Shaped(e) /\ Seating(e)
    BY <1>0, <2>1, <2>2, <2>3 DEF Seats, Seated, Shaped, Seating
  <2>5. People(e)
    BY <2>1, <2>2, <2>3, <2>4 DEF People, Living, Seat
  <2>6. Marks(e) /\ Timely(e) /\ Daily(e) /\ Ended(e)
    BY <1>0, <2>3, <2>4 DEF Marks, Timely, Daily, Ended, Seat
  <2> QED BY <1>0, <1>1, <2>3, <2>4, <2>5, <2>6 DEF Sound
<1> QED BY <1>1, <1>2


\* submitNightChoice: the effect of a choice, before the cursor advances.
LEMMA EffectSound ==
  ASSUME NEW g, Holds(g), g.step.role \in OneTarget, NEW p, ChoiceAccepted(g, p),
         NEW q \in Seats(g)
  PROVE  LET e == Effect(g, p, q)
         IN  /\ Sound(e) /\ e.phase = g.phase /\ e.step = g.step
             /\ e.day = g.day /\ g.spent \subseteq e.spent
             /\ Seats(e) = Seats(g) /\ e.nightNumber = g.nightNumber
<1>1. InNight(g) /\ g.step.kind = "role"
  BY DEF ChoiceAccepted, AsksChoice
<1>2. CASE Effect(g, p, q) = g
  BY <1>2 DEF Holds
<1>3. CASE Effect(g, p, q) = Attack(g, p, q) /\ g.step.role = "imp"
  <2>1. g.step.at = 5 /\ g.phase = "other_night"
    BY <1>1, <1>3 DEF Holds, AtStep, Entitled
  <2> QED BY <1>3, <2>1, AttackSound DEF Holds
<1>4. ASSUME NEW f \in {"poisoned", "master", "monk"},
             NEW e, SameBut(g, e, {f}), e[f] = q
      PROVE  /\ Sound(e) /\ e.phase = g.phase /\ e.step = g.step
             /\ e.day = g.day /\ g.spent \subseteq e.spent
             /\ Seats(e) = Seats(g) /\ e.nightNumber = g.nightNumber
  <2>1. SameBut(g, e, Loose)
    BY <1>4 DEF SameBut, Loose, Fields
  <2>2. Marks(e)
    BY <1>4 DEF SameBut, Loose, Fields, Holds, Sound, Marks, Seat, Seats, Seated
  <2>3. e.phase = g.phase /\ e.step = g.step /\ e.day = g.day /\ e.spent = g.spent
        /\ e.nightNumber = g.nightNumber
    BY <1>4 DEF SameBut, Fields
  <2> QED BY <2>1, <2>2, <2>3, MarkedSound DEF Holds
<1>5. \/ Effect(g, p, q) = g
      \/ Effect(g, p, q) = Attack(g, p, q) /\ g.step.role = "imp"
      \/ Effect(g, p, q) = [g EXCEPT !.poisoned = q]
      \/ Effect(g, p, q) = [g EXCEPT !.master = q]
      \/ Effect(g, p, q) = [g EXCEPT !.monk = q]
  BY DEF Effect, OneTarget
<1>6. DOMAIN g = Fields
  BY DEF Holds, Sound, Shaped
<1> DEFINE a == [g EXCEPT !.poisoned = q]
           b == [g EXCEPT !.master = q]
           c == [g EXCEPT !.monk = q]
<1>7. /\ SameBut(g, a, {"poisoned"}) /\ a["poisoned"] = q
      /\ SameBut(g, b, {"master"}) /\ b["master"] = q
      /\ SameBut(g, c, {"monk"}) /\ c["monk"] = q
  BY <1>6 DEF SameBut, Fields
<1> HIDE DEF a, b, c
<1>8. Effect(g, p, q) \in {g, a, b, c}
        \/ (Effect(g, p, q) = Attack(g, p, q) /\ g.step.role = "imp")
  BY <1>5 DEF a, b, c
<1> QED BY <1>2, <1>3, <1>4, <1>7, <1>8

-----------------------------------------------------------------------------
(***************************************************************************)
(* Dawn, dusk, and the way of the cursor.                                  *)
(***************************************************************************)
LEMMA EnterDayHolds ==
  ASSUME NEW g, Shaped(g), Seating(g), People(g), Marks(g), g.step = NoStep,
         g.executed = None, \A t \in g.transitions : t.kind # "self_kill"
  PROVE  LET e == EnterDay(g)
         IN  /\ Holds(e) /\ e.day = NewDay /\ e.spent = g.spent
             /\ Seats(e) = Seats(g) /\ e.nightNumber = g.nightNumber
<1> DEFINE e == EnterDay(g)
<1>1. /\ SameBut(g, e, {"phase", "day", "winner"})
      /\ e.phase = (IF Winner(g) = "none" THEN "day" ELSE "finished")
      /\ e.day = NewDay /\ e.winner = Winner(g)
  BY DEF EnterDay, SameBut, Shaped, Fields
<1> HIDE DEF e
<1>2. /\ e.role = g.role /\ e.shown = g.shown /\ e.dead = g.dead
      /\ e.tonight = g.tonight /\ e.transitions = g.transitions
      /\ e.executed = g.executed /\ e.step = NoStep /\ e.spent = g.spent
      /\ e.poisoned = g.poisoned /\ e.master = g.master /\ e.monk = g.monk
      /\ e.herring = g.herring /\ e.raven = g.raven /\ e.confirmed = g.confirmed
      /\ e.dayNumber = g.dayNumber /\ e.nightNumber = g.nightNumber
      /\ e.info = g.info /\ DOMAIN e = Fields
  BY <1>1 DEF SameBut, Fields
<1>3. Shaped(e) /\ Seating(e) /\ Seats(e) = Seats(g)
  <2>1. DOMAIN NewDay = DayFields /\ NewDay.ballot = NoBallot
    BY DEF NewDay, DayFields
  <2>2. DOMAIN NoBallot = BallotFields
    BY DEF NoBallot, BallotFields
  <2>3. Seats(e) = Seats(g)
    BY <1>2 DEF Seats, Seated
  <2> QED BY <1>1, <1>2, <2>1, <2>2, <2>3 DEF Shaped, Seating
<1>4. People(e) /\ Marks(e)
  BY <1>2 DEF People, Marks, Living, Seats, Seated, Seat
<1>5. Timely(e)
  BY <1>1, <1>2 DEF Timely, NoStep
<1>6. Daily(e)
  BY <1>1, <1>2 DEF Daily, NewDay, NoBallot, Seat
<1>7. Winner(e) = Winner(g) /\ Winner(g) \in {"none", "demon_dead", "two_alive"}
  BY <1>2, WinnerSame DEF Winner
<1>8. Ended(e)
  BY <1>1, <1>7 DEF Ended, Reasons
<1>9. AtStep(e)
  BY <1>1, <1>2 DEF AtStep, InNight, Nights
<1> QED BY <1>1, <1>2, <1>3, <1>4, <1>5, <1>6, <1>8, <1>9 DEF Holds, Sound, e

LEMMA DawnHolds ==
  ASSUME NEW g, Sound(g), InNight(g)
  PROVE  LET e == Dawn(g)
         IN  /\ Holds(e) /\ e.day = NewDay /\ e.spent = g.spent
             /\ Seats(e) = Seats(g) /\ e.nightNumber = g.nightNumber
<1> DEFINE over == [g EXCEPT !.dayNumber = @ + 1, !.step = NoStep, !.info = NoInfo]
           imps == {t.to : t \in g.transitions}
           k == [over EXCEPT
                  !.role = [p \in Seats(g) |-> IF p \in imps THEN "imp" ELSE @[p]],
                  !.shown = [p \in Seats(g) |-> IF p \in imps THEN "imp" ELSE @[p]],
                  !.tonight = {}, !.transitions = {}, !.executed = None, !.monk = None,
                  !.raven = None]
<1>0. Shaped(g) /\ Seating(g) /\ People(g) /\ Marks(g) /\ Timely(g)
  BY DEF Sound
<1>1. /\ SameBut(g, over, {"dayNumber", "step", "info"})
      /\ over.dayNumber = g.dayNumber + 1 /\ over.step = NoStep /\ over.info = NoInfo
  BY <1>0 DEF SameBut, Shaped, Fields
<1>2. Dawn(g) = IF g.phase = "first_night" THEN EnterDay(over) ELSE EnterDay(k)
  BY DEF Dawn
<1> HIDE DEF over
<1>3. /\ over.role = g.role /\ over.shown = g.shown /\ over.dead = g.dead
      /\ over.tonight = g.tonight /\ over.transitions = g.transitions
      /\ over.executed = g.executed /\ over.spent = g.spent /\ over.day = g.day
      /\ over.poisoned = g.poisoned /\ over.master = g.master /\ over.monk = g.monk
      /\ over.herring = g.herring /\ over.raven = g.raven /\ over.confirmed = g.confirmed
      /\ over.nightNumber = g.nightNumber /\ DOMAIN over = Fields
  BY <1>1 DEF SameBut, Fields
<1>4. CASE g.phase = "first_night"
  <2>1. over.transitions = {} /\ over.executed = None
    BY <1>0, <1>3, <1>4 DEF Timely
  <2>2. Shaped(over) /\ Seating(over) /\ Seats(over) = Seats(g)
    BY <1>0, <1>3 DEF Shaped, Seating, Seats, Seated
  <2>3. People(over) /\ Marks(over)
    BY <1>0, <1>1, <1>3 DEF People, Marks, Living, Seats, Seated, Seat
  <2> QED BY <1>1, <1>2, <1>3, <1>4, <2>1, <2>2, <2>3, EnterDayHolds
<1>5. CASE g.phase # "first_night"
  <2>1. /\ SameBut(over, k, {"role", "shown", "tonight", "transitions", "executed",
                             "monk", "raven"})
        /\ k.role = [p \in Seats(g) |-> IF p \in imps THEN "imp" ELSE g.role[p]]
        /\ k.shown = [p \in Seats(g) |-> IF p \in imps THEN "imp" ELSE g.shown[p]]
        /\ k.tonight = {} /\ k.transitions = {} /\ k.executed = None /\ k.monk = None
        /\ k.raven = None
    BY <1>3 DEF SameBut, Fields
  <2> HIDE DEF k
  <2>2. \A p \in imps : p \in Seats(g) /\ g.role[p] = "imp" /\ g.shown[p] = "imp"
    BY <1>0 DEF People
  <2>3. k.role = g.role /\ k.shown = g.shown
    BY <1>0, <2>1, <2>2 DEF People
  <2>4. /\ k.dead = g.dead /\ k.spent = g.spent /\ k.day = g.day
        /\ k.poisoned = g.poisoned /\ k.master = g.master /\ k.herring = g.herring
        /\ k.confirmed = g.confirmed /\ k.nightNumber = g.nightNumber
        /\ k.dayNumber = over.dayNumber /\ k.step = NoStep /\ k.info = NoInfo
        /\ DOMAIN k = Fields
    BY <1>1, <1>3, <2>1 DEF SameBut, Fields
  <2>5. Shaped(k) /\ Seating(k) /\ Seats(k) = Seats(g)
    BY <1>0, <2>3, <2>4 DEF Shaped, Seating, Seats, Seated
  <2>6. People(k) /\ Marks(k)
    BY <1>0, <1>1, <2>1, <2>3, <2>4 DEF People, Marks, Living, Seats, Seated, Seat
  <2> QED BY <1>2, <1>5, <2>1, <2>4, <2>5, <2>6, EnterDayHolds
<1> QED BY <1>4, <1>5

LEMMA StepTaken ==
  ASSUME NEW g, Sound(g), InNight(g), NEW e, SameBut(g, e, {"step", "info"}),
         Entitled(g, e.step), e.step.at > g.step.at, e.info \in {g.info, NoInfo}
  PROVE  /\ Holds(e) /\ e.day = g.day /\ e.spent = g.spent
         /\ Seats(e) = Seats(g) /\ e.nightNumber = g.nightNumber
<1>1. /\ e.role = g.role /\ e.shown = g.shown /\ e.dead = g.dead /\ e.phase = g.phase
      /\ e.tonight = g.tonight /\ e.transitions = g.transitions /\ e.winner = g.winner
      /\ e.executed = g.executed /\ e.spent = g.spent /\ e.day = g.day
      /\ e.poisoned = g.poisoned /\ e.master = g.master /\ e.monk = g.monk
      /\ e.herring = g.herring /\ e.raven = g.raven /\ e.confirmed = g.confirmed
      /\ e.dayNumber = g.dayNumber /\ e.nightNumber = g.nightNumber /\ DOMAIN e = Fields
  BY DEF SameBut, Fields
<1>2. Shaped(e) /\ Seating(e) /\ Seats(e) = Seats(g)
  BY <1>1 DEF Sound, Shaped, Seating, Seats, Seated
<1>3. People(e) /\ Marks(e)
  BY <1>1 DEF Sound, People, Marks, Living, Seats, Seated, Seat
<1>4. e.step.at \in Nat
  BY DEF Entitled, StepOf
<1>5. Timely(e)
  BY <1>1, <1>4 DEF Sound, Timely
<1>6. Daily(e)
  BY <1>1, <1>2 DEF Sound, Daily, Seat
<1>7. Ended(e)
  BY <1>1, WinnerSame DEF Sound, Ended
<1>8. AtStep(e)
  BY <1>1, <1>2 DEF AtStep, InNight, Entitled
<1> QED BY <1>1, <1>2, <1>3, <1>5, <1>6, <1>7, <1>8 DEF Holds, Sound

\* advanceCurrentNightStep and the start of a night: the next step, or dawn.
LEMMA AdvanceHolds ==
  ASSUME NEW g, Sound(g), InNight(g)
  PROVE  LET e == Advance(g)
         IN  /\ Holds(e) /\ e.day \in {g.day, NewDay} /\ e.spent = g.spent
             /\ Seats(e) = Seats(g) /\ e.nightNumber = g.nightNumber
<1> DEFINE s == NextStep(g, g.step.at)
           e == [g EXCEPT !.step = s, !.info = NoInfo]
<1>1. CASE s = NoStep
  BY <1>1, DawnHolds DEF Advance
<1>2. CASE s # NoStep
  <2>1. Entitled(g, s) /\ s.at > g.step.at
    BY <1>2, NextEntitled DEF Sound
  <2> HIDE DEF s
  <2>2. SameBut(g, e, {"step", "info"}) /\ e.step = s /\ e.info = NoInfo
    BY DEF SameBut, Sound, Shaped, Fields
  <2>3. Advance(g) = e
    BY <1>2 DEF Advance, s
  <2> HIDE DEF e
  <2> QED BY <2>1, <2>2, <2>3, StepTaken
<1> QED BY <1>1, <1>2

LEMMA BegunHolds ==
  ASSUME NEW g, Sound(g), g.step = NoStep, g.phase \in {"role_reveal", "day"},
         g.day.ballot = NoBallot, NEW night \in Nights,
         night = "first_night" => g.phase = "role_reveal"
  PROVE  LET e == Begun(g, night)
         IN  /\ Holds(e) /\ e.day \in {g.day, NewDay} /\ e.spent = g.spent
             /\ Seats(e) = Seats(g) /\ e.nightNumber = g.nightNumber
<1> DEFINE h == [g EXCEPT !.phase = night]
           s == NextStep(h, 0)
           e == [h EXCEPT !.step = s]
<1>1. SameBut(g, h, {"phase"}) /\ h.phase = night
  BY DEF SameBut, Sound, Shaped, Fields
<1>2. Begun(g, night) = IF s = NoStep THEN Dawn(h) ELSE e
  BY DEF Begun
<1> HIDE DEF h
<1>3. /\ h.role = g.role /\ h.shown = g.shown /\ h.dead = g.dead /\ h.step = g.step
      /\ h.tonight = g.tonight /\ h.transitions = g.transitions /\ h.winner = g.winner
      /\ h.executed = g.executed /\ h.spent = g.spent /\ h.day = g.day
      /\ h.poisoned = g.poisoned /\ h.master = g.master /\ h.monk = g.monk
      /\ h.herring = g.herring /\ h.raven = g.raven /\ h.confirmed = g.confirmed
      /\ h.dayNumber = g.dayNumber /\ h.nightNumber = g.nightNumber
      /\ h.info = g.info /\ DOMAIN h = Fields
  BY <1>1 DEF SameBut, Fields
<1>4. Shaped(h) /\ Seating(h) /\ Seats(h) = Seats(g)
  BY <1>3 DEF Sound, Shaped, Seating, Seats, Seated
<1>5. People(h) /\ Marks(h)
  BY <1>3 DEF Sound, People, Marks, Living, Seats, Seated, Seat
<1>6. Timely(h)
  BY <1>1, <1>3 DEF Sound, Timely, Nights
<1>7. Daily(h)
  BY <1>1, <1>3, <1>4 DEF Sound, Daily, Seat, Nights
<1>8. Ended(h)
  BY <1>1, <1>3 DEF Sound, Ended, Nights
<1>9. Sound(h) /\ InNight(h) /\ h.step.at = 0
  BY <1>1, <1>3, <1>4, <1>5, <1>6, <1>7, <1>8 DEF Sound, InNight, NoStep
<1>10. CASE s = NoStep
  BY <1>2, <1>3, <1>4, <1>9, <1>10, DawnHolds
<1>11. CASE s # NoStep
  <2>1. Entitled(h, s) /\ s.at > h.step.at
    BY <1>9, <1>11, NextEntitled DEF Sound
  <2> HIDE DEF s
  <2>2. SameBut(h, e, {"step", "info"}) /\ e.step = s /\ e.info = h.info
    BY <1>3 DEF SameBut, Fields
  <2> HIDE DEF e
  <2> QED BY <1>2, <1>3, <1>4, <1>9, <1>11, <2>1, <2>2, StepTaken
<1> QED BY <1>10, <1>11

-----------------------------------------------------------------------------
(***************************************************************************)
(* The day.                                                                *)
(***************************************************************************)
\* What changes nothing but the day and the spent votes.
LEMMA DayChanged ==
  ASSUME NEW g, Holds(g), NEW e, SameBut(g, e, {"day", "spent"}),
         DOMAIN e.day = DayFields, DOMAIN e.day.ballot = BallotFields,
         e.spent \subseteq g.dead, Daily(e)
  PROVE  /\ Holds(e) /\ Seats(e) = Seats(g) /\ e.nightNumber = g.nightNumber
         /\ e.dead = g.dead
<1>1. /\ e.role = g.role /\ e.shown = g.shown /\ e.dead = g.dead /\ e.phase = g.phase
      /\ e.tonight = g.tonight /\ e.transitions = g.transitions /\ e.winner = g.winner
      /\ e.executed = g.executed /\ e.step = g.step
      /\ e.poisoned = g.poisoned /\ e.master = g.master /\ e.monk = g.monk
      /\ e.herring = g.herring /\ e.raven = g.raven /\ e.confirmed = g.confirmed
      /\ e.dayNumber = g.dayNumber /\ e.nightNumber = g.nightNumber
      /\ e.info = g.info /\ DOMAIN e = Fields
  BY DEF SameBut, Fields
<1>2. Shaped(e) /\ Seating(e) /\ Seats(e) = Seats(g)
  BY <1>1 DEF Holds, Sound, Shaped, Seating, Seats, Seated
<1>3. People(e) /\ Marks(e)
  BY <1>1 DEF Holds, Sound, People, Marks, Living, Seats, Seated, Seat
<1>4. Timely(e)
  BY <1>1 DEF Holds, Sound, Timely
<1>5. Ended(e)
  BY <1>1, WinnerSame DEF Holds, Sound, Ended
<1>6. AtStep(e)
  BY <1>1, <1>2 DEF Holds, AtStep, InNight, Entitled
<1> QED BY <1>1, <1>2, <1>3, <1>4, <1>5, <1>6 DEF Holds, Sound

LEMMA NoBallotShaped == DOMAIN NoBallot = BallotFields /\ NoBallot.yes \subseteq NoBallot.voted
BY DEF NoBallot, BallotFields

LEMMA TalliedHolds ==
  ASSUME NEW g, Holds(g), g.phase = "day", g.day.ballot # NoBallot
  PROVE  LET e == Tallied(g)
         IN  /\ Holds(e) /\ Seats(e) = Seats(g) /\ e.nightNumber = g.nightNumber
             /\ e.dead = g.dead /\ e.day.ballot = NoBallot
             /\ e.spent = g.spent \union (Counted(g) \intersect g.dead)
<1> DEFINE n == Cardinality(Living(g))
           tally == [of |-> g.day.ballot.of, count |-> Cardinality(Counted(g)),
                     threshold |-> (n + 1) \div 2]
           e == [g EXCEPT !.day.tallies = @ \union {tally}, !.day.ballot = NoBallot,
                          !.spent = @ \union (Counted(g) \intersect g.dead)]
<1>1. e = Tallied(g) /\ tally.of = g.day.ballot.of
  BY DEF Tallied
<1> HIDE DEF tally
<1>2. /\ SameBut(g, e, {"day", "spent"}) /\ DOMAIN e.day = DayFields
      /\ e.spent = g.spent \union (Counted(g) \intersect g.dead)
  BY DEF SameBut, Holds, Sound, Shaped, Fields, DayFields
<1>3. /\ e.day.tallies = g.day.tallies \union {tally} /\ e.day.ballot = NoBallot
      /\ e.day.nominators = g.day.nominators /\ e.day.nominees = g.day.nominees
      /\ e.day.closed = g.day.closed /\ e.day.execution = g.day.execution
  BY DEF Holds, Sound, Shaped, Fields, DayFields
<1> HIDE DEF e
<1>4. e.role = g.role /\ e.phase = g.phase /\ e.executed = g.executed
  BY <1>2 DEF SameBut, Fields
<1>5. Daily(e)
  BY <1>1, <1>3, <1>4, NoBallotShaped DEF Holds, Sound, Daily, Seat, Seats, Seated
<1>6. e.spent \subseteq g.dead
  BY <1>2 DEF Holds, Sound, People
<1> QED BY <1>1, <1>2, <1>3, <1>5, <1>6, NoBallotShaped, DayChanged

Nominated(g, p, q) ==
  [g EXCEPT !.day.nominators = @ \union {p}, !.day.nominees = @ \union {q},
            !.day.ballot = [NoBallot EXCEPT !.by = p, !.of = q]]

LEMMA NominatedHolds ==
  ASSUME NEW g, Holds(g), NEW p, NEW q \in Seats(g), NominationAccepted(g, p, q)
  PROVE  LET e == Nominated(g, p, q)
         IN  /\ Holds(e) /\ Seats(e) = Seats(g) /\ e.nightNumber = g.nightNumber
             /\ e.dead = g.dead /\ e.spent = g.spent
<1> DEFINE b == [NoBallot EXCEPT !.by = p, !.of = q]
           e == [g EXCEPT !.day.nominators = @ \union {p}, !.day.nominees = @ \union {q},
                          !.day.ballot = b]
<1>1. b.by = p /\ b.of = q /\ b.yes \subseteq b.voted /\ DOMAIN b = BallotFields
  BY DEF NoBallot, BallotFields
<1>2. e = Nominated(g, p, q)
  BY DEF Nominated
<1> HIDE DEF b
<1>3. SameBut(g, e, {"day", "spent"}) /\ e.spent = g.spent /\ DOMAIN e.day = DayFields
  BY DEF SameBut, Holds, Sound, Shaped, Fields, DayFields
<1>4. /\ e.day.tallies = g.day.tallies /\ e.day.ballot = b
      /\ e.day.nominators = g.day.nominators \union {p}
      /\ e.day.nominees = g.day.nominees \union {q}
      /\ e.day.closed = g.day.closed /\ e.day.execution = g.day.execution
  BY DEF Holds, Sound, Shaped, Fields, DayFields
<1> HIDE DEF e
<1>5. e.role = g.role /\ e.phase = g.phase /\ e.executed = g.executed
  BY <1>3 DEF SameBut, Fields
<1>6. Daily(e)
  BY <1>1, <1>4, <1>5 DEF Holds, Sound, Daily, Seat, Seats, Seated, NominationAccepted, Living
<1>7. e.spent \subseteq g.dead
  BY <1>3 DEF Holds, Sound, People
<1> QED BY <1>1, <1>2, <1>3, <1>4, <1>6, <1>7, DayChanged

Voted(g, p, approve) ==
  [g EXCEPT !.day.ballot.voted = @ \union {p},
            !.day.ballot.yes = IF approve THEN @ \union {p} ELSE @]

LEMMA VotedHolds ==
  ASSUME NEW g, Holds(g), NEW p, NEW approve \in BOOLEAN, VoteAccepted(g, p)
  PROVE  LET e == Voted(g, p, approve)
         IN  /\ Holds(e) /\ Seats(e) = Seats(g) /\ e.nightNumber = g.nightNumber
             /\ e.dead = g.dead /\ e.spent = g.spent /\ e.day.ballot # NoBallot
<1> DEFINE yes == IF approve THEN g.day.ballot.yes \union {p} ELSE g.day.ballot.yes
           b == [g.day.ballot EXCEPT !.voted = @ \union {p}, !.yes = yes]
           e == [g EXCEPT !.day.ballot = b]
<1>1. /\ b.by = g.day.ballot.by /\ b.of = g.day.ballot.of /\ b.yes \subseteq b.voted
      /\ DOMAIN b = BallotFields /\ p \in b.voted
  BY DEF Holds, Sound, Shaped, Daily, BallotFields
<1>2. e = Voted(g, p, approve)
  BY DEF Voted, Holds, Sound, Shaped, Fields, DayFields, BallotFields
<1> HIDE DEF b
<1>3. SameBut(g, e, {"day", "spent"}) /\ e.spent = g.spent /\ DOMAIN e.day = DayFields
  BY DEF SameBut, Holds, Sound, Shaped, Fields, DayFields
<1>4. /\ e.day.tallies = g.day.tallies /\ e.day.ballot = b
      /\ e.day.nominators = g.day.nominators /\ e.day.nominees = g.day.nominees
      /\ e.day.closed = g.day.closed /\ e.day.execution = g.day.execution
  BY DEF Holds, Sound, Shaped, Fields, DayFields
<1> HIDE DEF e
<1>5. e.role = g.role /\ e.phase = g.phase /\ e.executed = g.executed
  BY <1>3 DEF SameBut, Fields
<1>6. Daily(e)
  BY <1>1, <1>4, <1>5 DEF Holds, Sound, Daily, Seat, Seats, Seated, VoteAccepted
<1>7. e.spent \subseteq g.dead
  BY <1>3 DEF Holds, Sound, People
<1>8. b # NoBallot
  BY <1>1 DEF NoBallot
<1> QED BY <1>1, <1>2, <1>3, <1>4, <1>6, <1>7, <1>8, DayChanged

\* The one the day leads to the block is at the table, if there is one.
LEMMA LeaderSeated ==
  ASSUME NEW g, Daily(g)
  PROVE  Leader(g) \in Seat(g)
<1> DEFINE enough == {t \in g.day.tallies : t.count >= t.threshold}
           leaders == {t \in enough : \A u \in enough : u.count <= t.count}
<1>1. CASE Cardinality(leaders) = 1
  <2>1. leaders # {}
    BY <1>1, FS_EmptySet
  <2>2. (CHOOSE t \in leaders : TRUE) \in leaders
    BY <2>1
  <2>3. \A t \in leaders : t.of \in Seats(g)
    BY DEF Daily
  <2> QED BY <1>1, <2>2, <2>3 DEF Leader, Seat
<1>2. CASE Cardinality(leaders) # 1
  BY <1>2 DEF Leader, Seat
<1> QED BY <1>1, <1>2

\* The execution: who dies by it, and what it makes of the others.
LEMMA ExecutedSound ==
  ASSUME NEW g, Shaped(g), Seating(g), People(g), g.executed = None,
         \A t \in g.transitions : t.kind # "self_kill", NEW p \in Seats(g)
  PROVE  LET e == Executed(g, p)
         IN  /\ SameBut(g, e, {"role", "shown", "dead", "transitions", "executed"})
             /\ People(e) /\ Seats(e) = Seats(g) /\ e.executed \in {p, None}
             /\ \A t \in e.transitions : t.kind # "self_kill"
             /\ g.role[p] = "saint" /\ e.executed # None => e.role[p] = "saint"
<1>0. p # None
  BY SeatNumbers
<1> DEFINE d == Dies(g, p, "execution")
           e == [d EXCEPT !.executed = p]
<1>1. CASE p \in g.dead
  <2>1. SameBut(g, g, {"role", "shown", "dead", "transitions", "executed"})
    BY DEF SameBut, Shaped
  <2> QED BY <1>1, <2>1 DEF Executed
<1>2. CASE p \notin g.dead
  <2>1. p \in Living(g)
    BY <1>2 DEF Living
  <2>2. SameBut(g, d, {"role", "shown", "dead", "transitions"})
    BY DiesFields
  <2>3. People(d) /\ Seats(d) = Seats(g)
    BY <2>1, DiesPeople
  <2>4. /\ \A t \in d.transitions : t.kind # "self_kill"
        /\ g.role[p] = "saint" => d.role = g.role
    <3>1. \/ d.role = g.role /\ d.shown = g.shown /\ d.transitions = g.transitions
          \/ \E s, kind, from : /\ Inherits(g, d, p, s, kind, from)
                                /\ kind = "self_kill" => "execution" = "imp"
      BY DiesFields
    <3> HIDE DEF d
    <3>2. ASSUME NEW s, NEW kind, NEW from, Inherits(g, d, p, s, kind, from),
                 kind # "self_kill"
          PROVE  (\A t \in d.transitions : t.kind # "self_kill") /\ g.role[p] # "saint"
      BY <3>2 DEF Inherits
    <3> QED BY <3>1, <3>2
  <2> HIDE DEF d
  <2>5. /\ SameBut(d, e, {"executed"}) /\ e.executed = p /\ e.role = d.role
        /\ e.shown = d.shown /\ e.dead = d.dead /\ e.transitions = d.transitions
        /\ e.tonight = d.tonight /\ e.spent = d.spent
    BY <2>2 DEF SameBut, Fields
  <2>6. e = Executed(g, p)
    BY <1>2 DEF Executed, d
  <2> HIDE DEF e
  <2>7. SameBut(g, e, {"role", "shown", "dead", "transitions", "executed"})
    BY <2>2, <2>5 DEF SameBut
  <2>8. People(e) /\ Seats(e) = Seats(g)
    BY <2>3, <2>5 DEF People, Living, Seats, Seated, Seat
  <2> QED BY <2>4, <2>5, <2>6, <2>7, <2>8
<1> QED BY <1>1, <1>2

\* closeDay, the execution and the end it may bring.
LEMMA ClosedHolds ==
  ASSUME NEW g, Holds(g), g.phase = "day", ~g.day.closed, g.day.ballot = NoBallot
  PROVE  LET e == Closed(g)
         IN  /\ Holds(e) /\ Seats(e) = Seats(g) /\ e.nightNumber = g.nightNumber
             /\ e.spent = g.spent /\ e.day.ballot = NoBallot
<1> DEFINE p == Leader(g)
           h == [g EXCEPT !.day.closed = TRUE, !.day.execution = p]
           k == IF p = None THEN h ELSE Executed(h, p)
           saint == k.executed # None /\ g.role[p] = "saint" /\ g.poisoned # p
           w == IF saint THEN "saint_executed" ELSE Winner(k)
           e == [k EXCEPT !.winner = w, !.phase = IF w = "none" THEN @ ELSE "finished"]
<1>0. e = Closed(g)
  BY DEF Closed
<1>1. /\ Shaped(g) /\ Seating(g) /\ People(g) /\ Marks(g) /\ Timely(g) /\ Daily(g)
      /\ Ended(g) /\ g.executed = None /\ p \in Seat(g)
  BY LeaderSeated DEF Holds, Sound, Daily
<1> HIDE DEF p
<1>2. /\ SameBut(g, h, {"day"}) /\ DOMAIN h.day = DayFields /\ h.day.closed = TRUE
      /\ h.day.execution = p /\ h.day.nominators = g.day.nominators
      /\ h.day.nominees = g.day.nominees /\ h.day.ballot = NoBallot
      /\ h.day.tallies = g.day.tallies
  BY <1>1 DEF SameBut, Shaped, Fields, DayFields
<1> HIDE DEF h
<1>3. /\ h.role = g.role /\ h.shown = g.shown /\ h.dead = g.dead /\ h.phase = g.phase
      /\ h.tonight = g.tonight /\ h.transitions = g.transitions /\ h.spent = g.spent
      /\ h.executed = None /\ DOMAIN h = Fields
  BY <1>1, <1>2 DEF SameBut, Fields
<1>4. Shaped(h) /\ Seating(h) /\ Seats(h) = Seats(g)
  BY <1>1, <1>2, <1>3, NoBallotShaped DEF Shaped, Seating, Seats, Seated
<1>5. People(h)
  BY <1>1, <1>3 DEF People, Living, Seats, Seated, Seat
<1>6. \A t \in h.transitions : t.kind # "self_kill"
  BY <1>1, <1>3 DEF Timely
<1>7. /\ SameBut(h, k, {"role", "shown", "dead", "transitions", "executed"})
      /\ People(k) /\ Seats(k) = Seats(g) /\ k.executed \in {p, None}
      /\ \A t \in k.transitions : t.kind # "self_kill"
      /\ g.role[p] = "saint" /\ k.executed # None => k.role[p] = "saint"
  <2>1. CASE p = None
    BY <1>3, <1>4, <1>5, <1>6, <2>1 DEF SameBut
  <2>2. CASE p # None
    BY <1>1, <1>3, <1>4, <1>5, <1>6, <2>2, ExecutedSound DEF Seat
  <2> QED BY <2>1, <2>2
<1> HIDE DEF k
<1>8. /\ SameBut(k, e, {"winner", "phase"}) /\ e.winner = w
      /\ e.phase = (IF w = "none" THEN "day" ELSE "finished")
  BY <1>3, <1>7 DEF SameBut, Fields
<1>9. /\ saint => k.executed = p /\ k.role[p] = "saint"
      /\ w = (IF saint THEN "saint_executed" ELSE Winner(k)) /\ saint \in BOOLEAN
  BY <1>7
<1> HIDE DEF w, saint
<1> HIDE DEF e
<1>10. /\ e.role = k.role /\ e.shown = k.shown /\ e.dead = k.dead
       /\ e.transitions = k.transitions /\ e.executed = k.executed
       /\ e.tonight = g.tonight /\ e.spent = g.spent /\ e.day = h.day
       /\ e.poisoned = g.poisoned /\ e.master = g.master /\ e.monk = g.monk
       /\ e.herring = g.herring /\ e.raven = g.raven /\ e.confirmed = g.confirmed
       /\ e.dayNumber = g.dayNumber /\ e.nightNumber = g.nightNumber
       /\ e.info = g.info /\ e.step = g.step /\ DOMAIN e = Fields
       /\ k.tonight = g.tonight /\ k.spent = g.spent
  BY <1>2, <1>7, <1>8 DEF SameBut, Fields
<1>11. Shaped(e) /\ Seating(e) /\ Seats(e) = Seats(g)
  <2>1. Seats(e) = Seats(g)
    BY <1>7, <1>10 DEF Seats, Seated
  <2> QED BY <1>1, <1>2, <1>10, <2>1, NoBallotShaped DEF Shaped, Seating
<1>12. People(e)
  BY <1>7, <1>10, <1>11 DEF People, Living, Seat
<1>13. Marks(e)
  BY <1>1, <1>7, <1>10, <1>11 DEF Marks, Seat
<1>14. Timely(e)
  BY <1>1, <1>7, <1>8, <1>10 DEF Timely
<1>15. Daily(e)
  BY <1>1, <1>2, <1>10, <1>11, NoBallotShaped DEF Daily, Seat
<1>16. Winner(e) = Winner(k) /\ Winner(k) \in {"none", "demon_dead", "two_alive"}
  BY <1>10, WinnerSame DEF Winner
<1>17. Ended(e)
  BY <1>8, <1>9, <1>10, <1>16 DEF Ended, Reasons
<1>18. AtStep(e)
  BY <1>1, <1>8, <1>10 DEF Holds, AtStep, InNight, Nights
<1>19. e.day.ballot = NoBallot
  BY <1>2, <1>10
<1> QED BY <1>0, <1>10, <1>11, <1>12, <1>13, <1>14, <1>15, <1>17, <1>18, <1>19 DEF Holds, Sound

\* beginOtherNight first closes a day on which nobody nominated.
LEMMA DayOverHolds ==
  ASSUME NEW g, Holds(g), g.phase = "day", DayOver(g).day.closed
  PROVE  LET e == DayOver(g)
         IN  /\ Holds(e) /\ Seats(e) = Seats(g) /\ e.nightNumber = g.nightNumber
             /\ e.spent = g.spent /\ e.day.ballot = NoBallot
<1>1. g.day.nominators = {} \/ g.day.closed => g.day.ballot = NoBallot
  BY DEF Holds, Sound, Daily
<1>2. CASE g.day.closed
  BY <1>1, <1>2 DEF DayOver
<1>3. CASE ~g.day.closed /\ g.day.nominators = {}
  BY <1>1, <1>3, ClosedHolds DEF DayOver
<1>4. CASE ~g.day.closed /\ g.day.nominators # {}
  BY <1>4 DEF DayOver
<1> QED BY <1>2, <1>3, <1>4

LEMMA DuskSound ==
  ASSUME NEW g, Holds(g), ~InNight(g)
  PROVE  LET e == Dusk(g)
         IN  /\ Sound(e) /\ e.step = NoStep /\ e.phase = g.phase /\ Seats(e) = Seats(g)
             /\ e.nightNumber = g.nightNumber + 1 /\ e.spent = g.spent /\ e.day = g.day
<1> DEFINE h == [g EXCEPT !.nightNumber = @ + 1, !.poisoned = None, !.master = None,
                          !.chosen = {}, !.raven = None, !.monk = None]
           e == [h EXCEPT !.tonight = {}]
<1>0. DOMAIN g = Fields
  BY DEF Holds, Sound, Shaped
<1>1. e = Dusk(g)
  BY DEF Dusk
<1>2. /\ SameBut(g, h, Loose) /\ h.nightNumber = g.nightNumber + 1
      /\ h.poisoned = None /\ h.master = None /\ h.raven = None /\ h.monk = None
      /\ h.executed = g.executed /\ h.herring = g.herring /\ h.info = g.info
      /\ h.confirmed = g.confirmed /\ h.dayNumber = g.dayNumber
  BY <1>0 DEF SameBut, Fields, Loose
<1> HIDE DEF h
<1>3. Marks(h)
  <2>1. Seats(h) = Seats(g)
    BY <1>2 DEF SameBut, Fields, Loose, Seats, Seated
  <2> QED BY <1>2, <2>1 DEF Holds, Sound, Marks, Seat
<1>4. Holds(h) /\ Seats(h) = Seats(g)
  BY <1>2, <1>3, MarkedSound DEF Holds
<1>5. SameBut(h, e, {"tonight"}) /\ e.tonight = {}
  BY <1>2 DEF SameBut, Fields
<1> HIDE DEF e
<1>6. /\ e.role = h.role /\ e.shown = h.shown /\ e.dead = h.dead /\ e.phase = h.phase
      /\ e.transitions = h.transitions /\ e.winner = h.winner
      /\ e.executed = h.executed /\ e.step = h.step /\ e.spent = h.spent
      /\ e.day = h.day /\ e.poisoned = h.poisoned /\ e.master = h.master
      /\ e.monk = h.monk /\ e.herring = h.herring /\ e.raven = h.raven
      /\ e.confirmed = h.confirmed /\ e.dayNumber = h.dayNumber
      /\ e.nightNumber = h.nightNumber /\ e.info = h.info /\ DOMAIN e = Fields
  BY <1>5 DEF SameBut, Fields
<1>7. Shaped(e) /\ Seating(e) /\ Seats(e) = Seats(h)
  BY <1>4, <1>6 DEF Holds, Sound, Shaped, Seating, Seats, Seated
<1>8. People(e) /\ Marks(e)
  BY <1>4, <1>5, <1>6 DEF Holds, Sound, People, Marks, Living, Seats, Seated, Seat
<1>9. Timely(e) /\ Daily(e)
  BY <1>4, <1>6, <1>7 DEF Holds, Sound, Timely, Daily, Seat
<1>10. Ended(e)
  BY <1>4, <1>6, WinnerSame DEF Holds, Sound, Ended
<1>11. /\ h.phase = g.phase /\ h.spent = g.spent /\ h.day = g.day /\ h.step = g.step
       /\ g.step = NoStep
  BY <1>2 DEF SameBut, Fields, Loose, Holds, AtStep
<1> QED BY <1>1, <1>2, <1>4, <1>6, <1>7, <1>8, <1>9, <1>10, <1>11 DEF Sound

-----------------------------------------------------------------------------
(***************************************************************************)
(* The commands. Each makes of the game one that is as sound, at the same  *)
(* table; no vote that was spent comes back, and a ballot of the day ends  *)
(* only with the votes of the dead it counts spent.                        *)
(***************************************************************************)
Leads(g, h) ==
  /\ Holds(h) /\ Seats(h) = Seats(g) /\ g.spent \subseteq h.spent
  /\ g.day.ballot # NoBallot /\ h.day.ballot = NoBallot =>
       Counted(g) \intersect g.dead \subseteq h.spent

LEMMA MarkedLeads ==
  ASSUME NEW g, Holds(g), NEW e, SameBut(g, e, Loose), Marks(e)
  PROVE  Leads(g, e)
<1>1. e.day = g.day /\ e.spent = g.spent
  BY DEF SameBut, Fields, Loose
<1> QED BY <1>1, MarkedSound DEF Holds, Leads

\* One of the marks set to a player of the table, or to whatever is no player's.
LEMMA MarkSet ==
  ASSUME NEW g, Holds(g), NEW p \in Seats(g), NEW v
  PROVE  /\ Leads(g, [g EXCEPT !.confirmed = @ \union {p}])
         /\ Leads(g, [g EXCEPT !.herring = p])
         /\ Leads(g, [g EXCEPT !.raven = p])
         /\ Leads(g, [g EXCEPT !.chosen = v])
         /\ [g EXCEPT !.confirmed = @ \union {p}].nightNumber = g.nightNumber
         /\ [g EXCEPT !.herring = p].nightNumber = g.nightNumber
         /\ [g EXCEPT !.raven = p].nightNumber = g.nightNumber
         /\ [g EXCEPT !.chosen = v].nightNumber = g.nightNumber
<1> DEFINE a == [g EXCEPT !.confirmed = @ \union {p}]
           b == [g EXCEPT !.herring = p]
           c == [g EXCEPT !.raven = p]
           d == [g EXCEPT !.chosen = v]
<1>1. /\ SameBut(g, a, {"confirmed"}) /\ a.confirmed = g.confirmed \union {p}
      /\ SameBut(g, b, {"herring"}) /\ b.herring = p
      /\ SameBut(g, c, {"raven"}) /\ c.raven = p
      /\ SameBut(g, d, {"chosen"})
  BY DEF SameBut, Fields, Holds, Sound, Shaped
<1> HIDE DEF a, b, c, d
<1>2. \A e \in {a, b, c, d} : SameBut(g, e, Loose)
  BY <1>1 DEF SameBut, Fields, Loose
<1>3. Marks(a)
  BY <1>1 DEF SameBut, Fields, Holds, Sound, Marks, Seat, Seats, Seated
<1>4. Marks(b)
  BY <1>1 DEF SameBut, Fields, Holds, Sound, Marks, Seat, Seats, Seated
<1>5. Marks(c)
  BY <1>1 DEF SameBut, Fields, Holds, Sound, Marks, Seat, Seats, Seated
<1>6. Marks(d)
  BY <1>1 DEF SameBut, Fields, Holds, Sound, Marks, Seat, Seats, Seated
<1>7. Leads(g, a) /\ Leads(g, b) /\ Leads(g, c) /\ Leads(g, d)
  BY <1>2, <1>3, <1>4, <1>5, <1>6, MarkedLeads
<1>8. \A e \in {a, b, c, d} : e.nightNumber = g.nightNumber
  BY <1>1 DEF SameBut, Fields
<1> QED BY <1>7, <1>8 DEF a, b, c, d

LEMMA NoBallotAtNight ==
  ASSUME NEW g, Holds(g), g.phase # "day" \/ g.day.closed
  PROVE  g.day.ballot = NoBallot
BY DEF Holds, Sound, Daily

LEMMA NewDayEmpty == NewDay.ballot = NoBallot
BY DEF NewDay

LEMMA FirstNightLeads ==
  ASSUME NEW g, Holds(g), g.phase = "role_reveal", NEW b, NEW p \in Seat(g)
  PROVE  LET e == Begun([g EXCEPT !.nightNumber = 1, !.bluffs = b, !.herring = p],
                        "first_night")
         IN  Leads(g, e) /\ e.nightNumber = 1
<1> DEFINE h == [g EXCEPT !.nightNumber = 1, !.bluffs = b, !.herring = p]
<1>1. /\ SameBut(g, h, {"nightNumber", "bluffs", "herring"})
      /\ h.nightNumber = 1 /\ h.herring = p
  BY DEF SameBut, Fields, Holds, Sound, Shaped
<1> HIDE DEF h
<1>2. SameBut(g, h, Loose)
  BY <1>1 DEF SameBut, Fields, Loose
<1>3. Marks(h)
  BY <1>1 DEF SameBut, Fields, Holds, Sound, Marks, Seat, Seats, Seated
<1>4. Holds(h) /\ Seats(h) = Seats(g)
  BY <1>2, <1>3, MarkedSound DEF Holds
<1>5. /\ h.phase = "role_reveal" /\ h.spent = g.spent /\ g.day.ballot = NoBallot
      /\ h.day = g.day
  BY <1>1, NoBallotAtNight DEF SameBut, Fields
<1>6. h.step = NoStep
  BY <1>4, <1>5 DEF Holds, AtStep, InNight, Nights
<1>7. LET e == Begun(h, "first_night")
      IN  Holds(e) /\ e.spent = h.spent /\ Seats(e) = Seats(h) /\ e.nightNumber = 1
  BY <1>1, <1>4, <1>5, <1>6, BegunHolds DEF Holds, Nights
<1>8. Leads(g, Begun(h, "first_night")) /\ Begun(h, "first_night").nightNumber = 1
  BY <1>4, <1>5, <1>7 DEF Leads
<1> QED BY <1>8 DEF h

LEMMA ChoiceLeads ==
  ASSUME NEW g, Holds(g), g.step.role \in OneTarget, ChoiceAccepted(g, Recipient(g)),
         NEW q \in Seats(g)
  PROVE  LET e == Advance(Effect(g, Recipient(g), q))
         IN  Leads(g, e) /\ e.nightNumber = g.nightNumber
<1> DEFINE h == Effect(g, Recipient(g), q)
<1>1. /\ Sound(h) /\ h.phase = g.phase /\ g.spent \subseteq h.spent
      /\ Seats(h) = Seats(g) /\ h.nightNumber = g.nightNumber
  BY EffectSound
<1>2. InNight(h) /\ g.day.ballot = NoBallot
  BY <1>1, NoBallotAtNight DEF ChoiceAccepted, InNight, Nights
<1> HIDE DEF h
<1>3. LET e == Advance(h)
      IN  Holds(e) /\ e.spent = h.spent /\ Seats(e) = Seats(h) /\ e.nightNumber = h.nightNumber
  BY <1>1, <1>2, AdvanceHolds
<1> QED BY <1>1, <1>2, <1>3 DEF Leads, h

LEMMA AdvanceLeads ==
  ASSUME NEW g, Holds(g), InNight(g)
  PROVE  Leads(g, Advance(g)) /\ Advance(g).nightNumber = g.nightNumber
<1>1. g.day.ballot = NoBallot
  BY NoBallotAtNight DEF InNight, Nights
<1> QED BY <1>1, AdvanceHolds DEF Leads, Holds

LEMMA AcknowledgedLeads ==
  ASSUME NEW g, Holds(g), InNight(g), NEW v
  PROVE  LET e == [Advance(g) EXCEPT !.chosen = v]
         IN  Leads(g, e) /\ e.nightNumber = g.nightNumber
<1> DEFINE h == Advance(g)
           e == [h EXCEPT !.chosen = v]
<1>1. Leads(g, h) /\ h.nightNumber = g.nightNumber
  BY AdvanceLeads
<1> HIDE DEF h
<1>2. Holds(h) /\ Seats(h) = Seats(g) /\ g.day.ballot = NoBallot
  BY <1>1, NoBallotAtNight DEF Leads, InNight, Nights
<1>3. SameBut(h, e, {"chosen"})
  BY <1>2 DEF SameBut, Fields, Holds, Sound, Shaped
<1> HIDE DEF e
<1>4. SameBut(h, e, Loose) /\ e.nightNumber = h.nightNumber /\ e.spent = h.spent
  BY <1>3 DEF SameBut, Fields, Loose
<1>5. Marks(e)
  BY <1>2, <1>3 DEF SameBut, Fields, Holds, Sound, Marks, Seat, Seats, Seated
<1>6. Holds(e) /\ Seats(e) = Seats(h)
  BY <1>2, <1>4, <1>5, MarkedSound DEF Holds
<1> QED BY <1>1, <1>2, <1>4, <1>6 DEF Leads, e, h

LEMMA OtherNightLeads ==
  ASSUME NEW g, Holds(g), g.phase = "day",
         DayOver(g).phase = "day", DayOver(g).day.closed
  PROVE  LET e == Begun(Dusk(DayOver(g)), "other_night")
         IN  Leads(g, e) /\ e.nightNumber = g.nightNumber + 1
<1> DEFINE h == DayOver(g)
           k == Dusk(h)
<1>1. /\ Holds(h) /\ Seats(h) = Seats(g) /\ h.nightNumber = g.nightNumber
      /\ h.spent = g.spent /\ h.day.ballot = NoBallot
  BY DayOverHolds
<1>2. g.day.ballot = NoBallot
  BY NoBallotAtNight DEF DayOver, Holds, Sound, Daily
<1>3. h.phase = "day" /\ ~InNight(h)
  BY DEF InNight, Nights
<1> HIDE DEF h
<1>4. /\ Sound(k) /\ k.step = NoStep /\ k.phase = "day" /\ Seats(k) = Seats(h)
      /\ k.nightNumber = h.nightNumber + 1 /\ k.spent = h.spent /\ k.day = h.day
  BY <1>1, <1>3, DuskSound
<1> HIDE DEF k
<1>5. LET e == Begun(k, "other_night")
      IN  /\ Holds(e) /\ e.spent = k.spent /\ Seats(e) = Seats(k)
          /\ e.nightNumber = k.nightNumber
  BY <1>1, <1>4, BegunHolds DEF Nights
<1> QED BY <1>1, <1>2, <1>4, <1>5 DEF Leads, h, k

LEMMA DayLeads ==
  ASSUME NEW g, Holds(g), g.phase = "day"
  PROVE  /\ g.day.ballot # NoBallot => /\ Leads(g, Tallied(g))
                                       /\ Tallied(g).nightNumber = g.nightNumber
         /\ g.day.ballot = NoBallot /\ ~g.day.closed =>
              Leads(g, Closed(g)) /\ Closed(g).nightNumber = g.nightNumber
         /\ \A p : \A q \in Seats(g) : NominationAccepted(g, p, q) =>
              /\ Leads(g, Nominated(g, p, q))
              /\ Nominated(g, p, q).nightNumber = g.nightNumber
         /\ \A p : \A approve \in BOOLEAN : VoteAccepted(g, p) =>
              /\ Leads(g, Voted(g, p, approve))
              /\ Voted(g, p, approve).nightNumber = g.nightNumber
<1>1. ASSUME g.day.ballot # NoBallot
      PROVE  Leads(g, Tallied(g)) /\ Tallied(g).nightNumber = g.nightNumber
  BY <1>1, TalliedHolds DEF Leads
<1>2. ASSUME g.day.ballot = NoBallot, ~g.day.closed
      PROVE  Leads(g, Closed(g)) /\ Closed(g).nightNumber = g.nightNumber
  BY <1>2, ClosedHolds DEF Leads
<1>3. ASSUME NEW p, NEW q \in Seats(g), NominationAccepted(g, p, q)
      PROVE  Leads(g, Nominated(g, p, q)) /\ Nominated(g, p, q).nightNumber = g.nightNumber
  BY <1>3, NominatedHolds DEF Leads, NominationAccepted
<1>4. ASSUME NEW p, NEW approve \in BOOLEAN, VoteAccepted(g, p)
      PROVE  Leads(g, Voted(g, p, approve)) /\ Voted(g, p, approve).nightNumber = g.nightNumber
  BY <1>4, VotedHolds DEF Leads
<1> QED BY <1>1, <1>2, <1>3, <1>4

-----------------------------------------------------------------------------
(***************************************************************************)
(* The invariant of the specification.                                     *)
(***************************************************************************)
\* The bounds of the deal are of players at the table.
Bounded ==
  /\ table.nights \in Nat \ {0} /\ game.nightNumber <= table.nights
  /\ table.targets \subseteq Seats(game) /\ table.callers \subseteq Seats(game)

\* Whose vote was counted after its death has it spent.
GhostsSpent ==
  /\ past.counted \in [Seats(game) -> Nat]
  /\ \A p \in Seats(game) :
       past.counted[p] <= 1 /\ (past.counted[p] = 1 => p \in game.spent)

GameInv == Holds(game) /\ Bounded /\ GhostsSpent

\* What a command makes of the game, before what is due of it.
Led == \E h : Leads(game, h) /\ h.nightNumber <= table.nights /\ Accept(h)

LEMMA CreatedHolds ==
  ASSUME NEW d, IsDeal(d)
  PROVE  Holds(Created(d)) /\ Seats(Created(d)) = Seated(d.role)
<1> DEFINE e == Created(d)
           n == Cardinality(Seated(d.role))
<1>1. /\ n \in 5 .. 15 /\ d.role \in [1 .. n -> Roles] /\ d.shown \in [1 .. n -> Roles]
  BY DEF IsDeal, Drawable, LegalSetup
<1>2. Seated(d.role) = 1 .. n
  BY <1>1 DEF Seated
<1>3. \A p \in 1 .. n : d.role[p] # "drunk" => d.shown[p] = d.role[p]
  BY <1>2 DEF IsDeal, Drawable, LegalSetup
<1>4. \A p, q \in 1 .. n : p # q => d.role[p] # d.role[q]
  BY <1>2 DEF IsDeal, Drawable, LegalSetup
<1> HIDE DEF n
<1>5. /\ e.phase = "role_reveal" /\ e.role = d.role /\ e.shown = d.shown
      /\ e.confirmed = {} /\ e.dayNumber = 0 /\ e.nightNumber = 0 /\ e.dead = {}
      /\ e.tonight = {} /\ e.transitions = {} /\ e.executed = None /\ e.poisoned = None
      /\ e.master = None /\ e.monk = None /\ e.herring = None /\ e.raven = None
      /\ e.step = NoStep /\ e.info = NoInfo /\ e.day = NewDay /\ e.spent = {}
      /\ e.winner = "none" /\ DOMAIN e = Fields
  BY DEF Created, Fields
<1> HIDE DEF e
<1>6. Seats(e) = 1 .. n
  BY <1>1, <1>2, <1>5 DEF Seats
<1>7. /\ DOMAIN NewDay = DayFields /\ NewDay.ballot = NoBallot
      /\ NewDay.nominators = {} /\ NewDay.nominees = {} /\ NewDay.tallies = {}
      /\ NewDay.closed = FALSE /\ NewDay.execution = None
  BY DEF NewDay, DayFields
<1>8. Shaped(e) /\ Seating(e)
  BY <1>1, <1>5, <1>6, <1>7, NoBallotShaped DEF Shaped, Seating
<1>9. People(e)
  BY <1>1, <1>3, <1>4, <1>5, <1>6 DEF People, Living
<1>10. Marks(e)
  BY <1>5 DEF Marks, Seat
<1>11. Timely(e)
  BY <1>5 DEF Timely, NoStep
<1>12. Daily(e)
  BY <1>5, <1>7, NoBallotShaped DEF Daily, Seat
<1>13. Ended(e)
  BY <1>5 DEF Ended, Reasons
<1>14. AtStep(e)
  BY <1>5 DEF AtStep, InNight, Nights
<1> QED BY <1>2, <1>6, <1>8, <1>9, <1>10, <1>11, <1>12, <1>13, <1>14 DEF Holds, Sound, e

LEMMA InitSound == Init => GameInv
<1> SUFFICES ASSUME Init PROVE GameInv
  OBVIOUS
<1>1. PICK d \in Deals :
        /\ table = [auto |-> d.auto, nights |-> d.nights, nominations |-> d.nominations,
                    targets |-> d.targets, callers |-> d.callers, bluffs |-> d.bluffs]
        /\ game = Created(d)
        /\ past.counted = [p \in Seated(d.role) |-> 0]
  BY DEF Init
<1>2. IsDeal(d)
  BY DealsAssumption
<1>3. Holds(game) /\ Seats(game) = Seated(d.role)
  BY <1>1, <1>2, CreatedHolds
<1>4. game.nightNumber = 0
  BY <1>1 DEF Created
<1>5. Bounded
  BY <1>1, <1>2, <1>3, <1>4 DEF Bounded, IsDeal
<1>6. GhostsSpent
  BY <1>1, <1>3 DEF GhostsSpent
<1> QED BY <1>3, <1>5, <1>6 DEF GameInv

\* handleCommand commits the information that is due and the notices of the step:
\* nothing else of the game changes by it.
LEMMA AcceptKeeps ==
  ASSUME NEW h, Holds(h), Accept(h)
  PROVE  /\ Holds(game') /\ SameBut(h, game', {"notices", "info"})
         /\ Remember /\ table' = table
<1>1. PICK k : /\ k = h \/ (Ready(h) /\ \E v : k = Commit(h, v))
               /\ game' = Notify(k)
  BY DEF Accept, DecisionDue
<1>2. Holds(k) /\ SameBut(h, k, {"info"})
  <2>1. SameBut(h, h, {"info"})
    BY DEF SameBut, Holds, Sound, Shaped
  <2> QED BY <1>1, <2>1, CommitHolds
<1>3. Holds(Notify(k)) /\ SameBut(k, Notify(k), {"notices"})
  BY <1>2, NotifyHolds
<1>4. SameBut(h, Notify(k), {"notices", "info"})
  BY <1>2, <1>3 DEF SameBut
<1> QED BY <1>1, <1>3, <1>4 DEF Accept

LEMMA LedKeeps ==
  ASSUME GameInv, Led
  PROVE  GameInv'
<1>1. PICK h : Leads(game, h) /\ h.nightNumber <= table.nights /\ Accept(h)
  BY DEF Led
<1>2. PICK g : g = game
  OBVIOUS
<1>3. PICK e : e = game'
  OBVIOUS
<1>4. /\ Holds(e) /\ SameBut(h, e, {"notices", "info"}) /\ Remember /\ table' = table
  BY <1>1, <1>3, AcceptKeeps DEF Leads
<1>5. /\ e.role = h.role /\ e.spent = h.spent /\ e.day = h.day
      /\ e.nightNumber = h.nightNumber
  BY <1>4 DEF SameBut, Fields
<1>6. Seats(e) = Seats(g) /\ g.spent \subseteq e.spent /\ e.nightNumber <= table.nights
  BY <1>1, <1>2, <1>5 DEF Leads, Seats
<1>7. Holds(game)'
  BY <1>3, <1>4
<1>8. Bounded'
  BY <1>2, <1>3, <1>4, <1>6 DEF GameInv, Bounded
<1>9. GhostsSpent'
  <2> DEFINE tallied == g.day.ballot # NoBallot /\ e.day.ballot = NoBallot
             ghosts == IF tallied THEN Counted(g) \intersect g.dead ELSE {}
  <2>1. past'.counted = [p \in Seats(g) |-> past.counted[p] + IF p \in ghosts THEN 1 ELSE 0]
    BY <1>2, <1>3, <1>4 DEF Remember
  <2>2. ghosts \subseteq e.spent /\ ghosts \intersect g.spent = {}
    BY <1>1, <1>2, <1>5 DEF Leads, Counted
  <2> HIDE DEF ghosts
  <2>3. GhostsSpent
    BY DEF GameInv
  <2>4. \A p \in Seats(g) :
          /\ past'.counted[p] \in Nat /\ past'.counted[p] <= 1
          /\ past'.counted[p] = 1 => p \in e.spent
    BY <1>2, <1>6, <2>1, <2>2, <2>3 DEF GhostsSpent
  <2>5. past'.counted \in [Seats(g) -> Nat]
    BY <2>1, <2>4
  <2> QED BY <1>2, <1>3, <1>6, <2>4, <2>5 DEF GhostsSpent
<1> QED BY <1>7, <1>8, <1>9 DEF GameInv

\* The one a step of a role is for is at the table.
LEMMA InNightAtStep ==
  ASSUME NEW g, Holds(g), g.step # NoStep
  PROVE  InNight(g)
BY DEF Holds, AtStep

LEMMA StepLed ==
  ASSUME GameInv, Next
  PROVE  Led
<1>1. PICK g : g = game
  OBVIOUS
<1>2. Holds(g) /\ g.nightNumber <= table.nights /\ 1 <= table.nights
      /\ g.nightNumber \in Nat
  BY <1>1 DEF GameInv, Bounded, Holds, Sound, Marks
<1>3. ASSUME NEW p, ConfirmRole(p) PROVE Led
  <2>1. p \in Seats(g) /\ Accept([g EXCEPT !.confirmed = @ \union {p}])
    BY <1>1, <1>3 DEF ConfirmRole
  <2> DEFINE h == [g EXCEPT !.confirmed = @ \union {p}]
  <2>2. Leads(g, h) /\ h.nightNumber = g.nightNumber
    BY <1>2, <2>1, MarkSet
  <2> QED BY <1>1, <1>2, <2>1, <2>2 DEF Led
<1>4. ASSUME NEW p, SetRedHerring(p) PROVE Led
  <2>1. p \in Seats(g) /\ Accept([g EXCEPT !.herring = p])
    BY <1>1, <1>4 DEF SetRedHerring, HerringCandidates, Holders, Seats
  <2> DEFINE h == [g EXCEPT !.herring = p]
  <2>2. Leads(g, h) /\ h.nightNumber = g.nightNumber
    BY <1>2, <2>1, MarkSet
  <2> QED BY <1>1, <1>2, <2>1, <2>2 DEF Led
<1>5. ASSUME BeginFirstNight PROVE Led
  <2>1. PICK b, p : /\ p \in Herrings(g) /\ g.phase = "role_reveal"
                    /\ Accept(Begun([g EXCEPT !.nightNumber = 1, !.bluffs = b,
                                              !.herring = p], "first_night"))
    BY <1>1, <1>5 DEF BeginFirstNight
  <2>2. p \in Seat(g)
    BY <1>2, <2>1 DEF Herrings, HerringCandidates, Holders, Seat, Seats, Holds, Sound, Marks
  <2> DEFINE h == Begun([g EXCEPT !.nightNumber = 1, !.bluffs = b, !.herring = p],
                        "first_night")
  <2>3. Leads(g, h) /\ h.nightNumber = 1
    BY <1>2, <2>1, <2>2, FirstNightLeads
  <2> QED BY <1>1, <1>2, <2>1, <2>3 DEF Led
<1>6. ASSUME NEW q, NightChoice(q) PROVE Led
  <2>1. /\ g.step.role \in OneTarget /\ ChoiceAccepted(g, Recipient(g)) /\ q \in Seats(g)
        /\ Accept(Advance(Effect(g, Recipient(g), q)))
    BY <1>1, <1>6 DEF NightChoice, Allowed
  <2> DEFINE h == Advance(Effect(g, Recipient(g), q))
  <2>2. Leads(g, h) /\ h.nightNumber = g.nightNumber
    BY <1>2, <2>1, ChoiceLeads
  <2> QED BY <1>1, <1>2, <2>1, <2>2 DEF Led
<1>7. ASSUME NEW q, RavenkeeperChoice(q) PROVE Led
  <2>1. q \in Seats(g) /\ Accept([g EXCEPT !.raven = q])
    BY <1>1, <1>7 DEF RavenkeeperChoice
  <2> DEFINE h == [g EXCEPT !.raven = q]
  <2>2. Leads(g, h) /\ h.nightNumber = g.nightNumber
    BY <1>2, <2>1, MarkSet
  <2> QED BY <1>1, <1>2, <2>1, <2>2 DEF Led
<1>8. ASSUME NEW q, NEW r, FortuneTellerChoice(q, r) PROVE Led
  <2>1. q \in Seats(g) /\ Accept([g EXCEPT !.chosen = {q, r}])
    BY <1>1, <1>8 DEF FortuneTellerChoice
  <2> DEFINE h == [g EXCEPT !.chosen = {q, r}]
  <2>2. Leads(g, h) /\ h.nightNumber = g.nightNumber
    BY <1>2, <2>1, MarkSet
  <2> QED BY <1>1, <1>2, <2>1, <2>2 DEF Led
<1>9. CASE CommitNightInformation
  <2>1. PICK v : Ready(g) /\ Accept(Commit(g, v))
    BY <1>1, <1>9 DEF CommitNightInformation, CommitAccepted
  <2> DEFINE h == Commit(g, v)
  <2>2. Holds(h) /\ SameBut(g, h, {"info"})
    BY <1>2, <2>1, CommitHolds
  <2> HIDE DEF h
  <2>3. Leads(g, h) /\ h.nightNumber = g.nightNumber
    BY <2>2 DEF SameBut, Fields, Leads, Seats
  <2> QED BY <1>1, <1>2, <2>1, <2>3 DEF Led, h
<1>10. CASE AcknowledgeNightInformation
  <2>1. PICK told : g.step # NoStep /\ Accept([Advance(g) EXCEPT !.chosen = told])
    BY <1>1, <1>10 DEF AcknowledgeNightInformation
  <2> DEFINE h == [Advance(g) EXCEPT !.chosen = told]
  <2>2. Leads(g, h) /\ h.nightNumber = g.nightNumber
    BY <1>2, <2>1, InNightAtStep, AcknowledgedLeads
  <2> QED BY <1>1, <1>2, <2>1, <2>2 DEF Led
<1>11. CASE CompleteNightStep
  <2>1. InNight(g) /\ Accept(Advance(g))
    BY <1>1, <1>11 DEF CompleteNightStep, CompletionAccepted
  <2> QED BY <1>1, <1>2, <2>1, AdvanceLeads DEF Led
<1>12. ASSUME NEW p, NEW q, Nominate(p, q) PROVE Led
  <2>1. /\ NominationAccepted(g, p, q) /\ q \in Seats(g) /\ g.phase = "day"
        /\ Accept(Nominated(g, p, q))
    BY <1>1, <1>12 DEF Nominate, Nominated, GameInv, Bounded, NominationAccepted
  <2> DEFINE h == Nominated(g, p, q)
  <2>2. Leads(g, h) /\ h.nightNumber = g.nightNumber
    BY <1>2, <2>1, DayLeads
  <2> QED BY <1>1, <1>2, <2>1, <2>2 DEF Led
<1>13. ASSUME NEW p, NEW approve \in BOOLEAN, Vote(p, approve) PROVE Led
  <2>1. VoteAccepted(g, p) /\ g.phase = "day" /\ Accept(Voted(g, p, approve))
    BY <1>1, <1>13 DEF Vote, Voted, VoteAccepted
  <2> DEFINE h == Voted(g, p, approve)
  <2>2. Leads(g, h) /\ h.nightNumber = g.nightNumber
    BY <1>2, <2>1, DayLeads
  <2> QED BY <1>1, <1>2, <2>1, <2>2 DEF Led
<1>14. CASE FinishVote
  <2>1. g.phase = "day" /\ g.day.ballot # NoBallot /\ Accept(Tallied(g))
    BY <1>1, <1>14 DEF FinishVote
  <2> QED BY <1>1, <1>2, <2>1, DayLeads DEF Led
<1>15. CASE CloseDay
  <2>1. g.phase = "day" /\ g.day.ballot = NoBallot /\ ~g.day.closed /\ Accept(Closed(g))
    BY <1>1, <1>15 DEF CloseDay
  <2> QED BY <1>1, <1>2, <2>1, DayLeads DEF Led
<1>16. CASE BeginOtherNight
  <2>1. /\ g.phase = "day" /\ g.nightNumber < table.nights
        /\ DayOver(g).phase = "day" /\ DayOver(g).day.closed
        /\ Accept(Begun(Dusk(DayOver(g)), "other_night"))
    BY <1>1, <1>16 DEF BeginOtherNight
  <2> DEFINE h == Begun(Dusk(DayOver(g)), "other_night")
  <2>2. Leads(g, h) /\ h.nightNumber = g.nightNumber + 1
    BY <1>2, <2>1, OtherNightLeads
  <2>3. h.nightNumber <= table.nights
    BY <1>2, <2>1, <2>2 DEF GameInv, Bounded
  <2> QED BY <1>1, <2>1, <2>2, <2>3 DEF Led
<1> QED BY <1>3, <1>4, <1>5, <1>6, <1>7, <1>8, <1>9, <1>10, <1>11, <1>12, <1>13,
           <1>14, <1>15, <1>16 DEF Next

\* Every state of every run satisfies the invariant.
THEOREM GameInvariance == Spec => []GameInv
<1>1. GameInv /\ [Next]_vars => GameInv'
  <2>1. CASE Next
    BY <2>1, StepLed, LedKeeps
  <2>2. CASE UNCHANGED vars
    BY <2>2 DEF vars, GameInv, Bounded, GhostsSpent
  <2> QED BY <2>1, <2>2
<1> QED BY InitSound, <1>1, PTL DEF Spec

-----------------------------------------------------------------------------
(***************************************************************************)
(* What follows from the invariant.                                        *)
(***************************************************************************)
\* Every field of the game stays in its domain, and a night step is active exactly
\* in a night.
THEOREM TypeCorrect == Spec => []TypeOK
<1>1. GameInv => TypeOK
  <2> SUFFICES ASSUME GameInv PROVE TypeOK
    OBVIOUS
  <2>1. Holds(game) /\ game.nightNumber \in 0 .. table.nights
    BY DEF GameInv, Bounded, Holds, Sound, Marks
  <2>2. game.info.to \in Seat(game)
    BY <2>1 DEF Holds, Sound, Marks, NoInfo, Seat
  <2>3. game.step \in Step /\ (game.step = NoStep <=> ~InNight(game))
    <3>1. CASE InNight(game)
      <4>1. game.step \in StepOf(Seats(game))
        BY <2>1, <3>1 DEF Holds, AtStep, Entitled
      <4> QED BY <3>1, <4>1 DEF StepOf, Step, NoStep
    <3>2. CASE ~InNight(game)
      <4>1. game.step = NoStep
        BY <2>1, <3>2 DEF Holds, AtStep
      <4> QED BY <3>2, <4>1 DEF NoStep, Step
    <3> QED BY <3>1, <3>2
  <2>4. /\ \A p \in {game.executed, game.poisoned, game.master, game.monk, game.herring,
                     game.raven, game.day.execution, game.info.to} : IsSeat(p)
        /\ \A t \in game.transitions : IsSeat(t.from) /\ t.to \in Seats(game)
    BY <2>1, <2>2 DEF Holds, Sound, Marks, People, Daily, IsSeat, Seat
  <2>5. /\ game.phase \in Nights \union {"role_reveal", "day", "finished"}
        /\ game.winner \in Reasons /\ (game.winner = "none" <=> game.phase # "finished")
        /\ game.day.nominators \union game.day.nominees \subseteq Seats(game)
        /\ game.day.ballot.yes \subseteq game.day.ballot.voted
    BY <2>1 DEF Holds, Sound, Timely, Ended, Daily
  <2>6. /\ game.role \in [Seats(game) -> Roles] /\ game.shown \in [Seats(game) -> Roles]
        /\ game.confirmed \subseteq Seats(game) /\ game.tonight \subseteq game.dead
        /\ game.dead \subseteq Seats(game) /\ game.spent \subseteq game.dead
        /\ game.dayNumber \in Nat
    BY <2>1 DEF Holds, Sound, People, Marks
  <2> QED BY <2>1, <2>3, <2>4, <2>5, <2>6 DEF TypeOK
<1> QED BY <1>1, GameInvariance, PTL

\* A game that is decided is over and one that is over is decided rightly: the
\* night ends in enterDay and the day in closeDay, and both look for a winner after
\* the last death and the last change of a character.
THEOREM DecidedStaysOver == Spec => []DecidedIsOver
<1>1. GameInv => DecidedIsOver
  <2> SUFFICES ASSUME GameInv PROVE DecidedIsOver
    OBVIOUS
  <2> DEFINE imps == Holders(game.role, {"imp"}) \ game.dead
  <2>1. Holds(game)
    BY DEF GameInv
  <2>2. Cardinality(imps) <= 1
    <3>1. \A p, q \in imps : p = q
      BY <2>1 DEF Holds, Sound, People, Holders, Living, Seats
    <3>2. CASE imps = {}
      BY <3>2, FS_EmptySet
    <3>3. CASE imps # {}
      <4>1. PICK p : imps = {p}
        BY <3>1, <3>3
      <4>2. Cardinality({p}) = 1
        BY FS_Singleton
      <4> QED BY <4>1, <4>2
    <3> QED BY <3>2, <3>3
  <2>3. Cardinality(Living(game)) \in Nat
    <3>1. IsFiniteSet(Seats(game))
      BY <2>1, SeatNumbers DEF Holds, Sound
    <3>2. IsFiniteSet(Living(game))
      BY <3>1, FS_Subset DEF Living
    <3> QED BY <3>2, FS_CardinalityType
  <2>4. Winner(game) = (IF imps = {} THEN "demon_dead"
                        ELSE IF Cardinality(Living(game)) <= 2 THEN "two_alive" ELSE "none")
    BY DEF Winner
  <2> HIDE DEF imps
  <2>5. /\ game.phase = "day" => imps # {} /\ Cardinality(Living(game)) > 2
        /\ game.winner = "demon_dead" => imps = {}
        /\ game.winner = "two_alive" => imps # {} /\ Cardinality(Living(game)) <= 2
        /\ game.winner = "saint_executed" => game.role[game.executed] = "saint"
    BY <2>1, <2>3, <2>4 DEF Holds, Sound, Ended
  <2> QED BY <2>2, <2>5 DEF DecidedIsOver, imps
<1> QED BY <1>1, GameInvariance, PTL

\* The dead vote once: of no player more than one vote is counted after its death,
\* since finishVote spends every vote of the dead it counts, counts none that is
\* spent, and no command gives one back.
THEOREM DeadVoteOnce == Spec => []GhostVoteOnce
<1>1. GameInv => GhostVoteOnce
  BY DEF GameInv, GhostsSpent, GhostVoteOnce
<1> QED BY <1>1, GameInvariance, PTL

\* A step of the night is for one who holds its role or believes to, and lives, but
\* for the ravenkeeper who died tonight: however the facts change under the cursor,
\* the step that comes is worked out from the facts of the moment. It is one of the
\* two halves of NightWakes.
THEOREM OnlyTheEntitled == Spec => []OnlyTheEntitledAct
<1>1. GameInv => OnlyTheEntitledAct
  <2> SUFFICES ASSUME GameInv, game.step.kind = "role",
                      NEW p \in game.step.actors
               PROVE  /\ game.shown[p] = game.step.role
                      /\ p \in game.dead => /\ game.step.role = "ravenkeeper"
                                            /\ p \in game.tonight
    BY DEF OnlyTheEntitledAct
  <2>1. AtStep(game)
    BY DEF GameInv, Holds
  <2>2. InNight(game)
    BY <2>1 DEF AtStep, NoStep
  <2>3. Entitled(game, game.step)
    BY <2>1, <2>2 DEF AtStep
  <2> QED BY <2>3 DEF Entitled
<1> QED BY <1>1, GameInvariance, PTL

-----------------------------------------------------------------------------
(***************************************************************************)
(* What is shown: the game BotcViews alters beside one player.             *)
(***************************************************************************)

\* What p is told, and the day, are alike in g and in h.
Alike(g, p, h) ==
  /\ DOMAIN h.role = Seats(g) /\ h.shown[p] = g.shown[p]
  /\ Woken(g, p) /\ g.step.role \in {"minion_info", "demon_info"} => h.role = g.role
  /\ Woken(g, p) /\ g.step.role = "demon_info" => h.bluffs = g.bluffs
  /\ Woken(g, p) => h.chosen = g.chosen /\ h.raven = g.raven
  /\ Woken(g, p) \/ ~InNight(g) => h.step = g.step
  /\ ~Woken(g, p) /\ InNight(g) => p \notin h.step.actors
  /\ h.info.to = p <=> g.info.to = p
  /\ g.info.to = p => h.info = g.info
  /\ h.dead \ h.tonight = g.dead \ g.tonight
  /\ ~InNight(g) => h.dead = g.dead
  /\ h.phase = g.phase /\ h.confirmed = g.confirmed /\ h.spent = g.spent
  /\ h.dayNumber = g.dayNumber /\ h.nightNumber = g.nightNumber
  /\ h.winner = g.winner
  /\ h.day.nominators = g.day.nominators /\ h.day.nominees = g.day.nominees
  /\ h.day.tallies = g.day.tallies /\ h.day.closed = g.day.closed
  /\ h.day.execution = g.day.execution
  /\ h.day.ballot.by = g.day.ballot.by /\ h.day.ballot.of = g.day.ballot.of
  /\ h.day.ballot.voted = g.day.ballot.voted
  /\ h.day.ballot = NoBallot <=> g.day.ballot = NoBallot

\* Altered keeps whom it is for, what that player is told, and the day.
LEMMA AlteredKeeps ==
  ASSUME NEW g, Holds(g), NEW p \in Seats(g), NEW h, h = Altered(g, p)
  PROVE  Alike(g, p, h)
<1>. DEFINE woken == Woken(g, p)
            evil == woken /\ g.step.role \in {"minion_info", "demon_info"}
            open == g.dead \ g.tonight
            tonight == IF InNight(g) THEN (Seats(g) \ open) \ g.tonight ELSE g.tonight
            voted == g.day.ballot.voted
            Moved(f, mine) == [q \in Seats(g) |-> IF q = p THEN mine
                                            ELSE f[Next1(q, Cardinality(Seats(g)))]]
            role == IF evil THEN g.role ELSE Moved(g.role, g.shown[p])
            shown == Moved(g.shown, g.shown[p])
            dead == open \union tonight
            bluffs == IF woken /\ g.step.role = "demon_info" THEN g.bluffs ELSE {}
            chosen == IF woken THEN g.chosen ELSE {}
            raven == IF woken THEN g.raven ELSE p
            step == IF woken \/ ~InNight(g) THEN g.step
                    ELSE RoleStep(1, "spy", First(Others(g, p)), "shown_drunk")
            info == IF g.info.to = p THEN g.info ELSE NoInfo
            yes == (voted \ g.day.ballot.yes) \ {p}
<1>1. h = [g EXCEPT
        !.role = role, !.shown = shown, !.tonight = tonight, !.dead = dead,
        !.poisoned = IF g.poisoned = p THEN None ELSE p,
        !.master = IF g.master = p THEN None ELSE p,
        !.monk = IF g.monk = p THEN None ELSE p,
        !.herring = IF g.herring = p THEN None ELSE p,
        !.bluffs = bluffs, !.chosen = chosen, !.raven = raven,
        !.transitions = {}, !.notices = {}, !.step = step, !.info = info,
        !.day.ballot.yes = yes]
  BY Zenon DEF Altered
<1>2. DOMAIN role = Seats(g) /\ shown[p] = g.shown[p] /\ (evil => role = g.role)
  BY DEF Seats, Seated
<1>3. dead \ tonight = g.dead \ g.tonight /\ (~InNight(g) => dead = g.dead)
  BY DEF Holds, Sound, People
<1>4. /\ woken \/ ~InNight(g) => step = g.step
      /\ ~woken /\ InNight(g) => p \notin step.actors
  <2>1. First(Others(g, p)) # p
    <3>1. Others(g, p) \subseteq Nat
      BY SeatNumbers DEF Holds, Sound, Others
    <3>2. Others(g, p) # {}
      <4>1. PICK n \in 5 .. 15 : Seats(g) = 1 .. n
        BY DEF Holds, Sound, Seating
      <4>2. 1 \in Seats(g) /\ 2 \in Seats(g)
        BY <4>1
      <4>3. QED  BY <4>2 DEF Others
    <3>3. First(Others(g, p)) \in Others(g, p)
      BY <3>1, <3>2, FirstOfThem
    <3>4. QED  BY <3>3 DEF Others
  <2>2. QED  BY <2>1 DEF RoleStep
<1>5. (info.to = p <=> g.info.to = p) /\ (g.info.to = p => info = g.info)
  BY SeatNumbers DEF Holds, Sound, NoInfo
<1>6. /\ g.day.ballot.by = None => g.day.ballot = NoBallot
      /\ g.day.ballot = NoBallot => yes = {} /\ g.day.ballot.yes = {}
  BY SeatNumbers DEF Holds, Sound, Daily, NoBallot
<1>7. /\ woken /\ g.step.role = "demon_info" => bluffs = g.bluffs
      /\ woken => chosen = g.chosen /\ raven = g.raven
  OBVIOUS
<1>8. DOMAIN g = Fields /\ DOMAIN g.day = DayFields /\ DOMAIN g.day.ballot = BallotFields
  BY DEF Holds, Sound, Shaped
<1>. HIDE DEF role, shown, tonight, dead, bluffs, chosen, raven, step, info, yes
<1>9. /\ h.role = role /\ h.shown = shown /\ h.tonight = tonight /\ h.dead = dead
      /\ h.bluffs = bluffs /\ h.chosen = chosen /\ h.raven = raven
      /\ h.step = step /\ h.info = info
      /\ h.day = [g.day EXCEPT !.ballot.yes = yes]
      /\ h.phase = g.phase /\ h.confirmed = g.confirmed /\ h.spent = g.spent
      /\ h.dayNumber = g.dayNumber /\ h.nightNumber = g.nightNumber
      /\ h.winner = g.winner
  BY <1>1, <1>8 DEF Fields
<1>10. /\ h.day.nominators = g.day.nominators /\ h.day.nominees = g.day.nominees
       /\ h.day.tallies = g.day.tallies /\ h.day.closed = g.day.closed
       /\ h.day.execution = g.day.execution
       /\ h.day.ballot = [g.day.ballot EXCEPT !.yes = yes]
  BY <1>8, <1>9 DEF DayFields
<1>11. /\ h.day.ballot.by = g.day.ballot.by /\ h.day.ballot.of = g.day.ballot.of
       /\ h.day.ballot.voted = g.day.ballot.voted
       /\ h.day.ballot.yes = yes
  BY <1>8, <1>10 DEF BallotFields
<1>12. h.day.ballot = NoBallot <=> g.day.ballot = NoBallot
  <2>1. g.day.ballot = NoBallot => h.day.ballot = NoBallot
    BY <1>6, <1>10 DEF NoBallot
  <2>2. h.day.ballot = NoBallot => g.day.ballot.by = None
    BY <1>11 DEF NoBallot
  <2>3. QED  BY <1>6, <2>1, <2>2
<1>13. QED
  BY <1>2, <1>3, <1>4, <1>5, <1>7, <1>9, <1>10, <1>11, <1>12 DEF Alike

LEMMA ViewKeepsSecrets ==
  ASSUME NEW g, Holds(g), NEW p \in Seats(g)
  PROVE  WholeView(Altered(g, p), p) = WholeView(g, p)
<1>1. PICK h : h = Altered(g, p)
  OBVIOUS
<1>2. /\ DOMAIN h.role = Seats(g) /\ h.shown[p] = g.shown[p]
      /\ Woken(g, p) /\ g.step.role \in {"minion_info", "demon_info"} => h.role = g.role
      /\ Woken(g, p) /\ g.step.role = "demon_info" => h.bluffs = g.bluffs
      /\ Woken(g, p) => h.chosen = g.chosen /\ h.raven = g.raven
      /\ Woken(g, p) \/ ~InNight(g) => h.step = g.step
      /\ ~Woken(g, p) /\ InNight(g) => p \notin h.step.actors
      /\ h.info.to = p <=> g.info.to = p
      /\ g.info.to = p => h.info = g.info
      /\ h.dead \ h.tonight = g.dead \ g.tonight
      /\ ~InNight(g) => h.dead = g.dead
      /\ h.phase = g.phase /\ h.confirmed = g.confirmed /\ h.spent = g.spent
      /\ h.day.nominators = g.day.nominators /\ h.day.nominees = g.day.nominees
      /\ h.day.closed = g.day.closed /\ h.day.ballot.voted = g.day.ballot.voted
      /\ h.day.ballot = NoBallot <=> g.day.ballot = NoBallot
  <2>1. Alike(g, p, h)
    BY <1>1, AlteredKeeps
  <2>2. QED  BY <2>1 DEF Alike
<1>3. Seats(h) = Seats(g) /\ (InNight(h) <=> InNight(g)) /\ (Woken(h, p) <=> Woken(g, p))
  BY <1>2 DEF Seats, Seated, InNight, Woken
<1>4. PlayerView(h, p) = PlayerView(g, p)
  <2>1. (p \notin PublicView(h).dead) = (p \notin PublicView(g).dead)
    BY <1>2 DEF PublicView
  <2>2. g.phase = "day" => ~InNight(g)
    BY DEF InNight, Nights
  <2>3. Woken(g, p) => ChoiceShown(h) = ChoiceShown(g)
    BY <1>2 DEF ChoiceShown
  <2>4. QED  BY <1>2, <1>3, <2>1, <2>2, <2>3 DEF PlayerView, Woken
<1>5. Woken(g, p) => NightStepView(h, p) = NightStepView(g, p)
  <2>. SUFFICES ASSUME Woken(g, p) PROVE NightStepView(h, p) = NightStepView(g, p)
    OBVIOUS
  <2>1. h.step = g.step /\ ChoiceShown(h) = ChoiceShown(g)
    BY <1>2 DEF ChoiceShown
  <2>2. Allowed(h, h.step, p) = Allowed(g, g.step, p)
    BY <1>3, <2>1 DEF Allowed
  <2>3. g.step.role = "minion_info" => MinionInfo(h, p) = MinionInfo(g, p)
    BY <1>2 DEF MinionInfo
  <2>4. g.step.role = "demon_info" => h.bluffs = g.bluffs /\ DemonInfo(h) = DemonInfo(g)
    BY <1>2 DEF DemonInfo
  <2>5. PrivateInformation(h, p) = PrivateInformation(g, p)
    BY <1>2 DEF PrivateInformation
  <2>6. QED  BY <2>1, <2>2, <2>3, <2>4, <2>5 DEF NightStepView
<1>6. WholeView(h, p) = WholeView(g, p)
  BY <1>2, <1>3, <1>4, <1>5 DEF WholeView
<1>7. QED  BY <1>1, <1>6

\* All are sent the same of the game, but for whether the step is to be gone on with.
LEMMA PublicKeepsSecrets ==
  ASSUME NEW g, Holds(g), NEW p \in Seats(g), NEW can, PublicView(g).canCompleteNightStep = can
  PROVE  [PublicFacts(Altered(g, p)) EXCEPT !.can = can] = PublicFacts(g)
<1>1. PICK h : h = Altered(g, p)
  OBVIOUS
<1>2. /\ DOMAIN h.role = Seats(g) /\ h.dead \ h.tonight = g.dead \ g.tonight
      /\ h.phase = g.phase /\ h.confirmed = g.confirmed /\ h.spent = g.spent
      /\ h.dayNumber = g.dayNumber /\ h.nightNumber = g.nightNumber
      /\ h.winner = g.winner
      /\ h.day.nominators = g.day.nominators /\ h.day.nominees = g.day.nominees
      /\ h.day.tallies = g.day.tallies /\ h.day.closed = g.day.closed
      /\ h.day.execution = g.day.execution
      /\ h.day.ballot.by = g.day.ballot.by /\ h.day.ballot.of = g.day.ballot.of
      /\ h.day.ballot.voted = g.day.ballot.voted
  <2>1. Alike(g, p, h)
    BY <1>1, AlteredKeeps
  <2>2. QED  BY <2>1 DEF Alike
<1>3. PublicView(h).dead = PublicView(g).dead
  BY <1>2 DEF PublicView
<1>4. DayFacts(h) = DayFacts(g)
  BY <1>2 DEF DayFacts
<1>5. Seats(h) = Seats(g)
  BY <1>2 DEF Seats, Seated
<1>6. [PublicFacts(h) EXCEPT !.can = can] = PublicFacts(g)
  <2>. DEFINE phase == g.phase
              players == Cardinality(Seats(g))
              confirmed == Cardinality(g.confirmed)
              dayNumber == g.dayNumber
              nightNumber == g.nightNumber
              dead == PublicView(g).dead
              spent == g.spent
              winner == g.winner
              day == IF g.phase \in {"day", "finished"} THEN {DayFacts(g)} ELSE {}
              Facts(c) == [can |-> c, phase |-> phase, players |-> players,
                           confirmed |-> confirmed, dayNumber |-> dayNumber,
                           nightNumber |-> nightNumber, dead |-> dead, spent |-> spent,
                           winner |-> winner, day |-> day]
  <2>1. PublicFacts(h) = Facts(PublicView(h).canCompleteNightStep)
    BY <1>2, <1>3, <1>4, <1>5 DEF PublicFacts
  <2>2. PublicFacts(g) = Facts(can)
    BY DEF PublicFacts
  <2>. HIDE DEF phase, players, confirmed, dayNumber, nightNumber, dead, spent, winner, day
  <2>3. \A c, d : [Facts(c) EXCEPT !.can = d] = Facts(d)
    OBVIOUS
  <2>. HIDE DEF Facts
  <2>4. QED  BY <2>1, <2>2, <2>3
<1>7. QED  BY <1>1, <1>6

-----------------------------------------------------------------------------
(***************************************************************************)
(* What is told, and what is offered. The step under the cursor is one the *)
(* facts of the moment still give, and what has been told in it would be   *)
(* told again: whatever those facts are, no command that goes on with the  *)
(* step changes them.                                                      *)
(***************************************************************************)
\* The roles are as they were dealt until the first night is over.
Dealt(g) == g.phase \in {"role_reveal", "first_night"} => Drawable(g.role, g.shown)

\* The herring is found before the first night, if a fortune teller may ask for it.
HerringFound(g) ==
  /\ g.herring \in HerringCandidates(g.role) \union {None}
  /\ g.phase # "role_reveal" /\ HasFortuneTeller(g) => g.herring # None

\* Each nomination has been of another player, by another player.
Paired(g) == Cardinality(g.day.nominees) = Cardinality(g.day.nominators)

\* What holds of a game at each point of a command.
Lasting(g) ==
  Dealt(g) /\ HerringFound(g) /\ Paired(g) /\ g.bluffs \subseteq LegalBluffs(g.role)

Listed(g) == InNight(g) => g.step \in Steps(g)
Telling(g, v) == [ability |-> g.step.role, to |-> Recipient(g), value |-> v]
Informed(g) == g.info # NoInfo => Ready(g) /\ \E v \in Told(g) : g.info = Telling(g, v)

Knows(g) == Lasting(g) /\ Listed(g) /\ Informed(g)

\* What the spy was shown is what is told still.
Foretold == past.preview \in {{}, Preview(game)}

KnowInv == GameInv /\ Knows(game) /\ Foretold

\* The steps of the night and what is told in one depend on nothing else.
SameFacts(g, e) ==
  /\ e.phase = g.phase /\ e.role = g.role /\ e.shown = g.shown /\ e.dead = g.dead
  /\ e.tonight = g.tonight /\ e.transitions = g.transitions /\ e.executed = g.executed
SameTable(g, e) ==
  /\ SameFacts(g, e) /\ e.step = g.step /\ e.chosen = g.chosen /\ e.raven = g.raven
  /\ e.poisoned = g.poisoned /\ e.master = g.master /\ e.herring = g.herring

LEMMA StepsSame ==
  ASSUME NEW g, NEW e, SameFacts(g, e)
  PROVE  Steps(e) = Steps(g)
<1>1. \A r : DrunkShown(e, r) = DrunkShown(g, r)
  BY DEF SameFacts, DrunkShown
<1>2. FirstNightSteps(e) = FirstNightSteps(g)
  <2>. DEFINE Of(x, i) == Wake(i + 2, FirstNightOrder[i], Holders(x.role, {FirstNightOrder[i]}),
                               DrunkShown(x, FirstNightOrder[i]))
  <2>1. \A i : Of(e, i) = Of(g, i)
    BY <1>1 DEF SameFacts
  <2>2. Seats(e) = Seats(g)
    BY DEF SameFacts, Seats
  <2>3. UNION {Of(e, i) : i \in 1 .. 9} = UNION {Of(g, i) : i \in 1 .. 9}
    BY <2>1
  <2>. HIDE DEF Of
  <2>4. QED  BY <2>2, <2>3 DEF FirstNightSteps, SameFacts, Of
<1>3. OtherNightSteps(e) = OtherNightSteps(g)
  <2>1. \A r, p : MayWake(e, r, p) = MayWake(g, r, p)
    BY DEF SameFacts, MayWake
  <2>2. ASSUME NEW at, NEW r
        PROVE  OtherActor(e, at, r) = OtherActor(g, at, r)
    <3>1. /\ {p \in Holders(e.role, {r}) : MayWake(e, r, p)}
               = {p \in Holders(g.role, {r}) : MayWake(g, r, p)}
          /\ {p \in DrunkShown(e, r) : MayWake(e, r, p)}
               = {p \in DrunkShown(g, r) : MayWake(g, r, p)}
      BY <1>1, <2>1 DEF SameFacts
    <3>2. QED  BY <3>1 DEF OtherActor
  <2>3. \A kind : Successions(e, kind) = Successions(g, kind)
    BY DEF SameFacts, Successions
  <2>4. ImpStep(e) = ImpStep(g)
    BY <2>2, <2>3 DEF ImpStep, SameFacts
  <2>5. QED  BY <2>2, <2>3, <2>4 DEF OtherNightSteps
<1>4. QED  BY <1>2, <1>3 DEF Steps, SameFacts

LEMMA PreviewSame ==
  ASSUME NEW g, NEW e, e.phase = g.phase, e.role = g.role, e.shown = g.shown
  PROVE  Preview(e) = Preview(g)
<1>1. \A r : DrunkShown(e, r) = DrunkShown(g, r)
  BY DEF DrunkShown
<1>. DEFINE of(x, r) == LET actual == Holders(x.role, {r})
                        IN IF actual # {} THEN actual ELSE DrunkShown(x, r)
            shown(x, r) == {[ability |-> r, to |-> First(of(x, r)), value |-> c] :
                              c \in OnePair(PairValues(x.role, r))}
            all(x) == UNION {shown(x, r) : r \in {r \in PairRoles : of(x, r) # {}}}
<1>2. \A r : of(e, r) = of(g, r)
  BY <1>1
<1>. HIDE DEF of
<1>3. \A r : shown(e, r) = shown(g, r)
  BY <1>2
<1>. HIDE DEF shown
<1>4. {r \in PairRoles : of(e, r) # {}} = {r \in PairRoles : of(g, r) # {}}
  BY <1>2
<1>5. all(e) = all(g)
  BY <1>3, <1>4
<1>6. /\ Preview(e) = IF e.phase # "first_night" THEN {} ELSE all(e)
      /\ Preview(g) = IF g.phase # "first_night" THEN {} ELSE all(g)
  BY Zenon DEF Preview, all, shown, of
<1>. HIDE DEF all
<1>7. QED  BY <1>5, <1>6

LEMMA ToldSame ==
  ASSUME NEW g, NEW e, SameTable(g, e)
  PROVE  /\ Ready(e) = Ready(g) /\ Recipient(e) = Recipient(g) /\ Told(e) = Told(g)
         /\ Preview(e) = Preview(g)
<1>1. Ready(e) = Ready(g) /\ Recipient(e) = Recipient(g)
  BY DEF SameTable, Ready, Recipient
<1>2. Preview(e) = Preview(g)
  BY PreviewSame DEF SameTable, SameFacts
<1>3. Grimoire(e) = Grimoire(g)
  BY <1>2 DEF Grimoire, SameTable, SameFacts
<1>4. PairTold(e) = PairTold(g) /\ NumberTold(e) = NumberTold(g)
  BY <1>1 DEF PairTold, NumberTold, SameTable, SameFacts
<1>5. AnswerTold(e) = AnswerTold(g) /\ CharacterTold(e) = CharacterTold(g)
  BY DEF AnswerTold, CharacterTold, SameTable, SameFacts
<1>6. QED  BY <1>1, <1>2, <1>3, <1>4, <1>5 DEF Told, SameTable

\* The roles of e are those of g, but for minions made the imp.
Evolved(g, e) ==
  /\ Seats(e) = Seats(g)
  /\ \A p \in Seats(g) :
       \/ e.role[p] = g.role[p] /\ e.shown[p] = g.shown[p]
       \/ g.role[p] \in Minions /\ e.role[p] = "imp" /\ e.shown[p] = "imp"

LEMMA EvolvedTables ==
  ASSUME NEW g, NEW e, Evolved(g, e)
  PROVE  /\ HerringCandidates(e.role) = HerringCandidates(g.role)
         /\ LegalBluffs(e.role) = LegalBluffs(g.role)
         /\ HasFortuneTeller(e) => HasFortuneTeller(g)
<1>1. DOMAIN e.role = DOMAIN g.role
  BY DEF Evolved, Seats, Seated
<1>2. "imp" \notin Good /\ Minions \intersect Good = {} /\ "drunk" \notin Minions
      /\ "imp" # "fortune_teller" /\ "imp" # "drunk"
  BY DEF Good, Townsfolk, Outsiders, Minions
<1>3. ASSUME NEW rs, rs \subseteq Good \union {"drunk"}
      PROVE  Holders(e.role, rs) = Holders(g.role, rs)
  BY <1>1, <1>2, <1>3 DEF Evolved, Holders, Seats, Seated, Good, Outsiders
<1>4. HerringCandidates(e.role) = HerringCandidates(g.role)
  BY <1>3 DEF HerringCandidates
<1>5. LegalBluffs(e.role) = LegalBluffs(g.role)
  <2>1. \A r \in Good : Holders(e.role, {r}) = Holders(g.role, {r})
    BY <1>3
  <2>2. QED  BY <2>1 DEF LegalBluffs
<1>6. HasFortuneTeller(e) => HasFortuneTeller(g)
  <2>1. "fortune_teller" \in Good
    BY DEF Good, Townsfolk
  <2>2. /\ Holders(e.role, {"fortune_teller"}) = Holders(g.role, {"fortune_teller"})
        /\ Holders(e.role, {"drunk"}) = Holders(g.role, {"drunk"})
    BY <1>3, <2>1
  <2>3. DrunkShown(e, "fortune_teller") \subseteq DrunkShown(g, "fortune_teller")
    BY <1>2, <2>2 DEF DrunkShown, Evolved, Holders, Seats, Seated
  <2>4. QED  BY <2>2, <2>3 DEF HasFortuneTeller
<1>7. QED  BY <1>4, <1>5, <1>6

LEMMA EvolvedLasting ==
  ASSUME NEW g, Lasting(g), NEW e, Evolved(g, e), Paired(e),
         e.herring = g.herring, e.bluffs = g.bluffs,
         e.phase = "role_reveal" <=> g.phase = "role_reveal",
         e.phase \in {"role_reveal", "first_night"} =>
           /\ g.phase \in {"role_reveal", "first_night"}
           /\ e.role = g.role /\ e.shown = g.shown
  PROVE  Lasting(e)
BY EvolvedTables DEF Lasting, Dealt, HerringFound

LEMMA SuccessorMinion ==
  ASSUME NEW g, Seating(g), NEW p, NEW cause, Successor(g, p, cause) # None
  PROVE  Successor(g, p, cause) \in Seats(g) /\ g.role[Successor(g, p, cause)] \in Minions
<1>. DEFINE scarlet == Holders(g.role, {"scarlet_woman"}) \ (g.dead \union {p, g.poisoned})
            minions == Holders(g.role, Minions) \ (g.dead \union {p})
<1>1. /\ scarlet \subseteq Holders(g.role, Minions)
      /\ minions \subseteq Holders(g.role, Minions)
  BY DEF Holders, Minions
<1>2. Holders(g.role, Minions) \subseteq Seats(g)
  BY DEF Holders, Seats
<1>3. /\ scarlet # {} => First(scarlet) \in scarlet
      /\ minions # {} => First(minions) \in minions
  BY <1>1, <1>2, SeatNumbers, FirstOfThem
<1>4. \/ Successor(g, p, cause) = First(scarlet) /\ scarlet # {}
      \/ Successor(g, p, cause) = First(minions) /\ minions # {}
  BY DEF Successor, FirstOrNone
<1>. HIDE DEF scarlet, minions
<1>5. Successor(g, p, cause) \in Holders(g.role, Minions)
  BY <1>1, <1>3, <1>4
<1>6. QED  BY <1>2, <1>5 DEF Holders

LEMMA DiesEvolved ==
  ASSUME NEW g, Shaped(g), Seating(g), People(g), NEW p, NEW cause
  PROVE  Evolved(g, Dies(g, p, cause))
<1>. DEFINE s == Successor(g, p, cause)
            t == IF cause = "imp" THEN [kind |-> "self_kill", from |-> p, to |-> s]
                 ELSE [kind |-> "scarlet_woman", from |-> None, to |-> s]
            h == [g EXCEPT !.dead = @ \union {p}]
            ts == h.transitions \union {t}
            e == [h EXCEPT !.role[s] = "imp", !.shown[s] = "imp", !.transitions = ts]
<1>1. Dies(g, p, cause) = IF s = None THEN h ELSE e
  BY Zenon DEF Dies
<1>2. DOMAIN g = Fields
  BY DEF Shaped
<1>. HIDE DEF s, t, ts
<1>3. /\ h.role = g.role /\ h.shown = g.shown
      /\ e.role = [g.role EXCEPT ![s] = "imp"] /\ e.shown = [g.shown EXCEPT ![s] = "imp"]
  BY <1>2 DEF Fields
<1>4. s # None => s \in Seats(g) /\ g.role[s] \in Minions
  BY SuccessorMinion DEF s
<1>. HIDE DEF h, e
<1>5. Evolved(g, h)
  BY <1>3 DEF Evolved, Seats, Seated
<1>6. s # None => Evolved(g, e)
  BY <1>3, <1>4 DEF Evolved, Seats, Seated, People
<1>7. QED  BY <1>1, <1>5, <1>6

LEMMA EvolvedSame ==
  ASSUME NEW g, NEW e, e.role = g.role, e.shown = g.shown
  PROVE  Evolved(g, e)
BY DEF Evolved, Seats, Seated

\* What changes nothing of the roles and of the day's nominations, nor begins or
\* ends the first night.
LEMMA LastingSame ==
  ASSUME NEW g, Lasting(g), NEW e, e.role = g.role, e.shown = g.shown,
         e.herring = g.herring, e.bluffs = g.bluffs,
         e.day.nominees = g.day.nominees, e.day.nominators = g.day.nominators,
         e.phase = g.phase
  PROVE  Lasting(e)
<1>1. Paired(e)
  BY DEF Lasting, Paired
<1>2. QED  BY <1>1, EvolvedSame, EvolvedLasting DEF Lasting, Dealt

LEMMA EffectLasting ==
  ASSUME NEW g, Holds(g), Lasting(g), g.step.role \in OneTarget, NEW p,
         ChoiceAccepted(g, p), NEW q
  PROVE  LET e == Effect(g, p, q)
         IN  /\ Lasting(e)
             /\ g.phase = "first_night" => e.role = g.role /\ e.shown = g.shown
<1>1. InNight(g) /\ g.step.kind = "role" /\ DOMAIN g = Fields
  BY DEF ChoiceAccepted, AsksChoice, Holds, Sound, Shaped
<1>2. ASSUME NEW f \in {"poisoned", "master", "monk"}, NEW e, SameBut(g, e, {f})
      PROVE  Lasting(e) /\ e.role = g.role /\ e.shown = g.shown
  <2>1. /\ e.role = g.role /\ e.shown = g.shown /\ e.herring = g.herring
        /\ e.bluffs = g.bluffs /\ e.day = g.day /\ e.phase = g.phase
    BY <1>2 DEF SameBut, Fields
  <2>2. QED  BY <2>1, LastingSame
<1>3. ASSUME g.step.role = "imp"
      PROVE  Lasting(Attack(g, p, q)) /\ g.phase # "first_night"
  <2>. DEFINE d == Dies(g, q, "imp")
              e == [d EXCEPT !.tonight = @ \union {q}]
  <2>1. g.phase = "other_night"
    BY <1>1, <1>3 DEF Holds, AtStep, Entitled
  <2>2. SameBut(g, d, {"role", "shown", "dead", "transitions"}) /\ Evolved(g, d)
    BY DiesFields, DiesEvolved DEF Holds, Sound
  <2>3. Attack(g, p, q) \in {g, e}
    BY DEF Attack
  <2>. HIDE DEF d
  <2>4. /\ e.role = d.role /\ e.shown = d.shown /\ e.herring = g.herring
        /\ e.bluffs = g.bluffs /\ e.day = g.day /\ e.phase = g.phase
    BY <2>2 DEF SameBut, Fields
  <2>. HIDE DEF e
  <2>5. Evolved(g, e)
    BY <2>2, <2>4 DEF Evolved, Seats
  <2>6. Paired(e)
    BY <2>4 DEF Lasting, Paired
  <2>7. Lasting(e)
    BY <2>1, <2>4, <2>5, <2>6, EvolvedLasting
  <2>8. QED  BY <2>1, <2>3, <2>7
<1>. DEFINE a == [g EXCEPT !.poisoned = q]
            b == [g EXCEPT !.master = q]
            c == [g EXCEPT !.monk = q]
<1>4. \/ Effect(g, p, q) \in {g, a, b, c}
      \/ Effect(g, p, q) = Attack(g, p, q) /\ g.step.role = "imp"
  BY DEF Effect, OneTarget
<1>5. SameBut(g, a, {"poisoned"}) /\ SameBut(g, b, {"master"}) /\ SameBut(g, c, {"monk"})
  BY <1>1 DEF SameBut, Fields
<1>. HIDE DEF a, b, c
<1>6. QED  BY <1>2, <1>3, <1>4, <1>5

LEMMA EnterDayKnows ==
  ASSUME NEW g, DOMAIN g = Fields, Lasting(g), g.info = NoInfo, g.phase \in Nights
  PROVE  Knows(EnterDay(g)) /\ EnterDay(g).phase # "first_night"
<1>. DEFINE w == Winner(g)
            e == [g EXCEPT !.phase = IF w = "none" THEN "day" ELSE "finished",
                           !.day = NewDay, !.winner = w]
<1>1. EnterDay(g) = e
  BY DEF EnterDay
<1>. HIDE DEF w
<1>2. /\ e.role = g.role /\ e.shown = g.shown /\ e.herring = g.herring
      /\ e.bluffs = g.bluffs /\ e.day = NewDay /\ e.info = NoInfo
      /\ e.phase \in {"day", "finished"}
  BY DEF Fields
<1>. HIDE DEF e
<1>3. Paired(e) /\ ~InNight(e)
  BY <1>2 DEF Paired, NewDay, InNight, Nights
<1>4. Lasting(e)
  BY <1>2, <1>3, EvolvedSame, EvolvedLasting DEF Nights
<1>5. QED  BY <1>1, <1>2, <1>3, <1>4 DEF Knows, Listed, Informed

LEMMA DawnKnows ==
  ASSUME NEW g, DOMAIN g = Fields, People(g), Lasting(g), InNight(g)
  PROVE  Knows(Dawn(g)) /\ Dawn(g).phase # "first_night"
<1>. DEFINE over == [g EXCEPT !.dayNumber = @ + 1, !.step = NoStep, !.info = NoInfo]
            imps == {t.to : t \in g.transitions}
            k == [over EXCEPT
                   !.role = [p \in Seats(g) |-> IF p \in imps THEN "imp" ELSE @[p]],
                   !.shown = [p \in Seats(g) |-> IF p \in imps THEN "imp" ELSE @[p]],
                   !.tonight = {}, !.transitions = {}, !.executed = None, !.monk = None,
                   !.raven = None]
<1>1. SameBut(g, over, {"dayNumber", "step", "info"}) /\ over.info = NoInfo
  BY DEF SameBut, Fields
<1>2. Dawn(g) = IF g.phase = "first_night" THEN EnterDay(over) ELSE EnterDay(k)
  BY DEF Dawn
<1>. HIDE DEF over
<1>3. /\ over.role = g.role /\ over.shown = g.shown /\ over.herring = g.herring
      /\ over.bluffs = g.bluffs /\ over.day = g.day /\ over.phase = g.phase
      /\ DOMAIN over = Fields
  BY <1>1 DEF SameBut, Fields
<1>4. Lasting(over) /\ over.phase \in Nights
  BY <1>3, LastingSame DEF InNight
<1>5. /\ k.role = [p \in Seats(g) |-> IF p \in imps THEN "imp" ELSE g.role[p]]
      /\ k.shown = [p \in Seats(g) |-> IF p \in imps THEN "imp" ELSE g.shown[p]]
      /\ k.herring = g.herring /\ k.bluffs = g.bluffs /\ k.day = g.day
      /\ k.phase = g.phase /\ k.info = NoInfo /\ DOMAIN k = Fields
  BY <1>1, <1>3 DEF Fields
<1>. HIDE DEF k
<1>6. k.role = g.role /\ k.shown = g.shown
  <2>1. \A p \in imps : p \in Seats(g) /\ g.role[p] = "imp" /\ g.shown[p] = "imp"
    BY DEF People
  <2>2. QED  BY <1>5, <2>1 DEF People
<1>7. Lasting(k)
  BY <1>5, <1>6, LastingSame
<1>8. QED  BY <1>1, <1>2, <1>3, <1>4, <1>5, <1>7, EnterDayKnows

\* The step that comes is one of those there are.
LEMMA NextListed ==
  ASSUME NEW g, Seating(g), NEW at, NextStep(g, at) # NoStep
  PROVE  NextStep(g, at) \in Steps(g)
<1>. DEFINE after == {s \in Steps(g) : s.at > at}
<1>1. NextStep(g, at) = FirstStep(after) /\ after # {}
  BY DEF NextStep
<1>2. \A x \in Steps(g) : x.at \in Nat
  BY StepPlaces DEF Steps
<1>3. FirstStep(after) \in after
  BY <1>1, <1>2, FirstStepThere
<1>4. QED  BY <1>1, <1>3

LEMMA AdvanceKnows ==
  ASSUME NEW g, Sound(g), Lasting(g), InNight(g)
  PROVE  LET e == Advance(g)
         IN  /\ Knows(e)
             /\ e.phase = "first_night" => e.role = g.role /\ e.shown = g.shown
<1>. DEFINE s == NextStep(g, g.step.at)
            e == [g EXCEPT !.step = s, !.info = NoInfo]
<1>1. Advance(g) = IF s = NoStep THEN Dawn(g) ELSE e
  BY DEF Advance
<1>2. s # NoStep => s \in Steps(g)
  BY NextListed DEF Sound
<1>. HIDE DEF s
<1>3. SameBut(g, e, {"step", "info"}) /\ e.step = s /\ e.info = NoInfo
  BY DEF SameBut, Sound, Shaped, Fields
<1>. HIDE DEF e
<1>4. /\ SameFacts(g, e) /\ e.role = g.role /\ e.shown = g.shown /\ e.herring = g.herring
      /\ e.bluffs = g.bluffs /\ e.day = g.day /\ e.phase = g.phase
  BY <1>3 DEF SameBut, Fields, SameFacts
<1>5. Lasting(e)
  BY <1>4, LastingSame
<1>6. s # NoStep => Knows(e)
  BY <1>2, <1>3, <1>4, <1>5, StepsSame DEF Knows, Listed, Informed
<1>7. QED  BY <1>1, <1>4, <1>6, DawnKnows DEF Sound, Shaped

LEMMA BegunKnows ==
  ASSUME NEW g, DOMAIN g = Fields, Seating(g), People(g), g.info = NoInfo,
         NEW night \in Nights, Lasting([g EXCEPT !.phase = night])
  PROVE  Knows(Begun(g, night))
<1>. DEFINE h == [g EXCEPT !.phase = night]
            s == NextStep(h, 0)
            e == [h EXCEPT !.step = s]
<1>1. Begun(g, night) = IF s = NoStep THEN Dawn(h) ELSE e
  BY DEF Begun
<1>2. SameBut(g, h, {"phase"}) /\ h.phase = night /\ Lasting(h)
  BY DEF SameBut, Fields
<1>. HIDE DEF h
<1>3. /\ h.role = g.role /\ h.shown = g.shown /\ h.dead = g.dead /\ h.info = NoInfo
      /\ h.tonight = g.tonight /\ h.transitions = g.transitions /\ h.spent = g.spent
      /\ DOMAIN h = Fields /\ InNight(h)
  BY <1>2 DEF SameBut, Fields, InNight
<1>4. Seating(h) /\ People(h)
  <2>1. Seats(h) = Seats(g)
    BY <1>3 DEF Seats, Seated
  <2>2. Seating(h)
    BY <2>1 DEF Seating
  <2>3. People(h)
    BY <1>3, <2>1 DEF People, Living, Seat
  <2>4. QED  BY <2>2, <2>3
<1>5. s # NoStep => s \in Steps(h)
  BY <1>4, NextListed
<1>. HIDE DEF s
<1>6. SameBut(h, e, {"step"}) /\ e.step = s
  BY <1>3 DEF SameBut, Fields
<1>. HIDE DEF e
<1>7. /\ SameFacts(h, e) /\ e.role = h.role /\ e.shown = h.shown /\ e.herring = h.herring
      /\ e.bluffs = h.bluffs /\ e.day = h.day /\ e.phase = h.phase /\ e.info = NoInfo
  BY <1>3, <1>6 DEF SameBut, Fields, SameFacts
<1>8. Lasting(e)
  BY <1>2, <1>7, LastingSame
<1>9. s # NoStep => Knows(e)
  BY <1>5, <1>6, <1>7, <1>8, StepsSame DEF Knows, Listed, Informed
<1>10. QED  BY <1>1, <1>2, <1>3, <1>4, <1>9, DawnKnows

\* Nothing stays told when the night is over, or where nothing is due.
LEMMA QuietUnlessReady ==
  ASSUME NEW g, Holds(g), Knows(g), ~Ready(g)
  PROVE  g.info = NoInfo
BY DEF Knows, Informed

LEMMA QuietByDay ==
  ASSUME NEW g, Holds(g), Knows(g), ~InNight(g)
  PROVE  g.info = NoInfo
<1>1. ~Ready(g)
  BY DEF Holds, AtStep, NoStep, Ready
<1>2. QED  BY <1>1, QuietUnlessReady

LEMMA AdvanceQuiet ==
  ASSUME NEW g, DOMAIN g = Fields
  PROVE  Advance(g).info = NoInfo
<1>1. Dawn(g).info = NoInfo
  BY DEF Dawn, EnterDay, Fields
<1>2. QED  BY <1>1 DEF Advance, Fields

LEMMA FirstNightKnows ==
  ASSUME NEW g, Holds(g), Knows(g), g.phase = "role_reveal",
         NEW b \in Bluffs(g), NEW p \in Herrings(g)
  PROVE  Knows(Begun([g EXCEPT !.nightNumber = 1, !.bluffs = b, !.herring = p],
                     "first_night"))
<1>. DEFINE h == [g EXCEPT !.nightNumber = 1, !.bluffs = b, !.herring = p]
            k == [h EXCEPT !.phase = "first_night"]
<1>1. DOMAIN g = Fields /\ Seating(g) /\ People(g) /\ Lasting(g) /\ g.info = NoInfo
  BY QuietByDay DEF Holds, Sound, Shaped, Knows, InNight, Nights
<1>2. /\ SameBut(g, h, {"nightNumber", "bluffs", "herring"})
      /\ h.herring = p /\ h.bluffs = b
  BY <1>1 DEF SameBut, Fields
<1>. HIDE DEF h
<1>3. SameBut(h, k, {"phase"}) /\ k.phase = "first_night"
  BY <1>2 DEF SameBut, Fields
<1>4. /\ k.role = g.role /\ k.shown = g.shown /\ k.day = g.day
      /\ k.herring = p /\ k.bluffs = b
      /\ h.role = g.role /\ h.shown = g.shown /\ h.dead = g.dead /\ h.tonight = g.tonight
      /\ h.transitions = g.transitions /\ h.spent = g.spent /\ h.info = NoInfo
      /\ DOMAIN h = Fields
  BY <1>1, <1>2, <1>3 DEF SameBut, Fields
<1>. HIDE DEF k
<1>5. Seating(h) /\ People(h)
  <2>1. Seats(h) = Seats(g)
    BY <1>4 DEF Seats, Seated
  <2>2. Seating(h)
    BY <1>1, <2>1 DEF Seating
  <2>3. People(h)
    BY <1>1, <1>4, <2>1 DEF People, Living, Seat
  <2>4. QED  BY <2>2, <2>3
<1>6. Dealt(k) /\ Paired(k)
  BY <1>1, <1>4 DEF Lasting, Dealt, Paired
<1>7. HerringFound(k)
  <2>1. None \notin HerringCandidates(g.role)
    BY <1>1, SeatNumbers DEF HerringCandidates, Holders, Seats
  <2>2. HasFortuneTeller(k) = HasFortuneTeller(g)
    BY <1>4 DEF HasFortuneTeller, DrunkShown
  <2>3. QED  BY <1>1, <1>4, <2>1, <2>2 DEF HerringFound, Herrings, Lasting
<1>8. k.bluffs \subseteq LegalBluffs(k.role)
  <2>1. BluffPool(g.role, g.shown) \subseteq LegalBluffs(g.role)
    BY DEF BluffPool
  <2>2. b \subseteq BluffPool(g.role, g.shown)
    BY DEF Bluffs, kSubset
  <2>3. QED  BY <1>4, <2>1, <2>2
<1>9. Lasting(k)
  BY <1>6, <1>7, <1>8 DEF Lasting
<1>10. Knows(Begun(h, "first_night"))
  BY <1>4, <1>5, <1>9, BegunKnows DEF k, Nights
<1>11. QED  BY <1>10 DEF h

LEMMA OutsideNightKnows ==
  ASSUME NEW e, Lasting(e), ~InNight(e), e.info = NoInfo
  PROVE  Knows(e)
BY DEF Knows, Listed, Informed

\* A mark set, or a choice kept for the answer to come.
LEMMA MarkedKnows ==
  ASSUME NEW g, Holds(g), Knows(g), g.info = NoInfo,
         NEW e, SameBut(g, e, {"confirmed", "raven", "chosen"})
  PROVE  Knows(e) /\ e.role = g.role /\ e.shown = g.shown
<1>1. /\ SameFacts(g, e) /\ e.role = g.role /\ e.shown = g.shown /\ e.herring = g.herring
      /\ e.bluffs = g.bluffs /\ e.day = g.day /\ e.phase = g.phase
      /\ e.step = g.step /\ e.info = NoInfo
  BY DEF SameBut, Fields, SameFacts
<1>2. Lasting(e)
  BY <1>1, LastingSame DEF Knows
<1>3. QED  BY <1>1, <1>2, StepsSame DEF Knows, Listed, Informed, InNight

LEMMA HerringKnows ==
  ASSUME NEW g, Holds(g), Knows(g), g.phase = "role_reveal",
         NEW p \in HerringCandidates(g.role)
  PROVE  Knows([g EXCEPT !.herring = p])
<1>. DEFINE e == [g EXCEPT !.herring = p]
<1>1. SameBut(g, e, {"herring"}) /\ e.herring = p /\ g.info = NoInfo
  BY QuietByDay DEF SameBut, Holds, Sound, Shaped, InNight, Nights
<1>. HIDE DEF e
<1>2. /\ e.role = g.role /\ e.shown = g.shown /\ e.bluffs = g.bluffs /\ e.day = g.day
      /\ e.phase = g.phase /\ e.info = NoInfo /\ e.herring = p
  BY <1>1 DEF SameBut, Fields
<1>3. Lasting(e) /\ ~InNight(e)
  BY <1>2 DEF Knows, Lasting, Dealt, HerringFound, Paired, InNight, Nights
<1>4. QED  BY <1>2, <1>3, OutsideNightKnows DEF e

\* The commands of the day: only a nomination adds to those who took part in one.
LEMMA DayKnows ==
  ASSUME NEW g, Holds(g), Knows(g), g.phase = "day", NEW e,
         SameBut(g, e, {"day", "spent"}), Paired(e)
  PROVE  Knows(e)
<1>1. /\ e.role = g.role /\ e.shown = g.shown /\ e.herring = g.herring
      /\ e.bluffs = g.bluffs /\ e.phase = "day" /\ e.info = g.info
  BY DEF SameBut, Fields
<1>2. ~InNight(g) /\ ~InNight(e) /\ g.info = NoInfo
  BY <1>1, QuietByDay DEF InNight, Nights
<1>3. Lasting(e)
  BY <1>1, EvolvedSame, EvolvedLasting DEF Knows
<1>4. QED  BY <1>1, <1>2, <1>3, OutsideNightKnows

LEMMA TalliedKnows ==
  ASSUME NEW g, Holds(g), Knows(g), g.phase = "day"
  PROVE  Knows(Tallied(g))
<1>. DEFINE spent == g.spent \union (Counted(g) \intersect g.dead)
            tally == [of |-> g.day.ballot.of, count |-> Cardinality(Counted(g)),
                      threshold |-> (Cardinality(Living(g)) + 1) \div 2]
            tallies == g.day.tallies \union {tally}
            e == [g EXCEPT !.day.tallies = tallies, !.day.ballot = NoBallot,
                           !.spent = spent]
<1>0. DOMAIN g = Fields /\ DOMAIN g.day = DayFields
  BY DEF Holds, Sound, Shaped
<1>1. e = Tallied(g)
  BY <1>0 DEF Tallied, Fields, DayFields
<1>. HIDE DEF spent, tallies
<1>2. /\ SameBut(g, e, {"day", "spent"}) /\ e.day.nominators = g.day.nominators
      /\ e.day.nominees = g.day.nominees
  BY <1>0 DEF SameBut, Fields, DayFields
<1>. HIDE DEF e
<1>3. Paired(e)
  BY <1>2 DEF Knows, Lasting, Paired
<1>4. QED  BY <1>1, <1>2, <1>3, DayKnows

LEMMA NominatedKnows ==
  ASSUME NEW g, Holds(g), Knows(g), NEW p, NEW q \in Seats(g), NominationAccepted(g, p, q)
  PROVE  Knows(Nominated(g, p, q))
<1>. DEFINE b == [NoBallot EXCEPT !.by = p, !.of = q]
            e == [g EXCEPT !.day.nominators = @ \union {p}, !.day.nominees = @ \union {q},
                           !.day.ballot = b]
<1>0. DOMAIN g = Fields /\ DOMAIN g.day = DayFields
  BY DEF Holds, Sound, Shaped
<1>1. e = Nominated(g, p, q)
  BY DEF Nominated
<1>. HIDE DEF b
<1>2. /\ SameBut(g, e, {"day", "spent"})
      /\ e.day.nominators = g.day.nominators \union {p}
      /\ e.day.nominees = g.day.nominees \union {q}
  BY <1>0 DEF SameBut, Fields, DayFields
<1>. HIDE DEF e
<1>3. IsFiniteSet(g.day.nominators) /\ IsFiniteSet(g.day.nominees)
  BY SeatNumbers, FS_Subset DEF Holds, Sound, Daily
<1>4. p \notin g.day.nominators /\ q \notin g.day.nominees /\ g.phase = "day"
  BY DEF NominationAccepted
<1>5. /\ Cardinality(e.day.nominators) = Cardinality(g.day.nominators) + 1
      /\ Cardinality(e.day.nominees) = Cardinality(g.day.nominees) + 1
  BY <1>2, <1>3, <1>4, FS_AddElement
<1>6. Paired(e)
  BY <1>5 DEF Knows, Lasting, Paired
<1>7. QED  BY <1>1, <1>2, <1>4, <1>6, DayKnows

LEMMA VotedKnows ==
  ASSUME NEW g, Holds(g), Knows(g), g.phase = "day", NEW p, NEW approve
  PROVE  Knows(Voted(g, p, approve))
<1>. DEFINE e == Voted(g, p, approve)
<1>1. /\ SameBut(g, e, {"day", "spent"}) /\ e.day.nominators = g.day.nominators
      /\ e.day.nominees = g.day.nominees
  BY DEF Voted, SameBut, Holds, Sound, Shaped, Fields, DayFields
<1>. HIDE DEF e
<1>2. Paired(e)
  BY <1>1 DEF Knows, Lasting, Paired
<1>3. QED  BY <1>1, <1>2, DayKnows DEF e

LEMMA ClosedKnows ==
  ASSUME NEW g, Holds(g), Knows(g), g.phase = "day"
  PROVE  Knows(Closed(g))
<1>. DEFINE p == Leader(g)
            h == [g EXCEPT !.day.closed = TRUE, !.day.execution = p]
            d == Dies(h, p, "execution")
            x == [d EXCEPT !.executed = p]
            k == IF p = None THEN h ELSE Executed(h, p)
            saint == k.executed # None /\ g.role[p] = "saint" /\ g.poisoned # p
            w == IF saint THEN "saint_executed" ELSE Winner(k)
            e == [k EXCEPT !.winner = w, !.phase = IF w = "none" THEN @ ELSE "finished"]
<1>0. DOMAIN g = Fields /\ DOMAIN g.day = DayFields /\ DOMAIN g.day.ballot = BallotFields
  BY DEF Holds, Sound, Shaped
<1>1. e = Closed(g)
  BY DEF Closed
<1>. HIDE DEF p
<1>2. /\ SameBut(g, h, {"day"}) /\ h.day.nominators = g.day.nominators
      /\ h.day.nominees = g.day.nominees /\ h.day.ballot = g.day.ballot
      /\ DOMAIN h.day = DayFields
  BY <1>0 DEF SameBut, Fields, DayFields
<1>3. k \in {h, x}
  BY DEF Executed
<1>. HIDE DEF h
<1>4. /\ h.role = g.role /\ h.shown = g.shown /\ h.dead = g.dead /\ h.tonight = g.tonight
      /\ h.transitions = g.transitions /\ h.spent = g.spent /\ h.herring = g.herring
      /\ h.bluffs = g.bluffs /\ h.info = g.info /\ h.phase = g.phase /\ DOMAIN h = Fields
  BY <1>2 DEF SameBut, Fields
<1>5. Shaped(h) /\ Seating(h) /\ Seats(h) = Seats(g)
  BY <1>0, <1>2, <1>4 DEF Shaped, Seating, Seats, Seated, Holds, Sound
<1>6. People(h)
  BY <1>4, <1>5 DEF Holds, Sound, People, Living, Seat
<1>7. /\ SameBut(h, d, {"role", "shown", "dead", "transitions"}) /\ Evolved(h, d)
  BY <1>5, <1>6, DiesFields, DiesEvolved
<1>. HIDE DEF d
<1>8. SameBut(d, x, {"executed"})
  BY <1>7 DEF SameBut, Fields
<1>. HIDE DEF x
<1>9. /\ x.herring = g.herring /\ x.bluffs = g.bluffs /\ x.info = g.info
      /\ x.day = h.day /\ x.phase = g.phase /\ x.role = d.role /\ x.shown = d.shown
      /\ DOMAIN x = Fields
  BY <1>4, <1>7, <1>8 DEF SameBut, Fields
<1>10. Evolved(g, h) /\ Evolved(g, x)
  BY <1>4, <1>5, <1>7, <1>9, EvolvedSame DEF Evolved, Seats
<1>11. /\ k.herring = g.herring /\ k.bluffs = g.bluffs /\ k.info = g.info
       /\ k.day = h.day /\ k.phase = g.phase /\ DOMAIN k = Fields /\ Evolved(g, k)
  BY <1>3, <1>4, <1>9, <1>10
<1>. HIDE DEF k, w
<1>12. /\ e.herring = g.herring /\ e.bluffs = g.bluffs /\ e.info = g.info
       /\ e.day = h.day /\ e.role = k.role /\ e.shown = k.shown
       /\ e.phase \in {"day", "finished"}
  BY <1>11 DEF Fields
<1>. HIDE DEF e
<1>13. Evolved(g, e) /\ Paired(e) /\ ~InNight(e)
  BY <1>2, <1>11, <1>12 DEF Evolved, Seats, Knows, Lasting, Paired, InNight, Nights
<1>14. Lasting(e)
  BY <1>12, <1>13, EvolvedLasting DEF Knows
<1>15. g.info = NoInfo
  BY QuietByDay DEF InNight, Nights
<1>16. QED  BY <1>1, <1>12, <1>13, <1>14, <1>15, OutsideNightKnows

LEMMA OtherNightKnows ==
  ASSUME NEW g, Holds(g), Knows(g), g.phase = "day",
         DayOver(g).phase = "day", DayOver(g).day.closed
  PROVE  Knows(Begun(Dusk(DayOver(g)), "other_night"))
<1>. DEFINE h == DayOver(g)
            k == Dusk(h)
            n == [k EXCEPT !.phase = "other_night"]
<1>1. Holds(h) /\ h.phase = "day" /\ ~InNight(h)
  BY DayOverHolds DEF InNight, Nights
<1>2. Knows(h)
  BY ClosedKnows DEF DayOver
<1>. HIDE DEF h
<1>3. Sound(k) /\ h.info = NoInfo
  BY <1>1, <1>2, DuskSound, QuietByDay
<1>4. SameBut(h, k, {"nightNumber", "poisoned", "master", "chosen", "raven", "monk", "tonight"})
  BY <1>1 DEF Dusk, SameBut, Holds, Sound, Shaped, Fields
<1>. HIDE DEF k
<1>5. SameBut(k, n, {"phase"}) /\ n.phase = "other_night"
  BY <1>4 DEF SameBut, Fields
<1>6. /\ n.role = h.role /\ n.shown = h.shown /\ n.herring = h.herring
      /\ n.bluffs = h.bluffs /\ n.day = h.day /\ k.info = NoInfo /\ DOMAIN k = Fields
  BY <1>3, <1>4, <1>5 DEF SameBut, Fields
<1>. HIDE DEF n
<1>7. Paired(n)
  BY <1>2, <1>6 DEF Knows, Lasting, Paired
<1>8. Lasting(n)
  BY <1>1, <1>2, <1>5, <1>6, <1>7, EvolvedSame, EvolvedLasting DEF Knows
<1>9. Knows(Begun(k, "other_night"))
  BY <1>3, <1>6, <1>8, BegunKnows DEF n, Sound, Nights
<1>10. QED  BY <1>9 DEF k, h

\* What is told is what Told gives: it would give it again.
LEMMA CommitKnows ==
  ASSUME NEW g, Holds(g), Knows(g), Ready(g), NEW v \in Told(g)
  PROVE  Knows(Commit(g, v))
<1>. DEFINE e == Commit(g, v)
<1>1. SameBut(g, e, {"info"}) /\ e.info = Telling(g, v)
  BY DEF SameBut, Holds, Sound, Shaped, Commit, Fields, Telling
<1>. HIDE DEF e
<1>2. /\ SameTable(g, e) /\ e.role = g.role /\ e.shown = g.shown /\ e.herring = g.herring
      /\ e.bluffs = g.bluffs /\ e.day = g.day /\ e.phase = g.phase /\ e.step = g.step
  BY <1>1 DEF SameBut, Fields, SameFacts, SameTable
<1>3. Lasting(e)
  BY <1>2, LastingSame DEF Knows
<1>4. Listed(e)
  BY <1>2, StepsSame DEF Knows, Listed, InNight, SameTable
<1>5. Informed(e)
  <2>1. Told(e) = Told(g) /\ Ready(e) /\ Recipient(e) = Recipient(g) /\ e.step = g.step
    BY <1>2, ToldSame
  <2>2. e.info = Telling(e, v) /\ v \in Told(e)
    BY <1>1, <2>1 DEF Telling
  <2>3. QED  BY <2>1, <2>2 DEF Informed
<1>6. Knows(e)
  BY <1>3, <1>4, <1>5 DEF Knows
<1>7. QED  BY <1>6 DEF e

LEMMA NotifyKnows ==
  ASSUME NEW g, Holds(g), Knows(g)
  PROVE  Knows(Notify(g))
<1>. DEFINE e == Notify(g)
<1>1. SameBut(g, e, {"notices"})
  BY NotifyHolds
<1>. HIDE DEF e
<1>2. /\ SameTable(g, e) /\ e.role = g.role /\ e.shown = g.shown /\ e.herring = g.herring
      /\ e.bluffs = g.bluffs /\ e.day = g.day /\ e.phase = g.phase /\ e.step = g.step
      /\ e.info = g.info
  BY <1>1 DEF SameBut, Fields, SameFacts, SameTable
<1>3. Lasting(e)
  BY <1>2, LastingSame DEF Knows
<1>4. Listed(e)
  BY <1>2, StepsSame DEF Knows, Listed, InNight, SameTable
<1>5. Informed(e)
  <2>1. /\ Told(e) = Told(g) /\ Ready(e) = Ready(g) /\ Recipient(e) = Recipient(g)
        /\ e.step = g.step /\ e.info = g.info
    BY <1>2, ToldSame
  <2>2. \A v : Telling(e, v) = Telling(g, v)
    BY <2>1 DEF Telling
  <2>3. QED  BY <2>1, <2>2 DEF Knows, Informed
<1>6. Knows(e)
  BY <1>3, <1>4, <1>5 DEF Knows
<1>7. QED  BY <1>6 DEF e

\* Within the first night nobody's role changes.
Steady(g, e) ==
  g.phase = "first_night" /\ e.phase = "first_night" => e.role = g.role /\ e.shown = g.shown

\* What a command makes of the game, before what is due of it, and its information.
KnowLed == \E h : Holds(h) /\ Knows(h) /\ Steady(game, h) /\ Accept(h)

LEMMA AcceptKnows ==
  ASSUME NEW h, Holds(h), Knows(h), Accept(h)
  PROVE  Knows(game')
<1>1. PICK k : /\ k = h \/ (Ready(h) /\ \E v \in Told(h) : k = Commit(h, v))
               /\ game' = Notify(k)
  BY DEF Accept, DecisionDue
<1>2. Holds(k) /\ Knows(k)
  BY <1>1, CommitHolds, CommitKnows
<1>3. Knows(Notify(k))
  BY <1>2, NotifyKnows
<1>4. QED  BY <1>1, <1>3

LEMMA KnowLedKeeps ==
  ASSUME KnowInv, KnowLed, GameInv'
  PROVE  KnowInv'
<1>1. PICK h : Holds(h) /\ Knows(h) /\ Steady(game, h) /\ Accept(h)
  BY DEF KnowLed
<1>2. PICK g : g = game
  OBVIOUS
<1>3. PICK e : e = game'
  OBVIOUS
<1>4. Knows(e) /\ SameBut(h, e, {"notices", "info"}) /\ Remember
  BY <1>1, <1>3, AcceptKeeps, AcceptKnows
<1>5. e.role = h.role /\ e.shown = h.shown /\ e.phase = h.phase
  BY <1>4 DEF SameBut, Fields
<1>6. past'.preview = IF e.phase # "first_night" THEN {}
                      ELSE IF e.info.ability = "spy" THEN e.info.value.pairs
                      ELSE past.preview
  BY <1>3, <1>4 DEF Remember
<1>7. past'.preview \in {{}, Preview(e)}
  <2>1. ASSUME e.info.ability = "spy" PROVE e.info.value.pairs = Preview(e)
    <3>1. e.info # NoInfo
      BY <2>1 DEF NoInfo
    <3>2. PICK v \in Told(e) : e.info = Telling(e, v)
      BY <1>4, <3>1 DEF Knows, Informed
    <3>3. e.info.value = v /\ e.step.role = "spy"
      BY <2>1, <3>2 DEF Telling
    <3>4. Told(e) = {Grimoire(e)}
      BY <3>3 DEF Told, PairRoles
    <3>5. Grimoire(e).pairs = Preview(e)
      BY DEF Grimoire
    <3>6. QED  BY <3>2, <3>3, <3>4, <3>5
  <2>2. ASSUME e.phase = "first_night" PROVE past.preview \in {{}, Preview(e)}
    <3>1. past.preview \in {{}, Preview(g)}
      BY <1>2 DEF KnowInv, Foretold
    <3>2. CASE g.phase = "first_night"
      <4>1. e.role = g.role /\ e.shown = g.shown /\ e.phase = g.phase
        BY <1>1, <1>2, <1>5, <2>2, <3>2 DEF Steady
      <4>2. QED  BY <3>1, <4>1, PreviewSame
    <3>3. CASE g.phase # "first_night"
      <4>1. Preview(g) = {}
        BY <3>3 DEF Preview
      <4>2. QED  BY <3>1, <4>1
    <3>4. QED  BY <3>2, <3>3
  <2>3. QED  BY <1>6, <2>1, <2>2
<1>8. Knows(game)' /\ Foretold'
  BY <1>3, <1>4, <1>7 DEF Foretold
<1>9. QED  BY <1>8 DEF KnowInv

LEMMA StepKnowLed ==
  ASSUME KnowInv, Next
  PROVE  KnowLed
<1>1. PICK g : g = game
  OBVIOUS
<1>2. Holds(g) /\ Knows(g) /\ DOMAIN g = Fields
  BY <1>1 DEF KnowInv, GameInv, Holds, Sound, Shaped
<1>3. \A p \in Seats(g) : \A v :
        /\ Holds([g EXCEPT !.confirmed = @ \union {p}]) /\ Holds([g EXCEPT !.herring = p])
        /\ Holds([g EXCEPT !.raven = p]) /\ Holds([g EXCEPT !.chosen = v])
  BY <1>2, MarkSet DEF Leads
<1>4. ASSUME NEW p, ConfirmRole(p) PROVE KnowLed
  <2>. DEFINE h == [g EXCEPT !.confirmed = @ \union {p}]
  <2>1. p \in Seats(g) /\ Accept(h) /\ g.phase = "role_reveal"
    BY <1>1, <1>4 DEF ConfirmRole
  <2>2. Holds(h)
    BY <1>3, <2>1
  <2>3. SameBut(g, h, {"confirmed", "raven", "chosen"})
    BY <1>2 DEF SameBut, Fields
  <2>. HIDE DEF h
  <2>4. Knows(h)
    BY <1>2, <2>1, <2>3, QuietByDay, MarkedKnows DEF InNight, Nights
  <2>5. QED  BY <1>1, <2>1, <2>2, <2>4 DEF KnowLed, Steady
<1>5. ASSUME NEW p, SetRedHerring(p) PROVE KnowLed
  <2>. DEFINE h == [g EXCEPT !.herring = p]
  <2>1. p \in HerringCandidates(g.role) /\ Accept(h) /\ g.phase = "role_reveal"
    BY <1>1, <1>5 DEF SetRedHerring
  <2>2. Holds(h)
    BY <1>3, <2>1 DEF HerringCandidates, Holders, Seats
  <2>3. Knows(h)
    BY <1>2, <2>1, HerringKnows
  <2>. HIDE DEF h
  <2>4. QED  BY <1>1, <2>1, <2>2, <2>3 DEF KnowLed, Steady
<1>6. ASSUME BeginFirstNight PROVE KnowLed
  <2>1. PICK b \in Bluffs(g), p \in Herrings(g) :
          /\ g.phase = "role_reveal"
          /\ Accept(Begun([g EXCEPT !.nightNumber = 1, !.bluffs = b, !.herring = p],
                          "first_night"))
    BY <1>1, <1>6 DEF BeginFirstNight
  <2>2. p \in Seat(g)
    BY <1>2, <2>1 DEF Herrings, HerringCandidates, Holders, Seat, Seats, Holds, Sound, Marks
  <2>. DEFINE h == Begun([g EXCEPT !.nightNumber = 1, !.bluffs = b, !.herring = p],
                         "first_night")
  <2>3. Holds(h)
    BY <1>2, <2>1, <2>2, FirstNightLeads DEF Leads
  <2>4. Knows(h)
    BY <1>2, <2>1, FirstNightKnows
  <2>. HIDE DEF h
  <2>5. Accept(h) /\ g.phase # "first_night"
    BY <2>1 DEF h
  <2>6. QED  BY <1>1, <2>3, <2>4, <2>5 DEF KnowLed, Steady
<1>7. ASSUME NEW q, NightChoice(q) PROVE KnowLed
  <2>1. /\ g.step.role \in OneTarget /\ ChoiceAccepted(g, Recipient(g)) /\ q \in Seats(g)
        /\ Accept(Advance(Effect(g, Recipient(g), q)))
    BY <1>1, <1>7 DEF NightChoice, Allowed
  <2>. DEFINE x == Effect(g, Recipient(g), q)
              h == Advance(x)
  <2>2. Holds(h)
    BY <1>2, <2>1, ChoiceLeads DEF Leads
  <2>3. Sound(x) /\ x.phase = g.phase
    BY <1>2, <2>1, EffectSound
  <2>4. Lasting(x) /\ (g.phase = "first_night" => x.role = g.role /\ x.shown = g.shown)
    BY <1>2, <2>1, EffectLasting DEF Knows
  <2>5. InNight(x)
    BY <2>1, <2>3 DEF ChoiceAccepted, InNight
  <2>6. Accept(h)
    BY <2>1
  <2>. HIDE DEF x
  <2>7. Knows(h) /\ (h.phase = "first_night" => h.role = x.role /\ h.shown = x.shown)
    BY <2>3, <2>4, <2>5, AdvanceKnows
  <2>. HIDE DEF h
  <2>8. QED  BY <1>1, <2>2, <2>4, <2>6, <2>7 DEF KnowLed, Steady
<1>8. ASSUME NEW q, RavenkeeperChoice(q) PROVE KnowLed
  <2>. DEFINE h == [g EXCEPT !.raven = q]
  <2>1. q \in Seats(g) /\ Accept(h) /\ g.step.role = "ravenkeeper" /\ g.raven = None
    BY <1>1, <1>8 DEF RavenkeeperChoice, ChoiceAccepted
  <2>2. Holds(h)
    BY <1>3, <2>1
  <2>3. SameBut(g, h, {"confirmed", "raven", "chosen"})
    BY <1>2 DEF SameBut, Fields
  <2>. HIDE DEF h
  <2>4. Knows(h) /\ h.role = g.role /\ h.shown = g.shown
    BY <1>2, <2>1, <2>3, QuietUnlessReady, MarkedKnows DEF Ready
  <2>5. QED  BY <1>1, <2>1, <2>2, <2>4 DEF KnowLed, Steady
<1>9. ASSUME NEW q, NEW r, FortuneTellerChoice(q, r) PROVE KnowLed
  <2>. DEFINE h == [g EXCEPT !.chosen = {q, r}]
  <2>1. q \in Seats(g) /\ Accept(h) /\ g.step.role = "fortune_teller" /\ g.chosen = {}
    BY <1>1, <1>9 DEF FortuneTellerChoice, ChoiceAccepted
  <2>2. Holds(h)
    BY <1>3, <2>1
  <2>3. SameBut(g, h, {"confirmed", "raven", "chosen"})
    BY <1>2 DEF SameBut, Fields
  <2>. HIDE DEF h
  <2>4. Knows(h) /\ h.role = g.role /\ h.shown = g.shown
    BY <1>2, <2>1, <2>3, QuietUnlessReady, MarkedKnows DEF Ready
  <2>5. QED  BY <1>1, <2>1, <2>2, <2>4 DEF KnowLed, Steady
<1>10. ASSUME CommitNightInformation PROVE KnowLed
  <2>1. PICK v \in Told(g) : Ready(g) /\ Accept(Commit(g, v))
    BY <1>1, <1>10 DEF CommitNightInformation, CommitAccepted
  <2>. DEFINE h == Commit(g, v)
  <2>2. Holds(h) /\ Knows(h) /\ SameBut(g, h, {"info"})
    BY <1>2, <2>1, CommitHolds, CommitKnows
  <2>3. Accept(h)
    BY <2>1
  <2>. HIDE DEF h
  <2>4. h.role = g.role /\ h.shown = g.shown
    BY <2>2 DEF SameBut, Fields
  <2>5. QED  BY <1>1, <2>2, <2>3, <2>4 DEF KnowLed, Steady
<1>11. /\ InNight(g) =>
            /\ Holds(Advance(g)) /\ Knows(Advance(g)) /\ Steady(g, Advance(g))
  BY <1>2, AdvanceLeads, AdvanceKnows DEF Leads, Knows, Steady, Holds
<1>12. ASSUME AcknowledgeNightInformation PROVE KnowLed
  <2>1. PICK told : g.step # NoStep /\ Accept([Advance(g) EXCEPT !.chosen = told])
    BY <1>1, <1>12 DEF AcknowledgeNightInformation
  <2>. DEFINE x == Advance(g)
              h == [x EXCEPT !.chosen = told]
  <2>2. InNight(g)
    BY <1>2, <2>1, InNightAtStep
  <2>3. Holds(h)
    BY <1>2, <2>2, AcknowledgedLeads DEF Leads
  <2>4. Accept(h) /\ Holds(x) /\ Knows(x) /\ Steady(g, x)
    BY <1>11, <2>1, <2>2
  <2>5. x.info = NoInfo
    BY <1>2, <2>2, AdvanceQuiet DEF Holds, Sound, Shaped
  <2>. HIDE DEF x
  <2>6. SameBut(x, h, {"confirmed", "raven", "chosen"}) /\ h.phase = x.phase
    BY <2>4 DEF SameBut, Fields, Holds, Sound, Shaped
  <2>. HIDE DEF h
  <2>7. Knows(h) /\ h.role = x.role /\ h.shown = x.shown
    BY <2>4, <2>5, <2>6, MarkedKnows
  <2>8. QED  BY <1>1, <2>3, <2>4, <2>6, <2>7 DEF KnowLed, Steady
<1>13. ASSUME CompleteNightStep PROVE KnowLed
  <2>1. InNight(g) /\ Accept(Advance(g))
    BY <1>1, <1>13 DEF CompleteNightStep, CompletionAccepted
  <2>2. QED  BY <1>1, <1>11, <2>1 DEF KnowLed
<1>14. ASSUME NEW p, NEW q, Nominate(p, q) PROVE KnowLed
  <2>. DEFINE h == Nominated(g, p, q)
  <2>1. NominationAccepted(g, p, q) /\ q \in Seats(g) /\ g.phase = "day" /\ Accept(h)
    BY <1>1, <1>14 DEF Nominate, Nominated, KnowInv, GameInv, Bounded, NominationAccepted
  <2>2. Holds(h) /\ Knows(h)
    BY <1>2, <2>1, NominatedHolds, NominatedKnows
  <2>. HIDE DEF h
  <2>3. QED  BY <1>1, <2>1, <2>2 DEF KnowLed, Steady
<1>15. ASSUME NEW p, NEW approve \in BOOLEAN, Vote(p, approve) PROVE KnowLed
  <2>. DEFINE h == Voted(g, p, approve)
  <2>1. VoteAccepted(g, p) /\ g.phase = "day" /\ Accept(h)
    BY <1>1, <1>15 DEF Vote, Voted, VoteAccepted
  <2>2. Holds(h) /\ Knows(h)
    BY <1>2, <2>1, VotedHolds, VotedKnows
  <2>. HIDE DEF h
  <2>3. QED  BY <1>1, <2>1, <2>2 DEF KnowLed, Steady
<1>16. ASSUME FinishVote PROVE KnowLed
  <2>. DEFINE h == Tallied(g)
  <2>1. g.phase = "day" /\ g.day.ballot # NoBallot /\ Accept(h)
    BY <1>1, <1>16 DEF FinishVote
  <2>2. Holds(h) /\ Knows(h)
    BY <1>2, <2>1, TalliedHolds, TalliedKnows
  <2>. HIDE DEF h
  <2>3. QED  BY <1>1, <2>1, <2>2 DEF KnowLed, Steady
<1>17. ASSUME CloseDay PROVE KnowLed
  <2>. DEFINE h == Closed(g)
  <2>1. g.phase = "day" /\ ~g.day.closed /\ g.day.ballot = NoBallot /\ Accept(h)
    BY <1>1, <1>17 DEF CloseDay
  <2>2. Holds(h) /\ Knows(h)
    BY <1>2, <2>1, ClosedHolds, ClosedKnows
  <2>. HIDE DEF h
  <2>3. QED  BY <1>1, <2>1, <2>2 DEF KnowLed, Steady
<1>18. ASSUME BeginOtherNight PROVE KnowLed
  <2>. DEFINE h == Begun(Dusk(DayOver(g)), "other_night")
  <2>1. /\ g.phase = "day" /\ DayOver(g).phase = "day" /\ DayOver(g).day.closed /\ Accept(h)
    BY <1>1, <1>18 DEF BeginOtherNight
  <2>2. Holds(h) /\ Knows(h)
    BY <1>2, <2>1, OtherNightLeads, OtherNightKnows DEF Leads
  <2>. HIDE DEF h
  <2>3. QED  BY <1>1, <2>1, <2>2 DEF KnowLed, Steady
<1>19. QED
  BY <1>4, <1>5, <1>6, <1>7, <1>8, <1>9, <1>10, <1>12, <1>13, <1>14, <1>15, <1>16,
     <1>17, <1>18 DEF Next

LEMMA InitKnows == Init => KnowInv
<1>. SUFFICES ASSUME Init PROVE KnowInv
  OBVIOUS
<1>1. PICK d \in Deals : game = Created(d) /\ past.preview = {}
  BY DEF Init
<1>2. IsDeal(d)
  BY DealsAssumption
<1>3. PICK g : g = game
  OBVIOUS
<1>4. /\ g.phase = "role_reveal" /\ g.role = d.role /\ g.shown = d.shown
      /\ g.herring = None /\ g.bluffs = {} /\ g.info = NoInfo
      /\ g.day.nominees = {} /\ g.day.nominators = {}
  BY <1>1, <1>3 DEF Created, NewDay
<1>5. Lasting(g)
  BY <1>2, <1>4 DEF Lasting, Dealt, HerringFound, Paired, IsDeal
<1>6. Knows(g)
  BY <1>4, <1>5, OutsideNightKnows DEF InNight, Nights
<1>7. QED  BY <1>1, <1>3, <1>6, InitSound DEF KnowInv, Foretold

\* In every state the cursor is at a step of the moment, and what is told is what
\* the table gives.
THEOREM KnowInvariance == Spec => []KnowInv
<1>1. KnowInv /\ GameInv' /\ [Next]_vars => KnowInv'
  <2>1. ASSUME KnowInv, GameInv', Next PROVE KnowInv'
    BY <2>1, StepKnowLed, KnowLedKeeps
  <2>2. ASSUME KnowInv, GameInv', UNCHANGED vars PROVE KnowInv'
    BY <2>2 DEF vars, KnowInv, Foretold
  <2>3. QED  BY <2>1, <2>2
<1>2. QED  BY InitKnows, GameInvariance, <1>1, PTL DEF Spec

-----------------------------------------------------------------------------
(***************************************************************************)
(* What all may learn of the step of the night: whether it only tells. A   *)
(* step of a role asks for a choice or is answered with information.       *)
(***************************************************************************)
LEMMA RolesAskOrTell ==
  ASSUME NEW g, NEW s \in Steps(g), s.kind = "role"
  PROVE  AsksChoice(s) \/ s.role \in InformationRoles
<1>. DEFINE Asked == OneTarget \union {"ravenkeeper", "fortune_teller"} \union InformationRoles
            Of(i) == Wake(i + 2, FirstNightOrder[i], Holders(g.role, {FirstNightOrder[i]}),
                          DrunkShown(g, FirstNightOrder[i]))
<1>1. \A at, r, ps, qs : \A x \in Wake(at, r, ps, qs) : x.role = r
  BY DEF Wake, RoleStep
<1>. DEFINE Other(i) == OtherActor(g, i, OtherNightOrder[i])
<1>2. /\ \A i \in 1 .. 9 : FirstNightOrder[i] \in Asked
      /\ \A i \in (1 .. 11) \ {4, 5, 6} : OtherNightOrder[i] \in Asked
      /\ "imp" \in Asked
  BY DEF FirstNightOrder, OtherNightOrder, OneTarget, InformationRoles, PairRoles
<1>. HIDE DEF Asked
<1>3. s \in FirstNightSteps(g) => s.role \in Asked
  <2>. SUFFICES ASSUME s \in FirstNightSteps(g) PROVE s.role \in Asked
    OBVIOUS
  <2>1. \/ s.kind = "system_info"
        \/ \E i \in 1 .. 9 : s \in Of(i)
    BY DEF FirstNightSteps
  <2>2. QED  BY <1>1, <1>2, <2>1
<1>4. s \in OtherNightSteps(g) => s.role \in Asked
  <2>. SUFFICES ASSUME s \in OtherNightSteps(g) PROVE s.role \in Asked
    OBVIOUS
  <2>1. \/ \E i \in (1 .. 11) \ {4, 5, 6} : s \in Other(i)
        \/ s \in ImpStep(g)
    BY DEF OtherNightSteps, ChangeStep
  <2>2. \A at, r : \A x \in OtherActor(g, at, r) : x.role = r
    BY <1>1 DEF OtherActor
  <2>3. s \in ImpStep(g) => s.role = "imp"
    BY <2>2 DEF ImpStep, RoleStep
  <2>4. \A i : s \in Other(i) => s.role = OtherNightOrder[i]
    BY <2>2
  <2>. HIDE DEF Other
  <2>5. QED  BY <1>2, <2>1, <2>3, <2>4
<1>5. s.role \in Asked
  BY <1>3, <1>4 DEF Steps
<1>6. QED  BY <1>5 DEF Asked, AsksChoice

LEMMA OnlyTellingShows ==
  ASSUME NEW g, Holds(g), Listed(g)
  PROVE  PublicView(g).canCompleteNightStep
           <=> g.step.kind \in {"system_info", "role_change"}
<1>1. CASE ~InNight(g)
  <2>1. g.step = NoStep
    BY <1>1 DEF Holds, AtStep
  <2>2. g.step.kind = "none"
    BY <2>1 DEF NoStep
  <2>3. QED  BY <2>1, <2>2 DEF PublicView
<1>2. CASE InNight(g)
  <2>1. g.step \in Steps(g) /\ g.step.kind \in {"role", "system_info", "role_change"}
    BY <1>2 DEF Listed, Holds, AtStep, Entitled, StepOf
  <2>2. g.step # NoStep
    BY <2>1 DEF NoStep
  <2>3. g.step.kind # "role" => ~Ready(g) /\ ~AsksChoice(g.step)
    BY DEF Ready, AsksChoice
  <2>4. g.step.kind = "role" => Ready(g) \/ AsksChoice(g.step)
    <3>1. g.step.kind = "role" => AsksChoice(g.step) \/ g.step.role \in InformationRoles
      BY <2>1, RolesAskOrTell
    <3>2. QED  BY <3>1 DEF Ready, AsksChoice
  <2>5. QED  BY <2>1, <2>2, <2>3, <2>4 DEF PublicView
<1>3. QED  BY <1>1, <1>2

\* What a player and all members are sent would be the same in a game where what the
\* player may not know is otherwise, for any setup and whatever has been played, but
\* for whether the night's step only tells (BotcGameModule, BotcPlayerPrivateViews,
\* botcClientRoomProjection).
THEOREM SecretsStayKept == Spec => []SecretsKept
<1>1. KnowInv => SecretsKept
  <2>. SUFFICES ASSUME Holds(game), Listed(game) PROVE SecretsKept
    BY DEF KnowInv, GameInv, Knows
  <2>. DEFINE can == PublicView(game).canCompleteNightStep
              sent(g, p) == RoomProjection(g, p, Seats(game))
  <2>1. ASSUME NEW p \in Seats(game)
        PROVE  [sent(Altered(game, p), p) EXCEPT !.game.can = can] = sent(game, p)
    <3>1. p # None
      BY SeatNumbers DEF Holds, Sound, None
    <3>2. [PublicFacts(Altered(game, p)) EXCEPT !.can = can] = PublicFacts(game)
      BY PublicKeepsSecrets
    <3>3. PICK f : f = PublicFacts(Altered(game, p))
      OBVIOUS
    <3>4. \A online : [[connected |-> online, game |-> f] EXCEPT !.game.can = can]
                        = [connected |-> online, game |-> [f EXCEPT !.can = can]]
      OBVIOUS
    <3>5. QED  BY <3>1, <3>2, <3>3, <3>4 DEF RoomProjection
  <2>2. can <=> game.step.kind \in {"system_info", "role_change"}
    BY OnlyTellingShows
  <2>3. \A p \in Seats(game) : WholeView(Altered(game, p), p) = WholeView(game, p)
    BY ViewKeepsSecrets
  <2>4. QED  BY <2>1, <2>2, <2>3 DEF SecretsKept
<1>2. QED  BY <1>1, KnowInvariance, PTL

-----------------------------------------------------------------------------
(***************************************************************************)
(* What the spy was shown is what is told: both are of the same player,    *)
(* whose step it is.                                                       *)
(***************************************************************************)
\* The steps of the first night that are of one role.
FirstNightStep(g, at, r) == Wake(at, r, Holders(g.role, {r}), DrunkShown(g, r))

LEMMA FirstNightRoles ==
  ASSUME NEW g, NEW s \in FirstNightSteps(g), s.kind = "role"
  PROVE  \E at, r : s \in FirstNightStep(g, at, r)
<1>. DEFINE Of(i) == Wake(i + 2, FirstNightOrder[i], Holders(g.role, {FirstNightOrder[i]}),
                          DrunkShown(g, FirstNightOrder[i]))
            known(at, r, cs) == [at |-> at, kind |-> "system_info", role |-> r,
                                 actors |-> Holders(g.role, cs), source |-> "none"]
<1>1. \/ s \in {known(1, "minion_info", Minions), known(2, "demon_info", Demons)}
      \/ \E i \in 1 .. 9 : s \in Of(i)
  BY DEF FirstNightSteps
<1>2. \A at, r, cs : known(at, r, cs).kind = "system_info"
  OBVIOUS
<1>. HIDE DEF known
<1>3. \E i \in 1 .. 9 : s \in Of(i)
  BY <1>1, <1>2
<1>4. QED  BY <1>3 DEF FirstNightStep

\* A pair is told on no other night.
LEMMA OtherNightRoles ==
  ASSUME NEW g, NEW s \in OtherNightSteps(g)
  PROVE  s.role \notin PairRoles \union {"chef"}
<1>1. \A at, r, ps, qs : \A x \in Wake(at, r, ps, qs) : x.role = r
  BY DEF Wake, RoleStep
<1>2. \A at, r : \A x \in OtherActor(g, at, r) : x.role = r
  BY <1>1 DEF OtherActor
<1>3. \/ \E i \in (1 .. 11) \ {4, 5, 6} : s \in OtherActor(g, i, OtherNightOrder[i])
      \/ s \in ImpStep(g) \/ s.role = "imp"
  BY DEF OtherNightSteps, ChangeStep
<1>4. s \in ImpStep(g) => s.role = "imp"
  BY <1>2 DEF ImpStep, RoleStep
<1>5. \A i \in (1 .. 11) \ {4, 5, 6} : OtherNightOrder[i] \notin PairRoles \union {"chef"}
  BY DEF OtherNightOrder, PairRoles
<1>6. QED  BY <1>2, <1>3, <1>4, <1>5 DEF PairRoles

\* Whose the pair ability r is: those who hold it before the drunk who believes to.
PairOf(g, r) ==
  IF Holders(g.role, {r}) # {} THEN Holders(g.role, {r}) ELSE DrunkShown(g, r)
Pairs(g, r) == {[ability |-> r, to |-> First(PairOf(g, r)), value |-> c] :
                  c \in OnePair(PairValues(g.role, r))}

LEMMA PreviewOf ==
  ASSUME NEW g, g.phase = "first_night", NEW r \in PairRoles, PairOf(g, r) # {},
         NEW x \in Pairs(g, r)
  PROVE  x \in Preview(g)
<1>1. Preview(g) = UNION {Pairs(g, q) : q \in {q \in PairRoles : PairOf(g, q) # {}}}
  BY DEF Preview, Pairs, PairOf
<1>2. QED  BY <1>1

LEMMA WokenFor ==
  ASSUME NEW g, NEW at, NEW r,
         NEW s \in FirstNightStep(g, at, r)
  PROVE  /\ PairOf(g, r) # {} /\ s.role = r /\ s.actors = {First(PairOf(g, r))}
BY DEF FirstNightStep, Wake, RoleStep, PairOf

\* What a pair ability is told is among what the spy is shown.
LEMMA PairForetold ==
  ASSUME NEW g, Holds(g), Knows(g), g.info.ability \in PairRoles
  PROVE  g.info \in Preview(g)
<1>1. g.info # NoInfo
  BY DEF NoInfo, PairRoles
<1>2. PICK v \in Told(g) : Ready(g) /\ g.info = Telling(g, v)
  BY <1>1 DEF Knows, Informed
<1>3. /\ g.step.role \in PairRoles /\ g.step.kind = "role" /\ InNight(g)
      /\ g.step \in Steps(g)
  <2>1. g.step.role \in PairRoles /\ g.step.kind = "role"
    BY <1>2 DEF Telling, Ready
  <2>2. InNight(g)
    BY <2>1, InNightAtStep DEF NoStep
  <2>3. QED  BY <2>1, <2>2 DEF Knows, Listed
<1>4. g.phase = "first_night" /\ g.step \in FirstNightSteps(g)
  BY <1>3, OtherNightRoles DEF Steps
<1>5. PICK at, q : g.step \in FirstNightStep(g, at, q)
  BY <1>3, <1>4, FirstNightRoles
<1>. DEFINE r == g.step.role
<1>6. r = q /\ PairOf(g, r) # {} /\ g.step.actors = {First(PairOf(g, r))}
  BY <1>5, WokenFor
<1>7. Recipient(g) = First(PairOf(g, r))
  <2>1. PairOf(g, r) \subseteq Nat
    BY SeatNumbers DEF PairOf, DrunkShown, Holders, Seats, Holds, Sound
  <2>2. First(PairOf(g, r)) \in Nat
    BY <1>6, <2>1, FirstOfThem
  <2>3. QED  BY <1>6, <2>2, FirstOfOne DEF Recipient
<1>8. v \in OnePair(PairValues(g.role, r))
  BY <1>2, <1>3 DEF Told, PairTold, PairRoles
<1>9. g.info \in Pairs(g, r)
  BY <1>2, <1>7, <1>8 DEF Telling, Pairs
<1>10. QED  BY <1>3, <1>4, <1>6, <1>9, PreviewOf

\* What the spy was shown of the pair abilities is what they are told.
THEOREM PairsAreForetold == Spec => []GrimoireForetells
<1>1. KnowInv => GrimoireForetells
  <2>1. ASSUME KnowInv, game.info.ability \in PairRoles, past.preview # {}
        PROVE  game.info \in past.preview
    <3>1. past.preview = Preview(game)
      BY <2>1 DEF KnowInv, Foretold
    <3>2. game.info \in Preview(game)
      BY <2>1, PairForetold DEF KnowInv, GameInv
    <3>3. QED  BY <3>1, <3>2
  <2>2. QED  BY <2>1 DEF GrimoireForetells
<1>2. QED  BY KnowInvariance, <1>1, PTL

-----------------------------------------------------------------------------
(***************************************************************************)
(* Whatever a night step is to tell can be told, in any deal: but for the  *)
(* empath left with one other player alive.                                *)
(***************************************************************************)
LEMMA SmallerSets ==
  ASSUME NEW S, IsFiniteSet(S), NEW T, T \subseteq S
  PROVE  /\ IsFiniteSet(T) /\ Cardinality(T) \in Nat /\ Cardinality(S) \in Nat
         /\ Cardinality(T) <= Cardinality(S)
         /\ Cardinality(T) = Cardinality(S) => T = S
<1>1. T \in SUBSET S
  OBVIOUS
<1>2. QED  BY <1>1, FS_Subset, FS_CardinalityType

\* The seats of a deal, and that most of them are townsfolk's and one a minion's.
LEMMA DealtSeats ==
  ASSUME NEW g, Seating(g), Drawable(g.role, g.shown), g.role \in [Seats(g) -> Roles]
  PROVE  Holders(g.role, Townsfolk) # {} /\ Holders(g.role, Minions) # {}
<1>1. PICK n \in 5 .. 15 : Seats(g) = 1 .. n
  BY DEF Seating
<1>. DEFINE O == Holders(g.role, Outsiders)
            M == Holders(g.role, Minions)
            D == Holders(g.role, Demons)
            T == Holders(g.role, Townsfolk)
<1>2. Cardinality(Seats(g)) = n /\ IsFiniteSet(Seats(g))
  BY <1>1, FS_Interval
<1>3. Holders(g.role, {"baron"}) = {}
  BY DEF Drawable, NotDrawn, Holders
<1>4. /\ Cardinality(O) = BaseOutsiders(n) /\ Cardinality(M) = BaseMinions(n)
      /\ Cardinality(D) = 1
  <2>1. Cardinality(Seated(g.role)) = n
    BY <1>2 DEF Seats
  <2>2. BaseOutsiders(n) + 0 = BaseOutsiders(n)
    BY DEF BaseOutsiders
  <2>3. QED  BY <1>3, <2>1, <2>2 DEF Drawable, LegalSetup
<1>5. O \subseteq Seats(g) /\ M \subseteq Seats(g) /\ D \subseteq Seats(g)
  BY DEF Holders, Seats
<1>6. Seats(g) = T \union ((O \union M) \union D)
  BY DEF Holders, Seats, Roles
<1>7. IsFiniteSet(O) /\ IsFiniteSet(M) /\ IsFiniteSet(D)
  BY <1>2, <1>5, SmallerSets
<1>. HIDE DEF O, M, D
<1>8. /\ IsFiniteSet(O \union M) /\ Cardinality(O \union M) <= BaseOutsiders(n) + BaseMinions(n)
      /\ Cardinality(O \union M) \in Nat
  <2>1. IsFiniteSet(O \union M) /\ Cardinality(O \union M) \in Nat
        /\ Cardinality(O \intersect M) \in Nat
    <3>1. IsFiniteSet(O \union M)
      BY <1>7, FS_Union
    <3>2. IsFiniteSet(O \intersect M)
      BY <1>7, SmallerSets
    <3>3. QED  BY <3>1, <3>2, FS_CardinalityType
  <2>2. Cardinality(O \union M)
          = Cardinality(O) + Cardinality(M) - Cardinality(O \intersect M)
    BY <1>7, FS_Union
  <2>3. QED  BY <1>4, <2>1, <2>2 DEF BaseOutsiders, BaseMinions
<1>9. Cardinality((O \union M) \union D) <= BaseOutsiders(n) + BaseMinions(n) + 1
  <2>. DEFINE A == O \union M
  <2>1. IsFiniteSet(A) /\ Cardinality(A) \in Nat
        /\ Cardinality(A) <= BaseOutsiders(n) + BaseMinions(n)
    BY <1>8
  <2>. HIDE DEF A
  <2>2. IsFiniteSet(A \intersect D)
    BY <2>1, SmallerSets
  <2>3. Cardinality(A \intersect D) \in Nat
    BY <2>2, FS_CardinalityType
  <2>4. Cardinality(A \union D) = Cardinality(A) + Cardinality(D) - Cardinality(A \intersect D)
    BY <1>7, <2>1, FS_Union
  <2>5. Cardinality(A \union D) <= BaseOutsiders(n) + BaseMinions(n) + 1
    BY <1>4, <2>1, <2>3, <2>4 DEF BaseOutsiders, BaseMinions
  <2>6. QED  BY <2>5 DEF A
<1>10. BaseOutsiders(n) + BaseMinions(n) + 1 < n /\ BaseMinions(n) > 0
  BY DEF BaseOutsiders, BaseMinions
<1>11. T # {}
  <2>1. ASSUME T = {} PROVE FALSE
    <3>1. Seats(g) = (O \union M) \union D
      BY <1>6, <2>1
    <3>2. n <= BaseOutsiders(n) + BaseMinions(n) + 1
      BY <1>2, <1>9, <3>1
    <3>3. QED  BY <1>10, <3>2 DEF BaseOutsiders, BaseMinions
  <2>2. QED  BY <2>1
<1>12. M # {}
  BY <1>4, <1>10, FS_EmptySet
<1>13. QED  BY <1>11, <1>12 DEF M

\* A pair ability always has a pair to be told, of the roles as they were dealt.
LEMMA PairsThere ==
  ASSUME NEW g, Seating(g), Drawable(g.role, g.shown), g.role \in [Seats(g) -> Roles],
         NEW r \in PairRoles
  PROVE  PairValues(g.role, r) # {}
<1>1. PICK n \in 5 .. 15 : Seats(g) = 1 .. n
  BY DEF Seating
<1>2. ASSUME NEW p \in Seats(g), g.role[p] \in TargetCategory(r)
      PROVE  PairValues(g.role, r) # {}
  <2>1. PICK q \in Seats(g) : q # p
    <3>1. 1 \in Seats(g) /\ 2 \in Seats(g)
      BY <1>1
    <3>2. QED  BY <3>1
  <2>2. g.role[p] \in Characters(g.role[p]) \intersect TargetCategory(r)
    BY <1>2 DEF Characters
  <2>. DEFINE pair(x, c, y) == [learned |-> c, among |-> {x, y}]
              of(x) == {pair(x, c, y) : c \in Characters(g.role[x]) \intersect TargetCategory(r),
                                        y \in Seated(g.role) \ {x}}
  <2>3. of(p) \subseteq PairValues(g.role, r)
    BY DEF PairValues, Seats
  <2>. HIDE DEF pair
  <2>4. pair(p, g.role[p], q) \in of(p)
    BY <2>1, <2>2 DEF Seats
  <2>. HIDE DEF of
  <2>5. QED  BY <2>3, <2>4
<1>3. CASE r = "washerwoman"
  BY <1>2, <1>3, DealtSeats DEF TargetCategory, Holders, Seats
<1>4. CASE r = "investigator"
  BY <1>2, <1>4, DealtSeats DEF TargetCategory, Holders, Seats
<1>5. CASE r = "librarian" /\ Holders(g.role, Outsiders) # {}
  BY <1>2, <1>5 DEF TargetCategory, Holders, Seats
<1>6. CASE r = "librarian" /\ Holders(g.role, Outsiders) = {}
  BY <1>6 DEF PairValues
<1>7. QED  BY <1>3, <1>4, <1>5, <1>6 DEF PairRoles

(***************************************************************************)
(* The sums of the chef: the function ChefValues chooses exists, and no    *)
(* sum it collects is empty.                                               *)
(***************************************************************************)
Plus(s, pairs) == {a + b : a \in s, b \in pairs}
SumOf(role, f, k) == IF k = 0 THEN {0} ELSE Plus(f[k - 1], PairCounts(role, k))
Sums(role, f, m) == f = [k \in 0 .. m |-> SumOf(role, f, k)]

LEMMA PlusThere ==
  ASSUME NEW s, NEW t, s # {}, t # {}, s \subseteq Nat, t \subseteq Nat
  PROVE  Plus(s, t) # {} /\ Plus(s, t) \subseteq Nat
<1>1. PICK a \in s : TRUE
  OBVIOUS
<1>2. PICK b \in t : TRUE
  OBVIOUS
<1>3. a + b \in Plus(s, t)
  BY DEF Plus
<1>4. \A x \in s, y \in t : x + y \in Nat
  OBVIOUS
<1>5. Plus(s, t) \subseteq Nat
  BY <1>4 DEF Plus
<1>6. QED  BY <1>3, <1>5

LEMMA SumsNext ==
  ASSUME NEW role, NEW m \in Nat, m # 0, NEW f, Sums(role, f, m - 1)
  PROVE  \E h : Sums(role, h, m)
<1>. DEFINE h == [k \in 0 .. m |-> IF k = m THEN SumOf(role, f, m) ELSE f[k]]
<1>1. \A k \in 0 .. m - 1 : f[k] = SumOf(role, f, k)
  BY DEF Sums
<1>2. \A k \in 0 .. m : h[k] = IF k = m THEN SumOf(role, f, m) ELSE f[k]
  OBVIOUS
<1>3. \A k \in 0 .. m : k # 0 => h[k - 1] = f[k - 1]
  BY <1>2
<1>4. \A k \in 0 .. m : SumOf(role, h, k) = SumOf(role, f, k)
  BY <1>3 DEF SumOf
<1>5. \A k \in 0 .. m : h[k] = SumOf(role, h, k)
  BY <1>1, <1>2, <1>4
<1>6. h = [k \in 0 .. m |-> h[k]]
  OBVIOUS
<1>. HIDE DEF h
<1>7. h = [k \in 0 .. m |-> SumOf(role, h, k)]
  BY <1>5, <1>6
<1>8. QED  BY <1>7 DEF Sums

LEMMA SumsThere ==
  ASSUME NEW role, NEW n \in Nat
  PROVE  \E f : Sums(role, f, n)
<1>. DEFINE There(m) == \E f : Sums(role, f, m)
            lacking == {m \in 0 .. n : ~ There(m)}
<1>1. There(0)
  <2>1. Sums(role, [k \in 0 .. 0 |-> {0}], 0)
    BY DEF Sums, SumOf
  <2>2. QED  BY <2>1
<1>2. \A m \in Nat : m # 0 /\ There(m - 1) => There(m)
  BY SumsNext
<1>. HIDE DEF There
<1>3. ASSUME lacking # {} PROVE FALSE
  <2>1. lacking \subseteq Nat
    OBVIOUS
  <2>. HIDE DEF lacking
  <2>2. PICK m \in lacking : \A x \in lacking : m <= x
    BY <1>3, <2>1, LeastThere
  <2>. USE DEF lacking
  <2>3. m \in Nat /\ m <= n /\ ~There(m)
    BY <2>2
  <2>4. m # 0 /\ ~There(m - 1)
    BY <1>1, <1>2, <2>3
  <2>5. m - 1 \in lacking
    BY <2>3, <2>4
  <2>6. QED  BY <2>2, <2>3, <2>5
<1>4. There(n)
  BY <1>3
<1>5. QED  BY <1>4 DEF There

LEMMA SumsFull ==
  ASSUME NEW role, NEW n \in Nat, NEW f, Sums(role, f, n),
         \A k \in 1 .. n : PairCounts(role, k) # {} /\ PairCounts(role, k) \subseteq Nat
  PROVE  f[n] # {} /\ f[n] \subseteq Nat
<1>. DEFINE Full(k) == f[k] # {} /\ f[k] \subseteq Nat
            wrong == {k \in 0 .. n : ~Full(k)}
<1>1. \A k \in 0 .. n : f[k] = SumOf(role, f, k)
  BY DEF Sums
<1>2. Full(0)
  BY <1>1 DEF SumOf
<1>3. ASSUME NEW k \in 1 .. n, Full(k - 1) PROVE Full(k)
  <2>1. f[k] = Plus(f[k - 1], PairCounts(role, k))
    BY <1>1 DEF SumOf
  <2>2. QED  BY <1>3, <2>1, PlusThere
<1>. HIDE DEF Full
<1>4. ASSUME wrong # {} PROVE FALSE
  <2>1. wrong \subseteq Nat
    OBVIOUS
  <2>. HIDE DEF wrong
  <2>2. PICK k \in wrong : \A x \in wrong : k <= x
    BY <1>4, <2>1, LeastThere
  <2>. USE DEF wrong
  <2>3. k \in Nat /\ k <= n /\ ~Full(k)
    BY <2>2
  <2>4. k # 0 /\ ~Full(k - 1)
    BY <1>2, <1>3, <2>3
  <2>5. k - 1 \in wrong
    BY <2>3, <2>4
  <2>6. QED  BY <2>2, <2>3, <2>5
<1>5. Full(n)
  BY <1>4
<1>6. QED  BY <1>5 DEF Full

LEMMA ChefNumbersThere ==
  ASSUME NEW g, Seating(g), g.role \in [Seats(g) -> Roles]
  PROVE  ChefValues(g.role) # {} /\ ChefValues(g.role) \subseteq Nat
<1>1. PICK n \in 5 .. 15 : Seats(g) = 1 .. n
  BY DEF Seating
<1>2. Cardinality(Seated(g.role)) = n
  <2>1. n \in Nat /\ 1 \in Nat /\ Seated(g.role) = 1 .. n
    BY <1>1 DEF Seats
  <2>2. QED  BY <2>1, FS_Interval
<1>3. \A k \in 1 .. n : PairCounts(g.role, k) # {} /\ PairCounts(g.role, k) \subseteq Nat
  <2>1. ASSUME NEW k \in 1 .. n PROVE Next1(k, n) \in 1 .. n
    BY <2>1 DEF Next1
  <2>2. \A r \in Roles : MayBeEvil(r) \/ MayBeGood(r)
    BY DEF Roles, MayBeEvil, MayBeGood, Good, Evil
  <2>3. QED  BY <1>1, <1>2, <2>1, <2>2 DEF PairCounts
<1>4. ChefValues(g.role) = (CHOOSE f : Sums(g.role, f, n))[n]
  BY <1>2 DEF ChefValues, Sums, SumOf, Plus
<1>5. n \in Nat
  OBVIOUS
<1>6. \E f : Sums(g.role, f, n)
  BY <1>5, SumsThere
<1>7. PICK f : f = CHOOSE x : Sums(g.role, x, n)
  OBVIOUS
<1>8. Sums(g.role, f, n) /\ ChefValues(g.role) = f[n]
  BY <1>4, <1>6, <1>7
<1>9. f[n] # {} /\ f[n] \subseteq Nat
  BY <1>3, <1>5, <1>8, SumsFull
<1>10. QED  BY <1>8, <1>9

LEMMA LeastOfThem ==
  ASSUME NEW ns, ns # {}
  PROVE  LeastOf(ns) # {}
BY DEF LeastOf

LEMMA CircleSteps ==
  ASSUME NEW n \in 5 .. 15, NEW p \in 1 .. n
  PROVE  /\ Ahead(p, 1, n) = IF p = n THEN 1 ELSE p + 1
         /\ Behind(p, 1, n) = IF p = 1 THEN n ELSE p - 1
<1>1. p % n = IF p = n THEN 0 ELSE p
  OBVIOUS
<1>2. (p - 1 + n - 1) % n = IF p = 1 THEN n - 1 ELSE p - 2
  OBVIOUS
<1>3. QED  BY <1>1, <1>2 DEF Ahead, Behind

LEMMA FirstOfMany ==
  ASSUME NEW m \in Nat, m # 0
  PROVE  First(1 .. m) = 1
<1>1. 1 \in 1 .. m /\ \A q \in 1 .. m : 1 <= q
  OBVIOUS
<1>2. \A x \in 1 .. m : (\A q \in 1 .. m : x <= q) => x = 1
  OBVIOUS
<1>3. QED  BY <1>1, <1>2 DEF First

\* With nobody dead everyone has two neighbours.
LEMMA NeighboursThere ==
  ASSUME NEW g, Seating(g), g.dead = {}, NEW p \in Seats(g)
  PROVE  \E x, y \in Seats(g) : x # y /\ Neighbours(g.role, g.dead, p) = {x, y}
<1>1. PICK n \in 5 .. 15 : Seats(g) = 1 .. n
  BY DEF Seating
<1>2. Cardinality(Seated(g.role)) = n
  <2>1. n \in Nat /\ 1 \in Nat /\ Seated(g.role) = 1 .. n
    BY <1>1 DEF Seats
  <2>2. QED  BY <2>1, FS_Interval
<1>3. First(1 .. n - 1) = 1
  <2>1. n - 1 \in Nat /\ n - 1 # 0
    OBVIOUS
  <2>2. QED  BY <2>1, FirstOfMany
<1>4. Neighbours(g.role, g.dead, p) = {Ahead(p, 1, n), Behind(p, 1, n)}
  <2>1. /\ {k \in 1 .. n - 1 : Ahead(p, k, n) \notin g.dead} = 1 .. n - 1
        /\ {k \in 1 .. n - 1 : Behind(p, k, n) \notin g.dead} = 1 .. n - 1
        /\ 1 .. n - 1 # {}
    OBVIOUS
  <2>2. QED  BY <1>2, <1>3, <2>1 DEF Neighbours
<1>5. Ahead(p, 1, n) \in 1 .. n /\ Behind(p, 1, n) \in 1 .. n
      /\ Ahead(p, 1, n) # Behind(p, 1, n)
  <2>1. p \in 1 .. n
    BY <1>1
  <2>2. QED  BY <2>1, CircleSteps
<1>6. QED  BY <1>1, <1>4, <1>5

\* A number can be told to an empath with two neighbours.
LEMMA EmpathNumbers ==
  ASSUME NEW g, g.role \in [Seats(g) -> Roles], NEW p, p \notin g.dead,
         NEW x \in Seats(g), NEW y \in Seats(g), x # y,
         Neighbours(g.role, g.dead, p) = {x, y}
  PROVE  EmpathValues(g.role, g.dead, p) # {}
<1>. DEFINE ns == Neighbours(g.role, g.dead, p)
            sure == {q \in ns : ~MayBeGood(g.role[q])}
            possible == {q \in ns : MayBeEvil(g.role[q])}
<1>1. IsFiniteSet(ns) /\ Cardinality(ns) = 2 /\ ns \subseteq Seats(g)
  <2>1. IsFiniteSet({x}) /\ Cardinality({x}) = 1 /\ y \notin {x}
    BY FS_Singleton
  <2>2. IsFiniteSet({x} \union {y}) /\ Cardinality({x} \union {y}) = 1 + 1
    BY <2>1, FS_AddElement
  <2>3. {x} \union {y} = ns
    OBVIOUS
  <2>4. QED  BY <2>2, <2>3
<1>. HIDE DEF ns
<1>2. \A r \in Roles : ~MayBeGood(r) => MayBeEvil(r)
  BY DEF Roles, MayBeEvil, MayBeGood, Good, Evil
<1>3. sure \subseteq possible /\ possible \subseteq ns
  BY <1>1, <1>2
<1>4. EmpathValues(g.role, g.dead, p) = Cardinality(sure) .. Cardinality(possible)
  BY <1>1 DEF EmpathValues, ns
<1>. HIDE DEF sure, possible
<1>5. IsFiniteSet(possible)
  BY <1>1, <1>3, SmallerSets
<1>6. /\ Cardinality(sure) \in Nat /\ Cardinality(possible) \in Nat
      /\ Cardinality(sure) <= Cardinality(possible)
  BY <1>3, <1>5, SmallerSets
<1>7. Cardinality(sure) \in Cardinality(sure) .. Cardinality(possible)
  BY <1>6
<1>8. QED  BY <1>4, <1>7

\* An answer can be given to a fortune teller whose herring was found.
LEMMA AnswersThere ==
  ASSUME NEW g, NEW chosen, g.herring \in HerringCandidates(g.role)
  PROVE  FortuneTellerValues(g.role, chosen, g.herring) # {}
<1>. DEFINE demon(p) == Characters(g.role[p]) \intersect Demons # {}
            other(p) == Characters(g.role[p]) \ Demons # {}
<1>1. \A p : ~demon(p) => other(p)
  <2>1. \A r : r \in Characters(r)
    BY DEF Characters
  <2>2. QED  BY <2>1
<1>2. FortuneTellerValues(g.role, chosen, g.herring)
        = (IF \A p \in chosen : p # g.herring /\ other(p) THEN {FALSE} ELSE {})
            \union (IF \E p \in chosen : p = g.herring \/ demon(p) THEN {TRUE} ELSE {})
  BY DEF FortuneTellerValues, HerringCandidates
<1>. HIDE DEF demon, other
<1>3. QED  BY <1>1, <1>2

(***************************************************************************)
(* Whatever the game waits for can be given.                               *)
(***************************************************************************)
\* The undertaker wakes in a night after an execution only.
LEMMA UndertakerWakes ==
  ASSUME NEW g, NEW s \in Steps(g), s.role = "undertaker"
  PROVE  g.executed # None
<1>1. \A at, r, ps, qs : \A x \in Wake(at, r, ps, qs) : x.role = r /\ ps \union qs # {}
  BY DEF Wake, RoleStep
<1>2. g.phase # "first_night"
  <2>1. ASSUME s \in FirstNightSteps(g) PROVE FALSE
    <3>. DEFINE Of(i) == Wake(i + 2, FirstNightOrder[i], Holders(g.role, {FirstNightOrder[i]}),
                              DrunkShown(g, FirstNightOrder[i]))
    <3>1. \A i \in 1 .. 9 : FirstNightOrder[i] # "undertaker"
      BY DEF FirstNightOrder
    <3>2. \A i \in 1 .. 9 : \A x \in Of(i) : x.role # "undertaker"
      BY <1>1, <3>1
    <3>3. \/ s.role \in {"minion_info", "demon_info"}
          \/ \E i \in 1 .. 9 : s \in Of(i)
      BY <2>1 DEF FirstNightSteps
    <3>. HIDE DEF Of
    <3>4. QED  BY <3>2, <3>3
  <2>2. QED  BY <2>1 DEF Steps
<1>3. \A at, r : \A x \in OtherActor(g, at, r) :
        x.role = r /\ (r = "undertaker" => g.executed # None)
  <2>1. \A p : MayWake(g, "undertaker", p) => g.executed # None
    BY DEF MayWake
  <2>2. QED  BY <1>1, <2>1 DEF OtherActor
<1>4. s \in OtherNightSteps(g)
  BY <1>2 DEF Steps
<1>5. \/ \E i \in (1 .. 11) \ {4, 5, 6} : s \in OtherActor(g, i, OtherNightOrder[i])
      \/ s \in ImpStep(g) \/ s.role = "imp"
  BY <1>4 DEF OtherNightSteps, ChangeStep
<1>6. s \in ImpStep(g) => s.role = "imp"
  BY <1>3 DEF ImpStep, RoleStep
<1>7. QED  BY <1>3, <1>5, <1>6

\* Whom a step of a role is for: one player.
LEMMA OneIsAsked ==
  ASSUME NEW g, Holds(g), g.step.kind = "role"
  PROVE  /\ InNight(g) /\ Recipient(g) \in Seats(g) /\ g.step.actors = {Recipient(g)}
         /\ g.shown[Recipient(g)] = g.step.role
         /\ Recipient(g) \in g.dead => g.step.role = "ravenkeeper"
<1>1. InNight(g)
  BY InNightAtStep DEF NoStep
<1>2. PICK p \in Seats(g) : /\ g.step.actors = {p} /\ g.shown[p] = g.step.role
                            /\ p \in g.dead => g.step.role = "ravenkeeper"
  BY <1>1 DEF Holds, AtStep, Entitled
<1>3. p \in Nat
  BY SeatNumbers DEF Holds, Sound
<1>4. p = Recipient(g)
  BY <1>2, <1>3, FirstOfOne DEF Recipient
<1>5. QED  BY <1>1, <1>2, <1>4

\* The empath left alone is asked in the step under the cursor.
LoneEmpath(g) ==
  /\ g.phase = "other_night"
  /\ \E s \in OtherNightSteps(g) :
       s.role = "empath" /\ EmpathValues(g.role, g.dead, First(s.actors)) = {}

LEMMA ToldThere ==
  ASSUME NEW g, Holds(g), Knows(g), Ready(g)
  PROVE  Told(g) # {} \/ LoneEmpath(g)
<1>. DEFINE r == g.step.role
            p == Recipient(g)
<1>1. /\ InNight(g) /\ p \in Seats(g) /\ g.shown[p] = r /\ g.step \in Steps(g)
      /\ p \in g.dead => r = "ravenkeeper"
  BY OneIsAsked DEF Ready, Knows, Listed
<1>2. /\ Seating(g) /\ g.role \in [Seats(g) -> Roles] /\ g.shown \in [Seats(g) -> Roles]
      /\ \A q \in Seats(g) : g.role[q] # "drunk" => g.shown[q] = g.role[q]
  BY DEF Holds, Sound, People
<1>3. r \in PairRoles \union {"chef"} => g.phase = "first_night"
  BY <1>1, OtherNightRoles DEF Steps
<1>4. g.phase = "first_night" => Drawable(g.role, g.shown) /\ g.dead = {}
  BY DEF Knows, Lasting, Dealt, Holds, Sound, Timely
<1>5. CASE r \in PairRoles
  <2>1. PairValues(g.role, r) # {}
    BY <1>2, <1>3, <1>4, <1>5, PairsThere
  <2>2. PairTold(g) # {}
    BY <2>1 DEF PairTold, OnePair
  <2>3. QED  BY <1>5, <2>2 DEF Told, PairRoles
<1>6. CASE r = "chef"
  <2>1. NumberTold(g) = LeastOf(ChefValues(g.role))
    BY <1>6 DEF NumberTold
  <2>2. NumberTold(g) # {}
    BY <1>2, <2>1, ChefNumbersThere, LeastOfThem
  <2>3. QED  BY <1>6, <2>2 DEF Told, PairRoles
<1>7. CASE r = "empath"
  <2>. DEFINE values == EmpathValues(g.role, g.dead, p)
  <2>1. NumberTold(g) = LeastOf(values)
    BY <1>7 DEF NumberTold
  <2>2. Told(g) = NumberTold(g)
    BY <1>7 DEF Told, PairRoles
  <2>3. ASSUME values = {} PROVE LoneEmpath(g)
    <3>1. g.phase # "first_night"
      <4>1. ASSUME g.phase = "first_night" PROVE FALSE
        <5>1. g.dead = {} /\ p \notin g.dead
          BY <1>4, <4>1
        <5>2. \E x, y \in Seats(g) : x # y /\ Neighbours(g.role, g.dead, p) = {x, y}
          BY <1>1, <1>2, <5>1, NeighboursThere
        <5>3. QED  BY <1>2, <2>3, <5>1, <5>2, EmpathNumbers
      <4>2. QED  BY <4>1
    <3>2. g.phase = "other_night" /\ g.step \in OtherNightSteps(g)
      BY <1>1, <3>1 DEF InNight, Nights, Steps
    <3>3. QED  BY <1>7, <2>3, <3>2 DEF LoneEmpath, Recipient
  <2>. HIDE DEF values
  <2>4. QED  BY <2>1, <2>2, <2>3, LeastOfThem
<1>8. CASE r = "fortune_teller"
  <2>1. HasFortuneTeller(g)
    <3>1. p \in Holders(g.role, {"fortune_teller"}) \union DrunkShown(g, "fortune_teller")
      BY <1>1, <1>2, <1>8 DEF Holders, DrunkShown, Seats
    <3>2. QED  BY <3>1 DEF HasFortuneTeller
  <2>2. g.herring \in HerringCandidates(g.role)
    BY <1>1, <2>1 DEF Knows, Lasting, HerringFound, InNight, Nights
  <2>3. AnswerTold(g) # {}
    BY <2>2, AnswersThere DEF AnswerTold, FirstAnswer
  <2>4. QED  BY <1>8, <2>3 DEF Told, PairRoles
<1>9. CASE r = "spy"
  BY <1>9 DEF Told, PairRoles
<1>10. CASE r = "ravenkeeper"
  <2>1. CharacterTold(g) # {}
    BY <1>10 DEF Ready, CharacterTold
  <2>2. QED  BY <1>10, <2>1 DEF Told, PairRoles
<1>11. CASE r = "undertaker"
  <2>1. CharacterTold(g) # {}
    BY <1>1, <1>11, UndertakerWakes DEF CharacterTold
  <2>2. QED  BY <1>11, <2>1 DEF Told, PairRoles
<1>12. QED
  BY <1>5, <1>6, <1>7, <1>8, <1>9, <1>10, <1>11 DEF Ready, InformationRoles

\* Who has not nominated has somebody to nominate.
LEMMA SomeoneToNominate ==
  ASSUME NEW g, Holds(g), Paired(g), NEW p \in Seats(g), p \notin g.day.nominators
  PROVE  Seats(g) \ g.day.nominees # {}
<1>1. /\ IsFiniteSet(Seats(g)) /\ g.day.nominees \subseteq Seats(g)
      /\ g.day.nominators \subseteq Seats(g)
  BY SeatNumbers DEF Holds, Sound, Daily
<1>2. ASSUME g.day.nominees = Seats(g) PROVE FALSE
  <2>1. Cardinality(g.day.nominators) = Cardinality(Seats(g))
    BY <1>2 DEF Paired
  <2>2. g.day.nominators = Seats(g)
    BY <1>1, <2>1, SmallerSets
  <2>3. QED  BY <2>2
<1>3. QED  BY <1>1, <1>2

LEMMA PlayersOffered ==
  ASSUME NEW g, Holds(g), Knows(g), NEW p \in Seats(g)
  PROVE  LET v == PlayerView(g, p)
         IN /\ v.canNominate <=> \E q \in v.targets : NominationAccepted(g, p, q)
            /\ v.canVote <=> VoteAccepted(g, p)
            /\ v.choice <=> ChoiceAccepted(g, p)
            /\ v.information <=> AcknowledgementAccepted(g, p)
<1>. DEFINE v == PlayerView(g, p)
<1>1. /\ v.canNominate <=> /\ g.phase = "day" /\ p \notin g.dead /\ ~g.day.closed
                           /\ g.day.ballot = NoBallot /\ p \notin g.day.nominators
      /\ v.targets = IF g.phase = "day" THEN Seats(g) \ g.day.nominees ELSE {}
      /\ v.canVote <=> /\ g.phase = "day" /\ g.day.ballot # NoBallot
                       /\ p \notin g.dead \/ p \notin g.spent
                       /\ p \notin g.day.ballot.voted
      /\ v.choice <=> InNight(g) /\ p \in g.step.actors /\ ChoiceShown(g)
      /\ v.information <=> InNight(g) /\ p \in g.step.actors /\ g.info.to = p
  BY DEF PlayerView
<1>. HIDE DEF v
<1>2. v.canNominate <=> \E q \in v.targets : NominationAccepted(g, p, q)
  <2>1. p \notin g.day.nominators => \E q \in Seats(g) : q \notin g.day.nominees
    BY SomeoneToNominate DEF Knows, Lasting
  <2>2. QED  BY <1>1, <2>1 DEF NominationAccepted, Living
<1>3. v.canVote <=> VoteAccepted(g, p)
  BY <1>1 DEF VoteAccepted, Holds, Sound, Daily
<1>4. v.choice <=> ChoiceAccepted(g, p)
  BY <1>1 DEF ChoiceShown, ChoiceAccepted
<1>5. v.information <=> AcknowledgementAccepted(g, p)
  <2>1. ASSUME g.info.to = p PROVE g.info # NoInfo /\ Ready(g)
    <3>1. p # None
      BY SeatNumbers DEF Holds, Sound
    <3>2. g.info # NoInfo
      BY <2>1, <3>1 DEF NoInfo
    <3>3. QED  BY <3>2 DEF Knows, Informed
  <2>2. ASSUME Ready(g), p \in g.step.actors, g.info # NoInfo
        PROVE  InNight(g) /\ g.info.to = p
    <3>1. InNight(g) /\ g.step.actors = {Recipient(g)}
      BY <2>2, OneIsAsked DEF Ready
    <3>2. g.info.to = Recipient(g)
      <4>1. PICK v1 \in Told(g) : g.info = Telling(g, v1)
        BY <2>2 DEF Knows, Informed
      <4>2. QED  BY <4>1 DEF Telling
    <3>3. QED  BY <2>2, <3>1, <3>2
  <2>3. QED  BY <1>1, <2>1, <2>2 DEF AcknowledgementAccepted
<1>6. QED  BY <1>2, <1>3, <1>4, <1>5 DEF v

\* In every state what the views offer is what the commands accept (getPlayerView
\* and getModeratorView against applyCommand), and the storyteller is offered a
\* decision only where there is a value to commit, or an empath is left alone.
THEOREM OffersAreAccepted == Spec => []OfferedIsAccepted
<1>1. KnowInv => OfferedIsAccepted
  <2>. SUFFICES ASSUME KnowInv PROVE OfferedIsAccepted
    OBVIOUS
  <2>1. PICK g : g = game
    OBVIOUS
  <2>2. Holds(g) /\ Knows(g)
    BY <2>1 DEF KnowInv, GameInv
  <2>3. ModeratorView(g).public.canCompleteNightStep <=> CompletionAccepted(g)
    <3>1. ModeratorView(g).public.canCompleteNightStep
            <=> g.step # NoStep /\ ~Ready(g) /\ ~AsksChoice(g.step)
      BY DEF ModeratorView, PublicView
    <3>2. g.step # NoStep <=> InNight(g)
      BY <2>2 DEF Holds, AtStep, Entitled, StepOf, NoStep
    <3>3. QED  BY <3>1, <3>2 DEF CompletionAccepted
  <2>4. ModeratorView(g).decision => CommitAccepted(g) \/ LoneEmpath(g)
    <3>1. ModeratorView(g).decision => Ready(g) /\ g.info = NoInfo
      BY DEF ModeratorView, DecisionDue
    <3>2. QED  BY <2>2, <3>1, ToldThere DEF CommitAccepted
  <2>5. LoneEmpath(g) => EmpathAlone
    BY <2>1 DEF LoneEmpath, EmpathAlone
  <2>6. \A p \in Seats(g) :
          LET v == PlayerView(g, p)
          IN /\ v.canNominate <=> \E q \in v.targets : NominationAccepted(g, p, q)
             /\ v.canVote <=> VoteAccepted(g, p)
             /\ v.choice <=> ChoiceAccepted(g, p)
             /\ v.information <=> AcknowledgementAccepted(g, p)
    BY <2>2, PlayersOffered
  <2>7. QED  BY <2>1, <2>3, <2>4, <2>5, <2>6 DEF OfferedIsAccepted
<1>2. QED  BY KnowInvariance, <1>1, PTL

-----------------------------------------------------------------------------
(***************************************************************************)
(* What is told is true of the table it is told at.                        *)
(***************************************************************************)
\* The places round the circle from p to q, and back from p to q.
Places(n, p, q) == IF p < q THEN q - p ELSE q + n - p
Back(n, p, q) == IF q < p THEN p - q ELSE p + n - q

LEMMA Round ==
  ASSUME NEW n \in 5 .. 15, NEW p \in 1 .. n, NEW k \in 1 .. n - 1
  PROVE  /\ Ahead(p, k, n) = IF p + k <= n THEN p + k ELSE p + k - n
         /\ Behind(p, k, n) = IF k < p THEN p - k ELSE p + n - k
<1>1. (p - 1 + k) % n = IF p - 1 + k < n THEN p - 1 + k ELSE p - 1 + k - n
  OBVIOUS
<1>2. (p - 1 + n - k) % n = IF p - 1 < k THEN p - 1 + n - k ELSE p - 1 - k
  OBVIOUS
<1>3. QED  BY <1>1, <1>2 DEF Ahead, Behind

\* Who sits between two players of a table of n.
Within(n, p, q) == {x \in 1 .. n : IF p < q THEN p < x /\ x < q ELSE p < x \/ x < q}

\* Every other seat is so many places on and so many back, and between are those of
\* fewer places.
Circle(n, p) ==
  /\ \A q \in 1 .. n \ {p} :
       /\ Places(n, p, q) \in 1 .. n - 1 /\ Ahead(p, Places(n, p, q), n) = q
       /\ Back(n, p, q) \in 1 .. n - 1 /\ Behind(p, Back(n, p, q), n) = q
  /\ \A k \in 1 .. n - 1 :
       /\ Ahead(p, k, n) \in 1 .. n \ {p} /\ Places(n, p, Ahead(p, k, n)) = k
       /\ Behind(p, k, n) \in 1 .. n \ {p} /\ Back(n, p, Behind(p, k, n)) = k
  /\ \A q \in 1 .. n \ {p} :
       /\ Within(n, p, q) = {x \in 1 .. n \ {p} : Places(n, p, x) < Places(n, p, q)}
       /\ Within(n, q, p) = {x \in 1 .. n \ {p} : Back(n, p, x) < Back(n, p, q)}

LEMMA RoundTrip ==
  ASSUME NEW n \in 5 .. 15, NEW p \in 1 .. n
  PROVE  Circle(n, p)
<1>1. ASSUME NEW q \in 1 .. n \ {p}
      PROVE  /\ Places(n, p, q) \in 1 .. n - 1 /\ Ahead(p, Places(n, p, q), n) = q
             /\ Back(n, p, q) \in 1 .. n - 1 /\ Behind(p, Back(n, p, q), n) = q
  <2>1. Places(n, p, q) \in 1 .. n - 1 /\ Back(n, p, q) \in 1 .. n - 1
    BY DEF Places, Back
  <2>2. /\ Ahead(p, Places(n, p, q), n)
             = IF p + Places(n, p, q) <= n THEN p + Places(n, p, q) ELSE p + Places(n, p, q) - n
        /\ Behind(p, Back(n, p, q), n)
             = IF Back(n, p, q) < p THEN p - Back(n, p, q) ELSE p + n - Back(n, p, q)
    BY <2>1, Round
  <2>3. QED  BY <2>1, <2>2 DEF Places, Back
<1>2. ASSUME NEW k \in 1 .. n - 1
      PROVE  /\ Ahead(p, k, n) \in 1 .. n \ {p} /\ Places(n, p, Ahead(p, k, n)) = k
             /\ Behind(p, k, n) \in 1 .. n \ {p} /\ Back(n, p, Behind(p, k, n)) = k
  BY Round DEF Places, Back
<1>3. ASSUME NEW q \in 1 .. n \ {p}
      PROVE  /\ Within(n, p, q) = {x \in 1 .. n \ {p} : Places(n, p, x) < Places(n, p, q)}
             /\ Within(n, q, p) = {x \in 1 .. n \ {p} : Back(n, p, x) < Back(n, p, q)}
  BY DEF Within, Places, Back
<1>4. QED  BY <1>1, <1>2, <1>3 DEF Circle

\* The first of the places where somebody is alive.
LEMMA FirstIs ==
  ASSUME NEW ks, ks \subseteq Nat, NEW k \in ks
  PROVE  k = First(ks) <=> \A j \in ks : k <= j
<1>1. First(ks) \in ks /\ \A j \in ks : First(ks) <= j
  <2>1. \E x \in ks : \A y \in ks : x <= y
    BY LeastThere
  <2>2. QED  BY <2>1 DEF First
<1>2. First(ks) \in Nat /\ k \in Nat
  BY <1>1
<1>3. (\A j \in ks : k <= j) => k = First(ks)
  BY <1>1, <1>2
<1>4. QED  BY <1>1, <1>3

\* The living neighbours of p: nobody alive sits between.
Near(g, n, p) ==
  {q \in Living(g) \ {p} : Within(n, p, q) \subseteq g.dead \/ Within(n, q, p) \subseteq g.dead}

LEMMA NeighboursNear ==
  ASSUME NEW g, NEW n \in 5 .. 15, Seats(g) = 1 .. n, NEW p \in 1 .. n
  PROVE  Neighbours(g.role, g.dead, p) = Near(g, n, p)
<1>. DEFINE ahead == {k \in 1 .. n - 1 : Ahead(p, k, n) \notin g.dead}
            behind == {k \in 1 .. n - 1 : Behind(p, k, n) \notin g.dead}
            ns == {Ahead(p, First(ahead), n), Behind(p, First(behind), n)}
<1>1. Neighbours(g.role, g.dead, p) = IF ahead = {} THEN {} ELSE ns
  <2>1. Cardinality(Seated(g.role)) = n
    <3>1. n \in Nat /\ 1 \in Nat /\ Seated(g.role) = 1 .. n
      BY DEF Seats
    <3>2. QED  BY <3>1, FS_Interval
  <2>2. QED  BY <2>1 DEF Neighbours
<1>0. Circle(n, p)
  BY RoundTrip
<1>2. ahead \subseteq Nat /\ behind \subseteq Nat
  OBVIOUS
<1>3. ASSUME NEW q \in 1 .. n \ {p}, q \notin g.dead
      PROVE  /\ Places(n, p, q) \in ahead /\ Back(n, p, q) \in behind
             /\ Within(n, p, q) \subseteq g.dead <=> Places(n, p, q) = First(ahead)
             /\ Within(n, q, p) \subseteq g.dead <=> Back(n, p, q) = First(behind)
  <2>1. /\ Places(n, p, q) \in ahead /\ Back(n, p, q) \in behind
    BY <1>0, <1>3 DEF Circle
  <2>2. Within(n, p, q) \subseteq g.dead <=> \A j \in ahead : Places(n, p, q) <= j
    <3>1. Within(n, p, q) \subseteq g.dead
            <=> \A x \in 1 .. n \ {p} : Places(n, p, x) < Places(n, p, q) => x \in g.dead
      BY <1>0 DEF Circle
    <3>2. (\A x \in 1 .. n \ {p} : Places(n, p, x) < Places(n, p, q) => x \in g.dead)
            <=> \A j \in 1 .. n - 1 : j < Places(n, p, q) => Ahead(p, j, n) \in g.dead
      BY <1>0 DEF Circle
    <3>3. Places(n, p, q) \in 1 .. n - 1
      BY <2>1
    <3>4. QED  BY <3>1, <3>2, <3>3
  <2>3. Within(n, q, p) \subseteq g.dead <=> \A j \in behind : Back(n, p, q) <= j
    <3>1. Within(n, q, p) \subseteq g.dead
            <=> \A x \in 1 .. n \ {p} : Back(n, p, x) < Back(n, p, q) => x \in g.dead
      BY <1>0 DEF Circle
    <3>2. (\A x \in 1 .. n \ {p} : Back(n, p, x) < Back(n, p, q) => x \in g.dead)
            <=> \A j \in 1 .. n - 1 : j < Back(n, p, q) => Behind(p, j, n) \in g.dead
      BY <1>0 DEF Circle
    <3>3. Back(n, p, q) \in 1 .. n - 1
      BY <2>1
    <3>4. QED  BY <3>1, <3>2, <3>3
  <2>. HIDE DEF ahead, behind
  <2>4. QED  BY <1>2, <2>1, <2>2, <2>3, FirstIs
<1>4. \A k \in ahead : Ahead(p, k, n) \in 1 .. n \ {p} /\ Ahead(p, k, n) \notin g.dead
                       /\ Places(n, p, Ahead(p, k, n)) = k
  BY <1>0 DEF Circle
<1>5. \A k \in behind : Behind(p, k, n) \in 1 .. n \ {p} /\ Behind(p, k, n) \notin g.dead
                        /\ Back(n, p, Behind(p, k, n)) = k
  BY <1>0 DEF Circle
<1>6. \A q \in 1 .. n \ {p} : q = Ahead(p, Places(n, p, q), n) /\ q = Behind(p, Back(n, p, q), n)
  BY <1>0 DEF Circle
<1>7. Near(g, n, p) = {q \in 1 .. n \ {p} : q \notin g.dead /\
                         (Within(n, p, q) \subseteq g.dead \/ Within(n, q, p) \subseteq g.dead)}
  BY DEF Near, Living
<1>. HIDE DEF ahead, behind
<1>8. ahead # {} => First(ahead) \in ahead
  BY <1>2, FirstOfThem
<1>9. behind # {} => First(behind) \in behind
  BY <1>2, FirstOfThem
<1>10. ahead # {} <=> behind # {}
  BY <1>3, <1>4, <1>5
<1>11. CASE ahead = {}
  <2>1. Near(g, n, p) = {}
    BY <1>3, <1>7, <1>11
  <2>2. QED  BY <1>1, <1>11, <2>1
<1>12. CASE ahead # {}
  <2>. DEFINE x == Ahead(p, First(ahead), n)
              y == Behind(p, First(behind), n)
  <2>1. /\ x \in 1 .. n \ {p} /\ x \notin g.dead /\ Places(n, p, x) = First(ahead)
        /\ y \in 1 .. n \ {p} /\ y \notin g.dead /\ Back(n, p, y) = First(behind)
    BY <1>4, <1>5, <1>8, <1>9, <1>10, <1>12
  <2>2. \A q \in 1 .. n \ {p} : /\ Places(n, p, q) = First(ahead) => q = x
                                /\ Back(n, p, q) = First(behind) => q = y
    BY <1>6
  <2>. HIDE DEF x, y
  <2>3. Near(g, n, p) = {x, y}
    BY <1>3, <1>7, <2>1, <2>2
  <2>4. QED  BY <1>1, <1>12, <2>3 DEF x, y
<1>13. QED  BY <1>11, <1>12

\* Of a nonempty set of numbers the least is told, which is one of them.
LEMMA LeastIsOne ==
  ASSUME NEW ns, ns \subseteq Nat, ns # {}
  PROVE  Least(ns) \in ns
<1>1. \E x \in ns : \A y \in ns : x <= y
  BY LeastThere
<1>2. QED  BY <1>1 DEF Least

LEMMA NumberIsOne ==
  ASSUME NEW ns, ns \subseteq Nat, NEW v \in LeastOf(ns)
  PROVE  v.number \in ns
<1>1. ns # {} /\ v = [number |-> Least(ns)]
  BY DEF LeastOf
<1>2. QED  BY <1>1, LeastIsOne

(***************************************************************************)
(* The chef: whatever the pairs count for, the sum lies between the pairs  *)
(* sure to be evil and those that may be.                                  *)
(***************************************************************************)
Upto(A, k) == {p \in 1 .. k : p \in A}

LEMMA UptoNext ==
  ASSUME NEW A, NEW k \in Nat
  PROVE  /\ Cardinality(Upto(A, 0)) = 0 /\ Cardinality(Upto(A, k)) \in Nat
         /\ k # 0 => Cardinality(Upto(A, k))
                       = Cardinality(Upto(A, k - 1)) + IF k \in A THEN 1 ELSE 0
<1>1. \A m \in Nat : IsFiniteSet(Upto(A, m))
  <2>1. ASSUME NEW m \in Nat PROVE IsFiniteSet(Upto(A, m))
    <3>1. IsFiniteSet(1 .. m)
      BY FS_Interval
    <3>2. Upto(A, m) \subseteq 1 .. m
      BY DEF Upto
    <3>3. QED  BY <3>1, <3>2, SmallerSets
  <2>2. QED  BY <2>1
<1>2. Upto(A, 0) = {}
  BY DEF Upto
<1>3. ASSUME k # 0
      PROVE  Cardinality(Upto(A, k)) = Cardinality(Upto(A, k - 1)) + IF k \in A THEN 1 ELSE 0
  <2>1. IsFiniteSet(Upto(A, k - 1)) /\ Cardinality(Upto(A, k - 1)) \in Nat
    BY <1>1, <1>3, FS_CardinalityType
  <2>2. CASE k \in A
    <3>1. Upto(A, k) = Upto(A, k - 1) \union {k} /\ k \notin Upto(A, k - 1)
      BY <1>3, <2>2 DEF Upto
    <3>2. Cardinality(Upto(A, k)) = Cardinality(Upto(A, k - 1)) + 1
      BY <2>1, <3>1, FS_AddElement
    <3>3. QED  BY <2>2, <3>2
  <2>3. CASE k \notin A
    <3>1. Upto(A, k) = Upto(A, k - 1)
      BY <1>3, <2>3 DEF Upto
    <3>2. QED  BY <2>1, <2>3, <3>1
  <2>4. QED  BY <2>2, <2>3
<1>4. QED  BY <1>1, <1>2, <1>3, FS_EmptySet, FS_CardinalityType

LEMMA SumsBounded ==
  ASSUME NEW role, NEW n \in Nat, NEW f, Sums(role, f, n), NEW A, NEW B,
         \A k \in 1 .. n : \A c \in PairCounts(role, k) :
           c \in {0, 1} /\ (k \in A => c = 1) /\ (k \notin B => c = 0)
  PROVE  \A v \in f[n] : /\ v \in Nat
                         /\ Cardinality(Upto(A, n)) <= v /\ v <= Cardinality(Upto(B, n))
<1>. DEFINE a(k) == Cardinality(Upto(A, k))
            b(k) == Cardinality(Upto(B, k))
            Within1(k) == \A v \in f[k] : v \in Nat /\ a(k) <= v /\ v <= b(k)
            wrong == {k \in 0 .. n : ~Within1(k)}
<1>1. \A k \in 0 .. n : f[k] = SumOf(role, f, k)
  BY DEF Sums
<1>2. a(0) = 0 /\ b(0) = 0
  BY UptoNext
<1>3. \A k \in Nat : a(k) \in Nat /\ b(k) \in Nat
  BY UptoNext
<1>4. \A k \in 1 .. n : /\ a(k) = a(k - 1) + IF k \in A THEN 1 ELSE 0
                        /\ b(k) = b(k - 1) + IF k \in B THEN 1 ELSE 0
  BY UptoNext
<1>. HIDE DEF a, b
<1>5. Within1(0)
  BY <1>1, <1>2 DEF SumOf
<1>6. ASSUME NEW k \in 1 .. n, Within1(k - 1) PROVE Within1(k)
  <2>1. f[k] = Plus(f[k - 1], PairCounts(role, k))
    BY <1>1 DEF SumOf
  <2>2. ASSUME NEW v \in f[k] PROVE v \in Nat /\ a(k) <= v /\ v <= b(k)
    <3>1. PICK x \in f[k - 1], c \in PairCounts(role, k) : v = x + c
      BY <2>1, <2>2 DEF Plus
    <3>2. x \in Nat /\ a(k - 1) <= x /\ x <= b(k - 1)
      BY <1>6
    <3>3. c \in {0, 1} /\ (k \in A => c = 1) /\ (k \notin B => c = 0)
      OBVIOUS
    <3>4. a(k - 1) \in Nat /\ b(k - 1) \in Nat
      BY <1>3
    <3>5. QED  BY <1>4, <3>1, <3>2, <3>3, <3>4
  <2>3. QED  BY <2>2
<1>7. Within1(n) <=> \A v \in f[n] : v \in Nat /\ a(n) <= v /\ v <= b(n)
  OBVIOUS
<1>. HIDE DEF Within1
<1>8. ASSUME wrong # {} PROVE FALSE
  <2>1. wrong \subseteq Nat
    OBVIOUS
  <2>. HIDE DEF wrong
  <2>2. PICK k \in wrong : \A x \in wrong : k <= x
    BY <1>8, <2>1, LeastThere
  <2>. USE DEF wrong
  <2>3. k \in Nat /\ k <= n /\ ~Within1(k)
    BY <2>2
  <2>4. k # 0 /\ ~Within1(k - 1)
    BY <1>5, <1>6, <2>3
  <2>5. k - 1 \in wrong
    BY <2>3, <2>4
  <2>6. QED  BY <2>2, <2>3, <2>5
<1>9. Within1(n)
  BY <1>8
<1>10. QED  BY <1>7, <1>9 DEF a, b

\* The pairs of the circle that are of players who are all of them in ps.
PairsOf(n, ps) == {p \in 1 .. n : {p, IF p = n THEN 1 ELSE p + 1} \subseteq ps}
SureEvil(g, ps) == {p \in ps : ~MayBeGood(g.role[p])}
MaybeEvil(g, ps) == {p \in ps : MayBeEvil(g.role[p])}

LEMMA ChefCounts ==
  ASSUME NEW g, NEW n \in 5 .. 15, Seats(g) = 1 .. n, g.role \in [Seats(g) -> Roles],
         NEW v \in ChefValues(g.role)
  PROVE  v \in Cardinality(PairsOf(n, SureEvil(g, Seats(g))))
                 .. Cardinality(PairsOf(n, MaybeEvil(g, Seats(g))))
<1>. DEFINE A == PairsOf(n, SureEvil(g, Seats(g)))
            B == PairsOf(n, MaybeEvil(g, Seats(g)))
<1>1. Cardinality(Seated(g.role)) = n /\ n \in Nat
  <2>1. n \in Nat /\ 1 \in Nat /\ Seated(g.role) = 1 .. n
    BY DEF Seats
  <2>2. QED  BY <2>1, FS_Interval
<1>2. ChefValues(g.role) = (CHOOSE f : Sums(g.role, f, n))[n]
  BY <1>1 DEF ChefValues, Sums, SumOf, Plus
<1>3. \E f : Sums(g.role, f, n)
  BY <1>1, SumsThere
<1>4. PICK f : f = CHOOSE x : Sums(g.role, x, n)
  OBVIOUS
<1>5. Sums(g.role, f, n) /\ ChefValues(g.role) = f[n]
  BY <1>2, <1>3, <1>4
<1>6. ASSUME NEW k \in 1 .. n, NEW c \in PairCounts(g.role, k)
      PROVE  c \in {0, 1} /\ (k \in A => c = 1) /\ (k \notin B => c = 0)
  <2>. DEFINE q == IF k = n THEN 1 ELSE k + 1
  <2>1. k % n = IF k = n THEN 0 ELSE k
    OBVIOUS
  <2>2. Next1(k, n) = q /\ q \in 1 .. n
    BY <2>1 DEF Next1
  <2>3. /\ c \in {0, 1}
        /\ c = 1 => MayBeEvil(g.role[k]) /\ MayBeEvil(g.role[q])
        /\ c = 0 => MayBeGood(g.role[k]) \/ MayBeGood(g.role[q])
    BY <1>1, <2>2 DEF PairCounts
  <2>4. k \in A => ~MayBeGood(g.role[k]) /\ ~MayBeGood(g.role[q])
    BY DEF PairsOf, SureEvil
  <2>5. k \notin B => ~(MayBeEvil(g.role[k]) /\ MayBeEvil(g.role[q]))
    BY <2>2 DEF PairsOf, MaybeEvil
  <2>6. QED  BY <2>3, <2>4, <2>5
<1>7. A \subseteq 1 .. n /\ B \subseteq 1 .. n
  BY DEF PairsOf
<1>. HIDE DEF A, B
<1>8. Upto(A, n) = A /\ Upto(B, n) = B
  BY <1>7 DEF Upto
<1>9. v \in Nat /\ Cardinality(Upto(A, n)) <= v /\ v <= Cardinality(Upto(B, n))
  <2>1. \A k \in 1 .. n : \A c \in PairCounts(g.role, k) :
          c \in {0, 1} /\ (k \in A => c = 1) /\ (k \notin B => c = 0)
    BY <1>6
  <2>2. PICK role : role = g.role
    OBVIOUS
  <2>3. \A w \in f[n] : /\ w \in Nat /\ Cardinality(Upto(A, n)) <= w
                         /\ w <= Cardinality(Upto(B, n))
    BY <1>1, <1>5, <2>1, <2>2, SumsBounded
  <2>4. QED  BY <1>5, <2>3
<1>10. Cardinality(Upto(A, n)) \in Nat /\ Cardinality(Upto(B, n)) \in Nat
  BY <1>1, UptoNext
<1>11. v \in Cardinality(A) .. Cardinality(B)
  BY <1>8, <1>9, <1>10
<1>12. QED  BY <1>11 DEF A, B

(***************************************************************************)
(* The three abilities whose value is worked out, each on its own.         *)
(***************************************************************************)
EmpathTruth(g, n) ==
  g.info.ability = "empath" =>
    g.info.value.number \in Cardinality(SureEvil(g, Near(g, n, g.info.to)))
                              .. Cardinality(MaybeEvil(g, Near(g, n, g.info.to)))
ChefTruth(g, n) ==
  g.info.ability = "chef" =>
    g.info.value.number \in Cardinality(PairsOf(n, SureEvil(g, Seats(g))))
                              .. Cardinality(PairsOf(n, MaybeEvil(g, Seats(g))))
AnswerTruth(g) ==
  g.info.ability = "fortune_teller" =>
    IF g.info.value.yes
    THEN {p \in g.chosen : g.role[p] \in {"imp", "recluse"}} # {} \/ g.herring \in g.chosen
    ELSE {p \in g.chosen : g.role[p] = "imp"} = {} /\ g.herring \notin g.chosen

\* What was told is what the ability gives at the table.
LEMMA InformedOf ==
  ASSUME NEW g, Holds(g), Knows(g), g.info # NoInfo
  PROVE  /\ g.info.ability = g.step.role /\ g.info.to = Recipient(g)
         /\ g.info.value \in Told(g) /\ Recipient(g) \in Seats(g)
<1>1. PICK v \in Told(g) : Ready(g) /\ g.info = Telling(g, v)
  BY DEF Knows, Informed
<1>2. g.info.ability = g.step.role /\ g.info.to = Recipient(g) /\ g.info.value = v
  BY <1>1 DEF Telling
<1>3. QED  BY <1>1, <1>2, OneIsAsked DEF Ready

LEMMA EmpathTold ==
  ASSUME NEW g, NEW n \in 5 .. 15, Seats(g) = 1 .. n, Holds(g), Knows(g)
  PROVE  EmpathTruth(g, n)
<1>. SUFFICES ASSUME g.info.ability = "empath"
              PROVE  g.info.value.number \in Cardinality(SureEvil(g, Near(g, n, g.info.to)))
                                  .. Cardinality(MaybeEvil(g, Near(g, n, g.info.to)))
  BY DEF EmpathTruth
<1>. DEFINE p == Recipient(g)
            ns == Neighbours(g.role, g.dead, p)
            values == EmpathValues(g.role, g.dead, p)
<1>1. g.info # NoInfo
  BY DEF NoInfo
<1>2. /\ g.step.role = "empath" /\ g.info.to = p /\ g.info.value \in Told(g) /\ p \in 1 .. n
  BY <1>1, InformedOf
<1>3. g.info.value \in LeastOf(values)
  BY <1>2 DEF Told, NumberTold, PairRoles
<1>4. values # {}
  BY <1>3 DEF LeastOf
<1>5. values = Cardinality(SureEvil(g, ns)) .. Cardinality(MaybeEvil(g, ns))
  BY <1>4 DEF EmpathValues, SureEvil, MaybeEvil
<1>6. ns = Near(g, n, p)
  BY <1>2, NeighboursNear
<1>7. Cardinality(SureEvil(g, ns)) \in Nat
  <2>1. IsFiniteSet(1 .. n)
    <3>1. n \in Nat /\ 1 \in Nat
      OBVIOUS
    <3>2. QED  BY <3>1, FS_Interval
  <2>2. SureEvil(g, ns) \subseteq 1 .. n
    BY <1>6 DEF SureEvil, Near, Living
  <2>3. QED  BY <2>1, <2>2, SmallerSets
<1>. HIDE DEF values, ns, p
<1>8. values \subseteq Nat
  BY <1>5, <1>7
<1>9. g.info.value.number \in values
  BY <1>3, <1>8, NumberIsOne
<1>10. QED  BY <1>2, <1>5, <1>6, <1>9

LEMMA ChefTold ==
  ASSUME NEW g, NEW n \in 5 .. 15, Seats(g) = 1 .. n, Holds(g), Knows(g)
  PROVE  ChefTruth(g, n)
<1>. SUFFICES ASSUME g.info.ability = "chef"
              PROVE  g.info.value.number \in Cardinality(PairsOf(n, SureEvil(g, Seats(g))))
                                  .. Cardinality(PairsOf(n, MaybeEvil(g, Seats(g))))
  BY DEF ChefTruth
<1>1. g.info # NoInfo
  BY DEF NoInfo
<1>2. g.step.role = "chef" /\ g.info.value \in Told(g)
  BY <1>1, InformedOf
<1>3. g.info.value \in LeastOf(ChefValues(g.role))
  BY <1>2 DEF Told, NumberTold, PairRoles
<1>4. Seating(g) /\ g.role \in [Seats(g) -> Roles]
  BY DEF Holds, Sound, People
<1>5. ChefValues(g.role) \subseteq Nat
  BY <1>4, ChefNumbersThere
<1>6. g.info.value.number \in ChefValues(g.role)
  BY <1>3, <1>5, NumberIsOne
<1>7. QED  BY <1>4, <1>6, ChefCounts

LEMMA AnswerIsTrue ==
  ASSUME NEW g, Holds(g), Knows(g)
  PROVE  AnswerTruth(g)
<1>. SUFFICES ASSUME g.info.ability = "fortune_teller"
              PROVE  IF g.info.value.yes
                     THEN \/ {p \in g.chosen : g.role[p] \in {"imp", "recluse"}} # {}
                          \/ g.herring \in g.chosen
                     ELSE /\ {p \in g.chosen : g.role[p] = "imp"} = {}
                          /\ g.herring \notin g.chosen
  BY DEF AnswerTruth
<1>. DEFINE bs == FortuneTellerValues(g.role, g.chosen, g.herring)
<1>1. g.info # NoInfo
  BY DEF NoInfo
<1>2. g.step.role = "fortune_teller" /\ g.info.value \in Told(g)
  BY <1>1, InformedOf
<1>3. g.info.value \in FirstAnswer(bs)
  BY <1>2 DEF Told, AnswerTold, PairRoles
<1>4. bs # {} /\ g.info.value = [yes |-> FALSE \notin bs]
  BY <1>3 DEF FirstAnswer
<1>5. g.info.value.yes <=> FALSE \notin bs
  <2>1. \A b : [yes |-> b].yes = b
    OBVIOUS
  <2>2. [yes |-> FALSE \notin bs].yes = (FALSE \notin bs)
    BY <2>1, Zenon
  <2>3. g.info.value.yes = (FALSE \notin bs)
    BY <1>4, <2>2, Zenon
  <2>4. QED  BY <2>3, Zenon
<1>6. bs \subseteq {TRUE, FALSE}
  BY DEF FortuneTellerValues
<1>7. ASSUME TRUE \in bs
      PROVE  \E p \in g.chosen : p = g.herring \/ g.role[p] \in {"imp", "recluse"}
  <2>1. PICK p \in g.chosen :
          p = g.herring \/ Characters(g.role[p]) \intersect Demons # {}
    BY <1>7 DEF FortuneTellerValues
  <2>2. \A r : Characters(r) \intersect Demons # {} => r \in {"imp", "recluse"}
    BY DEF Characters, Demons, Good, Townsfolk, Outsiders
  <2>3. QED  BY <2>1, <2>2
<1>8. ASSUME FALSE \in bs
      PROVE  \A p \in g.chosen : p # g.herring /\ g.role[p] # "imp"
  <2>1. \A p \in g.chosen : p # g.herring /\ Characters(g.role[p]) \ Demons # {}
    BY <1>8 DEF FortuneTellerValues
  <2>2. Characters("imp") \ Demons = {}
    BY DEF Characters, Demons
  <2>3. QED  BY <2>1, <2>2
<1>. HIDE DEF bs
<1>9. FALSE \notin bs => TRUE \in bs
  BY <1>4, <1>6
<1>10. QED  BY <1>5, <1>7, <1>8, <1>9

\* In every state what was told last agrees with the table, and the bluffs with the
\* characters in play.
THEOREM InformationIsTrue == Spec => []InformationTrue
<1>1. KnowInv => InformationTrue
  <2>. SUFFICES ASSUME KnowInv PROVE InformationTrue
    OBVIOUS
  <2>1. PICK g : g = game
    OBVIOUS
  <2>2. Holds(g) /\ Knows(g)
    BY <2>1 DEF KnowInv, GameInv
  <2>3. PICK n \in 5 .. 15 : Seats(g) = 1 .. n
    BY <2>2 DEF Holds, Sound, Seating
  <2>4. Cardinality(Seats(g)) = n
    <3>1. n \in Nat /\ 1 \in Nat
      OBVIOUS
    <3>2. QED  BY <2>3, <3>1, FS_Interval
  <2>5. EmpathTruth(g, n) /\ ChefTruth(g, n) /\ AnswerTruth(g)
    BY <2>2, <2>3, EmpathTold, ChefTold, AnswerIsTrue
  <2>6. game.bluffs \subseteq Good \ {game.role[p] : p \in Seats(game)}
    BY <2>1, <2>2 DEF Knows, Lasting, LegalBluffs, Holders, Seats
  <2>7. \A p, q : Between(p, q) = Within(n, p, q)
    BY <2>1, <2>3 DEF Between, Within
  <2>. DEFINE info == game.info
              near(p) == {q \in Living(game) \ {p} :
                            Between(p, q) \subseteq game.dead \/ Between(q, p) \subseteq game.dead}
              sure(ps) == {p \in ps : ~MayBeGood(game.role[p])}
              possible(ps) == {p \in ps : MayBeEvil(game.role[p])}
              next(p) == IF p = Cardinality(Seats(game)) THEN 1 ELSE p + 1
              surePairs == {p \in Seats(game) : {p, next(p)} \subseteq sure(Seats(game))}
              possiblePairs ==
                {p \in Seats(game) : {p, next(p)} \subseteq possible(Seats(game))}
  <2>8. \A p : near(p) = Near(g, n, p)
    BY <2>1, <2>7 DEF Near
  <2>9. \A ps : sure(ps) = SureEvil(g, ps) /\ possible(ps) = MaybeEvil(g, ps)
    BY <2>1 DEF SureEvil, MaybeEvil
  <2>10. /\ surePairs = PairsOf(n, SureEvil(g, Seats(g)))
         /\ possiblePairs = PairsOf(n, MaybeEvil(g, Seats(g)))
    <3>. HIDE DEF sure, possible
    <3>1. QED  BY <2>1, <2>3, <2>4, <2>9 DEF PairsOf
  <2>11. AnswerTruth(game)
    BY <2>1, <2>5
  <2>12. /\ info.ability = "empath" =>
              info.value.number \in Cardinality(sure(near(info.to)))
                                      .. Cardinality(possible(near(info.to)))
         /\ info.ability = "chef" =>
              info.value.number \in Cardinality(surePairs) .. Cardinality(possiblePairs)
    <3>. HIDE DEF near, sure, possible, surePairs, possiblePairs
    <3>1. QED  BY <2>1, <2>5, <2>8, <2>9, <2>10 DEF EmpathTruth, ChefTruth
  <2>13. QED  BY <2>6, <2>11, <2>12, Zenon DEF InformationTrue, AnswerTruth
<1>2. QED  BY KnowInvariance, <1>1, PTL

-----------------------------------------------------------------------------
(***************************************************************************)
(* The night wakes whom it should. What the history remembers is a record  *)
(* h of its own here: which roles were held or believed at dusk, who had   *)
(* died by then and who was executed, who has been woken since, and who    *)
(* became the imp.                                                         *)
(***************************************************************************)
\* No two hold the same character, unless both are imps: one of them is dead. The
\* drunk believes to hold one that nobody holds.
OneOfEach(g) ==
  /\ \A p, q \in Seats(g) : p # q /\ g.role[p] = g.role[q] => g.role[p] = "imp"
  /\ \A p \in Seats(g) :
       g.role[p] = "drunk" => g.shown[p] \in Townsfolk /\ Holders(g.role, {g.shown[p]}) = {}

Numbered(g) ==
  /\ g.nightNumber \in Nat
  /\ g.phase = "role_reveal" => g.nightNumber = 0
  /\ g.phase = "first_night" => g.nightNumber = 1
  /\ g.phase = "other_night" => g.nightNumber > 1
  /\ g.phase = "day" => g.nightNumber > 0

\* A transition stands from the execution or the attack that makes it to the next
\* dawn; until the imp's step whoever it made the imp is alive.
Passing(g) ==
  /\ IsFiniteSet(g.transitions)
  /\ g.phase = "day" /\ ~g.day.closed => g.transitions = {}
  /\ \A t \in g.transitions : t.kind \in {"scarlet_woman", "self_kill"}
  /\ g.phase = "day" \/ (g.phase = "other_night" /\ g.step.at < 5) =>
       \A t \in g.transitions : t.to \notin g.dead

\* What the history has of a night is how the night began, but for the new imps; of
\* those, no more than the transitions still to be told.
Recorded(g, h) ==
  /\ InNight(g) =>
       /\ \A p \in Seats(g) :
            g.shown[p] = h.dusk[p] \/ (p \in h.changed /\ h.dusk[p] \in Minions)
       /\ h.executed = g.executed /\ g.dead \ h.fallen \subseteq g.tonight
  /\ g.phase = "role_reveal" => h.changed = {}
  /\ InNight(g) \/ (g.phase = "day" /\ g.day.closed) =>
       h.changed \subseteq {t.to : t \in g.transitions}

\* The place at which the night should wake p, going by the history.
Turn(g, h, p, at) ==
  \/ /\ g.phase = "first_night" /\ p \notin g.dead \union h.changed
     /\ \E i \in 1 .. 9 : h.dusk[p] = FirstNightOrder[i] /\ at = i + 2
  \/ /\ g.phase = "other_night" /\ p \notin g.dead \union h.changed
     /\ at \in (1 .. 11) \ {4, 6, 7} /\ h.dusk[p] = OtherNightOrder[at]
     /\ h.dusk[p] = "undertaker" => h.executed # None
  \/ /\ g.phase = "other_night" /\ p \in g.dead \ h.fallen
     /\ at = 7 /\ h.dusk[p] = "ravenkeeper"

\* Whoever's place the cursor has reached was woken.
WokenSoFar(g, h) ==
  InNight(g) =>
    \A p \in Seats(g) : \A at \in 1 .. 11 :
      at <= g.step.at /\ Turn(g, h, p, at) => p \in h.woken

\* Whoever became the imp was told, once the cursor has passed the place.
Noticed(g, p) == \E n \in g.notices : n.night = g.nightNumber /\ n.to = p
PlaceOf(t) == IF t.kind = "scarlet_woman" THEN 4 ELSE 6
NewImpsTold(g) ==
  InNight(g) => \A t \in g.transitions : PlaceOf(t) <= g.step.at => Noticed(g, t.to)

\* What EveryOneWakes says of dawn, of any game and history.
Slept(g, h) ==
  LET regular == IF g.nightNumber = 1 THEN {FirstNightOrder[i] : i \in 1 .. 9}
                 ELSE {"poisoner", "monk", "spy", "imp", "empath", "fortune_teller", "butler"}
  IN g.phase \in {"day", "finished"} /\ ~g.day.closed =>
       /\ \A p \in Living(g) \ h.changed :
            h.dusk[p] \in regular \/ (h.dusk[p] = "undertaker" /\ h.executed # None)
              => p \in h.woken
       /\ \A p \in g.dead \ h.fallen : h.dusk[p] = "ravenkeeper" => p \in h.woken
       /\ \A p \in h.changed : Noticed(g, p)

Roused(g, h) ==
  /\ OneOfEach(g) /\ Numbered(g) /\ Passing(g)
  /\ Recorded(g, h) /\ WokenSoFar(g, h) /\ Slept(g, h)

NightInv == KnowInv /\ Roused(game, past) /\ NewImpsTold(game)

LEMMA HeldByOne ==
  ASSUME NEW g, People(g), OneOfEach(g), NEW p \in Seats(g), NEW r,
         r \notin {"imp", "drunk"}, g.shown[p] = r
  PROVE  \/ Holders(g.role, {r}) = {p}
         \/ Holders(g.role, {r}) = {} /\ DrunkShown(g, r) = {p}
<1>1. CASE g.role[p] = "drunk"
  <2>1. Holders(g.role, {r}) = {}
    BY <1>1 DEF OneOfEach
  <2>2. p \in DrunkShown(g, r)
    BY <1>1 DEF DrunkShown, Holders, Seats
  <2>3. \A q \in DrunkShown(g, r) : q = p
    BY <1>1 DEF DrunkShown, Holders, Seats, OneOfEach
  <2>4. QED  BY <2>1, <2>2, <2>3
<1>2. CASE g.role[p] # "drunk"
  <2>1. g.role[p] = r
    BY <1>2 DEF People
  <2>2. p \in Holders(g.role, {r})
    BY <2>1 DEF Holders, Seats
  <2>3. \A q \in Holders(g.role, {r}) : q = p
    BY <2>1 DEF Holders, Seats, OneOfEach
  <2>4. QED  BY <2>2, <2>3
<1>3. QED  BY <1>1, <1>2

\* A step that wakes p, at its place.
Wakes(s, at, p) == s.at = at /\ s.kind = "role" /\ p \in s.actors

LEMMA WakeOf ==
  ASSUME NEW p \in Nat, NEW at, NEW r, NEW ps, NEW qs, ps = {p} \/ (ps = {} /\ qs = {p})
  PROVE  /\ \E s \in Wake(at, r, ps, qs) : Wakes(s, at, p)
         /\ \A s \in Wake(at, r, ps, qs) : Wakes(s, at, p)
<1>1. First({p}) = p
  BY FirstOfOne
<1>2. \E source : Wake(at, r, ps, qs) = {RoleStep(at, r, p, source)}
  <2>1. CASE ps = {p}
    BY <1>1, <2>1 DEF Wake
  <2>2. CASE ps = {} /\ qs = {p}
    BY <1>1, <2>2 DEF Wake
  <2>3. QED  BY <2>1, <2>2
<1>3. \A source : Wakes(RoleStep(at, r, p, source), at, p)
  BY DEF Wakes, RoleStep
<1>4. QED  BY <1>2, <1>3

\* The places of the steps of the two nights.
FirstOf(g, i) == Wake(i + 2, FirstNightOrder[i], Holders(g.role, {FirstNightOrder[i]}),
                      DrunkShown(g, FirstNightOrder[i]))

LEMMA FirstPlaces ==
  ASSUME NEW g
  PROVE  /\ \A i \in 1 .. 9 : FirstOf(g, i) \subseteq FirstNightSteps(g)
         /\ \A i \in 1 .. 9 : \A s \in FirstNightSteps(g) : s.at = i + 2 => s \in FirstOf(g, i)
<1>. DEFINE known(at, r, cs) == [at |-> at, kind |-> "system_info", role |-> r,
                                 actors |-> Holders(g.role, cs), source |-> "none"]
            told == IF Cardinality(Seats(g)) < 7 THEN {}
                    ELSE {known(1, "minion_info", Minions), known(2, "demon_info", Demons)}
<1>1. FirstNightSteps(g) = told \union UNION {FirstOf(g, i) : i \in 1 .. 9}
  BY DEF FirstNightSteps, FirstOf
<1>2. \A s \in told : s.at \in {1, 2}
  <2>1. \A at, r, cs : known(at, r, cs).at = at
    OBVIOUS
  <2>. HIDE DEF known
  <2>2. QED  BY <2>1
<1>3. \A i \in 1 .. 9 : \A s \in FirstOf(g, i) : s.at = i + 2
  BY DEF FirstOf, Wake, RoleStep
<1>. HIDE DEF told
<1>4. \A i \in 1 .. 9 : FirstOf(g, i) \subseteq FirstNightSteps(g)
  BY <1>1
<1>5. ASSUME NEW i \in 1 .. 9, NEW s \in FirstNightSteps(g), s.at = i + 2
      PROVE  s \in FirstOf(g, i)
  <2>1. PICK j \in 1 .. 9 : s \in FirstOf(g, j)
    BY <1>1, <1>2, <1>5
  <2>2. j = i
    BY <1>3, <1>5, <2>1
  <2>3. QED  BY <2>1, <2>2
<1>6. QED  BY <1>4, <1>5

Plain == (1 .. 11) \ {4, 5, 6}

LEMMA OtherPlaces ==
  ASSUME NEW g
  PROVE  /\ \A i \in Plain : OtherActor(g, i, OtherNightOrder[i]) \subseteq OtherNightSteps(g)
         /\ ImpStep(g) \subseteq OtherNightSteps(g)
         /\ \A t \in Successions(g, "scarlet_woman") : ChangeStep(4, t) \in OtherNightSteps(g)
         /\ \A t \in Successions(g, "self_kill") : ChangeStep(6, t) \in OtherNightSteps(g)
         /\ \A s \in OtherNightSteps(g) :
              /\ \A i \in Plain : s.at = i => s \in OtherActor(g, i, OtherNightOrder[i])
              /\ s.at = 5 => s \in ImpStep(g)
              /\ s.at = 4 => \E t \in Successions(g, "scarlet_woman") : s = ChangeStep(4, t)
              /\ s.at = 6 => \E t \in Successions(g, "self_kill") : s = ChangeStep(6, t)
<1>. DEFINE Of(i) == OtherActor(g, i, OtherNightOrder[i])
<1>1. OtherNightSteps(g)
        = (UNION {Of(i) : i \in Plain}) \union {ChangeStep(4, t) : t \in Successions(g, "scarlet_woman")}
            \union ImpStep(g) \union {ChangeStep(6, t) : t \in Successions(g, "self_kill")}
  BY DEF OtherNightSteps, Plain
<1>2. \A at, r : \A s \in OtherActor(g, at, r) : s.at = at
  <2>1. \A at, r, ps, qs : \A s \in Wake(at, r, ps, qs) : s.at = at
    BY DEF Wake, RoleStep
  <2>2. QED  BY <2>1 DEF OtherActor
<1>3. \A s \in ImpStep(g) : s.at = 5
  BY <1>2 DEF ImpStep, RoleStep
<1>4. \A at, t : ChangeStep(at, t).at = at
  BY DEF ChangeStep
<1>5. \A i \in Plain : \A s \in Of(i) : s.at = i
  BY <1>2
<1>6. \A s \in OtherNightSteps(g) :
        \/ \E i \in Plain : s \in Of(i)
        \/ s \in ImpStep(g)
        \/ \E t \in Successions(g, "scarlet_woman") : s = ChangeStep(4, t)
        \/ \E t \in Successions(g, "self_kill") : s = ChangeStep(6, t)
  BY <1>1
<1>7. \A i \in Plain : i \notin {4, 5, 6}
  BY DEF Plain
<1>8. \A i \in Plain : Of(i) \subseteq OtherNightSteps(g)
  BY <1>1
<1>9. /\ ImpStep(g) \subseteq OtherNightSteps(g)
      /\ \A t \in Successions(g, "scarlet_woman") : ChangeStep(4, t) \in OtherNightSteps(g)
      /\ \A t \in Successions(g, "self_kill") : ChangeStep(6, t) \in OtherNightSteps(g)
  BY <1>1
<1>. HIDE DEF Of
<1>10. \A s \in OtherNightSteps(g) :
         /\ \A i \in Plain : s.at = i => s \in Of(i)
         /\ s.at = 5 => s \in ImpStep(g)
         /\ s.at = 4 => \E t \in Successions(g, "scarlet_woman") : s = ChangeStep(4, t)
         /\ s.at = 6 => \E t \in Successions(g, "self_kill") : s = ChangeStep(6, t)
  BY <1>3, <1>4, <1>5, <1>6, <1>7
<1>11. QED  BY <1>8, <1>9, <1>10 DEF Of

\* The game and the history of a night, before its next step.
Nightly(g, h) ==
  /\ Seating(g) /\ People(g) /\ Timely(g) /\ InNight(g)
  /\ OneOfEach(g) /\ Passing(g) /\ Recorded(g, h)

LEMMA ActorTurn ==
  ASSUME NEW g, Seating(g), People(g), OneOfEach(g), NEW p \in Seats(g), NEW r, NEW at,
         r \notin {"imp", "drunk"}, g.shown[p] = r, MayWake(g, r, p)
  PROVE  /\ \E s \in OtherActor(g, at, r) : Wakes(s, at, p)
         /\ \A s \in OtherActor(g, at, r) : Wakes(s, at, p)
<1>. DEFINE ps == {x \in Holders(g.role, {r}) : MayWake(g, r, x)}
            qs == {x \in DrunkShown(g, r) : MayWake(g, r, x)}
<1>1. ps = {p} \/ (ps = {} /\ qs = {p})
  BY HeldByOne
<1>2. p \in Nat
  BY SeatNumbers
<1>3. OtherActor(g, at, r) = Wake(at, r, ps, qs)
  BY DEF OtherActor
<1>. HIDE DEF ps, qs
<1>4. QED  BY <1>1, <1>2, <1>3, WakeOf

LEMMA ImpTurn ==
  ASSUME NEW g, NEW h, Nightly(g, h), g.phase = "other_night", g.step.at < 5,
         NEW p \in Seats(g), p \notin g.dead, g.shown[p] = "imp"
  PROVE  /\ \E s \in ImpStep(g) : Wakes(s, 5, p)
         /\ \A s \in ImpStep(g) : Wakes(s, 5, p)
<1>1. Successions(g, "self_kill") = {}
  <2>1. \A t \in g.transitions : t.kind # "self_kill"
    BY DEF Nightly, Timely
  <2>2. QED  BY <2>1 DEF Successions
<1>2. g.role[p] = "imp" /\ p \in Living(g) /\ p \in Nat
  <2>1. g.role[p] # "drunk"
    BY DEF Nightly, OneOfEach, Townsfolk
  <2>2. g.role[p] = "imp"
    BY <2>1 DEF Nightly, People
  <2>3. QED  BY <2>2, SeatNumbers DEF Nightly, Living
<1>3. \A q \in Living(g) : g.role[q] = "imp" => q = p
  BY <1>2 DEF Nightly, People
<1>4. CASE Successions(g, "scarlet_woman") = {}
  <2>. DEFINE ps == {x \in Holders(g.role, {"imp"}) : MayWake(g, "imp", x)}
              qs == {x \in DrunkShown(g, "imp") : MayWake(g, "imp", x)}
  <2>1. \A x : MayWake(g, "imp", x) <=> x \notin g.dead
    BY DEF MayWake
  <2>2. ps = {p}
    BY <1>2, <1>3, <2>1 DEF Holders, Living, Seats
  <2>3. ImpStep(g) = Wake(5, "imp", ps, qs)
    BY <1>1, <1>4 DEF ImpStep, OtherActor
  <2>. HIDE DEF ps, qs
  <2>4. QED  BY <1>2, <2>2, <2>3, WakeOf
<1>5. CASE Successions(g, "scarlet_woman") # {}
  <2>. DEFINE scarlet == Successions(g, "scarlet_woman")
              alive == {t \in scarlet : t.to \notin g.dead}
  <2>1. \A t \in scarlet : t \in alive /\ t.to = p
    <3>1. \A t \in g.transitions : t.to \notin g.dead /\ t.to \in Seats(g) /\ g.role[t.to] = "imp"
      BY DEF Nightly, Passing, People
    <3>2. QED  BY <1>3, <3>1 DEF Successions, Living
  <2>2. ImpStep(g) = {RoleStep(5, "imp", t.to, "role_transition") : t \in alive}
    BY <1>1, <1>5 DEF ImpStep
  <2>3. \A t \in alive : t \in scarlet
    OBVIOUS
  <2>. HIDE DEF scarlet, alive
  <2>4. \A s \in ImpStep(g) : s = RoleStep(5, "imp", p, "role_transition")
    BY <2>1, <2>2, <2>3
  <2>5. ImpStep(g) # {}
    <3>1. scarlet # {}
      BY <1>5 DEF scarlet
    <3>2. QED  BY <2>1, <2>2, <3>1
  <2>6. Wakes(RoleStep(5, "imp", p, "role_transition"), 5, p)
    BY DEF Wakes, RoleStep
  <2>7. QED  BY <2>4, <2>5, <2>6
<1>6. QED  BY <1>4, <1>5

\* A step to come is the one of whose turn is to come.
LEMMA TurnSteps ==
  ASSUME NEW g, NEW h, Nightly(g, h), NEW p \in Seats(g), NEW at \in 1 .. 11,
         Turn(g, h, p, at), g.step.at < at
  PROVE  /\ \E s \in Steps(g) : Wakes(s, at, p)
         /\ \A s \in Steps(g) : s.at = at => Wakes(s, at, p)
<1>1. g.shown[p] = h.dusk[p] \/ (p \in h.changed /\ h.dusk[p] \in Minions)
  BY DEF Nightly, Recorded
<1>2. p \in Nat
  BY SeatNumbers DEF Nightly
<1>3. CASE g.phase = "first_night"
  <2>1. PICK i \in 1 .. 9 : h.dusk[p] = FirstNightOrder[i] /\ at = i + 2 /\ p \notin h.changed
    BY <1>3 DEF Turn
  <2>. DEFINE r == FirstNightOrder[i]
  <2>2. r \notin {"imp", "drunk"} /\ g.shown[p] = r
    BY <1>1, <2>1, FirstOrder
  <2>3. FirstOf(g, i) = Wake(at, r, Holders(g.role, {r}), DrunkShown(g, r))
    BY <2>1 DEF FirstOf
  <2>. HIDE DEF r
  <2>4. /\ \E s \in FirstOf(g, i) : Wakes(s, at, p)
        /\ \A s \in FirstOf(g, i) : Wakes(s, at, p)
    <3>1. \/ Holders(g.role, {r}) = {p}
          \/ Holders(g.role, {r}) = {} /\ DrunkShown(g, r) = {p}
      BY <2>2, HeldByOne DEF Nightly
    <3>. DEFINE ps == Holders(g.role, {r})
                qs == DrunkShown(g, r)
    <3>2. ps = {p} \/ (ps = {} /\ qs = {p})
      BY <3>1
    <3>. HIDE DEF ps, qs
    <3>3. /\ \E s \in Wake(at, r, ps, qs) : Wakes(s, at, p)
          /\ \A s \in Wake(at, r, ps, qs) : Wakes(s, at, p)
      BY <1>2, <3>2, WakeOf
    <3>4. QED  BY <2>3, <3>3 DEF ps, qs
  <2>5. Steps(g) = FirstNightSteps(g)
    BY <1>3 DEF Steps
  <2>6. QED  BY <2>1, <2>4, <2>5, FirstPlaces
<1>4. CASE g.phase = "other_night"
  <2>1. Steps(g) = OtherNightSteps(g)
    BY <1>4 DEF Steps
  <2>2. CASE at = 5
    <3>1. p \notin g.dead /\ g.shown[p] = "imp"
      BY <1>1, <1>4, <2>2 DEF Turn, OtherNightOrder
    <3>2. /\ \E s \in ImpStep(g) : Wakes(s, 5, p)
          /\ \A s \in ImpStep(g) : Wakes(s, 5, p)
      BY <1>4, <2>2, <3>1, ImpTurn
    <3>3. QED  BY <2>1, <2>2, <3>2, OtherPlaces
  <2>3. CASE at # 5
    <3>. DEFINE r == OtherNightOrder[at]
    <3>1. /\ at \in Plain /\ g.shown[p] = r
          /\ at = 7 => p \in g.dead \ h.fallen
          /\ at # 7 => p \notin g.dead /\ (r = "undertaker" => h.executed # None)
      <4>1. CASE at = 7
        BY <1>1, <1>4, <4>1 DEF Turn, OtherNightOrder, Plain, Minions
      <4>2. CASE at # 7
        BY <1>1, <1>4, <2>3, <4>2 DEF Turn, Plain
      <4>3. QED  BY <4>1, <4>2
    <3>2. at = 7 <=> r = "ravenkeeper"
      BY <3>1 DEF OtherNightOrder, Plain
    <3>3. MayWake(g, r, p)
      BY <3>1, <3>2, <1>4 DEF MayWake, Nightly, Recorded, InNight
    <3>4. r \notin {"imp", "drunk"}
      BY <3>1, OtherOrder DEF Plain
    <3>. HIDE DEF r
    <3>5. /\ \E s \in OtherActor(g, at, r) : Wakes(s, at, p)
          /\ \A s \in OtherActor(g, at, r) : Wakes(s, at, p)
      BY <3>1, <3>3, <3>4, ActorTurn DEF Nightly
    <3>6. /\ OtherActor(g, at, r) \subseteq OtherNightSteps(g)
          /\ \A s \in OtherNightSteps(g) : s.at = at => s \in OtherActor(g, at, r)
      BY <3>1, OtherPlaces DEF r
    <3>7. QED  BY <2>1, <3>5, <3>6
  <2>4. QED  BY <2>2, <2>3
<1>5. QED  BY <1>3, <1>4 DEF Nightly, InNight, Nights

LEMMA AtMostOne ==
  ASSUME NEW S, IsFiniteSet(S), Cardinality(S) <= 1, NEW t \in S, NEW u \in S
  PROVE  u = t
<1>1. ASSUME u # t PROVE FALSE
  <2>1. IsFiniteSet({t}) /\ Cardinality({t}) = 1 /\ u \notin {t}
    BY <1>1, FS_Singleton
  <2>2. Cardinality({t} \union {u}) = 1 + 1
    BY <2>1, FS_AddElement
  <2>3. {t} \union {u} \subseteq S
    OBVIOUS
  <2>4. Cardinality({t} \union {u}) <= Cardinality(S) /\ Cardinality(S) \in Nat
    BY <2>3, SmallerSets
  <2>5. QED  BY <2>2, <2>4
<1>2. QED  BY <1>1

\* The step of a change to come is the one at its place.
LEMMA ChangeSteps ==
  ASSUME NEW g, g.phase = "other_night", TransitionsSound(g), Passing(g),
         NEW t \in g.transitions
  PROVE  /\ ChangeStep(PlaceOf(t), t) \in Steps(g)
         /\ \A s \in Steps(g) : s.at = PlaceOf(t) => s = ChangeStep(PlaceOf(t), t)
<1>1. Steps(g) = OtherNightSteps(g) /\ t.kind \in {"scarlet_woman", "self_kill"}
  BY DEF Steps, Passing
<1>. DEFINE S == Successions(g, t.kind)
<1>2. t \in S /\ S \subseteq g.transitions
  BY DEF Successions
<1>3. IsFiniteSet(S)
  BY <1>2, SmallerSets DEF Passing
<1>4. Cardinality(S) <= 1
  BY <1>1 DEF TransitionsSound
<1>. HIDE DEF S
<1>5. \A u \in S : u = t
  BY <1>2, <1>3, <1>4, AtMostOne
<1>6. S = Successions(g, t.kind)
  BY DEF S
<1>7. CASE t.kind = "scarlet_woman"
  <2>1. \A u \in Successions(g, "scarlet_woman") : u = t
    BY <1>5, <1>6, <1>7
  <2>2. t \in Successions(g, "scarlet_woman") /\ PlaceOf(t) = 4
    BY <1>2, <1>6, <1>7 DEF PlaceOf
  <2>3. QED  BY <1>1, <2>1, <2>2, OtherPlaces
<1>8. CASE t.kind = "self_kill"
  <2>1. \A u \in Successions(g, "self_kill") : u = t
    BY <1>5, <1>6, <1>8
  <2>2. t \in Successions(g, "self_kill") /\ PlaceOf(t) = 6
    BY <1>2, <1>6, <1>8 DEF PlaceOf
  <2>3. QED  BY <1>1, <2>1, <2>2, OtherPlaces
<1>9. QED  BY <1>1, <1>7, <1>8

LEMMA NextIs ==
  ASSUME NEW g, Seating(g), NEW at \in Nat, NEW s, s = NextStep(g, at)
  PROVE  /\ s = NoStep => \A x \in Steps(g) : ~(at < x.at)
         /\ s # NoStep => /\ s \in Steps(g) /\ at < s.at
                          /\ \A x \in Steps(g) : at < x.at => s.at <= x.at
<1>. DEFINE after == {x \in Steps(g) : x.at > at}
<1>1. s = IF after = {} THEN NoStep ELSE FirstStep(after)
  BY DEF NextStep
<1>2. \A x \in Steps(g) : x.at \in Nat
  BY StepPlaces DEF Steps
<1>3. \A x : x \in after <=> x \in Steps(g) /\ at < x.at
  BY <1>2
<1>4. \A x \in after : x.at \in Nat
  BY <1>2
<1>. HIDE DEF after
<1>5. ASSUME after # {}
      PROVE  FirstStep(after) \in after /\ \A x \in after : FirstStep(after).at <= x.at
  <2>1. \E x \in after : \A y \in after : x.at <= y.at
    <3>1. FirstStep(after) \in after
      BY <1>4, <1>5, FirstStepThere
    <3>. DEFINE T == {x.at : x \in after}
    <3>2. T \subseteq Nat /\ T # {}
      BY <1>4, <1>5
    <3>3. PICK n \in T : \A m \in T : n <= m
      BY <3>2, LeastThere
    <3>4. QED  BY <3>3
  <2>2. QED  BY <2>1 DEF FirstStep
<1>6. NoStep.at = 0
  BY DEF NoStep
<1>7. after # {} => FirstStep(after) # NoStep
  BY <1>3, <1>5, <1>6
<1>8. QED  BY <1>1, <1>3, <1>5, <1>7

\* What a step wakes is remembered; nothing else of the history is touched.
WokenBy(e) == IF e.step.kind = "role" THEN e.step.actors ELSE {}
Onward(h, k, woken) ==
  /\ k.dusk = h.dusk /\ k.fallen = h.fallen /\ k.executed = h.executed
  /\ k.changed = h.changed /\ k.woken = h.woken \union woken

\* Whoever became the imp was told, or is to be told now (commitCurrentNotices).
NewImpsMet(g) ==
  InNight(g) =>
    \A t \in g.transitions :
      PlaceOf(t) <= g.step.at =>
        Noticed(g, t.to) \/ (g.step.kind = "role_change" /\ t.to \in g.step.actors)

LEMMA TurnSame ==
  ASSUME NEW g, NEW e, NEW h, NEW k, e.phase = g.phase, e.dead = g.dead,
         k.dusk = h.dusk, k.fallen = h.fallen, k.executed = h.executed,
         k.changed = h.changed
  PROVE  \A p, at : Turn(e, k, p, at) <=> Turn(g, h, p, at)
BY DEF Turn

LEMMA StepOn ==
  ASSUME NEW g, NEW h, Nightly(g, h), Numbered(g), WokenSoFar(g, h), NewImpsTold(g),
         CanAdvance(g), NextStep(g, g.step.at) # NoStep,
         NEW e, SameBut(g, e, {"step", "info"}), e.step = NextStep(g, g.step.at),
         NEW k, Onward(h, k, WokenBy(e))
  PROVE  Roused(e, k) /\ NewImpsMet(e)
<1>. DEFINE s == NextStep(g, g.step.at)
            c == g.step.at
<1>1. /\ e.phase = g.phase /\ e.role = g.role /\ e.shown = g.shown /\ e.dead = g.dead
      /\ e.tonight = g.tonight /\ e.transitions = g.transitions /\ e.executed = g.executed
      /\ e.nightNumber = g.nightNumber /\ e.notices = g.notices /\ e.day = g.day
  BY DEF SameBut, Fields
<1>2. c \in Nat /\ InNight(e) /\ Seats(e) = Seats(g)
  BY <1>1 DEF Nightly, Timely, InNight, Seats
<1>3. s \in Steps(g) /\ c < s.at /\ \A x \in Steps(g) : c < x.at => s.at <= x.at
  BY <1>2, NextIs DEF Nightly
<1>4. s.at \in Nat
  BY <1>3, StepPlaces DEF Steps, Nightly
<1>5. OneOfEach(e) /\ Numbered(e)
  BY <1>1, <1>2 DEF Nightly, OneOfEach, Numbered
<1>6. Passing(e)
  BY <1>1, <1>2, <1>3, <1>4 DEF Nightly, Passing, InNight, Nights
<1>7. Recorded(e, k)
  BY <1>1, <1>2 DEF Nightly, Recorded, Onward
<1>8. WokenSoFar(e, k)
  <2>1. ASSUME NEW p \in Seats(g), NEW at \in 1 .. 11, at <= s.at, Turn(e, k, p, at)
        PROVE  p \in k.woken
    <3>1. Turn(g, h, p, at)
      BY <1>1, <2>1, TurnSame DEF Onward
    <3>2. CASE at <= c
      BY <3>1, <3>2 DEF WokenSoFar, Onward, Nightly
    <3>3. CASE c < at
      <4>1. PICK x \in Steps(g) : Wakes(x, at, p)
        BY <3>1, <3>3, TurnSteps
      <4>2. s.at <= at
        BY <1>3, <3>3, <4>1 DEF Wakes
      <4>3. s.at = at
        BY <1>4, <2>1, <4>2
      <4>4. Wakes(s, at, p)
        BY <1>3, <3>1, <3>3, <4>3, TurnSteps
      <4>5. QED  BY <4>4 DEF Wakes, WokenBy, Onward
    <3>4. QED  BY <1>2, <3>2, <3>3
  <2>2. QED  BY <1>2, <2>1 DEF WokenSoFar
<1>9. Slept(e, k)
  BY <1>2 DEF Slept, InNight, Nights
<1>10. NewImpsMet(e)
  <2>1. ASSUME NEW t \in g.transitions, PlaceOf(t) <= s.at
        PROVE  Noticed(e, t.to) \/ (s.kind = "role_change" /\ t.to \in s.actors)
    <3>0. PlaceOf(t) \in Nat
      BY DEF PlaceOf
    <3>1. CASE PlaceOf(t) <= c
      BY <1>1, <3>1 DEF NewImpsTold, Noticed, Nightly
    <3>2. CASE c < PlaceOf(t)
      <4>1. g.phase = "other_night"
        BY DEF Nightly, Timely, InNight, Nights
      <4>2. /\ ChangeStep(PlaceOf(t), t) \in Steps(g)
            /\ \A x \in Steps(g) : x.at = PlaceOf(t) => x = ChangeStep(PlaceOf(t), t)
        BY <4>1, ChangeSteps DEF Nightly, CanAdvance
      <4>3. ChangeStep(PlaceOf(t), t).at = PlaceOf(t)
        BY DEF ChangeStep
      <4>4. s.at <= PlaceOf(t)
        BY <1>3, <3>2, <4>2, <4>3
      <4>5. s = ChangeStep(PlaceOf(t), t)
        BY <1>3, <1>4, <2>1, <3>0, <4>2, <4>4
      <4>6. QED  BY <4>5 DEF ChangeStep
    <3>3. QED  BY <1>2, <3>0, <3>1, <3>2
  <2>2. QED  BY <1>1, <2>1 DEF NewImpsMet
<1>11. QED  BY <1>5, <1>6, <1>7, <1>8, <1>9, <1>10 DEF Roused

LEMMA DawnFacts ==
  ASSUME NEW g, DOMAIN g = Fields, People(g), Timely(g), InNight(g), NEW e, e = Dawn(g)
  PROVE  /\ e.role = g.role /\ e.shown = g.shown /\ e.dead = g.dead
         /\ e.notices = g.notices /\ e.nightNumber = g.nightNumber
         /\ e.transitions = {} /\ e.day = NewDay /\ e.phase \in {"day", "finished"}
         /\ e.step = NoStep
         /\ g.phase = "first_night" => e.executed = g.executed
<1>. DEFINE over == [g EXCEPT !.dayNumber = @ + 1, !.step = NoStep, !.info = NoInfo]
            imps == {t.to : t \in g.transitions}
            k == [over EXCEPT
                   !.role = [p \in Seats(g) |-> IF p \in imps THEN "imp" ELSE @[p]],
                   !.shown = [p \in Seats(g) |-> IF p \in imps THEN "imp" ELSE @[p]],
                   !.tonight = {}, !.transitions = {}, !.executed = None, !.monk = None,
                   !.raven = None]
<1>1. SameBut(g, over, {"dayNumber", "step", "info"}) /\ over.step = NoStep
  BY DEF SameBut, Fields
<1>2. e = IF g.phase = "first_night" THEN EnterDay(over) ELSE EnterDay(k)
  BY DEF Dawn
<1>. HIDE DEF over
<1>3. /\ over.role = g.role /\ over.shown = g.shown /\ over.dead = g.dead
      /\ over.notices = g.notices /\ over.nightNumber = g.nightNumber
      /\ over.transitions = g.transitions /\ DOMAIN over = Fields
  BY <1>1 DEF SameBut, Fields
<1>4. /\ k.role = [p \in Seats(g) |-> IF p \in imps THEN "imp" ELSE g.role[p]]
      /\ k.shown = [p \in Seats(g) |-> IF p \in imps THEN "imp" ELSE g.shown[p]]
      /\ k.dead = g.dead /\ k.notices = g.notices /\ k.nightNumber = g.nightNumber
      /\ k.transitions = {} /\ k.step = NoStep /\ DOMAIN k = Fields
  BY <1>1, <1>3 DEF Fields
<1>. HIDE DEF k
<1>5. k.role = g.role /\ k.shown = g.shown
  <2>1. \A p \in imps : p \in Seats(g) /\ g.role[p] = "imp" /\ g.shown[p] = "imp"
    BY DEF People
  <2>2. QED  BY <1>4, <2>1 DEF People
<1>6. g.phase = "first_night" => g.transitions = {}
  BY DEF Timely
<1>7. \A x : DOMAIN x = Fields =>
        /\ SameBut(x, EnterDay(x), {"phase", "day", "winner"})
        /\ EnterDay(x).day = NewDay /\ EnterDay(x).phase \in {"day", "finished"}
  BY DEF EnterDay, SameBut, Fields
<1>8. ASSUME NEW x, DOMAIN x = Fields, e = EnterDay(x), x.role = g.role,
             x.shown = g.shown, x.dead = g.dead, x.notices = g.notices,
             x.nightNumber = g.nightNumber, x.transitions = {}, x.step = NoStep
      PROVE  /\ e.role = g.role /\ e.shown = g.shown /\ e.dead = g.dead
             /\ e.notices = g.notices /\ e.nightNumber = g.nightNumber
             /\ e.transitions = {} /\ e.day = NewDay /\ e.phase \in {"day", "finished"}
             /\ e.step = NoStep
  <2>1. SameBut(x, e, {"phase", "day", "winner"}) /\ e.day = NewDay
        /\ e.phase \in {"day", "finished"}
    BY <1>7, <1>8
  <2>2. QED  BY <1>8, <2>1 DEF SameBut, Fields
<1>9. ASSUME g.phase = "first_night" PROVE e.executed = g.executed
  <2>1. over.executed = g.executed
    BY <1>1 DEF SameBut, Fields
  <2>2. SameBut(over, e, {"phase", "day", "winner"})
    BY <1>2, <1>3, <1>7, <1>9
  <2>3. QED  BY <2>1, <2>2 DEF SameBut, Fields
<1>10. CASE g.phase = "first_night"
  BY <1>1, <1>2, <1>3, <1>6, <1>8, <1>9, <1>10
<1>11. CASE g.phase # "first_night"
  BY <1>2, <1>4, <1>5, <1>8, <1>11
<1>12. QED  BY <1>10, <1>11

\* No step to come: whoever had a turn was woken.
LEMMA StepOut ==
  ASSUME NEW g, NEW h, DOMAIN g = Fields, Nightly(g, h), Numbered(g), WokenSoFar(g, h),
         NewImpsTold(g), CanAdvance(g), NextStep(g, g.step.at) = NoStep,
         NEW e, e = Dawn(g), NEW k, Onward(h, k, WokenBy(e))
  PROVE  Roused(e, k) /\ NewImpsMet(e)
<1>1. /\ e.role = g.role /\ e.shown = g.shown /\ e.dead = g.dead
      /\ e.notices = g.notices /\ e.nightNumber = g.nightNumber
      /\ e.transitions = {} /\ e.day = NewDay /\ e.phase \in {"day", "finished"}
  BY DawnFacts DEF Nightly
<1>. DEFINE c == g.step.at
<1>2. c \in Nat /\ Seats(e) = Seats(g) /\ Living(e) = Living(g) /\ ~InNight(e)
  BY <1>1 DEF Nightly, Timely, InNight, Nights, Seats, Living
<1>3. \A x \in Steps(g) : ~(c < x.at)
  BY <1>2, NextIs DEF Nightly
<1>4. ASSUME NEW p \in Seats(g), NEW at \in 1 .. 11, Turn(g, h, p, at)
      PROVE  p \in k.woken
  <2>1. at <= c
    <3>1. ASSUME c < at PROVE FALSE
      <4>1. PICK x \in Steps(g) : Wakes(x, at, p)
        BY <1>4, <3>1, TurnSteps
      <4>2. QED  BY <1>3, <3>1, <4>1 DEF Wakes
    <3>2. QED  BY <1>2, <3>1
  <2>2. QED  BY <1>4, <2>1 DEF WokenSoFar, Nightly, Onward
<1>5. \A t \in g.transitions : Noticed(e, t.to)
  <2>1. ASSUME NEW t \in g.transitions PROVE Noticed(e, t.to)
    <3>1. g.phase = "other_night" /\ PlaceOf(t) \in Nat
      BY DEF Nightly, Timely, InNight, Nights, PlaceOf
    <3>2. ChangeStep(PlaceOf(t), t) \in Steps(g) /\ ChangeStep(PlaceOf(t), t).at = PlaceOf(t)
      BY <3>1, ChangeSteps DEF Nightly, CanAdvance, ChangeStep
    <3>3. PlaceOf(t) <= c
      BY <1>2, <1>3, <3>1, <3>2
    <3>4. QED  BY <1>1, <3>3 DEF NewImpsTold, Noticed, Nightly
  <2>2. QED  BY <2>1
<1>6. OneOfEach(e) /\ Numbered(e) /\ Passing(e) /\ Recorded(e, k) /\ WokenSoFar(e, k)
      /\ NewImpsMet(e)
  <2>1. OneOfEach(e)
    BY <1>1, <1>2 DEF Nightly, OneOfEach
  <2>2. Numbered(e)
    <3>1. g.phase \in {"first_night", "other_night"}
      BY DEF Nightly, InNight, Nights
    <3>2. g.nightNumber \in Nat /\ (g.nightNumber = 1 \/ g.nightNumber > 1)
      BY <3>1 DEF Numbered
    <3>3. e.nightNumber > 0
      BY <1>1, <3>2
    <3>4. QED  BY <1>1, <3>3 DEF Numbered
  <2>3. Passing(e)
    BY <1>1, FS_EmptySet DEF Passing
  <2>4. Recorded(e, k) /\ WokenSoFar(e, k) /\ NewImpsMet(e)
    BY <1>1, <1>2 DEF Recorded, WokenSoFar, NewImpsMet, NewDay
  <2>5. QED  BY <2>1, <2>2, <2>3, <2>4
<1>7. ASSUME NEW p \in Living(g) \ h.changed,
             \/ g.phase = "first_night" /\ \E i \in 1 .. 9 : h.dusk[p] = FirstNightOrder[i]
             \/ /\ g.phase = "other_night"
                /\ h.dusk[p] \in {"poisoner", "monk", "spy", "imp", "empath",
                                  "fortune_teller", "butler"}
             \/ h.dusk[p] = "undertaker" /\ h.executed # None
      PROVE  p \in k.woken
  <2>1. p \in Seats(g) /\ p \notin g.dead \union h.changed
    BY DEF Living
  <2>2. g.phase = "first_night" => h.executed = None
    BY DEF Nightly, Recorded, Timely
  <2>3. \E at \in 1 .. 11 : Turn(g, h, p, at)
    <3>1. CASE g.phase = "first_night"
      <4>1. PICK i \in 1 .. 9 : h.dusk[p] = FirstNightOrder[i]
        BY <1>7, <2>2, <3>1
      <4>2. i + 2 \in 1 .. 11 /\ Turn(g, h, p, i + 2)
        BY <2>1, <3>1, <4>1 DEF Turn
      <4>3. QED  BY <4>2
    <3>2. CASE g.phase # "first_night"
      <4>1. g.phase = "other_night"
        BY <3>2 DEF Nightly, InNight, Nights
      <4>2. PICK at \in (1 .. 11) \ {4, 6, 7} :
              h.dusk[p] = OtherNightOrder[at] /\ (h.dusk[p] = "undertaker" => h.executed # None)
        <5>1. CASE h.dusk[p] = "poisoner"
          BY <5>1 DEF OtherNightOrder
        <5>2. CASE h.dusk[p] = "monk"
          BY <5>2 DEF OtherNightOrder
        <5>3. CASE h.dusk[p] = "spy"
          BY <5>3 DEF OtherNightOrder
        <5>4. CASE h.dusk[p] = "imp"
          BY <5>4 DEF OtherNightOrder
        <5>5. CASE h.dusk[p] = "undertaker" /\ h.executed # None
          BY <5>5 DEF OtherNightOrder
        <5>6. CASE h.dusk[p] = "empath"
          BY <5>6 DEF OtherNightOrder
        <5>7. CASE h.dusk[p] = "fortune_teller"
          BY <5>7 DEF OtherNightOrder
        <5>8. CASE h.dusk[p] = "butler"
          BY <5>8 DEF OtherNightOrder
        <5>9. QED
          BY <1>7, <4>1, <5>1, <5>2, <5>3, <5>4, <5>5, <5>6, <5>7, <5>8
      <4>3. Turn(g, h, p, at)
        BY <2>1, <4>1, <4>2 DEF Turn
      <4>4. QED  BY <4>3
    <3>3. QED  BY <3>1, <3>2
  <2>4. QED  BY <1>4, <2>1, <2>3
<1>8. ASSUME NEW p \in g.dead \ h.fallen, h.dusk[p] = "ravenkeeper"
      PROVE  p \in k.woken
  <2>1. g.phase = "other_night" /\ p \in Seats(g)
    BY DEF Nightly, Timely, InNight, Nights, People
  <2>2. Turn(g, h, p, 7)
    BY <1>8, <2>1 DEF Turn
  <2>3. QED  BY <1>4, <2>1, <2>2
<1>9. \A p \in h.changed : Noticed(e, p)
  BY <1>5 DEF Nightly, Recorded
<1>10. Slept(e, k)
  <2>1. g.nightNumber = 1 <=> g.phase = "first_night"
    BY DEF Numbered, Nightly, InNight, Nights
  <2>2. g.phase \in {"first_night", "other_night"}
    BY DEF Nightly, InNight, Nights
  <2>. DEFINE others == {"poisoner", "monk", "spy", "imp", "empath", "fortune_teller", "butler"}
              first == {FirstNightOrder[i] : i \in 1 .. 9}
              regular == IF e.nightNumber = 1 THEN first ELSE others
  <2>3. ASSUME NEW p \in Living(e) \ k.changed,
               h.dusk[p] \in regular \/ (h.dusk[p] = "undertaker" /\ h.executed # None)
        PROVE  p \in k.woken
    <3>1. p \in Living(g) \ h.changed
      BY <1>2, <2>3 DEF Onward
    <3>2. CASE h.dusk[p] = "undertaker" /\ h.executed # None
      BY <1>7, <3>1, <3>2
    <3>3. CASE g.phase = "first_night" /\ h.dusk[p] \in regular
      <4>1. h.dusk[p] \in first
        BY <1>1, <2>1, <3>3
      <4>2. QED  BY <1>7, <3>1, <3>3, <4>1
    <3>4. CASE g.phase = "other_night" /\ h.dusk[p] \in regular
      <4>1. h.dusk[p] \in others
        BY <1>1, <2>1, <3>4
      <4>2. QED  BY <1>7, <3>1, <3>4, <4>1
    <3>5. QED  BY <2>2, <2>3, <3>2, <3>3, <3>4
  <2>4. /\ k.dusk = h.dusk /\ k.fallen = h.fallen /\ k.executed = h.executed
        /\ k.changed = h.changed
    BY DEF Onward
  <2>5. \A p \in e.dead \ k.fallen : k.dusk[p] = "ravenkeeper" => p \in k.woken
    BY <1>1, <1>8, <2>4
  <2>6. \A p \in k.changed : Noticed(e, p)
    BY <1>9, <2>4
  <2>7. \A p \in Living(e) \ k.changed :
          k.dusk[p] \in regular \/ (k.dusk[p] = "undertaker" /\ k.executed # None)
            => p \in k.woken
    BY <2>3, <2>4
  <2>8. QED  BY <2>5, <2>6, <2>7 DEF Slept
<1>11. QED  BY <1>6, <1>10 DEF Roused

\* What the night and its history are about is the same, but for what is told.
SameNight(g, e) ==
  /\ e.phase = g.phase /\ e.role = g.role /\ e.shown = g.shown /\ e.dead = g.dead
  /\ e.tonight = g.tonight /\ e.transitions = g.transitions /\ e.executed = g.executed
  /\ e.nightNumber = g.nightNumber /\ e.step = g.step /\ e.day.closed = g.day.closed
  /\ g.notices \subseteq e.notices
SameRecord(h, k) ==
  /\ k.dusk = h.dusk /\ k.fallen = h.fallen /\ k.executed = h.executed
  /\ k.changed = h.changed /\ h.woken \subseteq k.woken

Rouses(e, k) == Roused(e, k) /\ NewImpsMet(e)

LEMMA RousedSame ==
  ASSUME NEW g, NEW h, NEW e, NEW k, SameNight(g, e), SameRecord(h, k), Roused(g, h)
  PROVE  /\ Roused(e, k)
         /\ NewImpsMet(g) => NewImpsMet(e)
         /\ NewImpsTold(g) => NewImpsMet(e)
<1>1. Seats(e) = Seats(g) /\ Living(e) = Living(g) /\ InNight(e) = InNight(g)
  BY DEF SameNight, Seats, Living, InNight
<1>2. OneOfEach(e) /\ Numbered(e) /\ Passing(e)
  BY <1>1 DEF SameNight, Roused, OneOfEach, Numbered, Passing
<1>3. Recorded(e, k)
  BY <1>1 DEF SameNight, SameRecord, Roused, Recorded
<1>4. WokenSoFar(e, k)
  <2>1. \A p, at : Turn(e, k, p, at) <=> Turn(g, h, p, at)
    BY TurnSame DEF SameNight, SameRecord
  <2>2. e.step = g.step /\ h.woken \subseteq k.woken
    BY DEF SameNight, SameRecord
  <2>3. QED  BY <1>1, <2>1, <2>2 DEF Roused, WokenSoFar
<1>5. \A p : Noticed(g, p) => Noticed(e, p)
  BY DEF Noticed, SameNight
<1>6. Slept(e, k)
  <2>. DEFINE regular == IF g.nightNumber = 1 THEN {FirstNightOrder[i] : i \in 1 .. 9}
                 ELSE {"poisoner", "monk", "spy", "imp", "empath", "fortune_teller", "butler"}
  <2>1. SUFFICES ASSUME e.phase \in {"day", "finished"}, ~e.day.closed PROVE Slept(e, k)
    BY DEF Slept
  <2>2. /\ e.phase = g.phase /\ e.day.closed = g.day.closed /\ e.dead = g.dead
        /\ e.nightNumber = g.nightNumber
        /\ k.dusk = h.dusk /\ k.fallen = h.fallen /\ k.executed = h.executed
        /\ k.changed = h.changed /\ h.woken \subseteq k.woken
    BY DEF SameNight, SameRecord
  <2>3. /\ \A p \in Living(g) \ h.changed :
             h.dusk[p] \in regular \/ (h.dusk[p] = "undertaker" /\ h.executed # None)
               => p \in h.woken
        /\ \A p \in g.dead \ h.fallen : h.dusk[p] = "ravenkeeper" => p \in h.woken
        /\ \A p \in h.changed : Noticed(g, p)
    BY <2>1, <2>2 DEF Roused, Slept
  <2>4. regular = IF e.nightNumber = 1 THEN {FirstNightOrder[i] : i \in 1 .. 9}
                 ELSE {"poisoner", "monk", "spy", "imp", "empath", "fortune_teller", "butler"}
    BY <2>2
  <2>. HIDE DEF regular
  <2>5. /\ \A p \in Living(e) \ k.changed :
             k.dusk[p] \in regular \/ (k.dusk[p] = "undertaker" /\ k.executed # None)
               => p \in k.woken
        /\ \A p \in e.dead \ k.fallen : k.dusk[p] = "ravenkeeper" => p \in k.woken
        /\ \A p \in k.changed : Noticed(e, p)
    BY <1>1, <1>5, <2>2, <2>3
  <2>6. QED  BY <2>4, <2>5 DEF Slept
<1>7. NewImpsMet(g) => NewImpsMet(e)
  BY <1>1, <1>5 DEF NewImpsMet, SameNight
<1>8. NewImpsTold(g) => NewImpsMet(e)
  BY <1>1, <1>5 DEF NewImpsMet, NewImpsTold, SameNight
<1>9. QED  BY <1>2, <1>3, <1>4, <1>6, <1>7, <1>8 DEF Roused

\* What Remember makes of the history h in a step from g to e.
NewImps(g, e) == {p \in Seats(g) : e.role[p] = "imp" /\ g.role[p] # "imp"}
Recalls(g, e, h, k) ==
  /\ k.dusk = IF e.nightNumber # g.nightNumber THEN e.shown ELSE h.dusk
  /\ k.fallen = IF e.nightNumber # g.nightNumber THEN e.dead ELSE h.fallen
  /\ k.executed = IF e.nightNumber # g.nightNumber THEN e.executed ELSE h.executed
  /\ k.woken = (IF e.nightNumber # g.nightNumber THEN {} ELSE h.woken) \union WokenBy(e)
  /\ k.changed = (IF e.day.closed /\ ~g.day.closed THEN {} ELSE h.changed)
                   \union NewImps(g, e)

\* A step of the night that has come is told to whom it concerns (commitCurrentNotices).
LEMMA NotifyTells ==
  ASSUME NEW g, Holds(g), NewImpsMet(g)
  PROVE  NewImpsTold(Notify(g)) /\ g.notices \subseteq Notify(g).notices
<1>. DEFINE e == Notify(g)
            new == {[night |-> g.nightNumber, at |-> g.step.at, to |-> p] : p \in g.step.actors}
<1>1. SameBut(g, e, {"notices"})
  BY NotifyHolds
<1>2. g.notices \subseteq e.notices
  BY DEF Notify, Holds, Sound, Shaped, Fields
<1>3. InNight(g) /\ g.step.kind = "role_change" => new \subseteq e.notices
  BY DEF Notify, Holds, Sound, Shaped, Fields
<1>. HIDE DEF e
<1>4. /\ e.phase = g.phase /\ e.transitions = g.transitions /\ e.step = g.step
      /\ e.nightNumber = g.nightNumber
  BY <1>1 DEF SameBut, Fields
<1>5. ASSUME InNight(g), NEW t \in g.transitions, PlaceOf(t) <= g.step.at
      PROVE  Noticed(e, t.to)
  <2>1. CASE Noticed(g, t.to)
    BY <1>2, <1>4, <2>1 DEF Noticed
  <2>2. CASE g.step.kind = "role_change" /\ t.to \in g.step.actors
    <3>. DEFINE n == [night |-> g.nightNumber, at |-> g.step.at, to |-> t.to]
    <3>1. n \in e.notices /\ n.night = e.nightNumber /\ n.to = t.to
      BY <1>3, <1>4, <1>5, <2>2
    <3>2. QED  BY <3>1 DEF Noticed
  <2>3. QED  BY <1>5, <2>1, <2>2 DEF NewImpsMet
<1>6. NewImpsTold(e)
  BY <1>4, <1>5 DEF NewImpsTold, InNight
<1>7. QED  BY <1>2, <1>6 DEF e

LEMMA NotifyMeets ==
  ASSUME NEW g, Holds(g), NewImpsMet(g), NEW k, Roused(g, k)
  PROVE  Roused(Notify(g), k) /\ NewImpsTold(Notify(g))
<1>. DEFINE e == Notify(g)
<1>1. SameBut(g, e, {"notices"}) /\ g.notices \subseteq e.notices /\ NewImpsTold(e)
  BY NotifyHolds, NotifyTells
<1>. HIDE DEF e
<1>2. SameNight(g, e) /\ SameRecord(k, k)
  BY <1>1 DEF SameBut, Fields, SameNight, SameRecord
<1>3. Roused(e, k)
  BY <1>2, RousedSame
<1>4. QED  BY <1>1, <1>3 DEF e

LEMMA AcceptRecalls ==
  ASSUME NEW h, Holds(h), Accept(h),
         Recalls(game, h, past, past') => Rouses(h, past')
  PROVE  Roused(game', past') /\ NewImpsTold(game')
<1>1. PICK k : /\ k = h \/ (Ready(h) /\ \E v : k = Commit(h, v))
               /\ game' = Notify(k)
  BY DEF Accept, DecisionDue
<1>2. Holds(k) /\ SameBut(h, k, {"info"})
  <2>1. SameBut(h, h, {"info"})
    BY DEF SameBut, Holds, Sound, Shaped
  <2>2. QED  BY <1>1, <2>1, CommitHolds
<1>3. SameBut(k, game', {"notices"})
  BY <1>1, <1>2, NotifyHolds
<1>4. PICK g : g = game
  OBVIOUS
<1>5. PICK e : e = game'
  OBVIOUS
<1>6. /\ e.role = h.role /\ e.shown = h.shown /\ e.dead = h.dead /\ e.step = h.step
      /\ e.executed = h.executed /\ e.nightNumber = h.nightNumber /\ e.day = h.day
  BY <1>2, <1>3, <1>5 DEF SameBut, Fields
<1>7. Remember
  BY DEF Accept
<1>8. /\ past'.dusk = IF e.nightNumber # g.nightNumber THEN e.shown ELSE past.dusk
      /\ past'.fallen = IF e.nightNumber # g.nightNumber THEN e.dead ELSE past.fallen
      /\ past'.executed = IF e.nightNumber # g.nightNumber THEN e.executed ELSE past.executed
      /\ past'.woken = (IF e.nightNumber # g.nightNumber THEN {} ELSE past.woken)
                          \union WokenBy(e)
      /\ past'.changed = (IF e.day.closed /\ ~g.day.closed THEN {} ELSE past.changed)
                            \union NewImps(g, e)
  BY <1>4, <1>5, <1>7 DEF Remember, WokenBy, NewImps
<1>9. Recalls(g, h, past, past')
  BY <1>6, <1>8 DEF Recalls, WokenBy, NewImps
<1>10. Rouses(h, past')
  BY <1>4, <1>9
<1>11. SameNight(h, k) /\ SameRecord(past', past')
  BY <1>2 DEF SameBut, Fields, SameNight, SameRecord
<1>12. Rouses(k, past')
  BY <1>10, <1>11, RousedSame DEF Rouses
<1>13. QED  BY <1>1, <1>2, <1>12, NotifyMeets DEF Rouses

\* The next step of a night, or dawn.
LEMMA AdvanceRouses ==
  ASSUME NEW g, NEW h, Sound(g), InNight(g), CanAdvance(g), Roused(g, h), NewImpsTold(g),
         NEW e, e = Advance(g), NEW k, Onward(h, k, WokenBy(e))
  PROVE  Rouses(e, k)
<1>1. Nightly(g, h) /\ Numbered(g) /\ WokenSoFar(g, h) /\ DOMAIN g = Fields
  BY DEF Nightly, Roused, Sound, Shaped
<1>. DEFINE s == NextStep(g, g.step.at)
<1>2. CASE s = NoStep
  BY <1>1, <1>2, StepOut DEF Advance, Rouses
<1>3. CASE s # NoStep
  <2>1. e = [g EXCEPT !.step = s, !.info = NoInfo]
    BY <1>3 DEF Advance
  <2>. HIDE DEF s
  <2>2. SameBut(g, e, {"step", "info"}) /\ e.step = s
    BY <1>1, <2>1 DEF SameBut, Fields
  <2>3. QED  BY <1>1, <1>3, <2>2, StepOn DEF Rouses, s
<1>4. QED  BY <1>2, <1>3

LEMMA EvolvedOne ==
  ASSUME NEW g, NEW e, OneOfEach(g), Evolved(g, e)
  PROVE  OneOfEach(e)
<1>1. \A p, q \in Seats(e) : p # q /\ e.role[p] = e.role[q] => e.role[p] = "imp"
  BY DEF OneOfEach, Evolved
<1>2. ASSUME NEW p \in Seats(e), e.role[p] = "drunk"
      PROVE  e.shown[p] \in Townsfolk /\ Holders(e.role, {e.shown[p]}) = {}
  <2>1. p \in Seats(g) /\ g.role[p] = "drunk" /\ e.shown[p] = g.shown[p]
    BY <1>2 DEF Evolved
  <2>2. PICK r : r = g.shown[p]
    OBVIOUS
  <2>3. r \in Townsfolk /\ Holders(g.role, {r}) = {}
    BY <2>1, <2>2 DEF OneOfEach
  <2>4. r # "imp"
    BY <2>3 DEF Townsfolk
  <2>5. Holders(e.role, {r}) = {}
    BY <2>3, <2>4 DEF Evolved, Holders, Seats
  <2>6. QED  BY <2>1, <2>2, <2>3, <2>5
<1>3. QED  BY <1>1, <1>2 DEF OneOfEach

\* Whom a death makes the imp is alive, a minion before, and a transition says so.
LEMMA DiesNight ==
  ASSUME NEW g, Shaped(g), Seating(g), People(g), NEW p \in Living(g), NEW cause
  PROVE  LET e == Dies(g, p, cause)
         IN  \E T : /\ IsFiniteSet(T) /\ e.transitions = g.transitions \union T
                    /\ NewImps(g, e) \subseteq {t.to : t \in T}
                    /\ \A t \in T :
                         /\ t.kind = IF cause = "imp" THEN "self_kill" ELSE "scarlet_woman"
                         /\ t.to \notin e.dead
<1>. DEFINE s == Successor(g, p, cause)
            t == IF cause = "imp" THEN [kind |-> "self_kill", from |-> p, to |-> s]
                 ELSE [kind |-> "scarlet_woman", from |-> None, to |-> s]
            h == [g EXCEPT !.dead = @ \union {p}]
            ts == h.transitions \union {t}
            e == [h EXCEPT !.role[s] = "imp", !.shown[s] = "imp", !.transitions = ts]
<1>1. Dies(g, p, cause) = IF s = None THEN h ELSE e
  BY Zenon DEF Dies
<1>2. DOMAIN g = Fields
  BY DEF Shaped
<1>3. t.to = s /\ t.kind = IF cause = "imp" THEN "self_kill" ELSE "scarlet_woman"
  OBVIOUS
<1>4. s # None => s \in Seats(g) /\ s \notin g.dead /\ s # p
  BY SuccessorLives DEF Living
<1>. HIDE DEF s, t, ts
<1>5. /\ h.role = g.role /\ h.dead = g.dead \union {p} /\ h.transitions = g.transitions
      /\ e.role = [g.role EXCEPT ![s] = "imp"] /\ e.dead = g.dead \union {p}
      /\ e.transitions = ts
  BY <1>2 DEF Fields
<1>6. ts = g.transitions \union {t}
  BY <1>5 DEF ts
<1>. HIDE DEF h, e
<1>7. CASE s = None
  <2>1. NewImps(g, h) = {} /\ h.transitions = g.transitions \union {}
    BY <1>5 DEF NewImps
  <2>2. QED  BY <1>1, <1>7, <2>1, FS_EmptySet
<1>8. CASE s # None
  <2>1. \A x \in Seats(g) : x # s => e.role[x] = g.role[x]
    BY <1>5 DEF People
  <2>2. NewImps(g, e) \subseteq {u.to : u \in {t}}
    BY <1>3, <2>1 DEF NewImps
  <2>3. /\ IsFiniteSet({t}) /\ e.transitions = g.transitions \union {t}
        /\ \A u \in {t} : /\ u.kind = IF cause = "imp" THEN "self_kill" ELSE "scarlet_woman"
                          /\ u.to \notin e.dead
    BY <1>3, <1>4, <1>5, <1>6, <1>8, FS_Singleton
  <2>4. Dies(g, p, cause) = e
    BY <1>1, <1>8
  <2>5. QED  BY <2>2, <2>3, <2>4
<1>9. QED  BY <1>7, <1>8

\* The history once the new imps are known, before the step that follows.
Joined(h, j, imps) ==
  /\ j.dusk = h.dusk /\ j.fallen = h.fallen /\ j.executed = h.executed
  /\ j.woken = h.woken /\ j.changed = h.changed \union imps

\* The imp's attack.
LEMMA AttackRouses ==
  ASSUME NEW g, NEW h, Sound(g), g.phase = "other_night", g.step.at = 5,
         Roused(g, h), NewImpsTold(g), NEW p, NEW q \in Living(g),
         NEW e, e = [Dies(g, q, "imp") EXCEPT !.tonight = @ \union {q}],
         NEW j, Joined(h, j, NewImps(g, e))
  PROVE  Roused(e, j) /\ NewImpsTold(e)
<1>. DEFINE d == Dies(g, q, "imp")
<1>1. /\ SameBut(g, d, {"role", "shown", "dead", "transitions"})
      /\ d.dead = g.dead \union {q} /\ Evolved(g, d)
  BY DiesFields, DiesEvolved DEF Sound
<1>2. PICK T : /\ IsFiniteSet(T) /\ d.transitions = g.transitions \union T
               /\ NewImps(g, d) \subseteq {t.to : t \in T}
               /\ \A t \in T : t.kind = "self_kill"
  BY DiesNight DEF Sound
<1>. HIDE DEF d
<1>3. /\ SameBut(g, e, {"role", "shown", "dead", "transitions", "tonight"})
      /\ e.role = d.role /\ e.shown = d.shown /\ e.dead = d.dead
      /\ e.transitions = d.transitions /\ e.tonight = g.tonight \union {q}
  BY <1>1 DEF SameBut, Fields, d
<1>4. /\ e.phase = "other_night" /\ e.step = g.step /\ e.nightNumber = g.nightNumber
      /\ e.notices = g.notices /\ e.executed = g.executed /\ InNight(e) /\ InNight(g)
  BY <1>3 DEF SameBut, Fields, InNight, Nights
<1>5. Seats(e) = Seats(g) /\ Evolved(g, e) /\ NewImps(g, e) = NewImps(g, d)
  BY <1>1, <1>3 DEF Evolved, Seats, NewImps
<1>6. OneOfEach(e)
  BY <1>5, EvolvedOne DEF Roused
<1>7. Numbered(e)
  BY <1>4 DEF Roused, Numbered
<1>8. Passing(e)
  <2>1. IsFiniteSet(e.transitions)
    <3>1. PICK S : S = g.transitions
      OBVIOUS
    <3>2. IsFiniteSet(S) /\ IsFiniteSet(T)
      BY <1>2, <3>1 DEF Roused, Passing
    <3>3. IsFiniteSet(S \union T)
      BY <3>2, FS_Union
    <3>4. QED  BY <1>2, <1>3, <3>1, <3>3
  <2>2. QED  BY <1>2, <1>3, <1>4, <2>1 DEF Roused, Passing
<1>9. Recorded(e, j)
  <2>1. ASSUME NEW x \in Seats(g)
        PROVE  e.shown[x] = j.dusk[x] \/ (x \in j.changed /\ j.dusk[x] \in Minions)
    <3>1. g.shown[x] = h.dusk[x] \/ (x \in h.changed /\ h.dusk[x] \in Minions)
      BY <1>4 DEF Roused, Recorded
    <3>2. CASE e.role[x] = g.role[x] /\ e.shown[x] = g.shown[x]
      BY <3>1, <3>2 DEF Joined
    <3>3. CASE g.role[x] \in Minions /\ e.role[x] = "imp"
      <4>1. g.role[x] # "drunk" /\ g.role[x] # "imp"
        BY <3>3 DEF Minions
      <4>2. g.shown[x] \in Minions /\ x \in NewImps(g, e)
        BY <3>3, <4>1 DEF NewImps, Sound, People
      <4>3. QED  BY <3>1, <4>2 DEF Joined
    <3>4. QED  BY <1>5, <3>2, <3>3 DEF Evolved
  <2>2. /\ j.executed = e.executed /\ e.dead \ j.fallen \subseteq e.tonight
        /\ j.changed \subseteq {t.to : t \in e.transitions}
    BY <1>1, <1>2, <1>3, <1>4, <1>5 DEF Roused, Recorded, Joined
  <2>3. QED  BY <1>4, <1>5, <2>1, <2>2 DEF Recorded
<1>10. WokenSoFar(e, j)
  <2>1. ASSUME NEW x \in Seats(g), NEW at \in 1 .. 11, at <= 5, Turn(e, j, x, at)
        PROVE  x \in j.woken
    <3>1. Turn(g, h, x, at)
      BY <1>1, <1>3, <1>4, <2>1 DEF Turn, Joined
    <3>2. QED  BY <1>4, <2>1, <3>1 DEF Roused, WokenSoFar, Joined
  <2>2. QED  BY <1>4, <1>5, <2>1 DEF WokenSoFar
<1>11. Slept(e, j)
  BY <1>4 DEF Slept
<1>12. NewImpsTold(e)
  <2>1. \A t \in T : PlaceOf(t) = 6
    BY <1>2 DEF PlaceOf
  <2>2. \A t \in g.transitions : PlaceOf(t) <= g.step.at => Noticed(e, t.to)
    BY <1>4 DEF NewImpsTold, Noticed
  <2>3. ASSUME NEW t \in e.transitions, PlaceOf(t) <= e.step.at PROVE Noticed(e, t.to)
    <3>1. t \in g.transitions \/ t \in T
      BY <1>2, <1>3
    <3>2. e.step.at = 5
      BY <1>4
    <3>3. t \notin T
      BY <2>1, <2>3, <3>2
    <3>4. QED  BY <1>4, <2>2, <2>3, <3>1, <3>3
  <2>4. QED  BY <2>3 DEF NewImpsTold
<1>13. QED  BY <1>6, <1>7, <1>8, <1>9, <1>10, <1>11, <1>12 DEF Roused

\* After a step the cursor goes on in the same night, or the day is open.
LEMMA AdvanceTable ==
  ASSUME NEW g, Sound(g), InNight(g), NEW e, e = Advance(g)
  PROVE  /\ e.role = g.role /\ e.nightNumber = g.nightNumber
         /\ e.day.closed => g.day.closed
<1>1. DOMAIN g = Fields
  BY DEF Sound, Shaped
<1>. DEFINE s == NextStep(g, g.step.at)
<1>2. CASE s = NoStep
  <2>1. e.role = g.role /\ e.nightNumber = g.nightNumber /\ e.day = NewDay
    BY <1>1, <1>2, DawnFacts DEF Sound, Advance
  <2>2. QED  BY <2>1 DEF NewDay
<1>3. CASE s # NoStep
  <2>1. e = [g EXCEPT !.step = s, !.info = NoInfo]
    BY <1>3 DEF Advance
  <2>. HIDE DEF s
  <2>2. e.role = g.role /\ e.nightNumber = g.nightNumber /\ e.day = g.day
    BY <1>1, <2>1 DEF Fields
  <2>3. QED  BY <2>2
<1>4. QED  BY <1>2, <1>3

\* From g a step comes to f, and the cursor goes on.
LEMMA AdvanceRecalled ==
  ASSUME NEW g, NEW h, NEW f, NEW j, Sound(f), InNight(f), CanAdvance(f), Roused(f, j),
         NewImpsTold(f), f.nightNumber = g.nightNumber, f.day = g.day,
         Joined(h, j, NewImps(g, f)),
         NEW e, e = Advance(f), NEW k, Recalls(g, e, h, k)
  PROVE  Rouses(e, k)
<1>1. e.role = f.role /\ e.nightNumber = g.nightNumber /\ ~(e.day.closed /\ ~g.day.closed)
  BY AdvanceTable
<1>2. NewImps(g, e) = NewImps(g, f)
  BY <1>1 DEF NewImps
<1>3. Onward(j, k, WokenBy(e))
  BY <1>1, <1>2 DEF Recalls, Onward, Joined
<1>4. QED  BY <1>3, AdvanceRouses

LEMMA SameJoined ==
  ASSUME NEW g, NEW e, NEW h, e.role = g.role
  PROVE  Joined(h, h, NewImps(g, e)) /\ NewImps(g, e) = {}
BY DEF Joined, NewImps

\* A choice, and the step after it.
LEMMA ChoiceRouses ==
  ASSUME NEW g, NEW h, Holds(g), Roused(g, h), NewImpsTold(g), g.step.role \in OneTarget,
         NEW p, ChoiceAccepted(g, p), NEW q \in Seats(g),
         NEW f, f = Effect(g, p, q), CanAdvance(f),
         NEW e, e = Advance(f), NEW k, Recalls(g, e, h, k)
  PROVE  Rouses(e, k)
<1>1. InNight(g) /\ g.step.kind = "role" /\ DOMAIN g = Fields
  BY DEF ChoiceAccepted, AsksChoice, Holds, Sound, Shaped
<1>2. /\ Sound(f) /\ InNight(f) /\ f.nightNumber = g.nightNumber /\ f.day = g.day
  BY <1>1, EffectSound DEF InNight
<1>3. ASSUME SameNight(g, f) PROVE Rouses(e, k)
  <2>1. Roused(f, h)
    BY <1>3, RousedSame DEF SameRecord
  <2>2. NewImpsTold(f)
    BY <1>3 DEF NewImpsTold, SameNight, InNight, Noticed
  <2>3. Joined(h, h, NewImps(g, f))
    BY <1>3, SameJoined DEF SameNight
  <2>4. QED  BY <1>2, <2>1, <2>2, <2>3, AdvanceRecalled
<1>4. ASSUME NEW x \in {"poisoned", "master", "monk"}, SameBut(g, f, {x})
      PROVE  SameNight(g, f)
  BY <1>4 DEF SameBut, Fields, SameNight
<1>. DEFINE a == [g EXCEPT !.poisoned = q]
            b == [g EXCEPT !.master = q]
            c == [g EXCEPT !.monk = q]
            d == [Dies(g, q, "imp") EXCEPT !.tonight = @ \union {q}]
<1>5. \/ f \in {g, a, b, c}
      \/ g.step.role = "imp" /\ q \in Living(g) /\ f = d
  <2>1. \/ f \in {g, a, b, c}
        \/ f = Attack(g, p, q) /\ g.step.role = "imp"
    BY DEF Effect, OneTarget
  <2>2. Attack(g, p, q) = g \/ (q \in Living(g) /\ Attack(g, p, q) = d)
    BY DEF Attack, Living
  <2>3. QED  BY <2>1, <2>2
<1>6. /\ SameBut(g, a, {"poisoned"}) /\ SameBut(g, b, {"master"}) /\ SameBut(g, c, {"monk"})
      /\ SameNight(g, g)
  BY <1>1 DEF SameBut, Fields, SameNight
<1>. HIDE DEF a, b, c
<1>7. CASE f \in {g, a, b, c}
  BY <1>3, <1>4, <1>6, <1>7
<1>8. CASE g.step.role = "imp" /\ q \in Living(g) /\ f = d
  <2>1. g.step.at = 5 /\ g.phase = "other_night"
    BY <1>1, <1>8 DEF Holds, AtStep, Entitled
  <2>. DEFINE j == [dusk |-> h.dusk, fallen |-> h.fallen, executed |-> h.executed,
                    woken |-> h.woken, changed |-> h.changed \union NewImps(g, f)]
  <2>2. Joined(h, j, NewImps(g, f))
    BY DEF Joined
  <2>. HIDE DEF j
  <2>3. Roused(f, j) /\ NewImpsTold(f)
    BY <1>8, <2>1, <2>2, AttackRouses DEF Holds
  <2>4. QED  BY <1>2, <2>2, <2>3, AdvanceRecalled
<1>9. QED  BY <1>5, <1>7, <1>8

\* What changes nothing the night or its history is about.
LEMMA MarkedRouses ==
  ASSUME NEW g, NEW h, Roused(g, h), NewImpsTold(g), NEW e, SameNight(g, e),
         NEW k, Recalls(g, e, h, k)
  PROVE  Rouses(e, k)
<1>1. e.nightNumber = g.nightNumber /\ e.day.closed = g.day.closed /\ NewImps(g, e) = {}
  BY SameJoined DEF SameNight
<1>2. SameRecord(h, k)
  BY <1>1 DEF Recalls, SameRecord
<1>3. QED  BY <1>2, RousedSame DEF Rouses

\* An acknowledgement, and the step after it.
LEMMA AcknowledgedRouses ==
  ASSUME NEW g, NEW h, Holds(g), InNight(g), CanAdvance(g), Roused(g, h), NewImpsTold(g),
         NEW v, NEW e, e = [Advance(g) EXCEPT !.chosen = v], NEW k, Recalls(g, e, h, k)
  PROVE  Rouses(e, k)
<1>. DEFINE a == Advance(g)
<1>1. Holds(a)
  BY AdvanceHolds DEF Holds
<1>2. SameBut(a, e, {"chosen"})
  BY <1>1 DEF SameBut, Fields, Holds, Sound, Shaped
<1>. HIDE DEF a
<1>3. SameNight(a, e) /\ e.day = a.day
  BY <1>2 DEF SameBut, Fields, SameNight
<1>4. Recalls(g, a, h, k)
  BY <1>3 DEF Recalls, SameNight, NewImps, WokenBy
<1>5. Rouses(a, k)
  BY <1>4, SameJoined, AdvanceRecalled DEF Holds, a
<1>6. SameRecord(k, k)
  BY DEF SameRecord
<1>7. QED  BY <1>3, <1>5, <1>6, RousedSame DEF Rouses

\* The day closes: whom the execution makes the imp is all that has changed since.
LEMMA ClosedRouses ==
  ASSUME NEW g, NEW h, Holds(g), g.phase = "day", ~g.day.closed, Roused(g, h),
         NEW e, e = Closed(g), NEW k, k.changed = NewImps(g, e)
  PROVE  Rouses(e, k) /\ e.day.closed
<1>. DEFINE p == Leader(g)
            f == [g EXCEPT !.day.closed = TRUE, !.day.execution = p]
            d == Dies(f, p, "execution")
            x == [d EXCEPT !.executed = p]
            y == IF p = None THEN f ELSE Executed(f, p)
            saint == y.executed # None /\ g.role[p] = "saint" /\ g.poisoned # p
            w == IF saint THEN "saint_executed" ELSE Winner(y)
            z == [y EXCEPT !.winner = w, !.phase = IF w = "none" THEN @ ELSE "finished"]
<1>0. DOMAIN g = Fields /\ DOMAIN g.day = DayFields /\ p \in Seat(g)
  BY LeaderSeated DEF Holds, Sound, Shaped
<1>1. e = z
  BY DEF Closed
<1>. HIDE DEF p
<1>2. /\ SameBut(g, f, {"day"}) /\ f.day.closed = TRUE /\ f.day.ballot = g.day.ballot
      /\ DOMAIN f.day = DayFields
  BY <1>0 DEF SameBut, Fields, DayFields
<1>. HIDE DEF f
<1>3. /\ f.role = g.role /\ f.shown = g.shown /\ f.dead = g.dead /\ f.phase = g.phase
      /\ f.transitions = g.transitions /\ f.nightNumber = g.nightNumber
      /\ f.tonight = g.tonight /\ f.spent = g.spent /\ DOMAIN f = Fields
  BY <1>2 DEF SameBut, Fields
<1>4. Shaped(f) /\ Seating(f) /\ Seats(f) = Seats(g)
  BY <1>2, <1>3 DEF Shaped, Seating, Seats, Seated, Holds, Sound
<1>5. People(f)
  BY <1>3, <1>4 DEF Holds, Sound, People, Living, Seat
<1>6. y = f \/ (y = x /\ p \in Living(f))
  BY <1>0, <1>4 DEF Executed, Living, Seat
<1>7. g.transitions = {}
  BY DEF Roused, Passing
<1>8. \E T : /\ IsFiniteSet(T) /\ y.transitions = T
             /\ NewImps(g, y) \subseteq {t.to : t \in T}
             /\ \A t \in T : t.kind = "scarlet_woman" /\ t.to \notin y.dead
             /\ Evolved(g, y) /\ y.nightNumber = g.nightNumber /\ y.phase = g.phase
             /\ y.day = f.day /\ DOMAIN y = Fields
  <2>1. CASE y = f
    <3>1. NewImps(g, y) = {} /\ Evolved(g, y) /\ y.transitions = {}
      BY <1>3, <1>7, <2>1, EvolvedSame DEF NewImps
    <3>2. QED  BY <1>3, <2>1, <3>1, FS_EmptySet
  <2>2. CASE y = x /\ p \in Living(f)
    <3>1. SameBut(f, d, {"role", "shown", "dead", "transitions"}) /\ Evolved(f, d)
      BY <1>4, <1>5, DiesFields, DiesEvolved
    <3>2. PICK T : /\ IsFiniteSet(T) /\ d.transitions = f.transitions \union T
                   /\ NewImps(f, d) \subseteq {t.to : t \in T}
                   /\ \A t \in T : t.kind = "scarlet_woman" /\ t.to \notin d.dead
      BY <1>4, <1>5, <2>2, DiesNight
    <3>. HIDE DEF d
    <3>3. /\ x.role = d.role /\ x.shown = d.shown /\ x.transitions = d.transitions
          /\ x.dead = d.dead /\ x.nightNumber = g.nightNumber /\ x.phase = g.phase
          /\ x.day = f.day /\ DOMAIN x = Fields
      BY <1>3, <3>1 DEF SameBut, Fields
    <3>. HIDE DEF x
    <3>4. NewImps(g, x) = NewImps(f, d) /\ Evolved(g, x)
      BY <1>3, <1>4, <3>1, <3>3 DEF NewImps, Evolved, Seats
    <3>5. x.transitions = T
      BY <1>3, <1>7, <3>2, <3>3
    <3>6. QED  BY <2>2, <3>2, <3>3, <3>4, <3>5
  <2>3. QED  BY <1>6, <2>1, <2>2
<1>9. PICK T : /\ IsFiniteSet(T) /\ y.transitions = T
               /\ NewImps(g, y) \subseteq {t.to : t \in T}
               /\ \A t \in T : t.kind = "scarlet_woman" /\ t.to \notin y.dead
               /\ Evolved(g, y) /\ y.nightNumber = g.nightNumber /\ y.phase = g.phase
               /\ y.day = f.day /\ DOMAIN y = Fields
  BY <1>8
<1>. HIDE DEF y, w
<1>10. /\ z.role = y.role /\ z.shown = y.shown /\ z.transitions = T /\ z.dead = y.dead
       /\ z.nightNumber = g.nightNumber /\ z.day.closed
       /\ z.phase = "day" \/ z.phase = "finished"
  BY <1>2, <1>9 DEF Fields
<1>. HIDE DEF z
<1>11. Evolved(g, e) /\ NewImps(g, e) = NewImps(g, y) /\ ~InNight(e)
  BY <1>1, <1>9, <1>10 DEF Evolved, Seats, NewImps, InNight, Nights
<1>12. OneOfEach(e)
  BY <1>11, EvolvedOne DEF Roused
<1>13. Numbered(e)
  BY <1>1, <1>10 DEF Roused, Numbered
<1>14. Passing(e)
  BY <1>1, <1>9, <1>10 DEF Passing
<1>15. Recorded(e, k)
  BY <1>1, <1>9, <1>10, <1>11 DEF Recorded
<1>16. WokenSoFar(e, k) /\ Slept(e, k) /\ NewImpsMet(e)
  BY <1>1, <1>10, <1>11 DEF WokenSoFar, Slept, NewImpsMet
<1>17. QED
  BY <1>1, <1>10, <1>12, <1>13, <1>14, <1>15, <1>16 DEF Roused, Rouses

\* A night begins: n is the game in its phase.
LEMMA BegunRouses ==
  ASSUME NEW g, DOMAIN g = Fields, g.step = NoStep, NEW night \in Nights,
         NEW n, n = [g EXCEPT !.phase = night],
         NEW j, Nightly(n, j), Numbered(n), CanAdvance(n),
         NEW e, e = Begun(g, night), NEW k, Onward(j, k, WokenBy(e))
  PROVE  Rouses(e, k)
<1>1. SameBut(g, n, {"phase"}) /\ n.step = NoStep
  BY DEF SameBut, Fields
<1>2. n.step.at = 0
  BY <1>1 DEF NoStep
<1>3. WokenSoFar(n, j)
  BY <1>2 DEF WokenSoFar
<1>4. NewImpsTold(n)
  BY <1>2 DEF NewImpsTold, PlaceOf
<1>5. DOMAIN n = Fields
  BY <1>1 DEF SameBut
<1>. DEFINE s == NextStep(n, n.step.at)
<1>6. e = IF s = NoStep THEN Dawn(n) ELSE [n EXCEPT !.step = s]
  BY <1>2 DEF Begun
<1>7. CASE s = NoStep
  BY <1>3, <1>4, <1>5, <1>6, <1>7, StepOut DEF Rouses
<1>8. CASE s # NoStep
  <2>1. e = [n EXCEPT !.step = s]
    BY <1>6, <1>8
  <2>. HIDE DEF s
  <2>2. SameBut(n, e, {"step", "info"}) /\ e.step = s
    BY <1>5, <2>1 DEF SameBut, Fields
  <2>3. QED  BY <1>3, <1>4, <1>8, <2>2, StepOn DEF Rouses, s
<1>9. QED  BY <1>7, <1>8

LEMMA BegunTable ==
  ASSUME NEW g, DOMAIN g = Fields, NEW night \in Nights,
         NEW n, n = [g EXCEPT !.phase = night], People(n), Timely(n),
         night = "first_night" \/ NextStep(n, 0) # NoStep,
         NEW e, e = Begun(g, night)
  PROVE  /\ e.role = g.role /\ e.shown = g.shown /\ e.dead = g.dead
         /\ e.executed = g.executed /\ e.nightNumber = g.nightNumber
         /\ e.day = IF NextStep(n, 0) = NoStep THEN NewDay ELSE g.day
<1>1. SameBut(g, n, {"phase"}) /\ n.phase = night
  BY DEF SameBut, Fields
<1>2. /\ n.role = g.role /\ n.shown = g.shown /\ n.dead = g.dead /\ n.day = g.day
      /\ n.executed = g.executed /\ n.nightNumber = g.nightNumber /\ DOMAIN n = Fields
  BY <1>1 DEF SameBut, Fields
<1>. DEFINE s == NextStep(n, 0)
<1>3. e = IF s = NoStep THEN Dawn(n) ELSE [n EXCEPT !.step = s]
  BY DEF Begun
<1>4. CASE s = NoStep
  <2>1. e = Dawn(n) /\ InNight(n) /\ n.phase = "first_night"
    BY <1>1, <1>3, <1>4 DEF InNight
  <2>2. /\ e.role = n.role /\ e.shown = n.shown /\ e.dead = n.dead
        /\ e.nightNumber = n.nightNumber /\ e.day = NewDay
        /\ n.phase = "first_night" => e.executed = n.executed
    <3>1. PICK m : m = n
      OBVIOUS
    <3>2. PICK d : d = Dawn(m)
      OBVIOUS
    <3>3. DOMAIN m = Fields /\ People(m) /\ Timely(m) /\ InNight(m)
      BY <1>2, <2>1, <3>1
    <3>4. /\ d.role = m.role /\ d.shown = m.shown /\ d.dead = m.dead
          /\ d.nightNumber = m.nightNumber /\ d.day = NewDay
          /\ m.phase = "first_night" => d.executed = m.executed
      BY <3>2, <3>3, DawnFacts
    <3>5. QED  BY <2>1, <3>1, <3>2, <3>4, Zenon
  <2>3. QED  BY <1>2, <1>4, <2>1, <2>2
<1>5. CASE s # NoStep
  <2>1. e = [n EXCEPT !.step = s]
    BY <1>3, <1>5
  <2>. HIDE DEF s
  <2>2. SameBut(n, e, {"step"})
    BY <1>2, <2>1 DEF SameBut, Fields
  <2>3. QED  BY <1>2, <1>5, <2>2 DEF SameBut, Fields, s
<1>6. QED  BY <1>4, <1>5

LEMMA FirstNightRouses ==
  ASSUME NEW g, NEW h, Holds(g), Roused(g, h), g.phase = "role_reveal",
         NEW b, NEW p,
         NEW x, x = [g EXCEPT !.nightNumber = 1, !.bluffs = b, !.herring = p],
         NEW e, e = Begun(x, "first_night"), NEW k, Recalls(g, e, h, k)
  PROVE  Rouses(e, k)
<1>1. /\ DOMAIN g = Fields /\ Seating(g) /\ People(g) /\ Timely(g) /\ g.step = NoStep
      /\ g.dead = {} /\ g.transitions = {} /\ g.executed = None
      /\ g.nightNumber = 0 /\ h.changed = {} /\ OneOfEach(g)
  BY DEF Holds, Sound, Shaped, Timely, AtStep, InNight, Nights, Roused, Numbered, Recorded
<1>2. SameBut(g, x, {"nightNumber", "bluffs", "herring"}) /\ x.nightNumber = 1
  BY <1>1 DEF SameBut, Fields
<1>3. PICK n : n = [x EXCEPT !.phase = "first_night"]
  OBVIOUS
<1>4. SameBut(x, n, {"phase"}) /\ n.phase = "first_night"
  BY <1>2, <1>3 DEF SameBut, Fields
<1>5. /\ n.role = g.role /\ n.shown = g.shown /\ n.dead = g.dead /\ n.tonight = g.tonight
      /\ n.transitions = g.transitions /\ n.spent = g.spent /\ n.step = NoStep
      /\ n.executed = None /\ n.nightNumber = 1
      /\ x.role = g.role /\ x.shown = g.shown /\ x.dead = g.dead /\ x.day = g.day
      /\ x.executed = None /\ x.step = NoStep /\ DOMAIN x = Fields
  BY <1>1, <1>2, <1>4 DEF SameBut, Fields
<1>6. Seating(n) /\ People(n) /\ Timely(n) /\ InNight(n) /\ Seats(n) = Seats(g)
  <2>1. Seats(n) = Seats(g)
    BY <1>5 DEF Seats, Seated
  <2>2. Seating(n) /\ InNight(n)
    BY <1>1, <1>4, <2>1 DEF Seating, InNight, Nights
  <2>3. People(n)
    BY <1>1, <1>5, <2>1 DEF People, Living, Seat
  <2>4. Timely(n)
    BY <1>1, <1>4, <1>5 DEF Timely, Nights
  <2>5. QED  BY <2>1, <2>2, <2>3, <2>4
<1>. DEFINE j == [dusk |-> g.shown, fallen |-> {}, executed |-> None, woken |-> {},
                  changed |-> {}]
<1>7. /\ j.dusk = g.shown /\ j.fallen = {} /\ j.executed = None /\ j.woken = {}
      /\ j.changed = {}
  OBVIOUS
<1>. HIDE DEF j
<1>8. Nightly(n, j) /\ Numbered(n) /\ CanAdvance(n)
  <2>1. OneOfEach(n)
    BY <1>1, <1>5, <1>6 DEF OneOfEach
  <2>2. Passing(n)
    BY <1>1, <1>4, <1>5, FS_EmptySet DEF Passing
  <2>3. Recorded(n, j)
    BY <1>1, <1>4, <1>5, <1>6, <1>7 DEF Recorded
  <2>4. Numbered(n) /\ CanAdvance(n)
    BY <1>4, <1>5 DEF Numbered, CanAdvance
  <2>5. QED  BY <1>6, <2>1, <2>2, <2>3, <2>4 DEF Nightly
<1>9. /\ e.role = x.role /\ e.shown = x.shown /\ e.dead = x.dead
      /\ e.executed = x.executed /\ e.nightNumber = x.nightNumber
  <2>1. PICK y : y = x
    OBVIOUS
  <2>2. PICK d : d = Begun(y, "first_night")
    OBVIOUS
  <2>3. "first_night" \in Nights
    BY DEF Nights
  <2>4. DOMAIN y = Fields /\ n = [y EXCEPT !.phase = "first_night"]
    BY <1>3, <1>5, <2>1
  <2>5. /\ d.role = y.role /\ d.shown = y.shown /\ d.dead = y.dead
        /\ d.executed = y.executed /\ d.nightNumber = y.nightNumber
    BY <1>6, <2>2, <2>3, <2>4, BegunTable
  <2>6. QED  BY <2>1, <2>2, <2>5, Zenon
<1>10. Onward(j, k, WokenBy(e))
  <2>1. NewImps(g, e) = {} /\ e.nightNumber # g.nightNumber
    BY <1>1, <1>2, <1>5, <1>9, SameJoined
  <2>2. QED  BY <1>1, <1>5, <1>7, <1>9, <2>1 DEF Recalls, Onward
<1>11. QED  BY <1>3, <1>5, <1>8, <1>10, BegunRouses DEF Nights

\* The night after a day has a step for the living imp, if for nobody else.
LEMMA ImpIsAsked ==
  ASSUME NEW n, NEW j, Nightly(n, j), n.phase = "other_night", n.step = NoStep,
         Winner(n) = "none"
  PROVE  NextStep(n, 0) # NoStep
<1>1. PICK p \in Holders(n.role, {"imp"}) : p \notin n.dead
  BY DEF Winner
<1>2. p \in Seats(n) /\ n.role[p] = "imp"
  BY DEF Holders, Seats
<1>3. n.shown[p] = "imp" /\ n.step.at = 0
  BY <1>2 DEF Nightly, People, NoStep
<1>4. PICK s \in ImpStep(n) : s.at = 5
  BY <1>1, <1>2, <1>3, ImpTurn DEF Wakes
<1>5. s \in Steps(n)
  BY <1>4, OtherPlaces DEF Steps
<1>6. QED  BY <1>4, <1>5, NextIs DEF Nightly

\* The night begins: c is the closed day, whose history is i.
LEMMA DuskRouses ==
  ASSUME NEW c, NEW i, Holds(c), c.phase = "day", c.day.closed, TransitionsSound(c),
         Roused(c, i), NEW e, e = Begun(Dusk(c), "other_night"),
         NEW k, k.dusk = c.shown, k.fallen = c.dead, k.executed = c.executed,
         k.woken = WokenBy(e), k.changed = i.changed
  PROVE  /\ Rouses(e, k)
         /\ e.role = c.role /\ e.shown = c.shown /\ e.dead = c.dead /\ e.day = c.day
         /\ e.executed = c.executed /\ e.nightNumber = c.nightNumber + 1
<1>0. DOMAIN c = Fields /\ ~InNight(c)
  BY DEF Holds, Sound, Shaped, InNight, Nights
<1>1. PICK d : d = Dusk(c)
  OBVIOUS
<1>2. Sound(d) /\ d.step = NoStep /\ d.day = c.day /\ d.nightNumber = c.nightNumber + 1
  BY <1>0, <1>1, DuskSound
<1>3. SameBut(c, d, {"nightNumber", "poisoned", "master", "chosen", "raven", "monk", "tonight"})
  BY <1>0, <1>1 DEF Dusk, SameBut, Fields
<1>4. PICK n : n = [d EXCEPT !.phase = "other_night"]
  OBVIOUS
<1>5. SameBut(d, n, {"phase"}) /\ n.phase = "other_night"
  BY <1>3, <1>4 DEF SameBut, Fields
<1>6. /\ n.role = c.role /\ n.shown = c.shown /\ n.dead = c.dead /\ n.step = NoStep
      /\ n.transitions = c.transitions /\ n.executed = c.executed
      /\ n.nightNumber = c.nightNumber + 1
      /\ d.role = c.role /\ d.shown = c.shown /\ d.dead = c.dead
      /\ d.executed = c.executed /\ DOMAIN d = Fields
      /\ n.tonight = d.tonight /\ n.spent = d.spent
      /\ d.transitions = c.transitions
  BY <1>2, <1>3, <1>5 DEF SameBut, Fields
<1>7. Seating(n) /\ People(n) /\ Timely(n) /\ InNight(n) /\ Seats(n) = Seats(c)
  <2>1. Seats(n) = Seats(c) /\ Seats(d) = Seats(c)
    BY <1>6 DEF Seats, Seated
  <2>2. Seating(n) /\ InNight(n)
    BY <1>2, <1>5, <2>1 DEF Sound, Seating, InNight, Nights
  <2>3. People(n)
    BY <1>2, <1>6, <2>1 DEF Sound, People, Living, Seat
  <2>4. Timely(n)
    BY <1>5, <1>6 DEF Holds, Sound, Timely, Nights, NoStep
  <2>5. QED  BY <2>1, <2>2, <2>3, <2>4
<1>. DEFINE j == [dusk |-> c.shown, fallen |-> c.dead, executed |-> c.executed,
                  woken |-> {}, changed |-> i.changed]
<1>8. /\ j.dusk = c.shown /\ j.fallen = c.dead /\ j.executed = c.executed /\ j.woken = {}
      /\ j.changed = i.changed
  OBVIOUS
<1>. HIDE DEF j
<1>9. Nightly(n, j) /\ Numbered(n) /\ CanAdvance(n)
  <2>1. OneOfEach(n)
    BY <1>6, <1>7 DEF OneOfEach, Roused
  <2>2. Passing(n)
    BY <1>5, <1>6 DEF Passing, Roused
  <2>3. Recorded(n, j)
    BY <1>5, <1>6, <1>7, <1>8 DEF Recorded, Roused
  <2>4. Numbered(n)
    BY <1>5, <1>6 DEF Numbered, Roused
  <2>5. CanAdvance(n)
    BY <1>6 DEF CanAdvance, TransitionsSound, Successions
  <2>6. QED  BY <1>7, <2>1, <2>2, <2>3, <2>4, <2>5 DEF Nightly
<1>10. NextStep(n, 0) # NoStep
  <2>1. Winner(n) = "none"
    BY <1>6, WinnerSame DEF Holds, Sound, Ended
  <2>2. QED  BY <1>5, <1>6, <1>9, <2>1, ImpIsAsked
<1>11. e = Begun(d, "other_night")
  BY <1>1
<1>12. /\ e.role = d.role /\ e.shown = d.shown /\ e.dead = d.dead
       /\ e.executed = d.executed /\ e.nightNumber = d.nightNumber /\ e.day = d.day
  BY <1>4, <1>6, <1>7, <1>10, <1>11, BegunTable DEF Nights
<1>13. Onward(j, k, WokenBy(e))
  BY <1>8 DEF Onward
<1>14. Rouses(e, k)
  BY <1>2, <1>4, <1>6, <1>9, <1>11, <1>13, BegunRouses DEF Nights
<1>15. QED  BY <1>2, <1>6, <1>12, <1>14

LEMMA OtherNightRouses ==
  ASSUME NEW g, NEW h, Holds(g), Roused(g, h), g.phase = "day",
         NEW c, c = DayOver(g), c.phase = "day", c.day.closed, TransitionsSound(c),
         NEW e, e = Begun(Dusk(c), "other_night"), NEW k, Recalls(g, e, h, k)
  PROVE  Rouses(e, k)
<1>1. Holds(c) /\ c.nightNumber = g.nightNumber /\ c.nightNumber \in Nat
  BY DayOverHolds DEF Holds, Sound, Marks
<1>. DEFINE fresh == [dusk |-> h.dusk, fallen |-> h.fallen, executed |-> h.executed,
                      woken |-> h.woken, changed |-> NewImps(g, c)]
<1>2. \E i : /\ Roused(c, i)
             /\ i.changed = (IF c.day.closed /\ ~g.day.closed THEN {} ELSE h.changed)
                               \union NewImps(g, c)
  <2>1. CASE g.day.closed
    <3>1. c = g
      BY <2>1 DEF DayOver
    <3>2. NewImps(g, c) = {}
      BY <3>1 DEF NewImps
    <3>3. QED  BY <2>1, <3>1, <3>2
  <2>2. CASE ~g.day.closed
    <3>1. c = Closed(g)
      BY <2>2 DEF DayOver
    <3>2. fresh.changed = NewImps(g, c)
      OBVIOUS
    <3>. HIDE DEF fresh
    <3>3. Roused(c, fresh)
      BY <2>2, <3>1, <3>2, ClosedRouses DEF Rouses
    <3>4. QED  BY <2>2, <3>2, <3>3
  <2>3. QED  BY <2>1, <2>2
<1>3. PICK i : /\ Roused(c, i)
               /\ i.changed = (IF c.day.closed /\ ~g.day.closed THEN {} ELSE h.changed)
                                 \union NewImps(g, c)
  BY <1>2
<1>. DEFINE j == [dusk |-> c.shown, fallen |-> c.dead, executed |-> c.executed,
                  woken |-> WokenBy(e), changed |-> i.changed]
<1>4. /\ j.dusk = c.shown /\ j.fallen = c.dead /\ j.executed = c.executed
      /\ j.woken = WokenBy(e) /\ j.changed = i.changed
  OBVIOUS
<1>. HIDE DEF j
<1>5. /\ Rouses(e, j)
      /\ e.role = c.role /\ e.shown = c.shown /\ e.dead = c.dead /\ e.day = c.day
      /\ e.executed = c.executed /\ e.nightNumber = c.nightNumber + 1
  <2>1. PICK x : x = c
    OBVIOUS
  <2>2. PICK d : d = Begun(Dusk(x), "other_night")
    OBVIOUS
  <2>3. d = e
    BY <2>1, <2>2, Zenon
  <2>4. /\ Holds(x) /\ x.phase = "day" /\ x.day.closed /\ TransitionsSound(x) /\ Roused(x, i)
        /\ j.dusk = x.shown /\ j.fallen = x.dead /\ j.executed = x.executed
        /\ j.woken = WokenBy(d) /\ j.changed = i.changed
    BY <1>1, <1>3, <1>4, <2>1, <2>3, Zenon
  <2>5. /\ Rouses(d, j)
        /\ d.role = x.role /\ d.shown = x.shown /\ d.dead = x.dead /\ d.day = x.day
        /\ d.executed = x.executed /\ d.nightNumber = x.nightNumber + 1
    BY <2>2, <2>4, DuskRouses
  <2>6. QED  BY <1>1, <2>1, <2>3, <2>5, Zenon
<1>6. SameRecord(j, k)
  <2>1. NewImps(g, e) = NewImps(g, c) /\ e.nightNumber # g.nightNumber
    BY <1>1, <1>5 DEF NewImps
  <2>2. QED  BY <1>3, <1>4, <1>5, <2>1 DEF Recalls, SameRecord
<1>7. SameNight(e, e)
  BY DEF SameNight
<1>8. QED  BY <1>5, <1>6, <1>7, RousedSame DEF Rouses

-----------------------------------------------------------------------------
(***************************************************************************)
(* Every command keeps what the history has of the night.                  *)
(***************************************************************************)
\* What a command makes of the game, before what is due of it, and of its history.
NightLed ==
  \E h : Holds(h) /\ Accept(h) /\ (Recalls(game, h, past, past') => Rouses(h, past'))

LEMMA Unroused ==
  ASSUME NEW g, NEW e,
         SameBut(g, e, {"confirmed", "herring", "raven", "chosen", "info"})
  PROVE  SameNight(g, e)
BY DEF SameBut, Fields, SameNight

LEMMA BallotUnroused ==
  ASSUME NEW g, Holds(g),
         NEW e, SameBut(g, e, {"day", "spent"}), e.day.closed = g.day.closed
  PROVE  SameNight(g, e)
BY DEF SameBut, Fields, SameNight

LEMMA StepNightLed ==
  ASSUME NightInv, Next
  PROVE  NightLed
<1>1. PICK g : g = game
  OBVIOUS
<1>2. PICK r : r = past
  OBVIOUS
<1>3. PICK k : k = past'
  OBVIOUS
<1>4. /\ Holds(g) /\ DOMAIN g = Fields /\ DOMAIN g.day = DayFields
      /\ Roused(g, r) /\ NewImpsTold(g)
  BY <1>1, <1>2 DEF NightInv, KnowInv, GameInv, Holds, Sound, Shaped
<1>5. \A h : Holds(h) /\ Accept(h) /\ (Recalls(g, h, r, k) => Rouses(h, k)) => NightLed
  BY <1>1, <1>2, <1>3 DEF NightLed
<1>6. \A p \in Seats(g) : \A v :
        /\ Holds([g EXCEPT !.confirmed = @ \union {p}]) /\ Holds([g EXCEPT !.herring = p])
        /\ Holds([g EXCEPT !.raven = p]) /\ Holds([g EXCEPT !.chosen = v])
  BY <1>4, MarkSet DEF Leads
<1>7. ASSUME NEW h, Holds(h), Accept(h), SameNight(g, h) PROVE NightLed
  <2>1. Recalls(g, h, r, k) => Rouses(h, k)
    BY <1>4, <1>7, MarkedRouses
  <2>2. QED  BY <1>5, <1>7, <2>1
<1>8. ASSUME NEW p, ConfirmRole(p) PROVE NightLed
  <2>. DEFINE h == [g EXCEPT !.confirmed = @ \union {p}]
  <2>1. p \in Seats(g) /\ Accept(h)
    BY <1>1, <1>8 DEF ConfirmRole
  <2>2. SameBut(g, h, {"confirmed", "herring", "raven", "chosen", "info"}) /\ Holds(h)
    BY <1>4, <1>6, <2>1 DEF SameBut, Fields
  <2>. HIDE DEF h
  <2>3. QED  BY <1>7, <2>1, <2>2, Unroused
<1>9. ASSUME NEW p, SetRedHerring(p) PROVE NightLed
  <2>. DEFINE h == [g EXCEPT !.herring = p]
  <2>1. p \in Seats(g) /\ Accept(h)
    BY <1>1, <1>9 DEF SetRedHerring, HerringCandidates, Holders, Seats
  <2>2. SameBut(g, h, {"confirmed", "herring", "raven", "chosen", "info"}) /\ Holds(h)
    BY <1>4, <1>6, <2>1 DEF SameBut, Fields
  <2>. HIDE DEF h
  <2>3. QED  BY <1>7, <2>1, <2>2, Unroused
<1>10. ASSUME BeginFirstNight PROVE NightLed
  <2>1. PICK b \in Bluffs(g), p \in Herrings(g) :
          /\ g.phase = "role_reveal"
          /\ Accept(Begun([g EXCEPT !.nightNumber = 1, !.bluffs = b, !.herring = p],
                          "first_night"))
    BY <1>1, <1>10 DEF BeginFirstNight
  <2>2. p \in Seat(g)
    BY <1>4, <2>1 DEF Herrings, HerringCandidates, Holders, Seat, Seats, Holds, Sound, Marks
  <2>3. PICK x : x = [g EXCEPT !.nightNumber = 1, !.bluffs = b, !.herring = p]
    OBVIOUS
  <2>4. PICK h : h = Begun(x, "first_night")
    OBVIOUS
  <2>5. Holds(Begun([g EXCEPT !.nightNumber = 1, !.bluffs = b, !.herring = p],
                    "first_night"))
    BY <1>4, <2>1, <2>2, FirstNightLeads DEF Leads
  <2>6. Holds(h) /\ Accept(h)
    BY <2>1, <2>3, <2>4, <2>5
  <2>7. Recalls(g, h, r, k) => Rouses(h, k)
    BY <1>4, <2>1, <2>3, <2>4, FirstNightRouses
  <2>8. QED  BY <1>5, <2>6, <2>7
<1>11. ASSUME NEW q, NightChoice(q) PROVE NightLed
  <2>1. /\ g.step.role \in OneTarget /\ ChoiceAccepted(g, Recipient(g)) /\ q \in Seats(g)
        /\ CanAdvance(Effect(g, Recipient(g), q))
        /\ Accept(Advance(Effect(g, Recipient(g), q)))
    BY <1>1, <1>11 DEF NightChoice, Allowed
  <2>2. PICK f : f = Effect(g, Recipient(g), q)
    OBVIOUS
  <2>3. PICK h : h = Advance(f)
    OBVIOUS
  <2>4. Holds(Advance(Effect(g, Recipient(g), q)))
    BY <1>4, <2>1, ChoiceLeads DEF Leads
  <2>5. Holds(h) /\ Accept(h) /\ CanAdvance(f)
    BY <2>1, <2>2, <2>3, <2>4
  <2>6. Recalls(g, h, r, k) => Rouses(h, k)
    BY <1>4, <2>1, <2>2, <2>3, <2>5, ChoiceRouses
  <2>7. QED  BY <1>5, <2>5, <2>6
<1>12. ASSUME NEW q, RavenkeeperChoice(q) PROVE NightLed
  <2>. DEFINE h == [g EXCEPT !.raven = q]
  <2>1. q \in Seats(g) /\ Accept(h)
    BY <1>1, <1>12 DEF RavenkeeperChoice
  <2>2. SameBut(g, h, {"confirmed", "herring", "raven", "chosen", "info"}) /\ Holds(h)
    BY <1>4, <1>6, <2>1 DEF SameBut, Fields
  <2>. HIDE DEF h
  <2>3. QED  BY <1>7, <2>1, <2>2, Unroused
<1>13. ASSUME NEW q, NEW s, FortuneTellerChoice(q, s) PROVE NightLed
  <2>. DEFINE h == [g EXCEPT !.chosen = {q, s}]
  <2>1. q \in Seats(g) /\ Accept(h)
    BY <1>1, <1>13 DEF FortuneTellerChoice
  <2>2. SameBut(g, h, {"confirmed", "herring", "raven", "chosen", "info"}) /\ Holds(h)
    BY <1>4, <1>6, <2>1 DEF SameBut, Fields
  <2>. HIDE DEF h
  <2>3. QED  BY <1>7, <2>1, <2>2, Unroused
<1>14. ASSUME CommitNightInformation PROVE NightLed
  <2>1. PICK v \in Told(g) : Ready(g) /\ Accept(Commit(g, v))
    BY <1>1, <1>14 DEF CommitNightInformation, CommitAccepted
  <2>. DEFINE h == Commit(g, v)
  <2>2. Holds(h) /\ SameBut(g, h, {"info"}) /\ Accept(h)
    BY <1>4, <2>1, CommitHolds
  <2>. HIDE DEF h
  <2>3. SameNight(g, h)
    BY <2>2 DEF SameBut, Fields, SameNight
  <2>4. QED  BY <1>7, <2>2, <2>3
<1>15. ASSUME AcknowledgeNightInformation PROVE NightLed
  <2>1. PICK told : /\ g.step # NoStep /\ CanAdvance(g)
                    /\ Accept([Advance(g) EXCEPT !.chosen = told])
    BY <1>1, <1>15 DEF AcknowledgeNightInformation
  <2>2. InNight(g)
    BY <1>4, <2>1, InNightAtStep
  <2>3. PICK h : h = [Advance(g) EXCEPT !.chosen = told]
    OBVIOUS
  <2>4. Holds([Advance(g) EXCEPT !.chosen = told])
    BY <1>4, <2>2, AcknowledgedLeads DEF Leads
  <2>5. Holds(h) /\ Accept(h)
    BY <2>1, <2>3, <2>4
  <2>6. Recalls(g, h, r, k) => Rouses(h, k)
    BY <1>4, <2>1, <2>2, <2>3, AcknowledgedRouses
  <2>7. QED  BY <1>5, <2>5, <2>6
<1>16. ASSUME CompleteNightStep PROVE NightLed
  <2>1. InNight(g) /\ CanAdvance(g) /\ Accept(Advance(g))
    BY <1>1, <1>16 DEF CompleteNightStep, CompletionAccepted
  <2>2. PICK h : h = Advance(g)
    OBVIOUS
  <2>3. Holds(h) /\ Accept(h)
    BY <1>4, <2>1, <2>2, AdvanceLeads DEF Leads
  <2>4. Joined(r, r, NewImps(g, g)) /\ Sound(g)
    BY <1>4, SameJoined DEF Holds
  <2>5. Recalls(g, h, r, k) => Rouses(h, k)
    BY <1>4, <2>1, <2>2, <2>4, AdvanceRecalled
  <2>6. QED  BY <1>5, <2>3, <2>5
<1>17. ASSUME NEW p, NEW q, Nominate(p, q) PROVE NightLed
  <2>. DEFINE h == Nominated(g, p, q)
  <2>1. NominationAccepted(g, p, q) /\ q \in Seats(g) /\ Accept(h)
    BY <1>1, <1>17 DEF Nominate, Nominated, NightInv, KnowInv, GameInv, Bounded,
                       NominationAccepted
  <2>2. Holds(h)
    BY <1>4, <2>1, NominatedHolds
  <2>3. SameBut(g, h, {"day", "spent"}) /\ h.day.closed = g.day.closed
    BY <1>4 DEF Nominated, SameBut, Fields, DayFields
  <2>. HIDE DEF h
  <2>4. QED  BY <1>4, <1>7, <2>1, <2>2, <2>3, BallotUnroused
<1>18. ASSUME NEW p, NEW approve \in BOOLEAN, Vote(p, approve) PROVE NightLed
  <2>. DEFINE h == Voted(g, p, approve)
  <2>1. VoteAccepted(g, p) /\ Accept(h)
    BY <1>1, <1>18 DEF Vote, Voted
  <2>2. Holds(h)
    BY <1>4, <2>1, VotedHolds
  <2>3. SameBut(g, h, {"day", "spent"}) /\ h.day.closed = g.day.closed
    BY <1>4 DEF Voted, SameBut, Fields, DayFields
  <2>. HIDE DEF h
  <2>4. QED  BY <1>4, <1>7, <2>1, <2>2, <2>3, BallotUnroused
<1>19. ASSUME FinishVote PROVE NightLed
  <2>. DEFINE h == Tallied(g)
  <2>1. g.phase = "day" /\ g.day.ballot # NoBallot /\ Accept(h)
    BY <1>1, <1>19 DEF FinishVote
  <2>2. Holds(h)
    BY <1>4, <2>1, TalliedHolds
  <2>3. SameBut(g, h, {"day", "spent"}) /\ h.day.closed = g.day.closed
    BY <1>4 DEF Tallied, SameBut, Fields, DayFields
  <2>. HIDE DEF h
  <2>4. QED  BY <1>4, <1>7, <2>1, <2>2, <2>3, BallotUnroused
<1>20. ASSUME CloseDay PROVE NightLed
  <2>1. g.phase = "day" /\ ~g.day.closed /\ g.day.ballot = NoBallot /\ Accept(Closed(g))
    BY <1>1, <1>20 DEF CloseDay
  <2>2. PICK h : h = Closed(g)
    OBVIOUS
  <2>3. Holds(h) /\ Accept(h)
    BY <1>4, <2>1, <2>2, ClosedHolds
  <2>4. \A j : j.changed = NewImps(g, h) => Rouses(h, j) /\ h.day.closed
    BY <1>4, <2>1, <2>2, ClosedRouses
  <2>5. h.day.closed
    <3>1. PICK j : j = [changed |-> NewImps(g, h)]
      OBVIOUS
    <3>2. j.changed = NewImps(g, h)
      BY <3>1
    <3>3. QED  BY <2>4, <3>2
  <2>6. Recalls(g, h, r, k) => k.changed = NewImps(g, h)
    BY <2>1, <2>5 DEF Recalls
  <2>7. QED  BY <1>5, <2>3, <2>4, <2>6
<1>21. ASSUME BeginOtherNight PROVE NightLed
  <2>1. /\ g.phase = "day" /\ DayOver(g).phase = "day" /\ DayOver(g).day.closed
        /\ TransitionsSound(DayOver(g)) /\ Accept(Begun(Dusk(DayOver(g)), "other_night"))
    BY <1>1, <1>21 DEF BeginOtherNight
  <2>2. PICK c : c = DayOver(g)
    OBVIOUS
  <2>3. PICK h : h = Begun(Dusk(c), "other_night")
    OBVIOUS
  <2>4. Holds(Begun(Dusk(DayOver(g)), "other_night"))
    BY <1>4, <2>1, OtherNightLeads DEF Leads
  <2>5. /\ Holds(h) /\ Accept(h)
        /\ c.phase = "day" /\ c.day.closed /\ TransitionsSound(c)
    BY <2>1, <2>2, <2>3, <2>4
  <2>6. Recalls(g, h, r, k) => Rouses(h, k)
    BY <1>4, <2>1, <2>2, <2>3, <2>5, OtherNightRouses
  <2>7. QED  BY <1>5, <2>5, <2>6
<1>22. QED
  BY <1>8, <1>9, <1>10, <1>11, <1>12, <1>13, <1>14, <1>15, <1>16, <1>17, <1>18,
     <1>19, <1>20, <1>21 DEF Next

LEMMA NightLedKeeps ==
  ASSUME NightLed
  PROVE  Roused(game', past') /\ NewImpsTold(game')
<1>1. PICK h : Holds(h) /\ Accept(h) /\ (Recalls(game, h, past, past') => Rouses(h, past'))
  BY DEF NightLed
<1>2. QED  BY <1>1, AcceptRecalls

LEMMA InitRoused == Init => Roused(game, past) /\ NewImpsTold(game)
<1>. SUFFICES ASSUME Init PROVE Roused(game, past) /\ NewImpsTold(game)
  OBVIOUS
<1>1. PICK d \in Deals : game = Created(d) /\ past.changed = {}
  BY DEF Init
<1>2. IsDeal(d)
  BY DealsAssumption
<1>3. PICK g : g = game
  OBVIOUS
<1>4. /\ g.phase = "role_reveal" /\ g.role = d.role /\ g.shown = d.shown
      /\ g.nightNumber = 0 /\ g.transitions = {}
  BY <1>1, <1>3 DEF Created
<1>5. OneOfEach(g)
  <2>1. \A p, q \in Seated(d.role) : p # q => d.role[p] # d.role[q]
    BY <1>2 DEF IsDeal, Drawable, LegalSetup
  <2>2. \A p \in Seated(d.role) :
          d.role[p] = "drunk" =>
            d.shown[p] \in Townsfolk /\ Holders(d.role, {d.shown[p]}) = {}
    BY <1>2 DEF IsDeal, Drawable, LegalSetup
  <2>3. QED  BY <1>4, <2>1, <2>2 DEF OneOfEach, Seats
<1>6. Numbered(g)
  BY <1>4 DEF Numbered
<1>7. Passing(g)
  BY <1>4, FS_EmptySet DEF Passing
<1>8. Recorded(g, past) /\ WokenSoFar(g, past) /\ Slept(g, past) /\ NewImpsTold(g)
  BY <1>1, <1>4 DEF Recorded, WokenSoFar, Slept, NewImpsTold, InNight, Nights
<1>9. QED  BY <1>3, <1>5, <1>6, <1>7, <1>8 DEF Roused

\* In every state whoever's place the night has passed was woken, and whoever became
\* the imp was told of it.
THEOREM NightInvariance == Spec => []NightInv
<1>1. NightInv /\ KnowInv' /\ [Next]_vars => NightInv'
  <2>1. ASSUME NightInv, KnowInv', Next PROVE NightInv'
    <3>1. Roused(game', past') /\ NewImpsTold(game')
      BY <2>1, StepNightLed, NightLedKeeps
    <3>2. QED  BY <2>1, <3>1 DEF NightInv
  <2>2. ASSUME NightInv, KnowInv', UNCHANGED vars PROVE NightInv'
    <3>1. game' = game /\ past' = past
      BY <2>2 DEF vars
    <3>2. QED  BY <2>2, <3>1 DEF NightInv
  <2>3. QED  BY <2>1, <2>2
<1>2. Init /\ KnowInv => NightInv
  BY InitRoused DEF NightInv
<1>3. QED  BY <1>1, <1>2, KnowInvariance, PTL DEF Spec

\* The night wakes whom it should and nobody else: by dawn everyone it is for had its
\* step, and whoever became the imp was told (nextStepAfter,
\* advanceTroubleBrewingOtherNightProgress, commitCurrentNotices).
THEOREM EveryoneIsWoken == Spec => []NightWakes
<1>1. NightInv => EveryOneWakes
  <2>1. ASSUME NightInv PROVE Slept(game, past)
    BY <2>1 DEF NightInv, Roused
  <2>2. Slept(game, past) => EveryOneWakes
    <3>. SUFFICES ASSUME Slept(game, past) PROVE EveryOneWakes
      OBVIOUS
    <3>1. \A p : Noticed(game, p) =>
            p \in {n.to : n \in {n \in game.notices : n.night = game.nightNumber}}
      BY DEF Noticed
    <3>2. QED  BY <3>1 DEF Slept, EveryOneWakes, Living
  <2>3. QED  BY <2>1, <2>2
<1>2. Spec => []EveryOneWakes
  BY <1>1, NightInvariance, PTL
<1>3. OnlyTheEntitledAct /\ EveryOneWakes => NightWakes
  BY DEF NightWakes
<1>4. QED  BY <1>2, <1>3, OnlyTheEntitled, PTL
=============================================================================
