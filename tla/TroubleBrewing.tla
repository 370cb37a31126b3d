----------------------------- MODULE TroubleBrewing -----------------------------
(***************************************************************************)
(* The rules of Trouble Brewing that keep no state: the characters, the    *)
(* setups a game may start from, what a player may register as, and the    *)
(* information each ability may be given.  Players are the seats 1 .. n of  *)
(* the circle; an assignment is a pair of functions, role[p] for           *)
(* actualRoleId and shown[p] for shownRoleId.                              *)
(***************************************************************************)
EXTENDS Naturals, FiniteSets

Townsfolk == {"washerwoman", "librarian", "investigator", "chef", "empath",
              "fortune_teller", "undertaker", "monk", "ravenkeeper", "virgin",
              "slayer", "soldier", "mayor"}
Outsiders == {"butler", "drunk", "recluse", "saint"}
Minions == {"poisoner", "spy", "scarlet_woman", "baron"}
Demons == {"imp"}
Roles == Townsfolk \union Outsiders \union Minions \union Demons

Good == Townsfolk \union Outsiders
Evil == Minions \union Demons

None == 0                           \* no seat
Seated(role) == DOMAIN role
Holders(role, rs) == {p \in Seated(role) : role[p] \in rs}
First(ps) == CHOOSE p \in ps : \A q \in ps : p <= q
FirstOrNone(ps) == IF ps = {} THEN None ELSE First(ps)

-----------------------------------------------------------------------------
\* Setups

\* troubleBrewingBaseCounts, for 5 to 15 players: every third count adds one
\* more minion, and between them the townsfolk give way to outsiders.
BaseOutsiders(n) == IF n < 7 THEN n - 5 ELSE (n - 7) % 3
BaseMinions(n) == IF n < 10 THEN 1 ELSE IF n < 13 THEN 2 ELSE 3

\* normalizeTroubleBrewingSetup accepts it
LegalSetup(role, shown) ==
  LET n == Cardinality(Seated(role))
      Count(rs) == Cardinality(Holders(role, rs))
      outsiders == BaseOutsiders(n) + IF Holders(role, {"baron"}) = {} THEN 0 ELSE 2
      distinct == \A p, q \in Seated(role) : p # q => role[p] # role[q]
      shownRight(p) == IF role[p] = "drunk"
                         THEN shown[p] \in Townsfolk /\ Holders(role, {shown[p]}) = {}
                         ELSE shown[p] = role[p]
  IN /\ n \in 5 .. 15
     /\ distinct
     /\ \A p \in Seated(role) : shownRight(p)
     /\ Count(Outsiders) = outsiders
     /\ Count(Minions) = BaseMinions(n)
     /\ Count(Demons) = 1

\* createTroubleBrewingAutomaticSetup: the characters its pools leave out
NotDrawn == {"baron", "virgin", "slayer", "mayor"}
Drawable(role, shown) ==
  /\ LegalSetup(role, shown)
  /\ \A p \in Seated(role) : {role[p], shown[p]} \intersect NotDrawn = {}

-----------------------------------------------------------------------------
\* Registration

\* troubleBrewingAlignmentRegistrations: whether r may register as evil, as good
MayBeEvil(r) == r \in Evil \union {"recluse"}
MayBeGood(r) == r \in Good \union {"spy"}
\* troubleBrewingCharacterRegistrations
Characters(r) ==
  {r} \union (IF r = "spy" THEN Good ELSE {})
      \union (IF r = "recluse" THEN Evil ELSE {})

-----------------------------------------------------------------------------
\* Information: the candidates Rules/Information generates, each truthful under
\* some registration.

Next1(p, n) == (p % n) + 1
\* Clockwise and counterclockwise: the seat k places from p
Ahead(p, k, n) == ((p - 1 + k) % n) + 1
Behind(p, k, n) == ((p - 1 + n - k) % n) + 1

\* chefPairOptions: how many evil pairs p and the next seat may count for
PairCounts(role, p) ==
  LET q == Next1(p, Cardinality(Seated(role)))
  IN (IF MayBeEvil(role[p]) /\ MayBeEvil(role[q]) THEN {1} ELSE {})
       \union (IF MayBeGood(role[p]) \/ MayBeGood(role[q]) THEN {0} ELSE {})

\* collectChefResolutions: each pair is resolved on its own
ChefValues(role) ==
  LET n == Cardinality(Seated(role))
      sums[k \in 0 .. n] ==
        IF k = 0 THEN {0} ELSE {a + b : a \in sums[k - 1], b \in PairCounts(role, k)}
  IN sums[n]

\* Faulty variants (named ...F) stand before the operator they vary.
NeighboursDeadCountF(role, dead, p) ==
  LET n == Cardinality(Seated(role)) IN {Ahead(p, 1, n), Behind(p, 1, n)}

\* The two neighbours the Empath is told about, in each direction the closest
\* alive (closestAliveNeighbor); fewer than two is a throw.
Neighbours(role, dead, p) ==
  LET n == Cardinality(Seated(role))
      ahead == {k \in 1 .. n - 1 : Ahead(p, k, n) \notin dead}
      behind == {k \in 1 .. n - 1 : Behind(p, k, n) \notin dead}
  IN IF ahead = {} THEN {} ELSE {Ahead(p, First(ahead), n), Behind(p, First(behind), n)}

\* createTroubleBrewingEmpathInformationCandidates
EmpathValues(role, dead, p) ==
  LET ns == Neighbours(role, dead, p)
      sure == {q \in ns : ~MayBeGood(role[q])}
      possible == {q \in ns : MayBeEvil(role[q])}
  IN IF Cardinality(ns) # 2 \/ p \in dead THEN {}
     ELSE Cardinality(sure) .. Cardinality(possible)

\* createTroubleBrewingFortuneTellerInformationCandidates; red is the herring
FortuneTellerValues(role, chosen, red) ==
  LET demon(p) == Characters(role[p]) \intersect Demons # {}
      other(p) == Characters(role[p]) \ Demons # {}
  IN IF red \notin Holders(role, Good) THEN {}
     ELSE (IF \A p \in chosen : p # red /\ other(p) THEN {FALSE} ELSE {})
            \union (IF \E p \in chosen : p = red \/ demon(p) THEN {TRUE} ELSE {})

TargetCategory(ability) ==
  CASE ability = "washerwoman" -> Townsfolk
    [] ability = "librarian" -> Outsiders
    [] ability = "investigator" -> Minions

NoCharacters == [learned |-> "no outsiders", among |-> {}]

\* createTroubleBrewingPairInformationCandidates: a character one of two players
\* may pass for, and the two
PairValues(role, ability) ==
  LET learned(p) == Characters(role[p]) \intersect TargetCategory(ability)
      of(p) == {[learned |-> r, among |-> {p, q}] : r \in learned(p), q \in Seated(role) \ {p}}
      none == ability = "librarian" /\ Holders(role, Outsiders) = {}
  IN (UNION {of(p) : p \in Seated(role)}) \union (IF none THEN {NoCharacters} ELSE {})

\* createTroubleBrewingDemonInfoFacts: the characters a demon may bluff
LegalBluffs(role) == {r \in Good : Holders(role, {r}) = {}}
\* recommendDemonBluffsBaselineV1 samples three of these: not the character shown
\* to the drunk, unless fewer than three others are left
BluffPool(role, shown) ==
  LET drunks == {shown[p] : p \in Holders(role, {"drunk"})}
      others == LegalBluffs(role) \ drunks
  IN IF Cardinality(others) >= 3 THEN others ELSE LegalBluffs(role)

\* The players the Fortune Teller's red herring may be
HerringCandidates(role) == Holders(role, Good)
=============================================================================
