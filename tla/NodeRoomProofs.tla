----------------------------- MODULE NodeRoomProofs -----------------------------
(***************************************************************************)
(* The Socket.IO host, for any rooms, members, connections, actions, limits *)
(* and extension.                                                          *)
(*                                                                         *)
(* Timeouts.  The timer of an action and the age of the action add up to   *)
(* the time that was granted: this is the invariant of a room (Running).   *)
(* It is inductive only because no other timer can be mistaken for the one *)
(* of the pending action: timers outlive games and rooms, but an action    *)
(* that comes up is never the one a timer is about (FreshActions), the     *)
(* limit changes in the lobby alone, and a room with a game exists, so     *)
(* that each tick finds it.                                                *)
(*                                                                         *)
(* Seats (SeatInv).  A player sits once, in one room; who is online or     *)
(* host sits; a connection that did not ask for two seats in one payload   *)
(* holds one member, whom findMembership therefore finds from either end   *)
(* of the seats.  While handlers await, a player who left but whose        *)
(* departure has not gone on (Leaving) may still have a code or a prompt,  *)
(* and a seat asked for is asked for by one packet of a connection without *)
(* any (OneArrival): with this the invariant holds between the handlers of *)
(* a payload too, and gives what is promised when the payload is done.     *)
(*                                                                         *)
(* Views.  With the seats sound, a handler that changes one room and ends  *)
(* with its broadcast leaves every connection with what it should have     *)
(* been shown, since the views of all other rooms are Untouched; only a    *)
(* room that somebody is leaving is behind until that handler goes on.     *)
(***************************************************************************)
EXTENDS NodeRoom, FiniteSetTheorems, SequenceTheorems, WellFoundedInduction, TLAPS

Timers == [action : Actions \union {"none"}, left : Nat, extended : BOOLEAN]
TimingType ==
  /\ DOMAIN roster = RoomIds
  /\ game \in [RoomIds -> Actions \union {"lobby", "untimed"}]
  /\ limit \in [RoomIds -> Limits]
  /\ timer \in [RoomIds -> Timers]
  /\ age \in [RoomIds -> Nat]

\* The time an action was given, in ticks.
Granted(r) == limit[r] + (IF timer[r].extended THEN Extension ELSE 0)
Judged(r) == Timed(r) /\ timer[r].action = game[r]
Running(r) ==
  limit[r] > 0 /\ timer[r].left > 0 /\ age[r] + timer[r].left = Granted(r) + 1

RoomInv(r) ==
  /\ ~InLobby(r) => Exists(r)
  /\ Judged(r) => Running(r)
  /\ ~Judged(r) => age[r] = 0
TimingInv == TimingType /\ \A r \in RoomIds : RoomInv(r)

\* What a step leaves alone at room r keeps the invariant of r.
Kept(r) ==
  /\ Exists(r) => Exists(r)'
  /\ game'[r] = game[r] /\ limit'[r] = limit[r]
  /\ timer'[r] = timer[r] /\ age'[r] = age[r]

\* A room no step touched is as sound as it was.
LEMMA KeptSound ==
  ASSUME NEW r \in RoomIds, RoomInv(r), Kept(r)
  PROVE  RoomInv(r)'
BY DEF RoomInv, Kept, Judged, Running, Granted, InLobby, Exists, Timed

\* Most handlers are about seats, connections, codes or prompts only.
LEMMA QuietStep ==
  ASSUME TimingInv, UNCHANGED <<roster, game, timing>>
  PROVE  TimingInv'
BY KeptSound DEF TimingInv, TimingType, Kept, timing, Exists

\* Seats are changed in the lobby; a room may end there.
\* Seats are changed in the lobby, or a game has still got seats; a room may
\* end in the lobby.
LEMMA SeatsStep ==
  ASSUME TimingInv, NEW r \in RoomIds, NEW seats, InLobby(r) \/ seats # <<>>,
         roster' = [roster EXCEPT ![r] = seats], UNCHANGED <<game, timing>>
  PROVE  TimingInv'
<1>1. TimingType' BY DEF TimingInv, TimingType, timing
<1>2. RoomInv(r)'
  BY DEF TimingInv, TimingType, RoomInv, timing, InLobby, Judged, Running, Granted, Timed, Exists
<1>3. ASSUME NEW x \in RoomIds \ {r} PROVE RoomInv(x)'
  BY <1>3, KeptSound DEF TimingInv, TimingType, Kept, timing, Exists
<1> QED BY <1>1, <1>2, <1>3 DEF TimingInv

\* The state of a room just started, restarted, aborted or gone on.
LEMMA GameStep ==
  ASSUME TimingInv, ActionAssumption, NEW r \in RoomIds,
         NEW next \in Actions \union {"lobby", "untimed"}, GameIs(r, next),
         next # "lobby" => Exists(r),
         next # timer[r].action,
         UNCHANGED <<roster, limit, timer>>
  PROVE  TimingInv'
<1>1. TimingType' BY DEF TimingInv, TimingType, GameIs
<1>2. game'[r] = next /\ age'[r] = 0 BY DEF TimingInv, TimingType, GameIs
<1>3. RoomInv(r)'
  BY <1>2 DEF RoomInv, InLobby, Judged, Exists, Timed
<1>4. ASSUME NEW x \in RoomIds \ {r} PROVE RoomInv(x)'
  <2>1. Kept(x) BY <1>4 DEF TimingInv, TimingType, Kept, GameIs, Exists
  <2> QED BY <1>4, <2>1, KeptSound DEF TimingInv
<1> QED BY <1>1, <1>3, <1>4 DEF TimingInv

\* What the game waits for next is no action a timer is about.
LEMMA GoesOnFresh ==
  ASSUME TimingInv, NEW r \in RoomIds, NEW next \in GoesOn(r), ActionAssumption
  PROVE  next \in Actions \union {"untimed"} /\ next # timer[r].action
BY DEF TimingInv, TimingType, Timers, GoesOn, FreshActions, ActionAssumption

-----------------------------------------------------------------------------
\* Who calls has a seat in a room.
LEMMA CallerSits ==
  ASSUME NEW s, NEW m \in Callers(s)
  PROVE  m \in Memberships(s) /\ m.room \in RoomIds /\ m.player \in Players
BY DEF Callers, Memberships, SeatsOn

\* Handlers that leave seats, games and timeouts alone.
LEMMA QuietHandlers ==
  ASSUME TimingInv,
         \/ \E s \in Sockets : Connect(s) \/ Disconnect(s) \/ AckPrompt(s) \/ SubmitPrompt(s)
         \/ \E s \in Sockets, t \in Players : TransferHost(s, t) \/ SendPrompt(s, t)
         \/ \E k \in Packets, s \in Sockets, r \in RoomIds :
              CreateRoom(k, s, r) \/ JoinRoom(k, s, r) \/ ClaimRecovery(k, s, r)
         \/ \E k \in Packets, s \in Sockets, r \in RoomIds, p \in Players : Resume(k, s, r, p)
         \/ \E k \in Packets, s \in Sockets, t \in Players : IssueRecovery(k, s, t)
         \/ \E k \in Packets, s \in Sockets, at \in Commands : Command(k, s, at)
  PROVE  TimingInv'
BY QuietStep
   DEF Connect, Disconnect, AckPrompt, SubmitPrompt, TransferHost, SendPrompt, CreateRoom,
       JoinRoom, ClaimRecovery, Resume, Arrives, IssueRecovery, Command, seating

\* Handlers that go on and leave seats, games and timeouts alone.
LEMMA QuietEnds ==
  ASSUME TimingInv, NEW k \in Packets,
         \/ GivenUp(k)
         \/ \E r \in RoomIds : Resumed(k, r) \/ Issued(k, r) \/ ClaimFails(k, r) \/ Departed(k, r)
         \/ \E r \in RoomIds, p \in Players : Claimed(k, r, p)
  PROVE  TimingInv'
<1>1. UNCHANGED <<roster, game, timing>>
  <2>1. CASE GivenUp(k) BY <2>1 DEF GivenUp, seating
  <2>2. CASE \E r \in RoomIds : Resumed(k, r) BY <2>2 DEF Resumed
  <2>3. CASE \E r \in RoomIds : Issued(k, r) BY <2>3 DEF Issued, seating
  <2>4. CASE \E r \in RoomIds : ClaimFails(k, r) BY <2>4 DEF ClaimFails, seating
  <2>5. CASE \E r \in RoomIds : Departed(k, r) BY <2>5 DEF Departed, seating
  <2>6. CASE \E r \in RoomIds, p \in Players : Claimed(k, r, p) BY <2>6 DEF Claimed
  <2> QED BY <2>1, <2>2, <2>3, <2>4, <2>5, <2>6
<1> QED BY <1>1, QuietStep

\* Handlers that change the seats.
LEMMA SeatHandlers ==
  ASSUME TimingInv,
         \/ \E k \in Packets, r \in RoomIds, p \in Players : Joined(k, r, p)
         \/ \E s \in Sockets, t \in Players, i \in 1 .. Cardinality(Players) : MoveSeat(s, t, i)
         \/ \E k \in Packets, s \in Sockets, t \in Players :
              RemovePlayer(k, s, t) \/ LeaveAndTransfer(k, s, t)
         \/ \E k \in Packets, s \in Sockets : LeaveRoom(k, s)
  PROVE  TimingInv'
<1>1. ASSUME NEW k \in Packets, NEW r \in RoomIds, NEW p \in Players, Joined(k, r, p)
      PROVE  TimingInv'
  <2>1. /\ roster' = [roster EXCEPT ![r] = Append(@, p)]
        /\ UNCHANGED <<game, timing>>
    BY <1>1 DEF Joined, Seated
  <2>2. Append(roster[r], p) # <<>> OBVIOUS
  <2> QED BY <2>1, <2>2, SeatsStep
<1>2. ASSUME NEW s \in Sockets, NEW t \in Players, NEW i, MoveSeat(s, t, i)
      PROVE  TimingInv'
  <2>1. PICK m \in Callers(s) :
          /\ InLobby(m.room)
          /\ roster' = [roster EXCEPT ![m.room] = Moved(@, t, i)]
          /\ UNCHANGED <<game, timing>>
    BY <1>2 DEF MoveSeat
  <2>2. m.room \in RoomIds BY CallerSits
  <2> QED BY <2>1, <2>2, SeatsStep
<1>3. ASSUME NEW k \in Packets, NEW s \in Sockets,
             \/ \E t \in Players : RemovePlayer(k, s, t) \/ LeaveAndTransfer(k, s, t)
             \/ LeaveRoom(k, s)
      PROVE  TimingInv'
  <2>1. PICK m \in Callers(s), p \in Players : InLobby(m.room) /\ Departs(k, s, m.room, p)
    BY <1>3, CallerSits DEF RemovePlayer, LeaveAndTransfer, LeaveRoom
  <2>2. m.room \in RoomIds BY CallerSits
  <2> QED BY <2>1, <2>2, SeatsStep DEF Departs
<1> QED BY <1>1, <1>2, <1>3

\* Starting, restarting and playing a game.
LEMMA GameHandlers ==
  ASSUME TimingInv, ActionAssumption, SizeAssumption, NEW k \in Packets, NEW r \in RoomIds,
         Started(k, r) \/ Restarted(k, r) \/ Played(k, r)
  PROVE  TimingInv'
<1>1. CASE Started(k, r) \/ Restarted(k, r)
  <2>1. /\ Len(roster[r]) \in MinPlayers .. MaxPlayers
        /\ GameIs(r, "untimed") /\ UNCHANGED <<roster, limit, timer>>
    BY <1>1 DEF Started, Restarted, Ends, Deals, NewGame, seating
  <2>2. Exists(r)
    <3>1. SUFFICES ASSUME roster[r] = <<>> PROVE FALSE BY DEF Exists
    <3> QED BY <2>1, <3>1 DEF SizeAssumption
  <2>3. "untimed" # timer[r].action
    BY DEF TimingInv, TimingType, Timers, ActionAssumption
  <2> QED BY <2>1, <2>2, <2>3, GameStep
<1>2. CASE Played(k, r)
  <2>1. ~InLobby(r) /\ UNCHANGED <<roster, limit, timer>>
    BY <1>2 DEF Played, seating
  <2>2. PICK next \in GoesOn(r) : GameIs(r, next)
    BY <1>2 DEF Played
  <2>3. Exists(r) BY <2>1 DEF TimingInv, RoomInv
  <2>4. next \in Actions \union {"untimed"} /\ next # timer[r].action
    BY GoesOnFresh
  <2> QED BY <2>1, <2>2, <2>3, <2>4, GameStep
<1> QED BY <1>1, <1>2

\* A room goes back to the lobby, is new, or is gone.
LEMMA LobbyHandlers ==
  ASSUME TimingInv, ActionAssumption,
         \/ \E s \in Sockets : CloseRoom(s)
         \/ \E k \in Packets, r \in RoomIds : Aborted(k, r)
         \/ \E k \in Packets, r \in RoomIds, p \in Players : RoomCreated(k, r, p)
  PROVE  TimingInv'
<1>1. PICK x, seats :
        /\ x \in RoomIds
        /\ game' = [game EXCEPT ![x] = "lobby"]
        /\ age' = [age EXCEPT ![x] = 0]
        /\ limit' = limit
        /\ timer' = timer \/ timer' = [timer EXCEPT ![x] = NoTimer]
        /\ roster' = roster \/ roster' = [roster EXCEPT ![x] = seats]
  <2>1. CASE \E s \in Sockets : CloseRoom(s)
    BY <2>1, CallerSits DEF CloseRoom, GameIs
  <2>2. CASE \E k \in Packets, r \in RoomIds : Aborted(k, r)
    BY <2>2 DEF Aborted, GameIs, seating
  <2>3. CASE \E k \in Packets, r \in RoomIds, p \in Players : RoomCreated(k, r, p)
    BY <2>3 DEF RoomCreated, GameIs
  <2> QED BY <2>1, <2>2, <2>3
<1>2. TimingType'
  <2>1. NoTimer \in Timers BY DEF NoTimer, Timers
  <2>2. timer' \in [RoomIds -> Timers] BY <1>1, <2>1 DEF TimingInv, TimingType
  <2>3. DOMAIN roster' = RoomIds BY <1>1 DEF TimingInv, TimingType
  <2>4. /\ game' \in [RoomIds -> Actions \union {"lobby", "untimed"}]
        /\ age' \in [RoomIds -> Nat]
    BY <1>1 DEF TimingInv, TimingType
  <2> QED BY <1>1, <2>2, <2>3, <2>4 DEF TimingInv, TimingType
<1>3. RoomInv(x)'
  BY <1>1 DEF TimingInv, TimingType, RoomInv, InLobby, Judged, Timed, ActionAssumption
<1>4. ASSUME NEW y \in RoomIds \ {x} PROVE RoomInv(y)'
  <2>1. Kept(y) BY <1>1, <1>4 DEF TimingInv, TimingType, Kept, Exists
  <2> QED BY <1>4, <2>1, KeptSound DEF TimingInv
<1> QED BY <1>2, <1>3, <1>4 DEF TimingInv

\* Setting the timeout and asking for more time.
LEMMA TimeoutHandlers ==
  ASSUME TimingInv, ActionAssumption, LimitAssumption, NEW s \in Sockets,
         (\E l \in Limits : SetTimeout(s, l)) \/ Extend(s)
  PROVE  TimingInv'
<1>1. ASSUME NEW l \in Limits, SetTimeout(s, l) PROVE TimingInv'
  <2>1. PICK m \in Callers(s) :
          /\ InLobby(m.room)
          /\ limit' = [limit EXCEPT ![m.room] = l]
          /\ timer' = [timer EXCEPT ![m.room] = NoTimer]
          /\ UNCHANGED <<roster, game, age>>
    BY <1>1 DEF SetTimeout, seating
  <2>2. m.room \in RoomIds BY CallerSits
  <2>3. TimingType' BY <2>1, <2>2 DEF TimingInv, TimingType, NoTimer, Timers
  <2>4. RoomInv(m.room)'
    BY <2>1, <2>2 DEF TimingInv, TimingType, RoomInv, InLobby, Judged, Timed,
                      ActionAssumption
  <2>5. ASSUME NEW x \in RoomIds \ {m.room} PROVE RoomInv(x)'
    <3>1. Kept(x) BY <2>1, <2>5 DEF TimingInv, TimingType, Kept, Exists
    <3> QED BY <2>5, <3>1, KeptSound DEF TimingInv
  <2> QED BY <2>3, <2>4, <2>5 DEF TimingInv
<1>2. ASSUME Extend(s) PROVE TimingInv'
  <2>1. PICK m \in Callers(s) :
          /\ ~timer[m.room].extended
          /\ timer' = [timer EXCEPT ![m.room] = Extended(@)]
          /\ UNCHANGED <<roster, game, limit, age>>
    BY <1>2 DEF Extend, seating
  <2>2. m.room \in RoomIds BY CallerSits
  <2>3. /\ timer'[m.room] \in Timers
        /\ timer'[m.room].action = timer[m.room].action
        /\ timer'[m.room].left = timer[m.room].left + Extension
        /\ timer'[m.room].extended = TRUE
    <3>1. timer[m.room] \in Timers BY <2>2 DEF TimingInv, TimingType
    <3>2. Extension \in Nat BY DEF LimitAssumption
    <3>3. timer'[m.room] = Extended(timer[m.room])
      BY <2>1, <2>2 DEF TimingInv, TimingType
    <3> QED BY <3>1, <3>2, <3>3 DEF Timers, Extended
  <2>4. TimingType' BY <2>1, <2>2, <2>3 DEF TimingInv, TimingType
  <2>5. RoomInv(m.room)'
    <3>1. /\ timer[m.room] \in Timers /\ limit[m.room] \in Nat /\ age[m.room] \in Nat
          /\ Extension \in Nat /\ RoomInv(m.room)
      BY <2>2 DEF TimingInv, TimingType, LimitAssumption
    <3>2. ~InLobby(m.room)' => Exists(m.room)'
      BY <2>1, <3>1 DEF RoomInv, InLobby, Exists
    <3>3. Judged(m.room)' <=> Judged(m.room) BY <2>1, <2>3 DEF Judged, Timed
    <3>4. Running(m.room) => Running(m.room)'
      BY <2>1, <2>3, <3>1 DEF Running, Granted, Timers
    <3> QED BY <2>1, <3>1, <3>2, <3>3, <3>4 DEF RoomInv
  <2>6. ASSUME NEW x \in RoomIds \ {m.room} PROVE RoomInv(x)'
    <3>1. Kept(x) BY <2>1, <2>6 DEF TimingInv, TimingType, Kept, Exists
    <3> QED BY <2>6, <3>1, KeptSound DEF TimingInv
  <2> QED BY <2>4, <2>5, <2>6 DEF TimingInv
<1> QED BY <1>1, <1>2

-----------------------------------------------------------------------------
\* What the interval does to one room.
Ticked(r) ==
  /\ roster'[r] = roster[r] /\ limit'[r] = limit[r]
  /\ timer'[r] = IF Expires(r) THEN NoTimer ELSE Ensured(r)
  /\ IF Expires(r) THEN game'[r] \in GoesOn(r) ELSE game'[r] = game[r]
  /\ age'[r] = IF Timed(r) /\ limit[r] > 0 /\ ~Expires(r) THEN Older(age[r]) ELSE 0

\* A timer that is judged by the tick is the one of the pending action, and
\* runs out exactly when all the time granted has passed.
LEMMA ExpiryIsDue ==
  ASSUME TimingInv, LimitAssumption, ActionAssumption, NEW r \in RoomIds, Expires(r)
  PROVE  Judged(r) /\ Running(r) /\ timer[r].left = 1
<1>1. Exists(r) /\ Ensured(r) # NoTimer /\ Ensured(r).left = 0 BY DEF Expires
<1>2. Timed(r) /\ limit[r] # 0 BY <1>1 DEF Ensured
<1>3. limit[r] \in Nat BY DEF TimingInv, TimingType, LimitAssumption
<1>4. Judged(r)
  <2>1. SUFFICES ASSUME timer[r].action # game[r] PROVE FALSE BY <1>2 DEF Judged
  <2>2. Ensured(r).left = limit[r] BY <1>1, <1>2, <2>1 DEF Ensured
  <2> QED BY <1>1, <1>2, <2>2
<1>5. Running(r) BY <1>4 DEF TimingInv, RoomInv
<1>6. timer[r].left = 1
  <2>1. timer[r] \in Timers BY DEF TimingInv, TimingType
  <2>2. Ensured(r) = [timer[r] EXCEPT !.left = @ - 1]
    BY <1>1, <1>2, <1>4 DEF Ensured, Judged
  <2>3. Ensured(r).left = timer[r].left - 1 BY <2>1, <2>2 DEF Timers
  <2> QED BY <1>1, <2>1, <2>3 DEF Timers
<1> QED BY <1>4, <1>5, <1>6

\* The tick keeps timer, game and age of a room in their types.
LEMMA TickTypes ==
  ASSUME TimingInv, LimitAssumption, ActionAssumption, NEW r \in RoomIds, Ticked(r)
  PROVE  /\ timer'[r] \in Timers
         /\ game'[r] \in Actions \union {"lobby", "untimed"}
         /\ age'[r] \in Nat
<1>0. /\ timer[r] \in Timers /\ limit[r] \in Nat /\ age[r] \in Nat
      /\ game[r] \in Actions \union {"lobby", "untimed"}
  BY DEF TimingInv, TimingType, LimitAssumption
<1>1. age'[r] \in Nat BY <1>0 DEF Ticked, Older, LimitAssumption
<1>2. game'[r] \in Actions \union {"lobby", "untimed"}
  BY <1>0, GoesOnFresh DEF Ticked
<1>3. NoTimer \in Timers BY DEF NoTimer, Timers
<1>4. Ensured(r) \in Timers
  <2>1. CASE ~Exists(r) BY <1>0, <2>1 DEF Ensured
  <2>2. CASE Exists(r) /\ (~Timed(r) \/ limit[r] = 0) BY <1>3, <2>2 DEF Ensured
  <2>3. CASE Exists(r) /\ Timed(r) /\ limit[r] # 0 /\ timer[r].action = game[r]
    <3>1. timer[r].left > 0 /\ timer[r].left - 1 \in Nat
      BY <1>0, <2>3 DEF TimingInv, RoomInv, Judged, Running, Timers
    <3>2. Ensured(r) = [timer[r] EXCEPT !.left = @ - 1] BY <2>3 DEF Ensured
    <3> QED BY <1>0, <3>1, <3>2 DEF Timers
  <2>4. CASE Exists(r) /\ Timed(r) /\ limit[r] # 0 /\ timer[r].action # game[r]
    <3>1. Ensured(r) = [action |-> game[r], left |-> limit[r], extended |-> FALSE]
      BY <2>4 DEF Ensured
    <3> QED BY <1>0, <2>4, <3>1 DEF Timers, Timed
  <2> QED BY <2>1, <2>2, <2>3, <2>4
<1> QED BY <1>1, <1>2, <1>3, <1>4 DEF Ticked

\* The tick keeps the invariant of every room.
LEMMA TickRoom ==
  ASSUME TimingInv, LimitAssumption, ActionAssumption, NEW r \in RoomIds, Ticked(r)
  PROVE  RoomInv(r)'
<1>0. /\ timer[r] \in Timers /\ limit[r] \in Nat /\ age[r] \in Nat
      /\ MaxAge \in Nat /\ Extension \in Nat /\ MaxAge > limit[r] + Extension
      /\ RoomInv(r)
  BY DEF TimingInv, TimingType, LimitAssumption
<1>1. CASE Expires(r)
  <2>1. Judged(r) /\ Exists(r) BY <1>1, ExpiryIsDue DEF Expires
  <2>2. timer'[r] = NoTimer /\ age'[r] = 0 /\ Exists(r)'
    BY <1>1, <2>1 DEF Ticked, Exists
  <2>3. ~Judged(r)'
    BY <2>2 DEF Judged, Timed, NoTimer, ActionAssumption
  <2> QED BY <2>2, <2>3 DEF RoomInv
<1>2. CASE ~Expires(r)
  <2>1. /\ game'[r] = game[r] /\ timer'[r] = Ensured(r)
        /\ roster'[r] = roster[r] /\ limit'[r] = limit[r]
    BY <1>2 DEF Ticked
  <2>2. ~InLobby(r)' => Exists(r)' BY <1>0, <2>1 DEF RoomInv, InLobby, Exists
  <2>3. CASE ~Timed(r)
    <3>1. ~Judged(r)' /\ age'[r] = 0 BY <1>2, <2>1, <2>3 DEF Judged, Timed, Ticked
    <3> QED BY <2>2, <3>1 DEF RoomInv
  <2>4. CASE Timed(r)
    <3>1. Exists(r)
      BY <1>0, <2>4 DEF RoomInv, InLobby, Timed, ActionAssumption
    <3>2. CASE limit[r] = 0
      <4>1. timer'[r] = NoTimer BY <2>1, <3>1, <3>2 DEF Ensured
      <4>2. ~Judged(r)' BY <4>1 DEF Judged, Timed, NoTimer, ActionAssumption
      <4>3. age'[r] = 0 BY <1>2, <3>2 DEF Ticked
      <4> QED BY <2>2, <4>2, <4>3 DEF RoomInv
    <3>3. CASE limit[r] # 0 /\ Judged(r)
      <4>1. Running(r) BY <1>0, <3>3 DEF RoomInv
      <4>2. Ensured(r) = [timer[r] EXCEPT !.left = @ - 1]
        BY <2>4, <3>1, <3>3 DEF Ensured, Judged
      <4>3. /\ Ensured(r).left = timer[r].left - 1
            /\ Ensured(r).action = timer[r].action
            /\ Ensured(r).extended = timer[r].extended
        BY <1>0, <4>2 DEF Timers
      <4>4. Ensured(r) # NoTimer
        BY <2>4, <3>3, <4>3 DEF NoTimer, Judged, Timed, ActionAssumption
      <4>5. timer[r].left # 1
        BY <1>2, <3>1, <4>3, <4>4 DEF Expires
      <4>6. age[r] < MaxAge
        BY <1>0, <4>1, <4>5 DEF Running, Granted, Timers
      <4>7. age'[r] = age[r] + 1
        BY <1>0, <1>2, <2>4, <3>3, <4>6 DEF Ticked, Older
      <4>8. Running(r)'
        BY <1>0, <2>1, <4>1, <4>3, <4>5, <4>7 DEF Running, Granted, Timers
      <4>9. Judged(r)' BY <2>1, <3>3, <4>3 DEF Judged, Timed
      <4> QED BY <2>2, <4>8, <4>9 DEF RoomInv
    <3>4. CASE limit[r] # 0 /\ ~Judged(r)
      <4>1. timer'[r] = [action |-> game[r], left |-> limit[r], extended |-> FALSE]
        BY <2>1, <2>4, <3>1, <3>4 DEF Ensured, Judged
      <4>2. age[r] = 0 BY <1>0, <3>4 DEF RoomInv
      <4>3. age'[r] = 1
        BY <1>0, <1>2, <2>4, <3>4, <4>2 DEF Ticked, Older
      <4>4. Judged(r)' BY <2>1, <2>4, <4>1 DEF Judged, Timed
      <4>5. Running(r)' BY <1>0, <2>1, <3>4, <4>1, <4>3 DEF Running, Granted
      <4> QED BY <2>2, <4>4, <4>5 DEF RoomInv
    <3> QED BY <3>2, <3>3, <3>4
  <2> QED BY <2>3, <2>4
<1> QED BY <1>1, <1>2

LEMMA TickStep ==
  ASSUME TimingInv, LimitAssumption, ActionAssumption, Tick
  PROVE  TimingInv'
<1>1. ASSUME NEW r \in RoomIds PROVE Ticked(r)
  BY <1>1 DEF Tick, Ticked, seating
<1>2. TimingType'
  <2>1. DOMAIN roster' = RoomIds /\ limit' \in [RoomIds -> Limits]
    BY DEF Tick, seating, TimingInv, TimingType
  <2>2. \A r \in RoomIds : timer'[r] \in Timers
                           /\ game'[r] \in Actions \union {"lobby", "untimed"}
                           /\ age'[r] \in Nat
    BY <1>1, TickTypes
  <2>3. game' \in [RoomIds -> Actions \union {"lobby", "untimed"}]
    BY DEF Tick
  <2>4. timer' \in [RoomIds -> Timers]
    <3>1. timer' = [r \in RoomIds |-> timer'[r]] BY DEF Tick
    <3> QED BY <2>2, <3>1
  <2>5. age' \in [RoomIds -> Nat]
    <3>1. age' = [r \in RoomIds |-> age'[r]] BY DEF Tick
    <3> QED BY <2>2, <3>1
  <2> QED BY <2>1, <2>3, <2>4, <2>5 DEF TimingType
<1>3. \A r \in RoomIds : RoomInv(r)' BY <1>1, TickRoom
<1> QED BY <1>2, <1>3 DEF TimingInv

-----------------------------------------------------------------------------
LEMMA InitSound ==
  ASSUME Init, LimitAssumption, ActionAssumption
  PROVE  TimingInv
BY DEF Init, LimitAssumption, ActionAssumption, TimingInv, TimingType, Timers, NoTimer,
       RoomInv, InLobby, Judged, Timed

LEMMA NextStep ==
  ASSUME TimingInv, LimitAssumption, ActionAssumption, SizeAssumption, [Next]_vars
  PROVE  TimingInv'
<1>1. CASE UNCHANGED vars BY <1>1, QuietStep DEF vars, seating, timing
<1>2. CASE Next
  <2>1. CASE Tick BY <2>1, TickStep
  <2>2. CASE \E k \in Packets, r \in RoomIds : Started(k, r) \/ Restarted(k, r) \/ Played(k, r)
    BY <2>2, GameHandlers
  <2>3. CASE \/ \E s \in Sockets : CloseRoom(s)
             \/ \E k \in Packets, r \in RoomIds : Aborted(k, r)
             \/ \E k \in Packets, r \in RoomIds, p \in Players : RoomCreated(k, r, p)
    BY <2>3, LobbyHandlers
  <2>4. CASE \E s \in Sockets : (\E l \in Limits : SetTimeout(s, l)) \/ Extend(s)
    BY <2>4, TimeoutHandlers
  <2>5. CASE \/ \E k \in Packets, r \in RoomIds, p \in Players : Joined(k, r, p)
             \/ \E s \in Sockets, t \in Players, i \in 1 .. Cardinality(Players) :
                  MoveSeat(s, t, i)
             \/ \E k \in Packets, s \in Sockets, t \in Players :
                  RemovePlayer(k, s, t) \/ LeaveAndTransfer(k, s, t)
             \/ \E k \in Packets, s \in Sockets : LeaveRoom(k, s)
    BY <2>5, SeatHandlers
  <2>6. CASE \/ \E s \in Sockets :
                  Connect(s) \/ Disconnect(s) \/ AckPrompt(s) \/ SubmitPrompt(s)
             \/ \E s \in Sockets, t \in Players : TransferHost(s, t) \/ SendPrompt(s, t)
             \/ \E k \in Packets, s \in Sockets, r \in RoomIds :
                  CreateRoom(k, s, r) \/ JoinRoom(k, s, r) \/ ClaimRecovery(k, s, r)
             \/ \E k \in Packets, s \in Sockets, r \in RoomIds, p \in Players :
                  Resume(k, s, r, p)
             \/ \E k \in Packets, s \in Sockets, t \in Players : IssueRecovery(k, s, t)
             \/ \E k \in Packets, s \in Sockets, at \in Commands : Command(k, s, at)
    BY <2>6, QuietHandlers
  <2>7. CASE \/ \E k \in Packets : GivenUp(k)
             \/ \E k \in Packets, r \in RoomIds :
                  Resumed(k, r) \/ Issued(k, r) \/ ClaimFails(k, r) \/ Departed(k, r)
             \/ \E k \in Packets, r \in RoomIds, p \in Players : Claimed(k, r, p)
    BY <2>7, QuietEnds
  <2> QED BY <1>2, <2>1, <2>2, <2>3, <2>4, <2>5, <2>6, <2>7 DEF Next
<1> QED BY <1>1, <1>2

\* The timer of a pending action and the action's age always add up to the
\* time it was granted (timedServer.ts, InteractionTimeoutRuntime.ensure).
THEOREM TimingHolds == Spec => []TimingInv
<1> USE LimitAssumption, ActionAssumption, SizeAssumption
<1>1. Init => TimingInv BY InitSound
<1>2. TimingInv /\ [Next]_vars => TimingInv' BY NextStep
<1> QED BY <1>1, <1>2, PTL DEF Spec

\* No timed action outlasts its limit and the one extension it may be given,
\* whatever handlers run between the ticks and whoever is connected.
THEOREM TimedActionsEnd == Spec => []TimedActionEnds
<1>1. ASSUME TimingInv, NEW r \in RoomIds
      PROVE  age[r] <= limit[r] + (IF timer[r].extended THEN Extension ELSE 0)
  <2>1. /\ timer[r] \in Timers /\ limit[r] \in Nat /\ age[r] \in Nat /\ Extension \in Nat
        /\ RoomInv(r)
    BY <1>1, LimitAssumption DEF TimingInv, TimingType, LimitAssumption
  <2> QED BY <2>1 DEF RoomInv, Running, Granted, Timers
<1>2. TimingInv => TimedActionEnds BY <1>1 DEF TimedActionEnds
<1> QED BY <1>2, TimingHolds, PTL

\* A tick answers for the actors of an action only when the action has had its
\* limit, and its extension if one was given: no other timer is taken for it.
THEOREM TimeoutsKeepPromise == Spec => TimeoutKeepsPromise
<1>1. ASSUME TimingInv, Tick, NEW r \in RoomIds, game'[r] # game[r]
      PROVE  /\ limit[r] > 0
             /\ age[r] >= limit[r] + (IF timer[r].extended THEN Extension ELSE 0)
  <2>1. Expires(r) BY <1>1 DEF Tick
  <2>2. Running(r) /\ timer[r].left = 1
    BY <1>1, <2>1, ExpiryIsDue, LimitAssumption, ActionAssumption
  <2>3. limit[r] \in Nat /\ age[r] \in Nat /\ Extension \in Nat
    BY <1>1, LimitAssumption DEF TimingInv, TimingType, LimitAssumption
  <2> QED BY <2>2, <2>3 DEF Running, Granted
<1>2. TimingInv /\ [Next]_vars =>
        [Tick => \A r \in RoomIds :
           Timed(r) /\ game'[r] # game[r] =>
             /\ limit[r] > 0
             /\ age[r] >= limit[r] + (IF timer[r].extended THEN Extension ELSE 0)]_vars
  BY <1>1
<1> QED BY <1>2, TimingHolds, PTL DEF Spec, TimeoutKeepsPromise

-----------------------------------------------------------------------------
\* A nonempty set of naturals has a least element.
LEMMA Least ==
  ASSUME NEW T, T \subseteq Nat, T # {}
  PROVE  \E x \in T : \A y \in T : x <= y
<1> DEFINE R == {ss \in Nat \X Nat : ss[1] < ss[2]}
<1>1. R = OpToRel(<, Nat)
  BY Zenon DEF OpToRel
<1>2. IsWellFoundedOn(R, Nat)
  BY <1>1, NatLessThanWellFounded, Zenon
<1> HIDE DEF R
<1>3. \E x \in T : \A y \in T : ~ (<<y, x>> \in R)
  BY <1>2, WFMin
<1>4. \A x, y \in Nat : <<y, x>> \in R <=> y < x
  BY DEF R
<1>5. PICK x \in T : \A y \in T : ~ (<<y, x>> \in R)
  BY <1>3
<1>6. \A y \in T : ~(y < x)
  BY <1>4, <1>5
<1>7. \A y \in T : y \in Nat /\ x \in Nat
  OBVIOUS
<1>8. \A y \in T : x <= y
  BY <1>6, <1>7
<1>9. QED
  BY <1>8

\* Seats after addPlayer, splice and insertion: who has one, and only one.
Distinct(seats) == \A i, j \in DOMAIN seats : seats[i] = seats[j] => i = j

LEMMA AppendFacts ==
  ASSUME NEW S, NEW s \in Seq(S), NEW p \in S, p \notin Range(s), Distinct(s)
  PROVE  /\ Append(s, p) \in Seq(S) /\ Range(Append(s, p)) = Range(s) \union {p}
         /\ Distinct(Append(s, p))
<1> DEFINE u == Append(s, p)
<1>1. /\ u \in Seq(S) /\ DOMAIN u = 1 .. Len(s) + 1 /\ DOMAIN s = 1 .. Len(s)
      /\ u[Len(s) + 1] = p /\ \A i \in 1 .. Len(s) : u[i] = s[i]
  OBVIOUS
<1> HIDE DEF u
<1>2. \A i \in DOMAIN u : (i = Len(s) + 1 /\ u[i] = p) \/ (i \in DOMAIN s /\ u[i] = s[i])
  <2>1. \A i \in 1 .. Len(s) + 1 : i = Len(s) + 1 \/ i \in 1 .. Len(s)
    OBVIOUS
  <2> QED BY <1>1, <2>1
<1>3. Len(s) + 1 \in DOMAIN u /\ \A i \in DOMAIN s : i \in DOMAIN u
  BY <1>1
<1>4. Range(u) = Range(s) \union {p}
  BY <1>1, <1>2, <1>3 DEF Range
<1>5. Distinct(u)
  BY <1>2 DEF Distinct, Range
<1> QED BY <1>1, <1>4, <1>5 DEF u

LEMMA UnseatedFacts ==
  ASSUME NEW S, NEW s \in Seq(S), NEW p \in Range(s), Distinct(s)
  PROVE /\ Unseated(s, p) \in Seq(S) /\ Range(Unseated(s, p)) = Range(s) \ {p}
        /\ Distinct(Unseated(s,p)) /\ Len(Unseated(s,p)) = Len(s) - 1
<1> DEFINE k == SeatOf(s, p)
           u == Unseated(s, p)
<1>1. k \in 1 .. Len(s) /\ s[k] = p
  BY DEF Range, SeatOf
<1> HIDE DEF k
<1>2. u = SubSeq(s, 1, k - 1) \o SubSeq(s, k + 1, Len(s))
  BY DEF Unseated, RemoveAt, k
<1>3. /\ u \in Seq(S) /\ Len(u) = Len(s) - 1
      /\ \A i \in 1 .. Len(u) : u[i] = IF i < k THEN s[i] ELSE s[i+1]
  <2>1. /\ SubSeq(s, 1, k - 1) \in Seq(S) /\ Len(SubSeq(s, 1, k - 1)) = k - 1
        /\ \A i \in 1 .. k - 1 : SubSeq(s, 1, k - 1)[i] = s[i]
    BY <1>1, SubSeqProperties
  <2>2. /\ SubSeq(s, k + 1, Len(s)) \in Seq(S) /\ Len(SubSeq(s, k + 1, Len(s))) = Len(s) - k
        /\ \A i \in 1 .. Len(s) - k : SubSeq(s, k + 1, Len(s))[i] = s[k + i]
    BY <1>1, SubSeqProperties
  <2> DEFINE a == SubSeq(s, 1, k - 1)
             b == SubSeq(s, k + 1, Len(s))
  <2>3. /\ a \in Seq(S) /\ b \in Seq(S) /\ Len(a) = k - 1 /\ Len(b) = Len(s) - k
        /\ \A i \in 1 .. k - 1 : a[i] = s[i]
        /\ \A i \in 1 .. Len(s) - k : b[i] = s[k + i]
        /\ u = a \o b
    BY <1>2, <2>1, <2>2
  <2> HIDE DEF a, b, u
  <2>4. u \in Seq(S) /\ Len(u) = Len(s) - 1
    BY <1>1, <2>3
  <2>5. ASSUME NEW i \in 1 .. Len(u) PROVE u[i] = IF i < k THEN s[i] ELSE s[i+1]
    <3>0. i \in 1 .. Len(a) + Len(b)
      BY <1>1, <2>3, <2>4
    <3>1. u[i] = IF i <= Len(a) THEN a[i] ELSE b[i - Len(a)]
      BY <2>3, <3>0, ConcatProperties
    <3>2. CASE i < k
      BY <1>1, <2>3, <2>4, <3>1, <3>2
    <3>3. CASE ~(i < k)
      <4>1. i - (k - 1) \in 1 .. Len(s) - k /\ ~(i <= Len(a)) /\ k + (i - (k - 1)) = i + 1
        BY <1>1, <2>3, <2>4, <3>3
      <4>2. b[i - (k - 1)] = s[i + 1]
        BY <2>3, <4>1
      <4>3. QED BY <2>3, <3>1, <3>3, <4>1, <4>2
    <3>4. QED BY <3>2, <3>3
  <2>6. QED BY <2>4, <2>5
<1> HIDE DEF u
<1>4. Distinct(u)
  <2>1. DOMAIN u = 1 .. Len(u) /\ DOMAIN s = 1 .. Len(s) /\ Len(s) \in Nat
    BY <1>3
  <2>2. \A i \in 1 .. Len(u) : i \in 1 .. Len(s) /\ i + 1 \in 1 .. Len(s)
    BY <1>3, <2>1
  <2>3. ASSUME NEW i \in 1 .. Len(u), NEW j \in 1 .. Len(u), u[i] = u[j] PROVE i = j
    <3>1. \E m \in 1 .. Len(s) : u[i] = s[m] /\ m = IF i < k THEN i ELSE i + 1
      BY <1>3, <2>2
    <3>2. \E n \in 1 .. Len(s) : u[j] = s[n] /\ n = IF j < k THEN j ELSE j + 1
      BY <1>3, <2>2
    <3>3. (IF i < k THEN i ELSE i + 1) = (IF j < k THEN j ELSE j + 1)
      BY <2>1, <2>3, <3>1, <3>2 DEF Distinct
    <3>4. QED BY <1>1, <1>3, <3>3
  <2>4. QED BY <2>1, <2>3 DEF Distinct
<1>5. ASSUME NEW i \in 1 .. Len(s), i # k PROVE \E j \in 1 .. Len(u) : u[j] = s[i]
  <2>1. CASE i < k
    <3>1. i \in 1 .. Len(u) BY <1>1, <1>3, <2>1
    <3>2. QED BY <1>3, <2>1, <3>1
  <2>2. CASE i > k
    <3>1. i - 1 \in 1 .. Len(u) /\ ~(i - 1 < k) /\ i - 1 + 1 = i BY <1>1, <1>3, <2>2
    <3>2. u[i - 1] = s[i] BY <1>3, <3>1
    <3>3. QED BY <3>1, <3>2
  <2>3. QED BY <1>1, <1>5, <2>1, <2>2
<1>6. Range(u) = Range(s) \ {p}
  <2>1. DOMAIN u = 1 .. Len(u) /\ DOMAIN s = 1 .. Len(s) /\ Len(s) \in Nat
    BY <1>3
  <2>2. ASSUME NEW i \in 1 .. Len(u) PROVE u[i] \in Range(s) /\ u[i] # p
    <3>1. i \in 1 .. Len(s) /\ i + 1 \in 1 .. Len(s) /\ k \in 1 .. Len(s)
      BY <1>1, <1>3, <2>1
    <3>2. PICK j \in 1 .. Len(s) : u[i] = s[j] /\ j # k
      BY <1>1, <1>3, <3>1
    <3>3. s[j] # s[k] BY <3>1, <3>2, <2>1 DEF Distinct
    <3>4. QED BY <1>1, <2>1, <3>2, <3>3 DEF Range
  <2>3. ASSUME NEW x \in Range(s), x # p PROVE x \in Range(u)
    <3>1. PICK i \in 1 .. Len(s) : s[i] = x BY <2>1 DEF Range
    <3>2. i # k BY <1>1, <2>3, <3>1
    <3>3. QED BY <1>5, <2>1, <3>1, <3>2 DEF Range
  <2>4. Range(u) \subseteq Range(s) \ {p}
    BY <2>1, <2>2 DEF Range
  <2>5. QED BY <2>3, <2>4
<1>7. QED BY <1>3, <1>4, <1>6 DEF u
LEMMA InsertFacts ==
  ASSUME NEW S, NEW s \in Seq(S), NEW p \in S, p \notin Range(s), Distinct(s),
         NEW i \in 1 .. Len(s) + 1
  PROVE  /\ InsertAt(s, i, p) \in Seq(S)
         /\ Range(InsertAt(s, i, p)) = Range(s) \union {p}
         /\ Distinct(InsertAt(s, i, p))
<1> DEFINE a == SubSeq(s, 1, i - 1)
           b == SubSeq(s, i, Len(s))
           c == a \o <<p>>
           u == InsertAt(s, i, p)
<1>1. /\ a \in Seq(S) /\ Len(a) = i - 1
      /\ \A j \in 1 .. i - 1 : a[j] = s[j]
  BY SubSeqProperties
<1>2. /\ b \in Seq(S) /\ Len(b) = Len(s) + 1 - i
      /\ \A j \in 1 .. Len(s) + 1 - i : b[j] = s[i + j - 1]
  BY SubSeqProperties
<1>3. u = c \o b
  BY DEF InsertAt
<1> HIDE DEF a, b, u
<1>4. /\ c \in Seq(S) /\ Len(c) = i /\ c[i] = p
      /\ \A j \in 1 .. i - 1 : c[j] = s[j]
  <2> DEFINE one == <<p>>
  <2>1. one \in Seq(S) /\ Len(one) = 1 /\ one[1] = p
    OBVIOUS
  <2> HIDE DEF one
  <2>2. /\ c = a \o one /\ c \in Seq(S) /\ Len(c) = i - 1 + 1
        /\ \A j \in 1 .. i - 1 + 1 :
             c[j] = IF j <= i - 1 THEN a[j] ELSE one[j - (i - 1)]
    <3>1. c = a \o one
      BY DEF one
    <3> QED BY <1>1, <2>1, <3>1, ConcatProperties
  <2>3. i \in 1 .. i - 1 + 1 /\ ~(i <= i - 1) /\ i - (i - 1) = 1 /\ i - 1 + 1 = i
    OBVIOUS
  <2>4. c[i] = p /\ Len(c) = i
    <3>1. c[i] = IF i <= i - 1 THEN a[i] ELSE one[i - (i - 1)]
      BY <2>2, <2>3
    <3>2. c[i] = one[1]
      BY <2>3, <3>1
    <3> QED BY <2>1, <2>2, <2>3, <3>2
  <2>5. \A j \in 1 .. i - 1 : j \in 1 .. i - 1 + 1 /\ j <= i - 1
    OBVIOUS
  <2> HIDE DEF c
  <2>6. \A j \in 1 .. i - 1 : c[j] = s[j]
    BY <1>1, <2>2, <2>5
  <2> QED BY <2>2, <2>4, <2>6
<1> HIDE DEF c
<1>5. u \in Seq(S) /\ Len(u) = Len(s) + 1
  <2>1. c \o b \in Seq(S) /\ Len(c \o b) = Len(c) + Len(b)
    BY <1>2, <1>4, ConcatProperties
  <2> QED BY <1>2, <1>3, <1>4, <2>1
<1>6. ASSUME NEW j \in 1 .. Len(u)
      PROVE  u[j] = IF j < i THEN s[j] ELSE IF j = i THEN p ELSE s[j - 1]
  <2>1. j \in 1 .. Len(c) + Len(b)
    BY <1>2, <1>4, <1>5
  <2>2. u[j] = IF j <= Len(c) THEN c[j] ELSE b[j - Len(c)]
    BY <1>2, <1>3, <1>4, <2>1, ConcatProperties
  <2>3. CASE j <= i
    BY <1>4, <2>2, <2>3
  <2>4. CASE j > i
    <3>1. j - i \in 1 .. Len(s) + 1 - i /\ i + (j - i) - 1 = j - 1
      BY <1>5, <2>4
    <3>2. b[j - i] = s[j - 1]
      BY <1>2, <3>1
    <3> QED BY <1>4, <2>2, <2>4, <3>2
  <2> QED BY <1>5, <2>3, <2>4
<1>7. DOMAIN u = 1 .. Len(u) /\ DOMAIN s = 1 .. Len(s) /\ Len(s) \in Nat
  BY <1>5
<1>8. Distinct(u)
  <2>1. ASSUME NEW j \in 1 .. Len(u), NEW k \in 1 .. Len(u), u[j] = u[k] PROVE j = k
    <3>1. \A n \in 1 .. Len(s) : s[n] # p
      BY <1>7 DEF Range
    <3>2. \A m, n \in 1 .. Len(s) : s[m] = s[n] => m = n
      BY <1>7 DEF Distinct
    <3>3. \A m \in 1 .. Len(u) :
            \/ m = i /\ u[m] = p
            \/ \E n \in 1 .. Len(s) : u[m] = s[n] /\ m = IF n < i THEN n ELSE n + 1
      <4>1. ASSUME NEW m \in 1 .. Len(u), m < i
            PROVE  m \in 1 .. Len(s) /\ u[m] = s[m]
        BY <1>5, <1>6, <4>1
      <4>2. ASSUME NEW m \in 1 .. Len(u), m > i
            PROVE  m - 1 \in 1 .. Len(s) /\ u[m] = s[m - 1] /\ ~(m - 1 < i) /\ m = m - 1 + 1
        BY <1>5, <1>6, <4>2
      <4>3. \A m \in 1 .. Len(u) : m = i => u[m] = p
        BY <1>6
      <4>4. \A m \in 1 .. Len(u) : m < i \/ m = i \/ m > i
        BY <1>5
      <4> QED BY <4>1, <4>2, <4>3, <4>4
    <3> QED BY <2>1, <3>1, <3>2, <3>3
  <2> QED BY <1>7, <2>1 DEF Distinct
<1>9. Range(u) = Range(s) \union {p}
  <2>1. ASSUME NEW j \in 1 .. Len(u) PROVE u[j] \in Range(s) \union {p}
    <3>1. /\ j < i => j \in 1 .. Len(s)
          /\ j > i => j - 1 \in 1 .. Len(s)
      BY <1>5
    <3>2. u[j] = IF j < i THEN s[j] ELSE IF j = i THEN p ELSE s[j - 1]
      BY <1>6
    <3>3. \A n \in 1 .. Len(s) : s[n] \in Range(s)
      BY <1>7 DEF Range
    <3>4. j < i \/ j = i \/ j > i
      BY <1>5
    <3> QED BY <3>1, <3>2, <3>3, <3>4
  <2>2. ASSUME NEW j \in 1 .. Len(s) PROVE s[j] \in Range(u)
    <3>1. CASE j < i BY <1>5, <1>6, <1>7, <3>1 DEF Range
    <3>2. CASE j >= i
      <4>1. j + 1 \in 1 .. Len(u) /\ ~(j + 1 < i) /\ j + 1 # i /\ (j + 1) - 1 = j
        BY <1>5, <3>2
      <4>2. u[j + 1] = s[j] BY <1>6, <4>1
      <4> QED BY <1>7, <4>1, <4>2 DEF Range
    <3> QED BY <3>1, <3>2
  <2>3. p \in Range(u)
    <3>1. i \in 1 .. Len(u) /\ u[i] = p BY <1>5, <1>6
    <3> QED BY <1>7, <3>1 DEF Range
  <2> QED BY <1>7, <2>1, <2>2, <2>3 DEF Range
<1> QED BY <1>5, <1>8, <1>9 DEF u

-----------------------------------------------------------------------------
\* Who sits where, on which connection, and what is kept about it.
Prompts == [to : Players \union {None}, status : Statuses \union {"none"}]
SideTypes ==
  /\ grants \in [RoomIds -> [Players -> Nat]]
  /\ strays \in [RoomIds -> SUBSET Players]
  /\ prompt \in [RoomIds -> Prompts]
SeatTypes ==
  /\ roster \in [RoomIds -> Seq(Players)]
  /\ hosts \subseteq Players
  /\ socketOf \in [Players -> Sockets \union {None}]
  /\ open \subseteq Sockets
  /\ SideTypes
PacketTypes ==
  /\ DOMAIN pending = Packets
  /\ \A k \in Packets : /\ pending[k].at \in Arrivals => pending[k].by \in Sockets
                        /\ pending[k].at = "issue" => pending[k].player \in Players

OneRoomEach ==
  /\ \A r \in RoomIds : Distinct(roster[r])
  /\ \A r, x \in RoomIds : \A p \in Members(r) : p \in Members(x) => r = x
Sits(p) == \E r \in RoomIds : p \in Members(r)
OnlineSit == \A p \in Players : Online(p) => Sits(p)
HostsSit == \A p \in hosts : Sits(p)
Hosted(r) == Exists(r) => \E h \in Members(r) : Members(r) \intersect hosts = {h}
Held(s) ==
  s \notin pipelined =>
    \A p \in Players : socketOf[p] = s =>
      s \in open /\ \A q \in Players : socketOf[q] = s => q = p

\* p has left r, but the handler has not gone on to what is kept about p.
Leaving(r, p) ==
  \E k \in Packets : pending[k].at = "depart" /\ pending[k].room = r /\ pending[k].player = p
Waiting(r, p) == Awaited(r, p) \/ Leaving(r, p)
CodesServe(r) ==
  \A p \in Players \ strays[r] : grants[r][p] > 0 => grants[r][p] = 1 /\ Waiting(r, p)
PromptWaits(r) ==
  prompt[r] # NoPrompt =>
    InLobby(r) /\ (prompt[r].to \in Members(r) \/ Leaving(r, prompt[r].to))

\* Who asks for a seat has none, and asks once; or is taken down in pipelined.
OneArrival ==
  \A k \in Packets : pending[k].at \in Arrivals /\ pending[k].by \notin pipelined =>
    /\ pending[k].by \in open /\ \A p \in Players : socketOf[p] # pending[k].by
    /\ \A j \in Packets \ {k} : pending[j].at \notin Arrivals

SeatInv ==
  /\ SeatTypes /\ OneRoomEach /\ OnlineSit /\ HostsSit
  /\ \A r \in RoomIds : Hosted(r) /\ CodesServe(r) /\ PromptWaits(r)
  /\ \A s \in Sockets : Held(s)
  /\ PacketTypes /\ OneArrival

\* findMembership finds a member on the connection if there is one.
LEMMA SeatFound ==
  ASSUME NEW seats \in Seq(Players), NEW sockets, NEW s
  PROVE  \/ /\ FirstSeat(seats, sockets, s) = None
            /\ \A p \in Range(seats) : sockets[p] # s
         \/ /\ FirstSeat(seats, sockets, s) \in Range(seats)
            /\ sockets[FirstSeat(seats, sockets, s)] = s
<1> DEFINE on == {i \in DOMAIN seats : sockets[seats[i]] = s}
           first == CHOOSE i \in on : \A j \in on : i <= j
<1>1. CASE on = {}
  BY <1>1 DEF FirstSeat, Range
<1>2. CASE on # {}
  <2>1. on \subseteq Nat
    OBVIOUS
  <2>2. \E i \in on : \A j \in on : i <= j
    BY <1>2, <2>1, Least
  <2>3. first \in on
    BY <2>2
  <2>4. FirstSeat(seats, sockets, s) = seats[first]
    BY <1>2 DEF FirstSeat
  <2> HIDE DEF first
  <2> QED BY <2>3, <2>4 DEF Range
<1> QED BY <1>1, <1>2

LEMMA SeatOnFound ==
  ASSUME SeatTypes, NoneAssumption, NEW sockets, NEW s, NEW m \in SeatsOn(sockets, s)
  PROVE  /\ m.room \in RoomIds /\ m.player \in Players
         /\ m.player \in Members(m.room) /\ sockets[m.player] = s
         /\ Exists(m.room)
<1>1. /\ m.room \in RoomIds /\ m.player \in Players
      /\ m.player = FirstSeat(roster[m.room], sockets, s)
  BY DEF SeatsOn
<1>2. roster[m.room] \in Seq(Players)
  BY <1>1 DEF SeatTypes
<1>3. m.player # None
  BY <1>1 DEF NoneAssumption
<1>4. m.player \in Range(roster[m.room]) /\ sockets[m.player] = s
  BY <1>1, <1>2, <1>3, SeatFound
<1> QED BY <1>1, <1>2, <1>4 DEF Members, Exists, Range

LEMMA MemberFound ==
  ASSUME SeatTypes, NoneAssumption, NEW s, NEW m \in Memberships(s)
  PROVE  /\ m.room \in RoomIds /\ m.player \in Players
         /\ m.player \in Members(m.room) /\ socketOf[m.player] = s
         /\ Exists(m.room)
BY SeatOnFound DEF Memberships

LEMMA CallerFound ==
  ASSUME SeatTypes, NoneAssumption, NEW s, NEW m \in Callers(s)
  PROVE  /\ m.room \in RoomIds /\ m.player \in Players
         /\ m.player \in Members(m.room) /\ socketOf[m.player] = s
         /\ Exists(m.room)
BY CallerSits, MemberFound

LEMMA NobodyFound ==
  ASSUME SeatTypes, OnlineSit, NoneAssumption, NEW s \in Sockets, Memberships(s) = {}
  PROVE  \A p \in Players : socketOf[p] # s
<1>1. ASSUME NEW p \in Players, socketOf[p] = s PROVE FALSE
  <2>1. Online(p)
    BY <1>1 DEF Online, NoneAssumption
  <2>2. PICK r \in RoomIds : p \in Members(r)
    BY <2>1 DEF OnlineSit, Sits
  <2>3. roster[r] \in Seq(Players)
    BY DEF SeatTypes
  <2> DEFINE f == FirstSeat(roster[r], socketOf, s)
  <2>4. f \in Range(roster[r])
    BY <1>1, <2>2, <2>3, SeatFound DEF Members
  <2>5. f \in Players
    BY <2>3, <2>4 DEF Range
  <2> HIDE DEF f
  <2>6. [room |-> r, player |-> f] \in Memberships(s)
    BY <2>5 DEF Memberships, SeatsOn, f
  <2> QED BY <2>6
<1> QED BY <1>1

LEMMA MembersSit ==
  ASSUME SeatTypes, NEW r \in RoomIds
  PROVE  /\ Members(r) \subseteq Players
         /\ Exists(r) <=> Members(r) # {}
         /\ roster[r] \in Seq(Players)
BY DEF SeatTypes, Members, Exists, Range

\* Somebody new has no part in anything.
LEMMA FreshFacts ==
  ASSUME SeatInv, NEW p \in FreshPlayers
  PROVE  /\ p \in Players /\ p \notin hosts /\ socketOf[p] = None /\ ~Sits(p)
         /\ \A r \in RoomIds : p \notin Members(r) /\ grants[r][p] = 0 /\ prompt[r].to # p
BY DEF FreshPlayers, SeatInv, OnlineSit, HostsSit, Sits, Online

LEMMA RoomsApart ==
  ASSUME SeatInv, NEW r \in RoomIds, NEW x \in RoomIds \ {r}
  PROVE  Members(x) \intersect Members(r) = {}
BY DEF SeatInv, OneRoomEach

-----------------------------------------------------------------------------
\* The packets of a payload.

LeavingKept == \A r, p : Leaving(r, p) => Leaving(r, p)'

\* Sockets of members are given up, never taken.
SocketsLet ==
  open' = open /\ \A p \in Players : socketOf'[p] = socketOf[p] \/ socketOf'[p] = None

\* While no packet is pending, none asks for a seat.
LEMMA PacketsNone ==
  ASSUME SeatInv, Quiet, UNCHANGED payload
  PROVE  PacketTypes' /\ OneArrival' /\ LeavingKept
BY DEF Quiet, payload, SeatInv, PacketTypes, OneArrival, LeavingKept, Leaving, Idle, Arrivals

LEMMA PacketsStay ==
  ASSUME SeatInv, NoneAssumption, UNCHANGED <<payload, pipelined>>, SocketsLet
  PROVE  PacketTypes' /\ OneArrival' /\ LeavingKept
<1>1. PacketTypes' /\ LeavingKept
  BY DEF payload, SeatInv, PacketTypes, LeavingKept, Leaving
<1>2. OneArrival'
  BY DEF payload, SeatInv, PacketTypes, OneArrival, SocketsLet, NoneAssumption
<1> QED BY <1>1, <1>2

LEMMA PacketBegins ==
  ASSUME SeatInv, NoneAssumption, NEW k \in Packets, NEW at, NEW s, NEW r, NEW p,
         Begins(k, at, s, r, p), at \notin Arrivals, at = "issue" => p \in Players,
         pipelined' = pipelined, SocketsLet
  PROVE  PacketTypes' /\ OneArrival' /\ LeavingKept /\ (at = "depart" => Leaving(r, p)')
<1> DEFINE new == [at |-> at, by |-> s, room |-> r, player |-> p,
                   count |-> IF at \in Commands THEN Len(roster[r]) ELSE 0]
<1>1. pending[k] = Idle /\ pending' = [pending EXCEPT ![k] = new] /\ DOMAIN pending = Packets
  BY DEF Begins, SeatInv, PacketTypes
<1>2. new.at = at /\ new.by = s /\ new.room = r /\ new.player = p
  OBVIOUS
<1> HIDE DEF new
<1>3. /\ DOMAIN pending' = Packets /\ pending'[k] = new
      /\ \A j \in Packets \ {k} : pending'[j] = pending[j]
  BY <1>1
<1>4. PacketTypes'
  BY <1>2, <1>3 DEF SeatInv, PacketTypes
<1>5. LeavingKept /\ (at = "depart" => Leaving(r, p)')
  BY <1>1, <1>2, <1>3 DEF LeavingKept, Leaving, Idle
<1>6. OneArrival'
  BY <1>2, <1>3 DEF SeatInv, PacketTypes, OneArrival, SocketsLet, NoneAssumption
<1> QED BY <1>4, <1>5, <1>6

LEMMA PacketArrives ==
  ASSUME SeatInv, NoneAssumption, NEW k \in Packets, NEW at \in Arrivals, NEW s \in Sockets,
         NEW r, NEW p, Arrives(k, at, s, r, p)
  PROVE  PacketTypes' /\ OneArrival' /\ LeavingKept /\ pipelined \subseteq pipelined'
<1> DEFINE new == [at |-> at, by |-> s, room |-> r, player |-> p,
                   count |-> IF at \in Commands THEN Len(roster[r]) ELSE 0]
<1>1. /\ pending[k] = Idle /\ pending' = [pending EXCEPT ![k] = new] /\ DOMAIN pending = Packets
      /\ socketOf' = socketOf /\ open' = open
      /\ pipelined' = IF \E j \in Packets : pending[j].at \in Arrivals
                      THEN pipelined \union {s} ELSE pipelined
  BY DEF Arrives, Begins, SeatInv, PacketTypes, seating
<1>2. new.at = at /\ new.by = s
  OBVIOUS
<1> HIDE DEF new
<1>3. /\ DOMAIN pending' = Packets /\ pending'[k] = new
      /\ \A j \in Packets \ {k} : pending'[j] = pending[j]
  BY <1>1
<1>4. PacketTypes'
  BY <1>2, <1>3 DEF SeatInv, PacketTypes, Arrivals
<1>5. LeavingKept
  BY <1>1, <1>3 DEF LeavingKept, Leaving, Idle
<1>6. /\ s \in open /\ \A q \in Players : socketOf[q] # s
      /\ \A j \in Packets : pending[j].by \in {s, None}
  BY NobodyFound DEF Arrives, Alone, Heard, SeatInv
<1>7. \A j \in Packets : pending[j].at \in Arrivals => pending[j].by = s
  BY <1>6 DEF SeatInv, PacketTypes, NoneAssumption
<1>8. OneArrival'
  BY <1>1, <1>2, <1>3, <1>6, <1>7 DEF OneArrival
<1> QED BY <1>1, <1>4, <1>5, <1>8

\* A packet that asked for a seat leaves no other behind that may still get the
\* only one.
LEMMA PacketEnds ==
  ASSUME SeatInv, NoneAssumption, NEW k \in Packets, NEW at, NEW r, Ends(k, at, r),
         pipelined' = pipelined, at \in Arrivals \/ SocketsLet
  PROVE  /\ PacketTypes' /\ OneArrival'
         /\ \A x, q : Leaving(x, q) /\ (at = "depart" => x # r \/ q # pending[k].player)
                        => Leaving(x, q)'
<1>1. /\ pending[k].at = at /\ pending[k].room = r
      /\ pending' = [pending EXCEPT ![k] = Idle] /\ DOMAIN pending = Packets
  BY DEF Ends, SeatInv, PacketTypes
<1>2. /\ DOMAIN pending' = Packets /\ pending'[k].at = "idle"
      /\ \A j \in Packets \ {k} : pending'[j] = pending[j]
  BY <1>1 DEF Idle
<1>3. PacketTypes'
  BY <1>2 DEF SeatInv, PacketTypes, Arrivals
<1>4. \A x, q : Leaving(x, q) /\ (at = "depart" => x # r \/ q # pending[k].player)
                  => Leaving(x, q)'
  BY <1>1, <1>2 DEF Leaving
<1>5. OneArrival'
  <2>1. ASSUME NEW j \in Packets, pending'[j].at \in Arrivals, pending'[j].by \notin pipelined
        PROVE  /\ j # k /\ pending'[j] = pending[j] /\ at \notin Arrivals
               /\ pending[j].by \in open /\ \A p \in Players : socketOf[p] # pending[j].by
               /\ \A i \in Packets \ {j} : pending'[i].at \notin Arrivals
    BY <1>1, <1>2, <2>1 DEF SeatInv, OneArrival, Arrivals
  <2>2. ASSUME NEW j \in Packets, pending'[j].at \in Arrivals, pending'[j].by \notin pipelined
        PROVE  /\ pending'[j].by \in open' /\ \A p \in Players : socketOf'[p] # pending'[j].by
    <3>1. pending[j].by \in Sockets
      BY <2>1, <2>2 DEF SeatInv, PacketTypes
    <3> QED BY <2>1, <2>2, <3>1 DEF SocketsLet, NoneAssumption
  <2> QED BY <2>1, <2>2 DEF OneArrival
<1> QED BY <1>3, <1>4, <1>5

-----------------------------------------------------------------------------
\* Recovery codes and test prompts.

LEMMA CodesSame ==
  ASSUME SeatInv, UNCHANGED recovery,
         \A x \in RoomIds : \A q \in Players : grants[x][q] > 0 /\ Waiting(x, q) => Waiting(x, q)'
  PROVE  \A x \in RoomIds : CodesServe(x)'
BY DEF SeatInv, SeatTypes, SideTypes, recovery, CodesServe

LEMMA CodesGone ==
  ASSUME SeatInv, NEW r \in RoomIds, NEW ps, NoCodes(r, ps),
         \A x \in RoomIds : \A q \in Players :
           (x # r \/ q \notin ps) /\ Waiting(x, q) => Waiting(x, q)'
  PROVE  /\ \A x \in RoomIds : CodesServe(x)'
         /\ grants' \in [RoomIds -> [Players -> Nat]] /\ strays' \in [RoomIds -> SUBSET Players]
<1>0. grants \in [RoomIds -> [Players -> Nat]] /\ strays \in [RoomIds -> SUBSET Players]
  BY DEF SeatInv, SeatTypes, SideTypes
<1> DEFINE left == [p \in Players |-> IF p \in ps THEN 0 ELSE grants[r][p]]
<1>1. left \in [Players -> Nat] /\ \A p \in Players : left[p] = IF p \in ps THEN 0 ELSE grants[r][p]
  BY <1>0
<1>2. grants' = [grants EXCEPT ![r] = left] /\ strays' = [strays EXCEPT ![r] = @ \ ps]
  BY DEF NoCodes
<1> HIDE DEF left
<1>3. /\ grants' \in [RoomIds -> [Players -> Nat]] /\ strays' \in [RoomIds -> SUBSET Players]
      /\ grants'[r] = left /\ strays'[r] = strays[r] \ ps
      /\ \A x \in RoomIds \ {r} : grants'[x] = grants[x] /\ strays'[x] = strays[x]
  BY <1>0, <1>1, <1>2
<1>4. ASSUME NEW x \in RoomIds PROVE CodesServe(x)'
  <2>1. CodesServe(x)
    BY DEF SeatInv
  <2>2. ASSUME NEW p \in Players, p \notin strays'[x], grants'[x][p] > 0
        PROVE  grants'[x][p] = 1 /\ Waiting(x, p)'
    <3>1. (x # r \/ p \notin ps) /\ p \notin strays[x] /\ grants'[x][p] = grants[x][p]
      BY <1>1, <1>3, <2>2
    <3> QED BY <2>1, <2>2, <3>1 DEF CodesServe
  <2> QED BY <2>2 DEF CodesServe
<1> QED BY <1>3, <1>4

LEMMA CodeUsed ==
  ASSUME SeatInv, NEW r \in RoomIds, NEW t \in Players, grants[r][t] > 0, OneCodeLess(r, t),
         \A x \in RoomIds : \A q \in Players :
           (x # r \/ q # t) /\ Waiting(x, q) => Waiting(x, q)'
  PROVE  /\ \A x \in RoomIds : CodesServe(x)'
         /\ grants' \in [RoomIds -> [Players -> Nat]] /\ strays' \in [RoomIds -> SUBSET Players]
<1>0. grants \in [RoomIds -> [Players -> Nat]] /\ strays \in [RoomIds -> SUBSET Players]
  BY DEF SeatInv, SeatTypes, SideTypes
<1> DEFINE left == [grants[r] EXCEPT ![t] = @ - 1]
           out == IF grants[r][t] = 1 THEN strays[r] \ {t} ELSE strays[r]
<1>1. /\ left \in [Players -> Nat] /\ left[t] = grants[r][t] - 1
      /\ \A p \in Players \ {t} : left[p] = grants[r][p]
  BY <1>0
<1>2. grants' = [grants EXCEPT ![r] = left] /\ strays' = [strays EXCEPT ![r] = out]
  BY DEF OneCodeLess
<1>3. out \in SUBSET Players /\ (grants[r][t] # 1 => out = strays[r]) /\ strays[r] \subseteq out \union {t}
  BY <1>0
<1> HIDE DEF left, out
<1>4. /\ grants' \in [RoomIds -> [Players -> Nat]] /\ strays' \in [RoomIds -> SUBSET Players]
      /\ grants'[r] = left /\ strays'[r] = out
      /\ \A x \in RoomIds \ {r} : grants'[x] = grants[x] /\ strays'[x] = strays[x]
  BY <1>0, <1>1, <1>2, <1>3
<1>5. ASSUME NEW x \in RoomIds PROVE CodesServe(x)'
  <2>1. CodesServe(x) /\ grants[r][t] \in Nat
    BY <1>0 DEF SeatInv
  <2>2. ASSUME NEW p \in Players, p \notin strays'[x], grants'[x][p] > 0
        PROVE  grants'[x][p] = 1 /\ Waiting(x, p)'
    <3>1. CASE x = r /\ p = t
      <4>1. grants[r][t] # 1 /\ t \notin strays[r]
        BY <1>1, <1>3, <1>4, <2>1, <2>2, <3>1
      <4> QED BY <2>1, <3>1, <4>1 DEF CodesServe
    <3>2. CASE x # r \/ p # t
      <4>1. p \notin strays[x] /\ grants'[x][p] = grants[x][p]
        BY <1>1, <1>3, <1>4, <2>2, <3>2
      <4> QED BY <2>1, <2>2, <3>2, <4>1 DEF CodesServe
    <3> QED BY <3>1, <3>2
  <2> QED BY <2>2 DEF CodesServe
<1> QED BY <1>4, <1>5

LEMMA PromptsKept ==
  ASSUME SeatInv, UNCHANGED prompt, LeavingKept,
         \A x \in RoomIds : prompt[x] # NoPrompt /\ InLobby(x) => InLobby(x)',
         \A x \in RoomIds : \A q \in Members(x) : q \in Members(x)' \/ Leaving(x, q)'
  PROVE  \A x \in RoomIds : PromptWaits(x)'
BY DEF SeatInv, PromptWaits, LeavingKept

\* Seats and hosts as they were.
LEMMA SeatsKept ==
  ASSUME SeatInv, UNCHANGED <<roster, hosts>>
  PROVE  /\ OneRoomEach' /\ HostsSit'
         /\ \A r \in RoomIds : Hosted(r)' /\ Members(r)' = Members(r)
         /\ \A p : Sits(p)' <=> Sits(p)
BY DEF SeatInv, OneRoomEach, HostsSit, Hosted, Members, Exists, Sits, Distinct

LEMMA WaitingKept ==
  ASSUME UNCHANGED roster, hosts' \subseteq hosts, LeavingKept,
         \A p \in Players : socketOf[p] = None => socketOf'[p] = None
  PROVE  \A x : \A q \in Players : Waiting(x, q) => Waiting(x, q)'
BY DEF Waiting, Awaited, Online, Members, LeavingKept

\* Handlers that leave seats and connections alone.
LEMMA OnlySide ==
  ASSUME SeatInv, UNCHANGED <<roster, hosts, socketOf, open>>, pipelined \subseteq pipelined',
         SideTypes', PacketTypes', OneArrival',
         \A r \in RoomIds : CodesServe(r)' /\ PromptWaits(r)'
  PROVE  SeatInv'
<1>1. SeatTypes' /\ OnlineSit'
  BY SeatsKept DEF SeatInv, SeatTypes, OnlineSit, Online
<1>2. \A s \in Sockets : Held(s)'
  BY DEF SeatInv, Held
<1> QED BY <1>1, <1>2, SeatsKept DEF SeatInv

\* A packet is taken up that asks for a seat.
LEMMA SeatArrives ==
  ASSUME SeatInv, NoneAssumption, NEW k \in Packets, NEW at \in Arrivals, NEW s \in Sockets,
         NEW r, NEW p, Arrives(k, at, s, r, p)
  PROVE  SeatInv'
<1>1. UNCHANGED <<roster, hosts, socketOf, open, grants, strays, prompt, game>>
  BY DEF Arrives, seating, recovery
<1>2. PacketTypes' /\ OneArrival' /\ LeavingKept /\ pipelined \subseteq pipelined'
  BY PacketArrives
<1>3. \A x \in RoomIds : CodesServe(x)'
  BY <1>1, <1>2, CodesSame, WaitingKept DEF recovery
<1>4. \A x \in RoomIds : PromptWaits(x)'
  BY <1>1, <1>2, PromptsKept DEF InLobby, Members
<1>5. SideTypes'
  BY <1>1 DEF SeatInv, SeatTypes, SideTypes
<1> QED BY <1>1, <1>2, <1>3, <1>4, <1>5, OnlySide

LEMMA SeatIssue ==
  ASSUME SeatInv, NoneAssumption, NEW k \in Packets, NEW s \in Sockets, NEW t \in Players,
         IssueRecovery(k, s, t)
  PROVE  SeatInv'
<1>1. PICK r \in RoomIds :
        /\ Begins(k, "issue", s, r, t) /\ NoCodes(r, {t})
        /\ UNCHANGED <<roster, hosts, socketOf, prompt, game, open, pipelined>>
  BY CallerSits DEF IssueRecovery, seating
<1>2. PacketTypes' /\ OneArrival' /\ LeavingKept
  BY <1>1, PacketBegins DEF SocketsLet, Arrivals
<1>3. \A x : \A q \in Players : Waiting(x, q) => Waiting(x, q)'
  BY <1>1, <1>2, WaitingKept
<1>4. /\ \A x \in RoomIds : CodesServe(x)'
      /\ grants' \in [RoomIds -> [Players -> Nat]] /\ strays' \in [RoomIds -> SUBSET Players]
  BY <1>1, <1>3, CodesGone
<1>5. \A x \in RoomIds : PromptWaits(x)'
  BY <1>1, <1>2, PromptsKept DEF InLobby, Members
<1>6. SideTypes'
  BY <1>1, <1>4 DEF SeatInv, SeatTypes, SideTypes
<1> QED BY <1>1, <1>2, <1>4, <1>5, <1>6, OnlySide

LEMMA SeatCommand ==
  ASSUME SeatInv, NoneAssumption, NEW k \in Packets, NEW s \in Sockets, NEW at \in Commands,
         Command(k, s, at)
  PROVE  SeatInv'
<1>1. PICK r \in RoomIds, p \in Players :
        /\ Begins(k, at, s, r, p)
        /\ UNCHANGED <<roster, hosts, socketOf, grants, strays, prompt, game, open, pipelined>>
  BY CallerSits DEF Command, seating, recovery
<1>2. PacketTypes' /\ OneArrival' /\ LeavingKept
  BY <1>1, PacketBegins DEF SocketsLet, Arrivals, Commands
<1>3. \A x \in RoomIds : CodesServe(x)'
  BY <1>1, <1>2, CodesSame, WaitingKept DEF recovery
<1>4. \A x \in RoomIds : PromptWaits(x)'
  BY <1>1, <1>2, PromptsKept DEF InLobby, Members
<1>5. SideTypes'
  BY <1>1 DEF SeatInv, SeatTypes, SideTypes
<1> QED BY <1>1, <1>2, <1>3, <1>4, <1>5, OnlySide

\* A packet goes on that changes no seat and is no departure.
LEMMA EndKeeps ==
  ASSUME SeatInv, NoneAssumption, NEW k \in Packets, NEW at, NEW r, Ends(k, at, r),
         at # "depart", UNCHANGED <<roster, hosts, socketOf, open, pipelined>>
  PROVE  /\ PacketTypes' /\ OneArrival' /\ LeavingKept
         /\ \A x : \A q \in Players : Waiting(x, q) => Waiting(x, q)'
<1>1. PacketTypes' /\ OneArrival' /\ LeavingKept
  BY PacketEnds DEF SocketsLet, LeavingKept
<1>2. \A x : \A q \in Players : Waiting(x, q) => Waiting(x, q)'
  BY <1>1, WaitingKept
<1> QED BY <1>1, <1>2

LEMMA SeatIssued ==
  ASSUME SeatInv, NoneAssumption, NEW k \in Packets, NEW r \in RoomIds, Issued(k, r)
  PROVE  SeatInv'
<1> DEFINE t == pending[k].player
           out == IF Awaited(r, t) /\ grants[r][t] = 0 THEN strays[r] \ {t}
                  ELSE strays[r] \union {t}
           given == [grants[r] EXCEPT ![t] = @ + 1]
<1>1. /\ Ends(k, "issue", r) /\ grants' = [grants EXCEPT ![r] = given]
      /\ strays' = [strays EXCEPT ![r] = out]
      /\ UNCHANGED <<roster, hosts, socketOf, prompt, game, open, pipelined>>
  BY DEF Issued, seating
<1>2. /\ PacketTypes' /\ OneArrival' /\ LeavingKept
      /\ \A x : \A q \in Players : Waiting(x, q) => Waiting(x, q)'
  BY <1>1, EndKeeps
<1>3. t \in Players
  BY <1>1 DEF Ends, SeatInv, PacketTypes
<1>4. grants \in [RoomIds -> [Players -> Nat]] /\ strays \in [RoomIds -> SUBSET Players]
  BY DEF SeatInv, SeatTypes, SideTypes
<1>5. /\ given \in [Players -> Nat] /\ given[t] = grants[r][t] + 1
      /\ \A p \in Players \ {t} : given[p] = grants[r][p]
  BY <1>3, <1>4
<1>6. /\ out \in SUBSET Players /\ strays[r] \subseteq out \union {t}
      /\ t \notin out => Awaited(r, t) /\ grants[r][t] = 0
  BY <1>3, <1>4
<1> HIDE DEF given, out, t
<1>7. /\ grants' \in [RoomIds -> [Players -> Nat]] /\ strays' \in [RoomIds -> SUBSET Players]
      /\ grants'[r] = given /\ strays'[r] = out
      /\ \A x \in RoomIds \ {r} : grants'[x] = grants[x] /\ strays'[x] = strays[x]
  BY <1>1, <1>4, <1>5, <1>6
<1>8. ASSUME NEW x \in RoomIds PROVE CodesServe(x)'
  <2>1. CodesServe(x) /\ grants[r][t] \in Nat
    BY <1>3, <1>4 DEF SeatInv
  <2>2. ASSUME NEW p \in Players, p \notin strays'[x], grants'[x][p] > 0
        PROVE  grants'[x][p] = 1 /\ Waiting(x, p)'
    <3>1. CASE x = r /\ p = t
      <4>1. Awaited(r, t) /\ grants[r][t] = 0
        BY <1>6, <1>7, <2>2, <3>1
      <4> QED BY <1>2, <1>5, <1>7, <3>1, <4>1 DEF Waiting
    <3>2. CASE x # r \/ p # t
      <4>1. p \notin strays[x] /\ grants'[x][p] = grants[x][p]
        BY <1>5, <1>6, <1>7, <2>2, <3>2
      <4> QED BY <1>2, <2>1, <2>2, <4>1 DEF CodesServe
    <3> QED BY <3>1, <3>2
  <2> QED BY <2>2 DEF CodesServe
<1>9. \A x \in RoomIds : PromptWaits(x)'
  BY <1>1, <1>2, PromptsKept DEF InLobby, Members
<1>10. SideTypes'
  BY <1>1, <1>7 DEF SeatInv, SeatTypes, SideTypes
<1> QED BY <1>1, <1>2, <1>8, <1>9, <1>10, OnlySide

\* A claim that comes to nothing, and a packet that is given up.
LEMMA SeatClaimFails ==
  ASSUME SeatInv, NoneAssumption, NEW k \in Packets, NEW r \in RoomIds, ClaimFails(k, r)
  PROVE  SeatInv'
<1>1. /\ Ends(k, "claim", r)
      /\ \/ \E p \in Players : grants[r][p] > 0 /\ OneCodeLess(r, p)
         \/ NoCodes(r, Players)
      /\ UNCHANGED <<roster, hosts, socketOf, prompt, game, open, pipelined>>
  BY DEF ClaimFails, seating
<1>2. /\ PacketTypes' /\ OneArrival' /\ LeavingKept
      /\ \A x : \A q \in Players : Waiting(x, q) => Waiting(x, q)'
  BY <1>1, EndKeeps
<1>3. /\ \A x \in RoomIds : CodesServe(x)'
      /\ grants' \in [RoomIds -> [Players -> Nat]] /\ strays' \in [RoomIds -> SUBSET Players]
  <2>1. CASE \E p \in Players : grants[r][p] > 0 /\ OneCodeLess(r, p)
    <3>1. PICK p \in Players : grants[r][p] > 0 /\ OneCodeLess(r, p)
      BY <2>1
    <3> QED BY <1>2, <3>1, CodeUsed
  <2>2. CASE NoCodes(r, Players)
    BY <1>2, <2>2, CodesGone
  <2> QED BY <1>1, <2>1, <2>2
<1>4. \A x \in RoomIds : PromptWaits(x)'
  BY <1>1, <1>2, PromptsKept DEF InLobby, Members
<1>5. SideTypes'
  BY <1>1, <1>3 DEF SeatInv, SeatTypes, SideTypes
<1> QED BY <1>1, <1>2, <1>3, <1>4, <1>5, OnlySide

LEMMA SeatGivenUp ==
  ASSUME SeatInv, NoneAssumption, NEW k \in Packets, GivenUp(k)
  PROVE  SeatInv'
<1>1. /\ pending[k].at # "depart" /\ Ends(k, pending[k].at, pending[k].room)
      /\ UNCHANGED <<roster, hosts, socketOf, grants, strays, prompt, game, open, pipelined>>
  BY DEF GivenUp, seating, recovery, Arrivals, Commands
<1>2. /\ PacketTypes' /\ OneArrival' /\ LeavingKept
      /\ \A x : \A q \in Players : Waiting(x, q) => Waiting(x, q)'
  BY <1>1, EndKeeps
<1>3. \A x \in RoomIds : CodesServe(x)'
  BY <1>1, <1>2, CodesSame DEF recovery
<1>4. \A x \in RoomIds : PromptWaits(x)'
  BY <1>1, <1>2, PromptsKept DEF InLobby, Members
<1>5. SideTypes'
  BY <1>1 DEF SeatInv, SeatTypes, SideTypes
<1> QED BY <1>1, <1>2, <1>3, <1>4, <1>5, OnlySide

\* The departure of a member goes on.
LEMMA SeatDeparted ==
  ASSUME SeatInv, NoneAssumption, NEW k \in Packets, NEW r \in RoomIds, Departed(k, r)
  PROVE  SeatInv'
<1> DEFINE p == pending[k].player
           ps == IF Exists(r) THEN {p} ELSE Players
<1>1. /\ Ends(k, "depart", r) /\ NoCodes(r, ps)
      /\ prompt' = [prompt EXCEPT ![r] = IF @.to = p THEN NoPrompt ELSE @]
      /\ UNCHANGED <<roster, hosts, socketOf, game, open, pipelined>>
  BY DEF Departed, seating
<1>2. PacketTypes' /\ OneArrival' /\ \A x, q : Leaving(x, q) /\ (x # r \/ q # p) => Leaving(x, q)'
  BY <1>1, PacketEnds DEF SocketsLet
<1>3. \A q \in Players : q \notin ps => q # p
  OBVIOUS
<1> HIDE DEF p, ps
<1>4. \A x \in RoomIds : \A q \in Players : Awaited(x, q)' <=> Awaited(x, q)
  BY <1>1 DEF Awaited, Members, Online
<1>5. /\ \A x \in RoomIds : CodesServe(x)'
      /\ grants' \in [RoomIds -> [Players -> Nat]] /\ strays' \in [RoomIds -> SUBSET Players]
  <2>1. \A x \in RoomIds : \A q \in Players :
          (x # r \/ q \notin ps) /\ Waiting(x, q) => Waiting(x, q)'
    BY <1>2, <1>3, <1>4 DEF Waiting
  <2> QED BY <1>1, <2>1, CodesGone
<1>6. prompt \in [RoomIds -> Prompts] /\ NoPrompt \in Prompts
  BY DEF SeatInv, SeatTypes, SideTypes, NoPrompt, Prompts
<1>7. /\ prompt' \in [RoomIds -> Prompts]
      /\ prompt'[r] = IF prompt[r].to = p THEN NoPrompt ELSE prompt[r]
      /\ \A x \in RoomIds \ {r} : prompt'[x] = prompt[x]
  BY <1>1, <1>6
<1>8. ASSUME NEW x \in RoomIds PROVE PromptWaits(x)'
  <2>1. PromptWaits(x)
    BY DEF SeatInv
  <2> QED BY <1>1, <1>2, <1>7, <2>1 DEF PromptWaits, InLobby, Members
<1>9. SideTypes'
  BY <1>5, <1>7 DEF SideTypes
<1> QED BY <1>1, <1>2, <1>5, <1>8, <1>9, OnlySide

\* One room has another prompt, or another game.
LEMMA PromptSet ==
  ASSUME SeatInv, NEW r \in RoomIds, NEW asked \in Prompts, prompt' = [prompt EXCEPT ![r] = asked],
         UNCHANGED roster, \A x \in RoomIds \ {r} : game'[x] = game[x], LeavingKept,
         asked # NoPrompt => asked.to \in Members(r) /\ InLobby(r)'
  PROVE  prompt' \in [RoomIds -> Prompts] /\ \A x \in RoomIds : PromptWaits(x)'
<1>1. /\ prompt' \in [RoomIds -> Prompts] /\ prompt'[r] = asked
      /\ \A x \in RoomIds \ {r} : prompt'[x] = prompt[x]
  BY DEF SeatInv, SeatTypes, SideTypes
<1>2. \A x \in RoomIds : Members(x)' = Members(x)
  BY DEF Members
<1>3. PromptWaits(r)'
  BY <1>1, <1>2 DEF PromptWaits
<1>4. ASSUME NEW x \in RoomIds \ {r} PROVE PromptWaits(x)'
  <2>1. PromptWaits(x)
    BY DEF SeatInv
  <2> QED BY <1>1, <1>2, <2>1 DEF PromptWaits, InLobby, LeavingKept
<1> QED BY <1>1, <1>3, <1>4

LEMMA SeatPrompts ==
  ASSUME SeatInv, TimingType, NoneAssumption, NEW s \in Sockets,
         (\E t \in Players : SendPrompt(s, t)) \/ AckPrompt(s) \/ SubmitPrompt(s)
  PROVE  SeatInv'
<1>1. /\ UNCHANGED <<roster, hosts, socketOf, grants, strays, game, open, payload, pipelined>>
      /\ PacketTypes' /\ OneArrival' /\ LeavingKept
  <2>1. UNCHANGED <<roster, hosts, socketOf, grants, strays, game, open, payload, pipelined>>
    BY DEF SendPrompt, AckPrompt, SubmitPrompt, seating, recovery
  <2> QED BY <2>1, PacketsStay DEF SocketsLet
<1>2. \E r \in RoomIds, asked \in Prompts :
        /\ prompt' = [prompt EXCEPT ![r] = asked]
        /\ asked # NoPrompt => asked.to \in Members(r) /\ InLobby(r)
  <2>1. CASE \E t \in Players : SendPrompt(s, t)
    <3>1. PICK t \in Players : SendPrompt(s, t)
      BY <2>1
    <3>2. PICK r \in RoomIds :
            /\ InLobby(r) /\ t \in Members(r)
            /\ prompt' = [prompt EXCEPT ![r] = [to |-> t, status |-> "sent"]]
      BY <3>1, CallerSits DEF SendPrompt
    <3> DEFINE asked == [to |-> t, status |-> "sent"]
    <3>3. asked \in Prompts /\ asked.to = t
      BY DEF Prompts, Statuses
    <3>4. prompt' = [prompt EXCEPT ![r] = asked]
      BY <3>2
    <3> HIDE DEF asked
    <3> QED BY <3>2, <3>3, <3>4
  <2>2. CASE AckPrompt(s) \/ SubmitPrompt(s)
    <3>1. PICK m \in Callers(s), status \in Statuses :
            /\ prompt[m.room].to = m.player
            /\ prompt' = [prompt EXCEPT ![m.room].status = status]
      BY <2>2 DEF AckPrompt, SubmitPrompt, Statuses
    <3>2. m.room \in RoomIds /\ m.player \in Players /\ m.player \in Members(m.room)
      BY CallerFound DEF SeatInv
    <3> DEFINE asked == [prompt[m.room] EXCEPT !.status = status]
    <3>3. prompt[m.room] \in Prompts
      BY <3>2 DEF SeatInv, SeatTypes, SideTypes
    <3>4. asked \in Prompts /\ asked.to = m.player
      BY <3>1, <3>3 DEF Prompts
    <3>5. prompt' = [prompt EXCEPT ![m.room] = asked]
      BY <3>1
    <3>6. prompt[m.room] # NoPrompt
      BY <3>1, <3>2 DEF NoPrompt, NoneAssumption
    <3>7. InLobby(m.room)
      BY <3>2, <3>6 DEF SeatInv, PromptWaits
    <3> HIDE DEF asked
    <3> QED BY <3>2, <3>4, <3>5, <3>7
  <2> QED BY <2>1, <2>2
<1>3. PICK r \in RoomIds, asked \in Prompts :
        /\ prompt' = [prompt EXCEPT ![r] = asked]
        /\ asked # NoPrompt => asked.to \in Members(r) /\ InLobby(r)
  BY <1>2
<1>4. prompt' \in [RoomIds -> Prompts] /\ \A x \in RoomIds : PromptWaits(x)'
  BY <1>1, <1>3, PromptSet DEF InLobby
<1>5. \A x \in RoomIds : CodesServe(x)'
  BY <1>1, CodesSame, WaitingKept DEF recovery
<1>6. SideTypes'
  BY <1>1, <1>4 DEF SeatInv, SeatTypes, SideTypes
<1> QED BY <1>1, <1>4, <1>5, <1>6, OnlySide

\* Starting, restarting, ending and playing a game: a game has no test prompt.
LEMMA SeatGames ==
  ASSUME SeatInv, TimingType, NoneAssumption, NEW k \in Packets, NEW r \in RoomIds,
         Started(k, r) \/ Restarted(k, r) \/ Played(k, r) \/ Aborted(k, r)
  PROVE  SeatInv'
<1>1. /\ \E at \in Commands : Ends(k, at, r)
      /\ \E next : game' = [game EXCEPT ![r] = next]
      /\ UNCHANGED <<roster, hosts, socketOf, grants, strays, open, pipelined>>
      /\ \/ prompt' = [prompt EXCEPT ![r] = NoPrompt]
         \/ prompt' = prompt /\ ~InLobby(r)
  <2>1. CASE Started(k, r) \/ Restarted(k, r)
    BY <2>1 DEF Started, Restarted, NewGame, GameIs, Commands, seating, recovery
  <2>2. CASE Played(k, r)
    <3>1. PICK next \in GoesOn(r) : GameIs(r, next)
      BY <2>2 DEF Played
    <3> QED BY <2>2, <3>1 DEF Played, GameIs, Commands, seating, recovery
  <2>3. CASE Aborted(k, r)
    BY <2>3 DEF Aborted, GameIs, Commands, seating, recovery
  <2> QED BY <2>1, <2>2, <2>3
<1>2. /\ PacketTypes' /\ OneArrival' /\ LeavingKept
      /\ \A x : \A q \in Players : Waiting(x, q) => Waiting(x, q)'
  BY <1>1, EndKeeps DEF Commands
<1>3. prompt' = [prompt EXCEPT ![r] = NoPrompt]
  <2>1. CASE prompt' = prompt /\ ~InLobby(r)
    <3>1. prompt[r] = NoPrompt
      BY <2>1 DEF SeatInv, PromptWaits
    <3> QED BY <2>1, <3>1 DEF SeatInv, SeatTypes, SideTypes
  <2> QED BY <1>1, <2>1
<1>4. NoPrompt \in Prompts
  BY DEF NoPrompt, Prompts
<1>5. \A x \in RoomIds \ {r} : game'[x] = game[x]
  BY <1>1 DEF TimingType
<1>6. prompt' \in [RoomIds -> Prompts] /\ \A x \in RoomIds : PromptWaits(x)'
  BY <1>1, <1>2, <1>3, <1>4, <1>5, PromptSet
<1>7. \A x \in RoomIds : CodesServe(x)'
  BY <1>1, <1>2, CodesSame DEF recovery
<1>8. SideTypes'
  BY <1>1, <1>6 DEF SeatInv, SeatTypes, SideTypes
<1> QED BY <1>1, <1>2, <1>6, <1>7, <1>8, OnlySide

\* Nothing but timers and limits changes.
LEMMA SeatTimeouts ==
  ASSUME SeatInv, NoneAssumption,
         UNCHANGED <<seating, recovery, prompt, game, open, payload, pipelined>>
  PROVE  SeatInv'
<1>1. UNCHANGED <<roster, hosts, socketOf, grants, strays, prompt, game, open, pipelined>>
  BY DEF seating, recovery
<1>2. PacketTypes' /\ OneArrival' /\ LeavingKept
  BY <1>1, PacketsStay DEF SocketsLet
<1>3. \A x \in RoomIds : CodesServe(x)'
  BY <1>1, <1>2, CodesSame, WaitingKept
<1>4. \A x \in RoomIds : PromptWaits(x)'
  BY <1>1, <1>2, PromptsKept DEF InLobby, Members
<1>5. SideTypes'
  BY <1>1 DEF SeatInv, SeatTypes, SideTypes
<1> QED BY <1>1, <1>2, <1>3, <1>4, <1>5, OnlySide

LEMMA SeatTick ==
  ASSUME SeatInv, NoneAssumption, ActionAssumption, Tick
  PROVE  SeatInv'
<1>1. UNCHANGED <<roster, hosts, socketOf, grants, strays, prompt, open, pipelined>>
  BY DEF Tick, seating, recovery
<1>2. PacketTypes' /\ OneArrival' /\ LeavingKept
  BY PacketsNone DEF Tick
<1>3. \A x \in RoomIds : InLobby(x) => InLobby(x)'
  <2>1. ASSUME NEW r \in RoomIds, InLobby(r) PROVE ~Expires(r)
    BY <2>1 DEF Expires, Ensured, Timed, InLobby, ActionAssumption
  <2> QED BY <2>1 DEF Tick, InLobby
<1>4. \A x \in RoomIds : CodesServe(x)'
  BY <1>1, <1>2, CodesSame, WaitingKept DEF recovery
<1>5. \A x \in RoomIds : PromptWaits(x)'
  BY <1>1, <1>2, <1>3, PromptsKept DEF Members
<1>6. SideTypes'
  BY <1>1 DEF SeatInv, SeatTypes, SideTypes
<1> QED BY <1>1, <1>2, <1>4, <1>5, <1>6, OnlySide

-----------------------------------------------------------------------------
\* Connections.

\* Connections that are only given up, or cut off without a member left.
LEMMA SocketsGivenUp ==
  ASSUME SeatInv, NoneAssumption, open' \subseteq open, pipelined \subseteq pipelined',
         \A p \in Players : socketOf'[p] = socketOf[p] \/ socketOf'[p] = None,
         \A s \in open \ open' : s \notin pipelined => \A p \in Players : socketOf'[p] # s
  PROVE  \A s \in Sockets : Held(s)'
<1>1. ASSUME NEW s \in Sockets, s \notin pipelined', NEW p \in Players, socketOf'[p] = s
      PROVE  s \in open' /\ \A q \in Players : socketOf'[q] = s => q = p
  <2>1. s # None
    BY DEF NoneAssumption
  <2>2. s \notin pipelined /\ Held(s) /\ socketOf[p] = s
    BY <1>1, <2>1 DEF SeatInv
  <2>3. s \in open /\ \A q \in Players : socketOf[q] = s => q = p
    BY <2>2 DEF Held
  <2> QED BY <1>1, <2>1, <2>2, <2>3
<1> QED BY <1>1 DEF Held

\* A connection that asked for a seat is taken by one member.
LEMMA SocketTaken ==
  ASSUME SeatInv, NoneAssumption, NEW k \in Packets, pending[k].at \in Arrivals,
         NEW s, s = pending[k].by, NEW p \in Players,
         open' \subseteq open, s \in open => s \in open', pipelined' = pipelined, socketOf'[p] = s,
         \A q \in Players \ {p} : socketOf'[q] = socketOf[q] \/ socketOf'[q] = None,
         \A x \in open \ open' : x \notin pipelined => \A q \in Players : socketOf'[q] # x
  PROVE  s \in Sockets /\ \A x \in Sockets : Held(x)'
<1>0. /\ s \in Sockets
      /\ s \notin pipelined => s \in open /\ \A q \in Players : socketOf[q] # s
  BY DEF SeatInv, PacketTypes, OneArrival
<1>1. ASSUME NEW x \in Sockets, x \notin pipelined', NEW q \in Players, socketOf'[q] = x
      PROVE  x \in open' /\ \A y \in Players : socketOf'[y] = x => y = q
  <2>1. x # None /\ s # None
    BY <1>0 DEF NoneAssumption
  <2>2. CASE x = s
    BY <1>0, <1>1, <2>1, <2>2
  <2>3. CASE x # s
    <3>1. q # p /\ socketOf[q] = x /\ Held(x)
      BY <1>1, <2>1, <2>3 DEF SeatInv
    <3>2. x \in open /\ \A y \in Players : socketOf[y] = x => y = q
      BY <1>1, <3>1 DEF Held
    <3> QED BY <1>1, <2>1, <2>3, <3>1, <3>2
  <2> QED BY <2>2, <2>3
<1> QED BY <1>0, <1>1 DEF Held

LEMMA SeatConnect ==
  ASSUME SeatInv, NoneAssumption, NEW s \in Sockets, Connect(s)
  PROVE  SeatInv'
<1>0. /\ UNCHANGED <<roster, hosts, socketOf, grants, strays, prompt, game>>
      /\ s \in FreshSockets /\ open' = open \union {s} /\ pipelined' = pipelined \ {s}
  BY DEF Connect, seating, recovery
<1>1. PacketTypes' /\ OneArrival' /\ LeavingKept
  BY PacketsNone DEF Connect
<1>2. SeatTypes'
  BY <1>0 DEF SeatInv, SeatTypes, SideTypes
<1>3. OnlineSit'
  BY <1>0, SeatsKept DEF SeatInv, OnlineSit, Online
<1>4. \A x \in RoomIds : CodesServe(x)'
  BY <1>0, <1>1, CodesSame, WaitingKept DEF recovery
<1>5. \A x \in RoomIds : PromptWaits(x)'
  BY <1>0, <1>1, PromptsKept DEF InLobby, Members
<1>6. \A x \in Sockets : Held(x)'
  BY <1>0 DEF SeatInv, Held, FreshSockets
<1> QED BY <1>0, <1>1, <1>2, <1>3, <1>4, <1>5, <1>6, SeatsKept DEF SeatInv

LEMMA SeatDisconnect ==
  ASSUME SeatInv, NoneAssumption, NEW s \in Sockets, Disconnect(s)
  PROVE  SeatInv'
<1>0. /\ UNCHANGED <<roster, hosts, grants, strays, prompt, game, pipelined>>
      /\ open' = open \ {s}
      /\ \/ Memberships(s) = {} /\ UNCHANGED socketOf
         \/ \E m \in Memberships(s) : socketOf' = [socketOf EXCEPT ![m.player] = None]
  BY DEF Disconnect, recovery
<1>1. /\ socketOf' \in [Players -> Sockets \union {None}]
      /\ \A p \in Players : socketOf'[p] = socketOf[p] \/ socketOf'[p] = None
      /\ s \notin pipelined => \A p \in Players : socketOf'[p] # s
  <2>1. CASE Memberships(s) = {} /\ UNCHANGED socketOf
    BY <2>1, NobodyFound DEF SeatInv, SeatTypes
  <2>2. ASSUME NEW m \in Memberships(s), socketOf' = [socketOf EXCEPT ![m.player] = None]
        PROVE  /\ socketOf' \in [Players -> Sockets \union {None}]
               /\ \A p \in Players : socketOf'[p] = socketOf[p] \/ socketOf'[p] = None
               /\ s \notin pipelined => \A p \in Players : socketOf'[p] # s
    <3>1. m.player \in Players /\ socketOf[m.player] = s
      BY MemberFound DEF SeatInv
    <3>2. s # None /\ Held(s)
      BY DEF NoneAssumption, SeatInv
    <3> QED BY <2>2, <3>1, <3>2 DEF Held, SeatInv, SeatTypes
  <2> QED BY <1>0, <2>1, <2>2
<1>2. PacketTypes' /\ OneArrival' /\ LeavingKept
  BY PacketsNone DEF Disconnect
<1>3. SeatTypes'
  BY <1>0, <1>1 DEF SeatInv, SeatTypes, SideTypes
<1>4. OnlineSit'
  BY <1>0, <1>1, SeatsKept DEF SeatInv, OnlineSit, Online
<1>5. \A x \in RoomIds : CodesServe(x)'
  BY <1>0, <1>1, <1>2, CodesSame, WaitingKept DEF recovery
<1>6. \A x \in RoomIds : PromptWaits(x)'
  BY <1>0, <1>2, PromptsKept DEF InLobby, Members
<1>7. \A x \in Sockets : Held(x)'
  BY <1>0, <1>1, SocketsGivenUp
<1> QED BY <1>0, <1>2, <1>3, <1>4, <1>5, <1>6, <1>7, SeatsKept DEF SeatInv

\* A member comes back on the connection that asked; the one it had is cut off,
\* and nobody is left on it, unless it had asked for two seats.
LEMMA SeatResumed ==
  ASSUME SeatInv, NoneAssumption, NEW k \in Packets, NEW r \in RoomIds, Resumed(k, r)
  PROVE  SeatInv'
<1> DEFINE p == pending[k].player
           s == pending[k].by
           cut == {socketOf[p]} \intersect (open \ {s})
           taken == [socketOf EXCEPT ![p] = s]
           left == UNION {SeatsOn(taken, c) : c \in cut}
<1>1. /\ Ends(k, "resume", r) /\ p \in Members(r) /\ open' = open \ cut
      /\ NoCodes(r, {p})
      /\ UNCHANGED <<roster, hosts, prompt, game, pipelined>>
      /\ \/ socketOf' = taken
         \/ \E m \in left : socketOf' = [taken EXCEPT ![m.player] = None]
  BY DEF Resumed
<1>2. p \in Players /\ s \in Sockets /\ s # None /\ pending[k].at \in Arrivals
  BY <1>1, MembersSit DEF SeatInv, PacketTypes, Ends, Arrivals, NoneAssumption
<1>3. /\ taken \in [Players -> Sockets \union {None}] /\ taken[p] = s
      /\ \A q \in Players \ {p} : taken[q] = socketOf[q]
  BY <1>2 DEF SeatInv, SeatTypes
<1>4. /\ s \notin cut /\ cut \subseteq open
      /\ \A c \in cut : c = socketOf[p]
  OBVIOUS
<1>5. ASSUME NEW m \in left PROVE m.player \in Players /\ m.player # p
  <2>1. PICK c \in cut : m \in SeatsOn(taken, c)
    OBVIOUS
  <2> HIDE DEF taken, cut, left, s
  <2>2. m.player \in Players /\ taken[m.player] = c
    BY <2>1, SeatOnFound DEF SeatInv
  <2> QED BY <1>3, <1>4, <2>2
<1> HIDE DEF taken, cut, left, s, p
<1>6. /\ socketOf' \in [Players -> Sockets \union {None}] /\ socketOf'[p] = s
      /\ \A q \in Players \ {p} : socketOf'[q] = socketOf[q] \/ socketOf'[q] = None
  <2>1. CASE socketOf' = taken
    BY <1>3, <2>1
  <2>2. ASSUME NEW m \in left, socketOf' = [taken EXCEPT ![m.player] = None]
        PROVE  /\ socketOf' \in [Players -> Sockets \union {None}] /\ socketOf'[p] = s
               /\ \A q \in Players \ {p} : socketOf'[q] = socketOf[q] \/ socketOf'[q] = None
    BY <1>2, <1>3, <1>5, <2>2
  <2> QED BY <1>1, <2>1, <2>2
<1>7. \A y \in open \ open' : y \notin pipelined => \A q \in Players : socketOf'[q] # y
  <2>1. ASSUME NEW y \in cut, y \notin pipelined, NEW q \in Players, socketOf'[q] = y
        PROVE  FALSE
    <3>1. y \in Sockets /\ y # None /\ y # s /\ y = socketOf[p]
      BY <1>4, <2>1 DEF SeatInv, SeatTypes, NoneAssumption
    <3>2. q # p /\ socketOf[q] = y
      BY <1>6, <2>1, <3>1
    <3> QED BY <1>2, <2>1, <3>1, <3>2 DEF SeatInv, Held
  <2> QED BY <1>1, <2>1
<1>8. \A x \in Sockets : Held(x)'
  <2>1. open' \subseteq open /\ (s \in open => s \in open')
    BY <1>1, <1>4
  <2> QED BY <1>1, <1>2, <1>6, <1>7, <2>1, SocketTaken DEF s
<1>9. PacketTypes' /\ OneArrival' /\ LeavingKept
  BY <1>1, PacketEnds DEF Arrivals, LeavingKept
<1>10. /\ \A x \in RoomIds : CodesServe(x)'
       /\ grants' \in [RoomIds -> [Players -> Nat]] /\ strays' \in [RoomIds -> SUBSET Players]
  <2>1. ASSUME NEW x \in RoomIds, NEW q \in Players, x # r \/ q \notin {p}, Waiting(x, q)
        PROVE  Waiting(x, q)'
    <3>1. CASE q = p
      <4>1. p \notin Members(x)
        BY <1>1, <2>1, <3>1, RoomsApart
      <4> QED BY <1>9, <2>1, <3>1, <4>1 DEF Waiting, Awaited, LeavingKept
    <3>2. CASE q # p
      BY <1>1, <1>6, <1>9, <2>1, <3>2 DEF Waiting, Awaited, Online, Members, LeavingKept
    <3> QED BY <3>1, <3>2
  <2> QED BY <1>1, <2>1, CodesGone
<1>11. \A x \in RoomIds : PromptWaits(x)'
  BY <1>1, <1>9, PromptsKept DEF InLobby, Members
<1>12. SeatTypes'
  BY <1>1, <1>6, <1>10 DEF SeatInv, SeatTypes, SideTypes
<1>13. OnlineSit'
  BY <1>1, <1>6, SeatsKept DEF SeatInv, OnlineSit, Online, Sits
<1> QED BY <1>1, <1>8, <1>9, <1>10, <1>11, <1>12, <1>13, SeatsKept DEF SeatInv

LEMMA SeatClaimed ==
  ASSUME SeatInv, NoneAssumption, NEW k \in Packets, NEW r \in RoomIds, NEW p \in Players,
         Claimed(k, r, p)
  PROVE  SeatInv'
<1> DEFINE s == pending[k].by
<1>1. /\ Ends(k, "claim", r) /\ grants[r][p] > 0 /\ OneCodeLess(r, p)
      /\ UNCHANGED <<roster, hosts, prompt, game, open, pipelined>>
      /\ \/ Awaited(r, p) /\ socketOf' = [socketOf EXCEPT ![p] = s]
         \/ UNCHANGED socketOf
  BY DEF Claimed
<1>2. s \in Sockets /\ s # None /\ pending[k].at \in Arrivals
  BY <1>1 DEF SeatInv, PacketTypes, Ends, Arrivals, NoneAssumption
<1> HIDE DEF s
<1>3. /\ \A q \in Players \ {p} : socketOf'[q] = socketOf[q]
      /\ socketOf' \in [Players -> Sockets \union {None}]
  BY <1>1, <1>2 DEF SeatInv, SeatTypes
<1>4. \A x \in Sockets : Held(x)'
  <2>1. CASE Awaited(r, p) /\ socketOf' = [socketOf EXCEPT ![p] = s]
    <3>1. socketOf'[p] = s
      BY <2>1 DEF SeatInv, SeatTypes
    <3> QED BY <1>1, <1>2, <1>3, <3>1, SocketTaken DEF s
  <2>2. CASE UNCHANGED socketOf
    BY <1>1, <2>2 DEF SeatInv, Held
  <2> QED BY <1>1, <2>1, <2>2
<1>5. PacketTypes' /\ OneArrival' /\ LeavingKept
  BY <1>1, PacketEnds DEF Arrivals, LeavingKept
<1>6. /\ \A x \in RoomIds : CodesServe(x)'
      /\ grants' \in [RoomIds -> [Players -> Nat]] /\ strays' \in [RoomIds -> SUBSET Players]
  <2>1. ASSUME NEW x \in RoomIds, NEW q \in Players, x # r \/ q # p, Waiting(x, q)
        PROVE  Waiting(x, q)'
    <3>1. CASE q = p /\ Awaited(r, p)
      <4>1. p \notin Members(x)
        BY <2>1, <3>1, RoomsApart DEF Awaited
      <4> QED BY <1>5, <2>1, <3>1, <4>1 DEF Waiting, Awaited, LeavingKept
    <3>2. CASE q # p \/ UNCHANGED socketOf
      BY <1>1, <1>3, <1>5, <2>1, <3>2 DEF Waiting, Awaited, Online, Members, LeavingKept
    <3> QED BY <1>1, <3>1, <3>2
  <2> QED BY <1>1, <2>1, CodeUsed
<1>7. \A x \in RoomIds : PromptWaits(x)'
  BY <1>1, <1>5, PromptsKept DEF InLobby, Members
<1>8. SeatTypes'
  BY <1>1, <1>3, <1>6 DEF SeatInv, SeatTypes, SideTypes
<1>9. OnlineSit'
  <2>1. \A q \in Players : Online(q)' => Online(q) \/ q \in Members(r)
    BY <1>1, <1>3 DEF Online, Awaited
  <2>2. \A q \in Players : Online(q)' => Sits(q)
    BY <2>1 DEF SeatInv, OnlineSit, Sits
  <2> QED BY <1>1, <2>2, SeatsKept DEF OnlineSit
<1> QED BY <1>1, <1>4, <1>5, <1>6, <1>7, <1>8, <1>9, SeatsKept DEF SeatInv

\* The seats of one room are others; whom no room has had may come to sit there.
LEMMA SeatsChanged ==
  ASSUME SeatInv, NEW r \in RoomIds, NEW seats \in Seq(Players), Distinct(seats),
         roster' = [roster EXCEPT ![r] = seats],
         \A p \in Range(seats) : p \in Members(r) \/ ~Sits(p)
  PROVE  /\ roster' \in [RoomIds -> Seq(Players)] /\ OneRoomEach'
         /\ Members(r)' = Range(seats) /\ (Exists(r)' <=> Range(seats) # {})
         /\ \A x \in RoomIds \ {r} : Members(x)' = Members(x) /\ Exists(x)' = Exists(x)
         /\ \A p : Sits(p)' <=> p \in Range(seats) \/ \E x \in RoomIds \ {r} : p \in Members(x)
<1>1. roster' \in [RoomIds -> Seq(Players)]
  BY DEF SeatInv, SeatTypes
<1>2. roster'[r] = seats /\ \A x \in RoomIds \ {r} : roster'[x] = roster[x]
  BY DEF SeatInv, SeatTypes
<1>3. /\ Members(r)' = Range(seats)
      /\ \A x \in RoomIds \ {r} : Members(x)' = Members(x) /\ Exists(x)' = Exists(x)
  BY <1>2 DEF Members, Exists
<1>4. Exists(r)' <=> Range(seats) # {}
  <2>1. seats = <<>> <=> DOMAIN seats = {}
    OBVIOUS
  <2>2. Range(seats) = {} <=> DOMAIN seats = {}
    BY DEF Range
  <2> QED BY <1>2, <2>1, <2>2 DEF Exists
<1>5. \A x \in RoomIds : Distinct(roster'[x])
  BY <1>2 DEF SeatInv, OneRoomEach
<1>6. \A x, y \in RoomIds : \A p \in Members(x)' : p \in Members(y)' => x = y
  BY <1>3 DEF SeatInv, OneRoomEach, Sits
<1>7. OneRoomEach'
  BY <1>5, <1>6 DEF OneRoomEach
<1>8. \A p : Sits(p)' <=> p \in Range(seats) \/ \E x \in RoomIds \ {r} : p \in Members(x)
  BY <1>3 DEF Sits
<1> QED BY <1>1, <1>3, <1>4, <1>7, <1>8

\* The packets about a room that is closed are dropped.
LEMMA PacketsDropped ==
  ASSUME SeatInv, NoneAssumption, NEW r, UNCHANGED pipelined, SocketsLet,
         pending' = [k \in Packets |-> IF pending[k].room = r THEN Idle ELSE pending[k]]
  PROVE  /\ PacketTypes' /\ OneArrival'
         /\ \A x, q : x # r /\ Leaving(x, q) => Leaving(x, q)'
<1>1. /\ DOMAIN pending' = Packets
      /\ \A k \in Packets : pending'[k] = pending[k] \/ pending'[k].at = "idle"
      /\ \A k \in Packets : pending[k].room # r => pending'[k] = pending[k]
  BY DEF Idle
<1>2. PacketTypes'
  BY <1>1 DEF SeatInv, PacketTypes, Arrivals
<1>3. \A x, q : x # r /\ Leaving(x, q) => Leaving(x, q)'
  BY <1>1 DEF Leaving
<1>4. OneArrival'
  <2>1. ASSUME NEW j \in Packets, pending'[j].at \in Arrivals, pending'[j].by \notin pipelined
        PROVE  /\ pending'[j] = pending[j]
               /\ pending[j].by \in open /\ \A p \in Players : socketOf[p] # pending[j].by
               /\ \A i \in Packets \ {j} : pending'[i].at \notin Arrivals
    BY <1>1, <2>1 DEF SeatInv, OneArrival, Arrivals
  <2>2. ASSUME NEW j \in Packets, pending'[j].at \in Arrivals, pending'[j].by \notin pipelined
        PROVE  /\ pending'[j].by \in open' /\ \A p \in Players : socketOf'[p] # pending'[j].by
    <3>1. pending[j].by \in Sockets
      BY <2>1, <2>2 DEF SeatInv, PacketTypes
    <3> QED BY <2>1, <2>2, <3>1 DEF SocketsLet, NoneAssumption
  <2> QED BY <2>1, <2>2 DEF OneArrival
<1> QED BY <1>2, <1>3, <1>4

LEMMA PromptDropped ==
  ASSUME SeatInv, NEW r \in RoomIds, prompt' = [prompt EXCEPT ![r] = NoPrompt],
         \A x \in RoomIds \ {r} : game'[x] = game[x] /\ Members(x)' = Members(x),
         \A x, q : x # r /\ Leaving(x, q) => Leaving(x, q)'
  PROVE  prompt' \in [RoomIds -> Prompts] /\ \A x \in RoomIds : PromptWaits(x)'
<1>1. /\ prompt' \in [RoomIds -> Prompts] /\ prompt'[r] = NoPrompt
      /\ \A x \in RoomIds \ {r} : prompt'[x] = prompt[x]
  BY DEF SeatInv, SeatTypes, SideTypes, NoPrompt, Prompts
<1>2. ASSUME NEW x \in RoomIds \ {r} PROVE PromptWaits(x)'
  <2>1. PromptWaits(x)
    BY DEF SeatInv
  <2> QED BY <1>1, <2>1 DEF PromptWaits, InLobby
<1> QED BY <1>1, <1>2 DEF PromptWaits

LEMMA SeatRoomCreated ==
  ASSUME SeatInv, TimingType, NoneAssumption, NEW k \in Packets, NEW r \in RoomIds,
         NEW p \in Players, RoomCreated(k, r, p)
  PROVE  SeatInv'
<1> DEFINE s == pending[k].by
           seats == <<p>>
           gone == Members(r)
<1>0. /\ Ends(k, "create", r) /\ p \in FreshPlayers
      /\ roster' = [roster EXCEPT ![r] = seats]
      /\ hosts' = (hosts \ gone) \union {p}
      /\ socketOf' = [q \in Players |-> IF q = p THEN s
                                       ELSE IF q \in gone THEN None ELSE socketOf[q]]
      /\ NoCodes(r, Players)
      /\ prompt' = [prompt EXCEPT ![r] = NoPrompt]
      /\ game' = [game EXCEPT ![r] = "lobby"]
      /\ UNCHANGED <<open, pipelined>>
  BY DEF RoomCreated, GameIs
<1>1. seats \in Seq(Players) /\ Distinct(seats) /\ Range(seats) = {p}
  BY DEF Distinct, Range
<1>2. s \in Sockets /\ pending[k].at \in Arrivals
  BY <1>0 DEF SeatInv, PacketTypes, Ends, Arrivals
<1> HIDE DEF seats, s
<1>3. p \notin hosts /\ socketOf[p] = None /\ ~Sits(p) /\ \A x \in RoomIds : p \notin Members(x)
  BY <1>0, FreshFacts
<1>4. /\ roster' \in [RoomIds -> Seq(Players)] /\ OneRoomEach'
      /\ Members(r)' = {p} /\ Exists(r)'
      /\ \A x \in RoomIds \ {r} : Members(x)' = Members(x) /\ Exists(x)' = Exists(x)
      /\ \A q : Sits(q)' <=> q = p \/ \E x \in RoomIds \ {r} : q \in Members(x)
  <2>1. \A q \in Range(seats) : q \in Members(r) \/ ~Sits(q)
    BY <1>1, <1>3
  <2>2. /\ roster' \in [RoomIds -> Seq(Players)] /\ OneRoomEach'
        /\ Members(r)' = Range(seats) /\ (Exists(r)' <=> Range(seats) # {})
        /\ \A x \in RoomIds \ {r} : Members(x)' = Members(x) /\ Exists(x)' = Exists(x)
        /\ \A q : Sits(q)' <=> q \in Range(seats) \/ \E x \in RoomIds \ {r} : q \in Members(x)
    BY <1>0, <1>1, <2>1, SeatsChanged
  <2> QED BY <1>1, <2>2
<1>5. \A x \in RoomIds \ {r} : Members(x) \intersect gone = {} /\ p \notin Members(x)
  BY <1>3, RoomsApart
<1> HIDE DEF gone
<1>6. /\ socketOf' \in [Players -> Sockets \union {None}] /\ socketOf'[p] = s
      /\ \A q \in Players \ {p} : socketOf'[q] = socketOf[q] \/ socketOf'[q] = None
      /\ \A q \in Players : q # p /\ q \in gone => socketOf'[q] = None
  BY <1>0, <1>2 DEF SeatInv, SeatTypes
<1>7. PacketTypes' /\ OneArrival' /\ LeavingKept
  BY <1>0, PacketEnds DEF Arrivals, LeavingKept
<1>8. \A x \in Sockets : Held(x)'
  BY <1>0, <1>2, <1>6, SocketTaken DEF s
<1>9. OnlineSit' /\ HostsSit'
  <2>1. \A q \in Players : Sits(q) /\ q \notin gone => Sits(q)'
    BY <1>4 DEF Sits, gone
  <2>2. ASSUME NEW q \in Players, Online(q)' PROVE Sits(q)'
    BY <1>4, <1>6, <2>1, <2>2 DEF SeatInv, OnlineSit, Online
  <2>3. ASSUME NEW q \in hosts' PROVE Sits(q)'
    BY <1>0, <1>4, <2>1, <2>3 DEF SeatInv, SeatTypes, HostsSit
  <2> QED BY <2>2, <2>3 DEF OnlineSit, HostsSit
<1>10. ASSUME NEW x \in RoomIds PROVE Hosted(x)'
  <2>1. CASE x = r
    BY <1>0, <1>4, <2>1 DEF Hosted
  <2>2. CASE x # r
    <3>1. Members(x) \intersect hosts' = Members(x) \intersect hosts
      BY <1>0, <1>5, <2>2
    <3> QED BY <1>4, <2>2, <3>1 DEF SeatInv, Hosted
  <2> QED BY <2>1, <2>2
<1>11. /\ \A x \in RoomIds : CodesServe(x)'
       /\ grants' \in [RoomIds -> [Players -> Nat]] /\ strays' \in [RoomIds -> SUBSET Players]
  <2>1. ASSUME NEW x \in RoomIds, NEW q \in Players, x # r \/ q \notin Players, Waiting(x, q)
        PROVE  Waiting(x, q)'
    BY <1>0, <1>4, <1>5, <1>6, <1>7, <2>1 DEF Waiting, Awaited, Online, LeavingKept
  <2> QED BY <1>0, <2>1, CodesGone
<1>12. prompt' \in [RoomIds -> Prompts] /\ \A x \in RoomIds : PromptWaits(x)'
  <2>1. \A x \in RoomIds \ {r} : game'[x] = game[x] /\ Members(x)' = Members(x)
    BY <1>0, <1>4 DEF TimingType
  <2> QED BY <1>0, <1>7, <2>1, PromptDropped DEF LeavingKept
<1>13. SeatTypes'
  BY <1>0, <1>4, <1>6, <1>11, <1>12 DEF SeatInv, SeatTypes, SideTypes
<1> QED BY <1>4, <1>7, <1>8, <1>9, <1>10, <1>11, <1>12, <1>13 DEF SeatInv

LEMMA SeatJoined ==
  ASSUME SeatInv, NoneAssumption, NEW k \in Packets, NEW r \in RoomIds, NEW p \in Players,
         Joined(k, r, p)
  PROVE  SeatInv'
<1> DEFINE s == pending[k].by
           seats == Append(roster[r], p)
<1>0. /\ Ends(k, "join", r) /\ Exists(r) /\ p \in FreshPlayers
      /\ roster' = [roster EXCEPT ![r] = seats]
      /\ socketOf' = [socketOf EXCEPT ![p] = s]
      /\ UNCHANGED <<hosts, grants, strays, prompt, game, open, pipelined>>
  BY DEF Joined, Seated, recovery
<1>1. /\ p \notin hosts /\ socketOf[p] = None /\ ~Sits(p)
      /\ \A x \in RoomIds : p \notin Members(x)
  BY <1>0, FreshFacts
<1>2. roster[r] \in Seq(Players) /\ Distinct(roster[r]) /\ p \notin Range(roster[r])
  BY <1>1 DEF SeatInv, SeatTypes, OneRoomEach, Members
<1>3. seats \in Seq(Players) /\ Distinct(seats) /\ Range(seats) = Members(r) \union {p}
  BY <1>2, AppendFacts DEF Members
<1>4. s \in Sockets /\ s # None /\ pending[k].at \in Arrivals
  BY <1>0 DEF SeatInv, PacketTypes, Ends, Arrivals, NoneAssumption
<1> HIDE DEF seats, s
<1>5. /\ roster' \in [RoomIds -> Seq(Players)] /\ OneRoomEach'
      /\ Members(r)' = Members(r) \union {p} /\ (Exists(r)' <=> Range(seats) # {})
      /\ \A x \in RoomIds \ {r} : Members(x)' = Members(x) /\ Exists(x)' = Exists(x)
      /\ \A q : Sits(q)' <=> q \in Range(seats) \/ \E x \in RoomIds \ {r} : q \in Members(x)
  <2>1. \A q \in Range(seats) : q \in Members(r) \/ ~Sits(q)
    BY <1>1, <1>3
  <2> QED BY <1>0, <1>3, <2>1, SeatsChanged
<1>6. /\ socketOf' \in [Players -> Sockets \union {None}] /\ socketOf'[p] = s
      /\ \A q \in Players \ {p} : socketOf'[q] = socketOf[q]
  BY <1>0, <1>4 DEF SeatInv, SeatTypes
<1>7. PacketTypes' /\ OneArrival' /\ LeavingKept
  BY <1>0, PacketEnds DEF Arrivals, LeavingKept
<1>8. \A x \in Sockets : Held(x)'
  BY <1>0, <1>4, <1>6, SocketTaken DEF s
<1>9. OnlineSit' /\ HostsSit'
  <2>1. \A q : Sits(q) => Sits(q)'
    BY <1>3, <1>5 DEF Sits
  <2>2. Sits(p)'
    BY <1>3, <1>5
  <2> QED BY <1>0, <1>6, <2>1, <2>2 DEF SeatInv, OnlineSit, HostsSit, Online
<1>10. ASSUME NEW x \in RoomIds PROVE Hosted(x)'
  <2>1. CASE x = r
    <3>1. PICK h \in Members(r) : Members(r) \intersect hosts = {h}
      BY <1>0 DEF SeatInv, Hosted
    <3> QED BY <1>0, <1>1, <1>5, <2>1, <3>1 DEF Hosted
  <2>2. CASE x # r
    BY <1>0, <1>5, <2>2 DEF SeatInv, Hosted
  <2> QED BY <2>1, <2>2
<1>11. \A x \in RoomIds : CodesServe(x)'
  <2>1. ASSUME NEW x \in RoomIds, NEW q \in Players, Waiting(x, q) PROVE Waiting(x, q)'
    <3>1. q \in Members(x) => q # p /\ q \in Members(x)'
      BY <1>1, <1>5
    <3> QED BY <1>0, <1>6, <1>7, <2>1, <3>1 DEF Waiting, Awaited, Online, LeavingKept
  <2> QED BY <1>0, <2>1, CodesSame DEF recovery
<1>12. \A x \in RoomIds : PromptWaits(x)'
  <2>1. \A x \in RoomIds : \A q \in Members(x) : q \in Members(x)'
    BY <1>5
  <2> QED BY <1>0, <1>7, <2>1, PromptsKept DEF InLobby
<1>13. SeatTypes'
  BY <1>0, <1>5, <1>6 DEF SeatInv, SeatTypes, SideTypes
<1> QED BY <1>5, <1>7, <1>8, <1>9, <1>10, <1>11, <1>12, <1>13 DEF SeatInv

LEMMA SeatMove ==
  ASSUME SeatInv, NoneAssumption, NEW s \in Sockets, NEW t \in Players, NEW i, MoveSeat(s, t, i)
  PROVE  SeatInv'
<1>0. PICK r \in RoomIds :
        /\ t \in Members(r) /\ i \in DOMAIN roster[r]
        /\ roster' = [roster EXCEPT ![r] = Moved(@, t, i)]
        /\ UNCHANGED <<hosts, socketOf, grants, strays, prompt, game, open, payload, pipelined>>
  BY CallerSits DEF MoveSeat, recovery
<1> DEFINE less == Unseated(roster[r], t)
           seats == Moved(roster[r], t, i)
<1>2. /\ roster[r] \in Seq(Players) /\ Distinct(roster[r]) /\ t \in Range(roster[r])
      /\ i \in 1 .. Len(roster[r]) /\ r \in RoomIds
  BY <1>0 DEF SeatInv, SeatTypes, OneRoomEach, Members
<1>3. /\ less \in Seq(Players) /\ Range(less) = Members(r) \ {t} /\ Distinct(less)
      /\ Len(less) = Len(roster[r]) - 1
  BY <1>2, UnseatedFacts DEF Members
<1> HIDE DEF less
<1>4. seats = InsertAt(less, i, t)
  BY DEF Moved, less
<1>5. seats \in Seq(Players) /\ Distinct(seats) /\ Range(seats) = Members(r)
  <2>1. t \notin Range(less) /\ i \in 1 .. Len(less) + 1 /\ Members(r) = Range(less) \union {t}
    BY <1>2, <1>3 DEF Members
  <2> QED BY <1>3, <1>4, <2>1, InsertFacts
<1> HIDE DEF seats
<1>6. roster' = [roster EXCEPT ![r] = seats]
  BY <1>0 DEF seats
<1>7. /\ roster' \in [RoomIds -> Seq(Players)] /\ OneRoomEach'
      /\ \A x \in RoomIds : Members(x)' = Members(x) /\ (Exists(x)' <=> Exists(x))
      /\ \A p : Sits(p)' <=> Sits(p)
  <2>1. Exists(r) <=> Members(r) # {}
    BY <1>2, MembersSit DEF SeatInv
  <2>2. /\ roster' \in [RoomIds -> Seq(Players)] /\ OneRoomEach'
        /\ Members(r)' = Range(seats) /\ (Exists(r)' <=> Range(seats) # {})
        /\ \A x \in RoomIds \ {r} : Members(x)' = Members(x) /\ Exists(x)' = Exists(x)
        /\ \A p : Sits(p)' <=> p \in Range(seats) \/ \E x \in RoomIds \ {r} : p \in Members(x)
    <3>1. \A p \in Range(seats) : p \in Members(r) \/ ~Sits(p)
      BY <1>5
    <3> QED BY <1>2, <1>5, <1>6, <3>1, SeatsChanged
  <2>3. \A p : Sits(p)' <=> Sits(p)
    BY <1>2, <1>5, <2>2 DEF Sits
  <2>4. \A x \in RoomIds : Members(x)' = Members(x) /\ (Exists(x)' <=> Exists(x))
    BY <1>5, <2>1, <2>2
  <2> QED BY <2>2, <2>3, <2>4
<1>8. SeatTypes' /\ OnlineSit' /\ HostsSit'
  BY <1>0, <1>7 DEF SeatInv, SeatTypes, SideTypes, OnlineSit, HostsSit, Online
<1>9. PacketTypes' /\ OneArrival' /\ LeavingKept
  BY <1>0, PacketsStay DEF SocketsLet
<1>10. \A x \in RoomIds : Hosted(x)'
  BY <1>0, <1>7 DEF SeatInv, Hosted
<1>11. \A x \in RoomIds : CodesServe(x)'
  <2>1. ASSUME NEW x \in RoomIds, NEW q \in Players, Waiting(x, q) PROVE Waiting(x, q)'
    BY <1>0, <1>7, <1>9, <2>1 DEF Waiting, Awaited, Online, LeavingKept
  <2> QED BY <1>0, <2>1, CodesSame DEF recovery
<1>12. \A x \in RoomIds : PromptWaits(x)'
  BY <1>0, <1>7, <1>9, PromptsKept DEF InLobby
<1>13. \A x \in Sockets : Held(x)'
  BY <1>0 DEF SeatInv, Held
<1> QED BY <1>7, <1>8, <1>9, <1>10, <1>11, <1>12, <1>13 DEF SeatInv

\* A member is gone; who is host then is one of those that stay.
LEMMA SeatDeparts ==
  ASSUME SeatInv, NoneAssumption, NEW k \in Packets, NEW s, NEW r \in RoomIds,
         NEW p \in Members(r), Departs(k, s, r, p),
         hosts' \subseteq Players, \A q \in hosts' : q # p /\ Sits(q),
         Exists(r)' => \E h \in Members(r) \ {p} : (Members(r) \ {p}) \intersect hosts' = {h},
         \A q \in hosts' \ hosts : q \in Members(r) /\ Online(q),
         \A x \in RoomIds \ {r} : Members(x) \intersect hosts' = Members(x) \intersect hosts
  PROVE  SeatInv'
<1> DEFINE seats == Unseated(roster[r], p)
<1>0. /\ Begins(k, "depart", s, r, p)
      /\ roster' = [roster EXCEPT ![r] = seats]
      /\ socketOf' = [socketOf EXCEPT ![p] = None]
      /\ UNCHANGED <<grants, strays, prompt, game, open, pipelined>>
  BY DEF Departs, recovery
<1>1. roster[r] \in Seq(Players) /\ Distinct(roster[r]) /\ p \in Range(roster[r]) /\ p \in Players
  BY MembersSit DEF SeatInv, SeatTypes, OneRoomEach, Members
<1>2. seats \in Seq(Players) /\ Range(seats) = Members(r) \ {p} /\ Distinct(seats)
  BY <1>1, UnseatedFacts DEF Members
<1> HIDE DEF seats
<1>3. /\ roster' \in [RoomIds -> Seq(Players)] /\ OneRoomEach'
      /\ Members(r)' = Members(r) \ {p}
      /\ \A x \in RoomIds \ {r} : Members(x)' = Members(x) /\ Exists(x)' = Exists(x)
      /\ \A q : Sits(q)' <=> q \in Range(seats) \/ \E x \in RoomIds \ {r} : q \in Members(x)
  <2>1. \A q \in Range(seats) : q \in Members(r) \/ ~Sits(q)
    BY <1>2
  <2> QED BY <1>0, <1>2, <2>1, SeatsChanged
<1>4. \A q : Sits(q)' <=> Sits(q) /\ q # p
  BY <1>2, <1>3 DEF SeatInv, OneRoomEach, Sits
<1>5. /\ socketOf' \in [Players -> Sockets \union {None}] /\ socketOf'[p] = None
      /\ \A q \in Players : socketOf'[q] = socketOf[q] \/ socketOf'[q] = None
  BY <1>0, <1>1 DEF SeatInv, SeatTypes
<1>6. PacketTypes' /\ OneArrival' /\ LeavingKept /\ Leaving(r, p)'
  BY <1>0, <1>5, PacketBegins DEF SocketsLet, Arrivals
<1>7. OnlineSit' /\ HostsSit'
  BY <1>4, <1>5 DEF SeatInv, OnlineSit, HostsSit, Online
<1>8. \A x \in Sockets : Held(x)'
  BY <1>0, <1>5, SocketsGivenUp
<1>9. ASSUME NEW x \in RoomIds PROVE Hosted(x)'
  <2>1. CASE x = r
    BY <1>3, <2>1 DEF Hosted
  <2>2. CASE x # r
    BY <1>3, <2>2 DEF SeatInv, Hosted
  <2> QED BY <2>1, <2>2
<1>10. \A x \in RoomIds : \A q \in Members(x) : q \in Members(x)' \/ Leaving(x, q)'
  BY <1>3, <1>6
<1>11. \A x \in RoomIds : CodesServe(x)'
  <2>1. ASSUME NEW x \in RoomIds, NEW q \in Players, Waiting(x, q) PROVE Waiting(x, q)'
    BY <1>5, <1>6, <1>10, <2>1 DEF Waiting, Awaited, Online, LeavingKept
  <2> QED BY <1>0, <2>1, CodesSame DEF recovery
<1>12. \A x \in RoomIds : PromptWaits(x)'
  BY <1>0, <1>6, <1>10, PromptsKept DEF InLobby
<1>13. SeatTypes'
  BY <1>0, <1>3, <1>5 DEF SeatInv, SeatTypes, SideTypes
<1> QED BY <1>3, <1>6, <1>7, <1>8, <1>9, <1>11, <1>12, <1>13 DEF SeatInv

\* The one host of the room of a member.
LEMMA HostIsOne ==
  ASSUME SeatInv, NEW r \in RoomIds, NEW p \in Members(r), p \in hosts
  PROVE  Members(r) \intersect hosts = {p}
<1>1. PICK h \in Members(r) : Members(r) \intersect hosts = {h}
  BY MembersSit DEF SeatInv, Hosted
<1> QED BY <1>1

LEMMA SeatRemove ==
  ASSUME SeatInv, NoneAssumption, NEW k \in Packets, NEW s \in Sockets, NEW t \in Players,
         RemovePlayer(k, s, t)
  PROVE  SeatInv'
<1>1. PICK m \in Callers(s) :
        /\ m.player \in hosts /\ t \in Members(m.room) \ hosts
        /\ Departs(k, s, m.room, t) /\ UNCHANGED hosts
  BY DEF RemovePlayer
<1>2. m.room \in RoomIds /\ m.player \in Members(m.room)
  BY CallerFound DEF SeatInv
<1>3. Members(m.room) \intersect hosts = {m.player}
  BY <1>1, <1>2, HostIsOne
<1>4. /\ hosts \subseteq Players /\ \A q \in hosts : q # t /\ Sits(q)
      /\ m.player \in Members(m.room) \ {t}
      /\ (Members(m.room) \ {t}) \intersect hosts = {m.player}
  BY <1>1, <1>2, <1>3 DEF SeatInv, SeatTypes, HostsSit
<1> QED BY <1>1, <1>2, <1>4, SeatDeparts

LEMMA SeatLeave ==
  ASSUME SeatInv, NoneAssumption, NEW k \in Packets, NEW s \in Sockets, LeaveRoom(k, s)
  PROVE  SeatInv'
<1>1. PICK m \in Callers(s) :
        /\ m.player \in hosts => Len(roster[m.room]) = 1
        /\ hosts' = hosts \ {m.player}
        /\ Departs(k, s, m.room, m.player)
  BY DEF LeaveRoom
<1>2. m.room \in RoomIds /\ m.player \in Members(m.room)
  BY CallerFound DEF SeatInv
<1> DEFINE r == m.room
           p == m.player
<1> HIDE DEF r, p
<1>3. /\ hosts' \subseteq Players /\ \A q \in hosts' : q # p /\ Sits(q)
      /\ \A q \in hosts' \ hosts : q \in Members(r) /\ Online(q)
  BY <1>1 DEF SeatInv, SeatTypes, HostsSit, p
<1>4. \A x \in RoomIds \ {r} : Members(x) \intersect hosts' = Members(x) \intersect hosts
  BY <1>1, <1>2, RoomsApart DEF r, p
<1>5. Exists(r)' => \E h \in Members(r) \ {p} : (Members(r) \ {p}) \intersect hosts' = {h}
  <2>1. CASE p \in hosts
    <3>1. /\ roster[r] \in Seq(Players) /\ Distinct(roster[r]) /\ p \in Range(roster[r])
          /\ Len(roster[r]) = 1 /\ roster' = [roster EXCEPT ![r] = Unseated(roster[r], p)]
          /\ r \in RoomIds
      BY <1>1, <1>2, <2>1 DEF r, p, SeatInv, SeatTypes, OneRoomEach, Members, Departs
    <3>2. Unseated(roster[r], p) \in Seq(Players) /\ Len(Unseated(roster[r], p)) = 0
      BY <3>1, UnseatedFacts
    <3>3. Unseated(roster[r], p) = <<>>
      BY <3>2
    <3> QED BY <3>1, <3>3 DEF Exists, SeatInv, SeatTypes
  <2>2. CASE p \notin hosts
    <3>1. PICK h \in Members(r) : Members(r) \intersect hosts = {h}
      BY <1>2, MembersSit DEF SeatInv, Hosted, r, p
    <3>2. h # p /\ (Members(r) \ {p}) \intersect hosts' = {h}
      BY <1>1, <2>2, <3>1 DEF p
    <3> QED BY <3>1, <3>2
  <2> QED BY <2>1, <2>2
<1> QED BY <1>1, <1>2, <1>3, <1>4, <1>5, SeatDeparts DEF r, p

\* The host gives the room to somebody else in it.
LEMMA HostGiven ==
  ASSUME SeatInv, NEW r \in RoomIds, NEW t \in Members(r), HostIs(r, t)
  PROVE  /\ hosts' \subseteq Players /\ \A q \in hosts' : Sits(q)
         /\ Members(r) \intersect hosts' = {t} /\ hosts' \ hosts \subseteq {t}
         /\ \A x \in RoomIds \ {r} : Members(x) \intersect hosts' = Members(x) \intersect hosts
<1>1. hosts' = (hosts \ Members(r)) \union {t} /\ Members(r) \subseteq Players
  BY MembersSit DEF HostIs, SeatInv
<1> QED BY <1>1, RoomsApart DEF SeatInv, SeatTypes, HostsSit, Sits

LEMMA SeatLeaveAndTransfer ==
  ASSUME SeatInv, NoneAssumption, NEW k \in Packets, NEW s \in Sockets, NEW t \in Players,
         LeaveAndTransfer(k, s, t)
  PROVE  SeatInv'
<1>1. PICK m \in Callers(s) :
        /\ m.player \in hosts /\ t \in Members(m.room) \ {m.player} /\ Online(t)
        /\ HostIs(m.room, t)
        /\ Departs(k, s, m.room, m.player)
  BY DEF LeaveAndTransfer
<1>2. m.room \in RoomIds /\ m.player \in Members(m.room)
  BY CallerFound DEF SeatInv
<1>3. /\ hosts' \subseteq Players /\ \A q \in hosts' : Sits(q)
      /\ Members(m.room) \intersect hosts' = {t} /\ hosts' \ hosts \subseteq {t}
      /\ \A x \in RoomIds \ {m.room} : Members(x) \intersect hosts' = Members(x) \intersect hosts
  BY <1>1, <1>2, HostGiven
<1>4. /\ \A q \in hosts' : q # m.player
      /\ (Members(m.room) \ {m.player}) \intersect hosts' = {t}
      /\ \A q \in hosts' \ hosts : q \in Members(m.room) /\ Online(q)
  BY <1>1, <1>2, <1>3
<1> QED BY <1>1, <1>2, <1>3, <1>4, SeatDeparts

LEMMA SeatTransfer ==
  ASSUME SeatInv, NoneAssumption, NEW s \in Sockets, NEW t \in Players, TransferHost(s, t)
  PROVE  SeatInv'
<1>1. PICK r \in RoomIds :
        /\ t \in Members(r) /\ Online(t) /\ HostIs(r, t)
        /\ UNCHANGED <<roster, socketOf, grants, strays, prompt, game, open, payload, pipelined>>
  BY CallerSits DEF TransferHost, recovery
<1>2. /\ hosts' \subseteq Players /\ \A q \in hosts' : Sits(q)
      /\ Members(r) \intersect hosts' = {t} /\ hosts' \ hosts \subseteq {t}
      /\ \A x \in RoomIds \ {r} : Members(x) \intersect hosts' = Members(x) \intersect hosts
  BY <1>1, HostGiven
<1>3. \A x : (Members(x)' = Members(x) /\ Exists(x)' = Exists(x))
  BY <1>1 DEF Members, Exists
<1>4. SeatTypes' /\ OneRoomEach' /\ OnlineSit' /\ HostsSit'
  BY <1>1, <1>2 DEF SeatInv, SeatTypes, SideTypes, OneRoomEach, OnlineSit, HostsSit, Sits,
                    Members, Online, Distinct
<1>5. PacketTypes' /\ OneArrival' /\ LeavingKept
  BY <1>1, PacketsStay DEF SocketsLet
<1>6. ASSUME NEW x \in RoomIds PROVE Hosted(x)'
  <2>1. CASE x = r
    BY <1>1, <1>2, <1>3, <2>1 DEF Hosted
  <2>2. CASE x # r
    BY <1>2, <1>3, <2>2 DEF SeatInv, Hosted
  <2> QED BY <2>1, <2>2
<1>7. \A x \in RoomIds : CodesServe(x)'
  <2>1. ASSUME NEW x \in RoomIds, NEW q \in Players, Waiting(x, q) PROVE Waiting(x, q)'
    BY <1>1, <1>2, <1>3, <1>5, <2>1 DEF Waiting, Awaited, Online, LeavingKept
  <2> QED BY <1>1, <2>1, CodesSame DEF recovery
<1>8. \A x \in RoomIds : PromptWaits(x)'
  BY <1>1, <1>3, <1>5, PromptsKept DEF InLobby
<1>9. \A x \in Sockets : Held(x)'
  BY <1>1 DEF SeatInv, Held
<1> QED BY <1>4, <1>5, <1>6, <1>7, <1>8, <1>9 DEF SeatInv

LEMMA SeatClose ==
  ASSUME SeatInv, TimingType, NoneAssumption, NEW s \in Sockets, CloseRoom(s)
  PROVE  SeatInv'
<1>0. PICK r \in RoomIds :
        /\ roster' = [roster EXCEPT ![r] = <<>>]
        /\ hosts' = hosts \ Members(r)
        /\ socketOf' = [p \in Players |-> IF p \in Members(r) THEN None ELSE socketOf[p]]
        /\ NoCodes(r, Players)
        /\ prompt' = [prompt EXCEPT ![r] = NoPrompt]
        /\ game' = [game EXCEPT ![r] = "lobby"]
        /\ pending' = [k \in Packets |-> IF pending[k].room = r THEN Idle ELSE pending[k]]
        /\ UNCHANGED <<open, pipelined>>
  BY CallerSits DEF CloseRoom, GameIs
<1>1. /\ roster' \in [RoomIds -> Seq(Players)] /\ OneRoomEach'
      /\ Members(r)' = {} /\ ~Exists(r)'
      /\ \A x \in RoomIds \ {r} : Members(x)' = Members(x) /\ Exists(x)' = Exists(x)
      /\ \A p : Sits(p)' <=> \E x \in RoomIds \ {r} : p \in Members(x)
  <2> DEFINE seats == <<>>
  <2>1. seats \in Seq(Players) /\ Distinct(seats) /\ Range(seats) = {}
    BY DEF Distinct, Range
  <2> HIDE DEF seats
  <2>2. roster' = [roster EXCEPT ![r] = seats]
    BY <1>0 DEF seats
  <2>3. \A q \in Range(seats) : q \in Members(r) \/ ~Sits(q)
    BY <2>1
  <2> QED BY <2>1, <2>2, <2>3, SeatsChanged
<1>2. /\ socketOf' \in [Players -> Sockets \union {None}]
      /\ \A p \in Members(r) : p \in Players => socketOf'[p] = None
      /\ \A p \in Players : socketOf'[p] = socketOf[p] \/ socketOf'[p] = None
  BY <1>0 DEF SeatInv, SeatTypes
<1>3. /\ PacketTypes' /\ OneArrival'
      /\ \A x, q : x # r /\ Leaving(x, q) => Leaving(x, q)'
  BY <1>0, <1>2, PacketsDropped DEF SocketsLet
<1>4. \A p : Sits(p)' <=> Sits(p) /\ p \notin Members(r)
  BY <1>1 DEF Sits, SeatInv, OneRoomEach
<1>5. OnlineSit' /\ HostsSit'
  BY <1>0, <1>2, <1>4 DEF SeatInv, OnlineSit, HostsSit, Online
<1>6. \A x \in Sockets : Held(x)'
  BY <1>0, <1>2, SocketsGivenUp
<1>7. ASSUME NEW x \in RoomIds PROVE Hosted(x)'
  <2>1. CASE x = r
    BY <1>1, <2>1 DEF Hosted
  <2>2. CASE x # r
    <3>1. Members(x) \intersect hosts' = Members(x) \intersect hosts
      BY <1>0, <2>2, RoomsApart
    <3> QED BY <1>1, <2>2, <3>1 DEF SeatInv, Hosted
  <2> QED BY <2>1, <2>2
<1>8. /\ \A x \in RoomIds : CodesServe(x)'
      /\ grants' \in [RoomIds -> [Players -> Nat]] /\ strays' \in [RoomIds -> SUBSET Players]
  <2>1. ASSUME NEW x \in RoomIds, NEW q \in Players, x # r \/ q \notin Players, Waiting(x, q)
        PROVE  Waiting(x, q)'
    BY <1>0, <1>1, <1>2, <1>3, <2>1 DEF Waiting, Awaited, Online
  <2> QED BY <1>0, <2>1, CodesGone
<1>9. prompt' \in [RoomIds -> Prompts] /\ \A x \in RoomIds : PromptWaits(x)'
  <2>1. \A x \in RoomIds \ {r} : game'[x] = game[x] /\ Members(x)' = Members(x)
    BY <1>0, <1>1 DEF TimingType
  <2> QED BY <1>0, <1>3, <2>1, PromptDropped
<1>10. SeatTypes'
  <2>1. hosts' \subseteq Players
    BY <1>0 DEF SeatInv, SeatTypes
  <2> QED BY <1>0, <1>1, <1>2, <1>8, <1>9, <2>1 DEF SeatInv, SeatTypes, SideTypes
<1> QED BY <1>1, <1>3, <1>5, <1>6, <1>7, <1>8, <1>9, <1>10 DEF SeatInv

-----------------------------------------------------------------------------
LEMMA SeatInit ==
  ASSUME Init, NoneAssumption
  PROVE  SeatInv
<1>1. SeatTypes
  BY DEF Init, SeatTypes, SideTypes, NoPrompt, Prompts
<1>2. \A r \in RoomIds : Members(r) = {} /\ ~Exists(r)
  BY DEF Init, Members, Range, Exists
<1>3. OneRoomEach /\ OnlineSit /\ HostsSit
  BY <1>2 DEF Init, OneRoomEach, OnlineSit, HostsSit, Online, Distinct
<1>4. \A r \in RoomIds : Hosted(r) /\ CodesServe(r) /\ PromptWaits(r)
  BY <1>2 DEF Init, Hosted, CodesServe, PromptWaits
<1>5. \A s \in Sockets : Held(s)
  BY DEF Init, Held, NoneAssumption
<1>6. PacketTypes /\ OneArrival
  BY DEF Init, PacketTypes, OneArrival, Idle, Arrivals
<1> QED BY <1>1, <1>3, <1>4, <1>5, <1>6 DEF SeatInv

LEMMA SeatNext ==
  ASSUME SeatInv, TimingInv, NoneAssumption, ActionAssumption, [Next]_vars
  PROVE  SeatInv'
<1>0. TimingType
  BY DEF TimingInv
<1>1. CASE UNCHANGED vars
  BY <1>1, SeatTimeouts DEF vars, seating, recovery, payload
<1>2. ASSUME NEW s \in Sockets,
             \/ Connect(s) \/ Disconnect(s) \/ CloseRoom(s) \/ AckPrompt(s) \/ SubmitPrompt(s)
             \/ \E l \in Limits : SetTimeout(s, l)
             \/ Extend(s)
             \/ \E t \in Players : TransferHost(s, t) \/ SendPrompt(s, t)
             \/ \E t \in Players, i \in 1 .. Cardinality(Players) : MoveSeat(s, t, i)
      PROVE  SeatInv'
  <2>1. CASE (\E l \in Limits : SetTimeout(s, l)) \/ Extend(s)
    BY <2>1, SeatTimeouts DEF SetTimeout, Extend
  <2> QED BY <1>0, <1>2, <2>1, SeatConnect, SeatDisconnect, SeatClose, SeatPrompts, SeatTransfer,
             SeatMove
<1>3. ASSUME NEW k \in Packets, NEW s \in Sockets,
             \/ \E r \in RoomIds :
                  \/ CreateRoom(k, s, r) \/ JoinRoom(k, s, r) \/ ClaimRecovery(k, s, r)
                  \/ \E p \in Players : Resume(k, s, r, p)
             \/ \E t \in Players : RemovePlayer(k, s, t) \/ LeaveAndTransfer(k, s, t)
             \/ \E t \in Players : IssueRecovery(k, s, t)
             \/ LeaveRoom(k, s)
             \/ \E at \in Commands : Command(k, s, at)
      PROVE  SeatInv'
  <2>1. CASE \E r \in RoomIds :
               \/ CreateRoom(k, s, r) \/ JoinRoom(k, s, r) \/ ClaimRecovery(k, s, r)
               \/ \E p \in Players : Resume(k, s, r, p)
    <3>1. \E at \in Arrivals : \E r \in RoomIds : \E p : Arrives(k, at, s, r, p)
      BY <2>1 DEF CreateRoom, JoinRoom, ClaimRecovery, Resume, Arrivals
    <3> QED BY <3>1, SeatArrives
  <2> QED BY <1>3, <2>1, SeatRemove, SeatLeaveAndTransfer, SeatIssue, SeatLeave, SeatCommand
<1>4. ASSUME NEW k \in Packets,
             \/ GivenUp(k)
             \/ \E r \in RoomIds :
                  \/ Resumed(k, r) \/ Issued(k, r) \/ ClaimFails(k, r) \/ Departed(k, r)
                  \/ Started(k, r) \/ Restarted(k, r) \/ Played(k, r) \/ Aborted(k, r)
                  \/ \E p \in Players : RoomCreated(k, r, p) \/ Joined(k, r, p) \/ Claimed(k, r, p)
      PROVE  SeatInv'
  BY <1>0, <1>4, SeatGivenUp, SeatResumed, SeatIssued, SeatClaimFails, SeatDeparted, SeatGames,
     SeatRoomCreated, SeatJoined, SeatClaimed
<1>5. CASE Tick
  BY <1>5, SeatTick
<1> QED BY <1>1, <1>2, <1>3, <1>4, <1>5 DEF Next

\* Each player has one seat in one room, each room one host, each connection
\* one member unless it asked for two in one payload; codes and prompts are
\* about members they may still be about, or about one whose departure a
\* handler of the payload at hand has not finished.
THEOREM SeatsHold == Spec => []SeatInv
<1> USE NoneAssumption, ActionAssumption
<1>1. Init => SeatInv BY SeatInit
<1>2. SeatInv /\ TimingInv /\ [Next]_vars => SeatInv' BY SeatNext
<1> QED BY <1>1, <1>2, TimingHolds, PTL DEF Spec

\* However the packets of one payload overlap (server.ts), when the payload is
\* done a room has one host, a connection one seat unless it asked for two, and
\* recovery codes (but those that strays names) and test prompts are about
\* members they may still be about.
THEOREM RoomsStaySound == Spec => []RoomsSound
<1>1. ASSUME SeatInv, NEW r \in RoomIds PROVE OneHost(r)
  <2>1. SUFFICES ASSUME Exists(r) PROVE Cardinality(Members(r) \intersect hosts) = 1
    BY DEF OneHost
  <2>2. PICK h : Members(r) \intersect hosts = {h}
    BY <1>1, <2>1 DEF SeatInv, Hosted
  <2> QED BY <2>2, FS_Singleton
<1>2. ASSUME SeatInv, NEW s \in Sockets PROVE OneSeat(s)
  <2> DEFINE on == {p \in Players : socketOf[p] = s}
  <2>1. SUFFICES ASSUME s \notin pipelined
                 PROVE  Cardinality(on) <= 1 /\ (on # {} => s \in open)
    BY DEF OneSeat
  <2>2. CASE on = {}
    BY <2>2, FS_EmptySet
  <2>3. CASE on # {}
    <3>1. PICK p \in on : TRUE
      BY <2>3
    <3>2. s \in open /\ on = {p}
      BY <1>2, <2>1, <3>1 DEF SeatInv, Held
    <3> HIDE DEF on
    <3>3. Cardinality(on) = 1
      BY <3>2, FS_Singleton
    <3> QED BY <3>2, <3>3
  <2> QED BY <2>2, <2>3
<1>3. ASSUME SeatInv, Quiet, NEW r \in RoomIds PROVE GrantsServe(r) /\ PromptServes(r)
  <2>1. \A p : ~Leaving(r, p)
    BY <1>3 DEF Quiet, Leaving, Idle
  <2> QED BY <1>3, <2>1 DEF SeatInv, CodesServe, Waiting, GrantsServe, PromptWaits, PromptServes
<1>4. SeatInv => RoomsSound
  BY <1>1, <1>2, <1>3 DEF RoomsSound
<1> QED BY <1>4, SeatsHold, PTL


-----------------------------------------------------------------------------
\* What each connection is shown.

\* Nothing that a view of room x shows has changed.
Untouched(x) ==
  /\ roster'[x] = roster[x] /\ game'[x] = game[x] /\ prompt'[x] = prompt[x]
  /\ \A p \in Members(x) : socketOf'[p] = socketOf[p]
  /\ Members(x) \intersect hosts' = Members(x) \intersect hosts

\* Somebody has left r, which the handler has not shown yet.
Unsettled(r) == \E k \in Packets : pending[k].at = "depart" /\ pending[k].room = r
ViewsNow(r) ==
  \A p \in Members(r) : socketOf[p] \in open \ pipelined => seen[socketOf[p]] = View(r, p)
ViewsHold == \A r \in RoomIds : Unsettled(r) \/ ViewsNow(r)

StaysBehind(x) == Unsettled(x) => Unsettled(x)'
Elsewhere(x) == Untouched(x) /\ StaysBehind(x)

LEMMA ViewKept ==
  ASSUME SeatTypes, NEW x \in RoomIds, Untouched(x), NEW p \in Members(x)
  PROVE  View(x, p)' = View(x, p)
<1>1. \A i \in DOMAIN roster[x] : roster[x][i] \in Members(x)
  BY DEF Members, Range
<1>2. \A q \in Members(x) : (q \in hosts' <=> q \in hosts)
  BY DEF Untouched
<1> DEFINE seat(i) == [id |-> roster[x][i], connected |-> Online(roster[x][i]),
                       isHost |-> roster[x][i] \in hosts]
<1>3. ASSUME NEW i \in DOMAIN roster[x] PROVE seat(i)' = seat(i)
  <2>1. (roster'[x][i] \in hosts') = (roster[x][i] \in hosts)
    BY <1>1, <1>2 DEF Untouched
  <2>2. Online(roster[x][i])' = Online(roster[x][i])
    BY <1>1, <1>2 DEF Untouched, Online
  <2>3. roster'[x][i] = roster[x][i]
    BY DEF Untouched
  <2> QED BY <2>1, <2>2, <2>3, Zenon
<1>4. [i \in DOMAIN roster[x] |-> seat(i)]' = [i \in DOMAIN roster[x] |-> seat(i)]
  <2>1. DOMAIN roster'[x] = DOMAIN roster[x]
    BY DEF Untouched
  <2> HIDE DEF seat
  <2> QED BY <1>3, <2>1, Zenon
<1>5. (IF p \in hosts THEN prompt[x] ELSE NoPrompt)' = (IF p \in hosts THEN prompt[x] ELSE NoPrompt)
  BY <1>2 DEF Untouched
<1>6. game'[x] = game[x]
  BY DEF Untouched
<1> QED BY <1>4, <1>5, <1>6, Zenon DEF View

LEMMA ReverseRange ==
  ASSUME NEW seats \in Seq(Players)
  PROVE  Reverse(seats) \in Seq(Players) /\ Range(Reverse(seats)) = Range(seats)
<1>1. /\ Reverse(seats) \in Seq(Players) /\ DOMAIN Reverse(seats) = 1 .. Len(seats)
      /\ \A i \in 1 .. Len(seats) : Reverse(seats)[i] = seats[Len(seats) - i + 1]
  BY DEF Reverse
<1>2. \A i \in 1 .. Len(seats) : /\ Len(seats) - i + 1 \in 1 .. Len(seats)
                                 /\ Len(seats) - (Len(seats) - i + 1) + 1 = i
  OBVIOUS
<1> DEFINE back == Reverse(seats)
<1> HIDE DEF back
<1>3. \A i \in 1 .. Len(seats) : \E j \in 1 .. Len(seats) : back[i] = seats[j]
  BY <1>1, <1>2 DEF back
<1>4. \A i \in 1 .. Len(seats) : \E j \in 1 .. Len(seats) : back[j] = seats[i]
  BY <1>1, <1>2 DEF back
<1>5. DOMAIN back = 1 .. Len(seats) /\ DOMAIN seats = 1 .. Len(seats)
  BY <1>1 DEF back
<1>6. Range(back) = Range(seats)
  <2>1. \A y \in Range(back) : y \in Range(seats)
    BY <1>3, <1>5 DEF Range
  <2>2. \A y \in Range(seats) : y \in Range(back)
    BY <1>4, <1>5 DEF Range
  <2> QED BY <2>1, <2>2
<1> QED BY <1>1, <1>6 DEF back

\* A connection with one member: findMembership finds it, whichever way the
\* seats are gone through; a connection without a member in a room is not
\* served there.
Served ==
  /\ \A r \in RoomIds : Members(r) \subseteq Players
  /\ \A r \in RoomIds : \A p \in Members(r) : \A s \in Sockets \ pipelined :
       socketOf[p] = s =>
         /\ LastSeat(r, s) = p /\ s \in open
         /\ \A x \in RoomIds : \A q \in Members(x) : socketOf[q] = s => x = r /\ q = p
  /\ \A r \in RoomIds : \A s \in Sockets :
       (\A q \in Members(r) : socketOf[q] # s) => LastSeat(r, s) = None

LEMMA ServedSound == SeatInv => Served
<1> SUFFICES ASSUME SeatInv PROVE Served
  OBVIOUS
<1>1. \A r \in RoomIds : Members(r) \subseteq Players
  BY MembersSit DEF SeatInv
<1>2. ASSUME NEW r \in RoomIds, NEW s \in Sockets
      PROVE  \/ /\ LastSeat(r, s) = None
                /\ \A p \in Members(r) : socketOf[p] # s
             \/ LastSeat(r, s) \in Members(r) /\ socketOf[LastSeat(r, s)] = s
  <2> DEFINE back == Reverse(roster[r])
  <2>1. back \in Seq(Players) /\ Range(back) = Members(r)
    BY ReverseRange DEF Members, SeatInv, SeatTypes
  <2>2. LastSeat(r, s) = FirstSeat(back, socketOf, s)
    BY DEF LastSeat
  <2> HIDE DEF back
  <2> QED BY <2>1, <2>2, SeatFound
<1>3. ASSUME NEW r \in RoomIds, NEW p \in Members(r), NEW s \in Sockets \ pipelined,
             socketOf[p] = s
      PROVE  /\ LastSeat(r, s) = p /\ s \in open
             /\ \A x \in RoomIds : \A q \in Members(x) : socketOf[q] = s => x = r /\ q = p
  <2>1. s \in open /\ \A q \in Players : socketOf[q] = s => q = p
    BY <1>1, <1>3 DEF SeatInv, Held
  <2>2. \A x \in RoomIds : \A q \in Members(x) : socketOf[q] = s => x = r /\ q = p
    BY <1>1, <2>1 DEF SeatInv, OneRoomEach
  <2>3. LastSeat(r, s) = p
    BY <1>2, <1>3, <2>2
  <2> QED BY <2>1, <2>2, <2>3
<1>4. ASSUME NEW r \in RoomIds, NEW s \in Sockets, \A q \in Members(r) : socketOf[q] # s
      PROVE  LastSeat(r, s) = None
  BY <1>2, <1>4
<1> QED BY <1>1, <1>3, <1>4 DEF Served

LEMMA BothServed ==
  ASSUME SeatInv, SeatInv'
  PROVE  /\ Served /\ Served' /\ SeatTypes /\ SeatTypes'
<1>1. (SeatInv => Served)'
  BY ServedSound, PTL
<1> QED BY <1>1, ServedSound DEF SeatInv

\* A broadcast of r reaches the members of r and nobody else that sits alone.
LEMMA ShownAt ==
  ASSUME Served', SeatTypes', NoneAssumption, NEW r \in RoomIds, NEW before,
         NEW x \in RoomIds, NEW p \in Members(x)', NEW s, s = socketOf'[p],
         s \in open', s \notin pipelined'
  PROVE  /\ x = r => Shown(r, before)[s] = View(x, p)'
         /\ x # r => Shown(r, before)[s] = before[s]
<1>0. s \in Sockets \ pipelined' /\ p \in Players
  BY DEF SeatTypes, Served
<1>1. Shown(r, before)[s] = IF s \in open' /\ LastSeat(r, s)' # None THEN View(r, LastSeat(r, s))'
                            ELSE before[s]
  BY <1>0 DEF Shown
<1>2. CASE x = r
  <2>1. LastSeat(r, s)' = p
    BY <1>0, <1>2 DEF Served
  <2>2. p # None
    BY <1>0 DEF NoneAssumption
  <2>3. (View(r, LastSeat(r, s)))' = View(r, p)'
    BY <2>1 DEF View
  <2> QED BY <1>1, <1>2, <2>1, <2>2, <2>3
<1>3. CASE x # r
  <2>1. \A q \in Members(r)' : socketOf'[q] # s
    BY <1>0, <1>3 DEF Served
  <2>2. LastSeat(r, s)' = None
    BY <1>0, <2>1 DEF Served
  <2> QED BY <1>1, <1>3, <2>2
<1> QED BY <1>2, <1>3

\* The connections of members elsewhere still show what they showed.
SeenKept(x, now) ==
  \A p \in Members(x) : socketOf[p] \in open' \ pipelined' =>
    socketOf[p] \in open \ pipelined /\ now[socketOf[p]] = seen[socketOf[p]]

LEMMA StillShown ==
  ASSUME SeatTypes, ViewsHold, NEW x \in RoomIds, Untouched(x), NEW now, SeenKept(x, now),
         NEW p \in Members(x)', socketOf'[p] \in open' \ pipelined', ~Unsettled(x)
  PROVE  now[socketOf'[p]] = View(x, p)'
<1>1. p \in Members(x) /\ socketOf'[p] = socketOf[p]
  BY DEF Untouched, Members
<1>2. View(x, p)' = View(x, p)
  BY <1>1, ViewKept
<1> QED BY <1>1, <1>2 DEF ViewsHold, ViewsNow, SeenKept

\* A step after which nobody is shown anything new.
LEMMA NothingShown ==
  ASSUME SeatInv, ViewsHold,
         \A x \in RoomIds : \/ Unsettled(x)'
                            \/ Members(x)' = {}
                            \/ Elsewhere(x) /\ SeenKept(x, seen')
  PROVE  ViewsHold'
<1>1. ASSUME NEW x \in RoomIds, ~Unsettled(x)', NEW p \in Members(x)',
             socketOf'[p] \in open' \ pipelined'
      PROVE  seen'[socketOf'[p]] = View(x, p)'
  <2>1. Untouched(x) /\ ~Unsettled(x) /\ SeenKept(x, seen')
    BY <1>1 DEF Elsewhere, StaysBehind
  <2> DEFINE now == seen'
  <2>2. SeenKept(x, now)
    BY <2>1
  <2> HIDE DEF now
  <2>3. now[socketOf'[p]] = View(x, p)'
    BY <1>1, <2>1, <2>2, StillShown DEF SeatInv
  <2> QED BY <2>3 DEF now
<1> QED BY <1>1 DEF ViewsHold, ViewsNow

\* Who was connected and alone before, and shown the same.
NoNewSocket(before) ==
  \A s \in open' \ pipelined' : s \in open \ pipelined /\ before[s] = seen[s]

\* A handler that ends with the broadcast of the one room it changed.
LEMMA OneRoomShown ==
  ASSUME SeatInv, SeatInv', NoneAssumption, ViewsHold, NEW r \in RoomIds, NEW before,
         seen' = Shown(r, before), NoNewSocket(before),
         \A x \in RoomIds \ {r} : Elsewhere(x)
  PROVE  ViewsHold'
<1>1. Served' /\ SeatTypes' /\ SeatTypes
  BY BothServed
<1>2. ASSUME NEW x \in RoomIds, ~Unsettled(x)', NEW p \in Members(x)',
             NEW s, s = socketOf'[p], s \in open', s \notin pipelined'
      PROVE  seen'[s] = View(x, p)'
  <2>1. CASE x = r
    BY <1>1, <1>2, <2>1, ShownAt
  <2>2. CASE x # r
    <3>1. seen'[s] = before[s]
      BY <1>1, <1>2, <2>2, ShownAt
    <3>2. Untouched(x) /\ ~Unsettled(x)
      BY <1>2, <2>2 DEF Elsewhere, StaysBehind
    <3>3. SeenKept(x, before)
      BY DEF NoNewSocket, SeenKept
    <3>4. before[s] = View(x, p)'
      BY <1>1, <1>2, <3>2, <3>3, StillShown
    <3> QED BY <3>1, <3>4
  <2> QED BY <2>1, <2>2
<1> QED BY <1>2 DEF ViewsHold, ViewsNow

\* The same for two rooms, one after the other.
LEMMA TwoRoomsShown ==
  ASSUME SeatInv, SeatInv', NoneAssumption, ViewsHold, NEW r \in RoomIds, NEW y \in RoomIds,
         NEW before, seen' = Shown(r, Shown(y, before)), NoNewSocket(before),
         \A x \in RoomIds \ {r, y} : Elsewhere(x)
  PROVE  ViewsHold'
<1>1. Served' /\ SeatTypes' /\ SeatTypes
  BY BothServed
<1> DEFINE between == Shown(y, before)
<1>2. ASSUME NEW x \in RoomIds, ~Unsettled(x)', NEW p \in Members(x)',
             NEW s, s = socketOf'[p], s \in open', s \notin pipelined'
      PROVE  seen'[s] = View(x, p)'
  <2>0. /\ x = y => between[s] = View(x, p)'
        /\ x # y => between[s] = before[s]
    BY <1>1, <1>2, ShownAt
  <2>a. seen' = Shown(r, between)
    OBVIOUS
  <2> HIDE DEF between
  <2>1. CASE x = r
    BY <1>1, <1>2, <2>a, <2>1, ShownAt
  <2>2. CASE x # r
    <3>1. seen'[s] = between[s]
      BY <1>1, <1>2, <2>a, <2>2, ShownAt
    <3>2. CASE x = y
      BY <2>0, <3>1, <3>2
    <3>3. CASE x # y
      <4>1. Untouched(x) /\ ~Unsettled(x)
        BY <1>2, <2>2, <3>3 DEF Elsewhere, StaysBehind
      <4>2. SeenKept(x, before)
        BY DEF NoNewSocket, SeenKept
      <4>3. before[s] = View(x, p)'
        BY <1>1, <1>2, <4>1, <4>2, StillShown
      <4> QED BY <2>0, <3>1, <3>3, <4>3
    <3> QED BY <3>2, <3>3
  <2> QED BY <2>1, <2>2
<1> QED BY <1>2 DEF ViewsHold, ViewsNow

\* Which rooms are behind.
LEMMA BeginsStay ==
  ASSUME SeatInv, NEW k \in Packets, NEW at, NEW s, NEW r, NEW p, Begins(k, at, s, r, p)
  PROVE  (\A x : StaysBehind(x)) /\ (at = "depart" => Unsettled(r)')
<1> DEFINE new == [at |-> at, by |-> s, room |-> r, player |-> p,
                   count |-> IF at \in Commands THEN Len(roster[r]) ELSE 0]
<1>1. pending[k] = Idle /\ pending' = [pending EXCEPT ![k] = new] /\ DOMAIN pending = Packets
  BY DEF Begins, SeatInv, PacketTypes
<1>2. new.at = at /\ new.room = r
  OBVIOUS
<1> HIDE DEF new
<1> QED BY <1>1, <1>2 DEF StaysBehind, Unsettled, Idle

LEMMA EndsStay ==
  ASSUME SeatInv, NEW k \in Packets, NEW at, NEW r, Ends(k, at, r)
  PROVE  \A x : at # "depart" \/ x # r => StaysBehind(x)
BY DEF Ends, SeatInv, PacketTypes, StaysBehind, Unsettled

LEMMA PayloadStays ==
  ASSUME UNCHANGED payload
  PROVE  \A x : StaysBehind(x)
BY DEF payload, StaysBehind, Unsettled

\* Handlers that change nothing that is shown.
LEMMA QuietShown ==
  ASSUME SeatInv, ViewsHold, UNCHANGED <<roster, hosts, socketOf, prompt, game, seen>>,
         \A s \in open' \ pipelined' :
           s \in open \ pipelined \/ \A p \in Players : socketOf[p] # s,
         \A x : StaysBehind(x)
  PROVE  ViewsHold'
<1>1. ASSUME NEW x \in RoomIds PROVE Elsewhere(x) /\ SeenKept(x, seen')
  <2>1. Members(x) \subseteq Players
    BY MembersSit DEF SeatInv
  <2> QED BY <2>1 DEF Elsewhere, Untouched, SeenKept
<1> QED BY <1>1, NothingShown

LEMMA QuietEventsShown ==
  ASSUME SeatInv, NoneAssumption, ViewsHold,
         \/ \E s \in Sockets : Connect(s) \/ Extend(s) \/ \E l \in Limits : SetTimeout(s, l)
         \/ UNCHANGED vars
  PROVE  ViewsHold'
<1>1. /\ UNCHANGED <<roster, hosts, socketOf, prompt, game, seen, payload>>
      /\ \/ UNCHANGED <<open, pipelined>>
         \/ \E s \in FreshSockets : open' = open \union {s} /\ pipelined' = pipelined \ {s}
  BY DEF Connect, Extend, SetTimeout, vars, seating, payload
<1>2. \A s \in open' \ pipelined' :
        s \in open \ pipelined \/ \A p \in Players : socketOf[p] # s
  BY <1>1 DEF FreshSockets
<1> QED BY <1>1, <1>2, PayloadStays, QuietShown

LEMMA QuietBeginsShown ==
  ASSUME SeatInv, NoneAssumption, ViewsHold, NEW k \in Packets, NEW s \in Sockets,
         \/ \E at, r, p : Arrives(k, at, s, r, p)
         \/ \E t \in Players : IssueRecovery(k, s, t)
         \/ \E at \in Commands : Command(k, s, at)
  PROVE  ViewsHold'
<1>1. /\ \E at, r, p : Begins(k, at, s, r, p)
      /\ UNCHANGED <<roster, hosts, socketOf, prompt, game, seen, open>>
      /\ pipelined \subseteq pipelined'
  <2>1. CASE \E at, r, p : Arrives(k, at, s, r, p)
    BY <2>1 DEF Arrives, seating
  <2>2. CASE \E t \in Players : IssueRecovery(k, s, t)
    BY <2>2 DEF IssueRecovery, seating
  <2>3. CASE \E at \in Commands : Command(k, s, at)
    BY <2>3 DEF Command, seating
  <2> QED BY <2>1, <2>2, <2>3
<1>2. \A x : StaysBehind(x)
  BY <1>1, BeginsStay
<1> QED BY <1>1, <1>2, QuietShown

LEMMA QuietEndsShown ==
  ASSUME SeatInv, NoneAssumption, ViewsHold, NEW k \in Packets,
         GivenUp(k) \/ \E r \in RoomIds : Issued(k, r) \/ ClaimFails(k, r)
  PROVE  ViewsHold'
<1>1. /\ \E at, r : at # "depart" /\ Ends(k, at, r)
      /\ UNCHANGED <<roster, hosts, socketOf, prompt, game, seen, open, pipelined>>
  <2>1. CASE GivenUp(k)
    <3>1. pending[k].at # "depart"
      BY <2>1 DEF GivenUp, Arrivals, Commands
    <3> QED BY <2>1, <3>1 DEF GivenUp, seating
  <2>2. CASE \E r \in RoomIds : Issued(k, r) \/ ClaimFails(k, r)
    BY <2>2 DEF Issued, ClaimFails, seating
  <2> QED BY <2>1, <2>2
<1>2. \A x : StaysBehind(x)
  BY <1>1, EndsStay
<1> QED BY <1>1, <1>2, QuietShown

\* Handlers without an await that change one room.
LEMMA HandlersShown ==
  ASSUME SeatInv, SeatInv', NoneAssumption, ViewsHold, NEW s \in Sockets,
         \/ AckPrompt(s) \/ SubmitPrompt(s)
         \/ \E t \in Players : SendPrompt(s, t) \/ TransferHost(s, t)
         \/ \E t \in Players, i \in 1 .. Cardinality(Players) : MoveSeat(s, t, i)
  PROVE  ViewsHold'
<1>1. /\ UNCHANGED <<socketOf, game, open, payload, pipelined>>
      /\ \E r \in RoomIds :
           /\ seen' = Shown(r, seen)
           /\ \A x \in RoomIds \ {r} :
                /\ roster'[x] = roster[x] /\ prompt'[x] = prompt[x]
                /\ Members(x) \intersect hosts' = Members(x) \intersect hosts
  <2>1. CASE AckPrompt(s) \/ SubmitPrompt(s)
    <3>1. PICK m \in Callers(s) :
            /\ \E status : prompt' = [prompt EXCEPT ![m.room].status = status]
            /\ UNCHANGED <<roster, hosts, socketOf, game, open, payload, pipelined>>
            /\ seen' = Shown(m.room, seen)
      BY <2>1 DEF AckPrompt, SubmitPrompt, Broadcast, seating
    <3> QED BY <3>1, CallerSits DEF SeatInv, SeatTypes, SideTypes
  <2>2. CASE \E t \in Players : SendPrompt(s, t)
    <3>1. PICK m \in Callers(s) :
            /\ \E asked : prompt' = [prompt EXCEPT ![m.room] = asked]
            /\ UNCHANGED <<roster, hosts, socketOf, game, open, payload, pipelined>>
            /\ seen' = Shown(m.room, seen)
      BY <2>2 DEF SendPrompt, Broadcast, seating
    <3> QED BY <3>1, CallerSits DEF SeatInv, SeatTypes, SideTypes
  <2>3. CASE \E t \in Players : TransferHost(s, t)
    <3>1. PICK r \in RoomIds, t \in Players :
            /\ t \in Members(r) /\ HostIs(r, t)
            /\ UNCHANGED <<roster, prompt, socketOf, game, open, payload, pipelined>>
            /\ seen' = Shown(r, seen)
      BY <2>3, CallerSits DEF TransferHost, Broadcast
    <3> QED BY <3>1, HostGiven
  <2>4. CASE \E t \in Players, i \in 1 .. Cardinality(Players) : MoveSeat(s, t, i)
    <3>1. PICK m \in Callers(s) :
            /\ \E seats : roster' = [roster EXCEPT ![m.room] = seats]
            /\ UNCHANGED <<hosts, prompt, socketOf, game, open, payload, pipelined>>
            /\ seen' = Shown(m.room, seen)
      BY <2>4 DEF MoveSeat, Broadcast
    <3> QED BY <3>1, CallerSits DEF SeatInv, SeatTypes
  <2> QED BY <2>1, <2>2, <2>3, <2>4
<1>2. PICK r \in RoomIds :
        /\ seen' = Shown(r, seen)
        /\ \A x \in RoomIds \ {r} :
             /\ roster'[x] = roster[x] /\ prompt'[x] = prompt[x]
             /\ Members(x) \intersect hosts' = Members(x) \intersect hosts
  BY <1>1
<1>3. \A x \in RoomIds \ {r} : Elsewhere(x)
  BY <1>1, <1>2, PayloadStays DEF Elsewhere, Untouched
<1>4. NoNewSocket(seen)
  BY <1>1 DEF NoNewSocket
<1> QED BY <1>2, <1>3, <1>4, OneRoomShown

\* Starting, restarting, ending and playing a game, and the end of a departure.
LEMMA GamesShown ==
  ASSUME SeatInv, SeatInv', TimingType, NoneAssumption, ViewsHold,
         NEW k \in Packets, NEW r \in RoomIds,
         \/ Started(k, r) \/ Restarted(k, r) \/ Played(k, r) \/ Aborted(k, r) \/ Departed(k, r)
  PROVE  ViewsHold'
<1>1. /\ \E at : Ends(k, at, r)
      /\ game' = game \/ \E next : game' = [game EXCEPT ![r] = next]
      /\ prompt' = prompt \/ \E asked : prompt' = [prompt EXCEPT ![r] = asked]
      /\ UNCHANGED <<roster, hosts, socketOf, open, pipelined>>
      /\ seen' = Shown(r, seen)
  <2>1. CASE Started(k, r) \/ Restarted(k, r)
    BY <2>1 DEF Started, Restarted, NewGame, GameIs, Broadcast, seating
  <2>2. CASE Played(k, r)
    <3>1. PICK next \in GoesOn(r) : GameIs(r, next)
      BY <2>2 DEF Played
    <3> QED BY <2>2, <3>1 DEF Played, GameIs, Broadcast, seating
  <2>3. CASE Aborted(k, r)
    BY <2>3 DEF Aborted, GameIs, Broadcast, seating
  <2>4. CASE Departed(k, r)
    BY <2>4 DEF Departed, Broadcast, seating
  <2> QED BY <2>1, <2>2, <2>3, <2>4
<1>2. \A x \in RoomIds \ {r} : game'[x] = game[x] /\ prompt'[x] = prompt[x]
  BY <1>1 DEF SeatInv, SeatTypes, SideTypes, TimingType
<1>3. \A x \in RoomIds \ {r} : Elsewhere(x)
  BY <1>1, <1>2, EndsStay DEF Elsewhere, Untouched
<1>4. NoNewSocket(seen)
  BY <1>1 DEF NoNewSocket
<1> QED BY <1>1, <1>3, <1>4, OneRoomShown

LEMMA RoomCreatedShown ==
  ASSUME SeatInv, SeatInv', TimingType, NoneAssumption, ViewsHold,
         NEW k \in Packets, NEW r \in RoomIds, NEW p \in Players, RoomCreated(k, r, p)
  PROVE  ViewsHold'
<1>1. /\ Ends(k, "create", r) /\ p \in FreshPlayers
      /\ \E seats : roster' = [roster EXCEPT ![r] = seats]
      /\ hosts' = (hosts \ Members(r)) \union {p}
      /\ \A q \in Players \ {p} : q \notin Members(r) => socketOf'[q] = socketOf[q]
      /\ prompt' = [prompt EXCEPT ![r] = NoPrompt] /\ game' = [game EXCEPT ![r] = "lobby"]
      /\ UNCHANGED <<open, pipelined>> /\ seen' = Shown(r, seen)
  BY DEF RoomCreated, GameIs, Broadcast
<1>2. ASSUME NEW x \in RoomIds \ {r} PROVE Elsewhere(x)
  <2>1. /\ p \notin Members(x) /\ Members(x) \subseteq Players
        /\ Members(x) \intersect Members(r) = {}
    BY <1>1, FreshFacts, MembersSit, RoomsApart DEF SeatInv
  <2>2. /\ roster'[x] = roster[x] /\ prompt'[x] = prompt[x] /\ game'[x] = game[x]
    BY <1>1 DEF SeatInv, SeatTypes, SideTypes, TimingType
  <2> QED BY <1>1, <2>1, <2>2, EndsStay DEF Elsewhere, Untouched
<1>3. NoNewSocket(seen)
  BY <1>1 DEF NoNewSocket
<1> QED BY <1>1, <1>2, <1>3, OneRoomShown

LEMMA JoinedShown ==
  ASSUME SeatInv, SeatInv', NoneAssumption, ViewsHold,
         NEW k \in Packets, NEW r \in RoomIds, NEW p \in Players, Joined(k, r, p)
  PROVE  ViewsHold'
<1>1. /\ Ends(k, "join", r) /\ p \in FreshPlayers
      /\ \E seats : roster' = [roster EXCEPT ![r] = seats]
      /\ \E s : socketOf' = [socketOf EXCEPT ![p] = s]
      /\ UNCHANGED <<hosts, prompt, game, open, pipelined>> /\ seen' = Shown(r, seen)
  BY DEF Joined, Broadcast
<1>2. ASSUME NEW x \in RoomIds \ {r} PROVE Elsewhere(x)
  <2>1. p \notin Members(x) /\ Members(x) \subseteq Players
    BY <1>1, FreshFacts, MembersSit DEF SeatInv
  <2>2. roster'[x] = roster[x] /\ \A q \in Members(x) : socketOf'[q] = socketOf[q]
    BY <1>1, <2>1 DEF SeatInv, SeatTypes
  <2> QED BY <1>1, <2>1, <2>2, EndsStay DEF Elsewhere, Untouched
<1>3. NoNewSocket(seen)
  BY <1>1 DEF NoNewSocket
<1> QED BY <1>1, <1>2, <1>3, OneRoomShown

LEMMA ClaimedShown ==
  ASSUME SeatInv, SeatInv', NoneAssumption, ViewsHold,
         NEW k \in Packets, NEW r \in RoomIds, NEW p \in Players, Claimed(k, r, p)
  PROVE  ViewsHold'
<1>1. /\ Ends(k, "claim", r)
      /\ UNCHANGED <<roster, hosts, prompt, game, open, pipelined>>
      /\ \/ /\ p \in Members(r) /\ \E s : socketOf' = [socketOf EXCEPT ![p] = s]
            /\ seen' = Shown(r, seen)
         \/ UNCHANGED <<socketOf, seen>>
  BY DEF Claimed, Awaited, Broadcast
<1>2. CASE /\ p \in Members(r) /\ \E s : socketOf' = [socketOf EXCEPT ![p] = s]
           /\ seen' = Shown(r, seen)
  <2>1. ASSUME NEW x \in RoomIds \ {r} PROVE Elsewhere(x)
    <3>1. \A y \in Members(x) : socketOf'[y] = socketOf[y]
      BY <1>2, RoomsApart, MembersSit DEF SeatInv, SeatTypes
    <3> QED BY <1>1, <3>1, EndsStay DEF Elsewhere, Untouched
  <2>2. NoNewSocket(seen)
    BY <1>1 DEF NoNewSocket
  <2> QED BY <1>2, <2>1, <2>2, OneRoomShown
<1>3. CASE UNCHANGED <<socketOf, seen>>
  <2>1. \A x : StaysBehind(x)
    BY <1>1, EndsStay
  <2> QED BY <1>1, <1>3, <2>1, QuietShown
<1> QED BY <1>1, <1>2, <1>3

\* Whoever else is on a connection that is cut off loses it too.
LEMMA ResumedShown ==
  ASSUME SeatInv, SeatInv', NoneAssumption, ViewsHold,
         NEW k \in Packets, NEW r \in RoomIds, Resumed(k, r)
  PROVE  ViewsHold'
<1> DEFINE p == pending[k].player
           s == pending[k].by
           cut == {socketOf[p]} \intersect (open \ {s})
           taken == [socketOf EXCEPT ![p] = s]
           left == UNION {SeatsOn(taken, c) : c \in cut}
<1>1. /\ Ends(k, "resume", r) /\ p \in Members(r) /\ open' = open \ cut
      /\ UNCHANGED <<roster, hosts, prompt, game, pipelined>>
      /\ \/ socketOf' = taken /\ seen' = Shown(r, Forget(cut))
         \/ \E m \in left : /\ socketOf' = [taken EXCEPT ![m.player] = None]
                            /\ seen' = Shown(r, Shown(m.room, Forget(cut)))
  BY DEF Resumed, Broadcast
<1>2. p \in Players /\ \A q \in Players \ {p} : taken[q] = socketOf[q]
  BY <1>1, MembersSit DEF SeatInv, SeatTypes
<1>3. taken \in [Players -> Sockets \union {None}]
  <2>1. s \in Sockets
    BY <1>1 DEF SeatInv, PacketTypes, Ends, Arrivals
  <2> QED BY <1>2, <2>1 DEF SeatInv, SeatTypes
<1>4. ASSUME NEW m \in left
      PROVE  m.room \in RoomIds /\ m.player \in Players /\ m.player \in Members(m.room)
  <2>1. PICK c \in cut : m \in SeatsOn(taken, c)
    OBVIOUS
  <2> HIDE DEF taken, cut, left, s
  <2> QED BY <2>1, SeatOnFound DEF SeatInv
<1> HIDE DEF taken, cut, left, s, p
<1>5. NoNewSocket(Forget(cut))
  BY <1>1 DEF NoNewSocket, Forget, SeatInv, SeatTypes
<1>6. \A x : StaysBehind(x)
  BY <1>1, EndsStay
<1>7. \A x \in RoomIds \ {r} : p \notin Members(x) /\ Members(x) \subseteq Players
  BY <1>1, RoomsApart, MembersSit DEF SeatInv
<1>8. CASE socketOf' = taken /\ seen' = Shown(r, Forget(cut))
  <2>1. \A x \in RoomIds \ {r} : Elsewhere(x)
    BY <1>1, <1>2, <1>6, <1>7, <1>8 DEF Elsewhere, Untouched
  <2> QED BY <1>5, <1>8, <2>1, OneRoomShown
<1>9. ASSUME NEW m \in left, socketOf' = [taken EXCEPT ![m.player] = None],
             seen' = Shown(r, Shown(m.room, Forget(cut)))
      PROVE  ViewsHold'
  <2>1. m.room \in RoomIds /\ m.player \in Members(m.room)
    BY <1>4, <1>9
  <2>2. ASSUME NEW x \in RoomIds \ {r, m.room} PROVE Elsewhere(x)
    <3>1. m.player \notin Members(x)
      BY <2>1, <2>2, RoomsApart
    <3>2. \A q \in Members(x) : socketOf'[q] = socketOf[q]
      BY <1>2, <1>3, <1>7, <1>9, <2>2, <3>1
    <3> QED BY <1>1, <1>6, <3>2 DEF Elsewhere, Untouched
  <2> QED BY <1>5, <1>9, <2>1, <2>2, TwoRoomsShown
<1> QED BY <1>1, <1>8, <1>9

\* One member at most loses its connection, one of the room.
LEMMA OneDropped ==
  ASSUME SeatInv, NEW r \in RoomIds, NEW t \in Members(r),
         socketOf' = [socketOf EXCEPT ![t] = None], NEW x \in RoomIds \ {r}
  PROVE  \A p \in Members(x) : socketOf'[p] = socketOf[p]
BY RoomsApart, MembersSit DEF SeatInv, SeatTypes

LEMMA DisconnectShown ==
  ASSUME SeatInv, SeatInv', NoneAssumption, ViewsHold, NEW s \in Sockets, Disconnect(s)
  PROVE  ViewsHold'
<1> DEFINE before == Forget({s})
<1>1. /\ open' = open \ {s} /\ UNCHANGED <<roster, hosts, prompt, game, payload, pipelined>>
      /\ \/ UNCHANGED socketOf /\ seen' = before
         \/ \E m \in Memberships(s) :
              socketOf' = [socketOf EXCEPT ![m.player] = None] /\ seen' = Shown(m.room, before)
  BY DEF Disconnect, Broadcast
<1>2. NoNewSocket(before)
  BY <1>1 DEF NoNewSocket, Forget, SeatInv, SeatTypes
<1> HIDE DEF before
<1>3. CASE UNCHANGED socketOf /\ seen' = before
  <2>1. ASSUME NEW x \in RoomIds PROVE Elsewhere(x) /\ SeenKept(x, seen')
    BY <1>1, <1>2, <1>3, PayloadStays DEF Elsewhere, Untouched, SeenKept, NoNewSocket
  <2> QED BY <2>1, NothingShown
<1>4. ASSUME NEW m \in Memberships(s), socketOf' = [socketOf EXCEPT ![m.player] = None],
             seen' = Shown(m.room, before)
      PROVE  ViewsHold'
  <2>1. m.room \in RoomIds /\ m.player \in Members(m.room)
    BY MemberFound DEF SeatInv
  <2>2. ASSUME NEW x \in RoomIds \ {m.room} PROVE Elsewhere(x)
    <3>1. \A p \in Members(x) : socketOf'[p] = socketOf[p]
      BY <1>4, <2>1, OneDropped
    <3> QED BY <1>1, <3>1, PayloadStays DEF Elsewhere, Untouched
  <2> QED BY <1>2, <1>4, <2>1, <2>2, OneRoomShown
<1> QED BY <1>1, <1>3, <1>4

\* Forgetting what the members of one room were shown leaves the others alone.
LEMMA OthersRemember ==
  ASSUME SeatInv, NEW r \in RoomIds, NEW sockets,
         \A s \in sockets : s = None \/ \E q \in Members(r) : socketOf[q] = s,
         NoneAssumption, seen' = Forget(sockets), UNCHANGED <<open, pipelined>>,
         NEW x \in RoomIds \ {r}
  PROVE  SeenKept(x, seen')
<1>1. ASSUME NEW p \in Members(x), socketOf[p] \in open' \ pipelined'
      PROVE  socketOf[p] \in open \ pipelined /\ seen'[socketOf[p]] = seen[socketOf[p]]
  <2>1. socketOf[p] \in Sockets \ pipelined
    BY <1>1 DEF SeatInv, SeatTypes
  <2>2. \A q \in Members(r) : socketOf[q] # socketOf[p]
    BY <2>1, ServedSound DEF Served
  <2>3. socketOf[p] \notin sockets
    BY <2>1, <2>2 DEF NoneAssumption
  <2> QED BY <1>1, <2>1, <2>3 DEF Forget
<1> QED BY <1>1 DEF SeenKept

LEMMA DepartsShown ==
  ASSUME SeatInv, NoneAssumption, ViewsHold, NEW k \in Packets, NEW s \in Sockets,
         \/ \E t \in Players : RemovePlayer(k, s, t) \/ LeaveAndTransfer(k, s, t)
         \/ LeaveRoom(k, s)
  PROVE  ViewsHold'
<1>1. PICK r \in RoomIds, p \in Players :
        /\ p \in Members(r) /\ Departs(k, s, r, p)
        /\ \A x \in RoomIds \ {r} : Members(x) \intersect hosts' = Members(x) \intersect hosts
  <2>1. CASE \E t \in Players : RemovePlayer(k, s, t)
    BY <2>1, CallerFound DEF RemovePlayer, SeatInv
  <2>2. CASE \E t \in Players : LeaveAndTransfer(k, s, t)
    <3>1. PICK m \in Callers(s), t \in Players :
            /\ t \in Members(m.room) /\ HostIs(m.room, t) /\ Departs(k, s, m.room, m.player)
      BY <2>2 DEF LeaveAndTransfer
    <3>2. m.room \in RoomIds /\ m.player \in Players /\ m.player \in Members(m.room)
      BY CallerFound DEF SeatInv
    <3> QED BY <3>1, <3>2, HostGiven
  <2>3. CASE LeaveRoom(k, s)
    <3>1. PICK m \in Callers(s) :
            hosts' = hosts \ {m.player} /\ Departs(k, s, m.room, m.player)
      BY <2>3 DEF LeaveRoom
    <3>2. m.room \in RoomIds /\ m.player \in Players /\ m.player \in Members(m.room)
      BY CallerFound DEF SeatInv
    <3> QED BY <3>1, <3>2, RoomsApart
  <2> QED BY <2>1, <2>2, <2>3
<1>2. /\ Begins(k, "depart", s, r, p)
      /\ roster' = [roster EXCEPT ![r] = Unseated(@, p)]
      /\ socketOf' = [socketOf EXCEPT ![p] = None]
      /\ seen' = Forget({socketOf[p]})
      /\ UNCHANGED <<prompt, game, open, pipelined>>
  BY <1>1 DEF Departs
<1>3. Unsettled(r)' /\ \A x : StaysBehind(x)
  BY <1>2, BeginsStay
<1>4. ASSUME NEW x \in RoomIds \ {r} PROVE Elsewhere(x) /\ SeenKept(x, seen')
  <2>1. \A q \in Members(x) : socketOf'[q] = socketOf[q]
    BY <1>1, <1>2, OneDropped
  <2>2. roster'[x] = roster[x]
    BY <1>2 DEF SeatInv, SeatTypes
  <2>3. Elsewhere(x)
    BY <1>1, <1>2, <1>3, <2>1, <2>2 DEF Elsewhere, Untouched
  <2> DEFINE sockets == {socketOf[p]}
  <2>4. \A y \in sockets : \E q \in Members(r) : socketOf[q] = y
    BY <1>1
  <2>5. seen' = Forget(sockets)
    BY <1>2
  <2> HIDE DEF sockets
  <2>6. SeenKept(x, seen')
    BY <1>2, <2>4, <2>5, OthersRemember
  <2> QED BY <2>3, <2>6
<1> QED BY <1>3, <1>4, NothingShown

LEMMA CloseShown ==
  ASSUME SeatInv, TimingType, NoneAssumption, ViewsHold, NEW s \in Sockets, CloseRoom(s)
  PROVE  ViewsHold'
<1>0. PICK m \in Callers(s) :
        /\ roster' = [roster EXCEPT ![m.room] = <<>>] /\ hosts' = hosts \ Members(m.room)
        /\ socketOf' = [p \in Players |-> IF p \in Members(m.room) THEN None ELSE socketOf[p]]
        /\ prompt' = [prompt EXCEPT ![m.room] = NoPrompt]
        /\ game' = [game EXCEPT ![m.room] = "lobby"]
        /\ seen' = Forget({socketOf[p] : p \in Members(m.room)})
        /\ pending' = [k \in Packets |-> IF pending[k].room = m.room THEN Idle ELSE pending[k]]
        /\ UNCHANGED <<open, pipelined>>
  BY DEF CloseRoom, GameIs
<1> DEFINE r == m.room
<1>a. r \in RoomIds
  BY CallerSits
<1>1. /\ roster' = [roster EXCEPT ![r] = <<>>] /\ hosts' = hosts \ Members(r)
      /\ socketOf' = [p \in Players |-> IF p \in Members(r) THEN None ELSE socketOf[p]]
      /\ prompt' = [prompt EXCEPT ![r] = NoPrompt] /\ game' = [game EXCEPT ![r] = "lobby"]
      /\ seen' = Forget({socketOf[p] : p \in Members(r)})
      /\ pending' = [k \in Packets |-> IF pending[k].room = r THEN Idle ELSE pending[k]]
      /\ UNCHANGED <<open, pipelined>>
  BY <1>0
<1> HIDE DEF r
<1>2. Members(r)' = {}
  BY <1>a, <1>1 DEF Members, Range, SeatInv, SeatTypes
<1>3. ASSUME NEW x \in RoomIds \ {r} PROVE Elsewhere(x) /\ SeenKept(x, seen')
  <2>1. Members(x) \intersect Members(r) = {} /\ Members(x) \subseteq Players
    BY <1>a, RoomsApart, MembersSit DEF SeatInv
  <2>2. /\ roster'[x] = roster[x] /\ game'[x] = game[x] /\ prompt'[x] = prompt[x]
    BY <1>1 DEF SeatInv, SeatTypes, SideTypes, TimingType
  <2>3. StaysBehind(x)
    BY <1>1 DEF StaysBehind, Unsettled
  <2>4. Elsewhere(x)
    BY <1>1, <2>1, <2>2, <2>3 DEF Elsewhere, Untouched
  <2> DEFINE sockets == {socketOf[p] : p \in Members(r)}
  <2>5. \A y \in sockets : \E q \in Members(r) : socketOf[q] = y
    OBVIOUS
  <2>6. seen' = Forget(sockets)
    BY <1>1
  <2> HIDE DEF sockets
  <2>7. SeenKept(x, seen')
    BY <1>a, <1>1, <2>5, <2>6, OthersRemember
  <2> QED BY <2>4, <2>7
<1> QED BY <1>2, <1>3, NothingShown

\* The broadcast after the tick is of the rooms that were answered for.
LEMMA TickShown ==
  ASSUME SeatInv, NoneAssumption, ViewsHold, Tick
  PROVE  ViewsHold'
<1>1. /\ UNCHANGED <<roster, hosts, socketOf, prompt, open, pipelined>>
      /\ seen' = RecoveryShown
      /\ \A r \in RoomIds : ~Expires(r) => game'[r] = game[r]
  BY DEF Tick, seating
<1>a. \A r \in RoomIds : ViewsNow(r)
  BY DEF Tick, Quiet, ViewsHold, Unsettled, Idle
<1>2. ASSUME NEW x \in RoomIds, NEW p \in Members(x)', NEW s, s = socketOf'[p],
             s \in open', s \notin pipelined'
      PROVE  seen'[s] = View(x, p)'
  <2>1. /\ p \in Members(x) /\ p \in Players /\ socketOf[p] = s /\ s \in Sockets \ pipelined
        /\ s \in open
    BY <1>1, <1>2, ServedSound DEF Members, Served, SeatInv, SeatTypes
  <2>2. LastSeat(x, s) = p
    BY <2>1, ServedSound DEF Served
  <2>3. \A m \in Memberships(s) : m.room = x
    BY <2>1, MemberFound, ServedSound DEF Served, SeatInv
  <2>4. seen[s] = View(x, p)
    BY <1>a, <2>1 DEF ViewsNow
  <2>5. CASE ~Expires(x)
    <3>1. seen'[s] = seen[s]
      BY <1>1, <2>1, <2>3, <2>5 DEF RecoveryShown
    <3>2. Untouched(x)
      BY <1>1, <2>5 DEF Untouched
    <3> QED BY <2>1, <2>4, <3>1, <3>2, ViewKept DEF SeatInv
  <2>6. CASE Expires(x)
    <3>1. PICK m \in Memberships(s) : TRUE
      <4>1. Memberships(s) # {}
        BY <2>1, NobodyFound DEF SeatInv
      <4> QED BY <4>1
    <3> DEFINE found == CHOOSE y \in Memberships(s) : Expires(y.room)
    <3>2. \E y \in Memberships(s) : Expires(y.room)
      BY <2>3, <2>6, <3>1
    <3>3. found \in Memberships(s)
      BY <3>2
    <3>4. seen'[s] = [View(found.room, LastSeat(found.room, s)) EXCEPT !.game = game'[found.room]]
      BY <1>1, <2>1, <3>2 DEF RecoveryShown
    <3> HIDE DEF found
    <3>5. seen'[s] = [View(x, p) EXCEPT !.game = game'[x]]
      BY <2>2, <2>3, <3>3, <3>4
    <3>6. [View(x, p) EXCEPT !.game = game'[x]] = View(x, p)'
      <4> DEFINE seats == [i \in DOMAIN roster[x] |->
                             [id |-> roster[x][i], connected |-> Online(roster[x][i]),
                              isHost |-> roster[x][i] \in hosts]]
                 shown == IF p \in hosts THEN prompt[x] ELSE NoPrompt
      <4>1. View(x, p) =
              [viewer |-> p, room |-> x, game |-> game[x], seats |-> seats, prompt |-> shown]
        BY DEF View
      <4>2. seats' = seats /\ shown' = shown
        BY <1>1 DEF Online
      <4>3. View(x, p)' =
              [viewer |-> p, room |-> x, game |-> game'[x], seats |-> seats', prompt |-> shown']
        BY Zenon DEF View
      <4> HIDE DEF seats, shown
      <4> QED BY <4>1, <4>2, <4>3
    <3> QED BY <3>5, <3>6
  <2> QED BY <2>5, <2>6
<1> QED BY <1>2 DEF ViewsHold, ViewsNow

LEMMA ViewsNext ==
  ASSUME SeatInv, SeatInv', TimingInv, NoneAssumption, ViewsHold, [Next]_vars
  PROVE  ViewsHold'
<1>0. TimingType
  BY DEF TimingInv
<1>1. CASE UNCHANGED vars
  BY <1>1, QuietEventsShown
<1>2. ASSUME NEW s \in Sockets,
             \/ Connect(s) \/ Disconnect(s) \/ CloseRoom(s) \/ AckPrompt(s) \/ SubmitPrompt(s)
             \/ \E l \in Limits : SetTimeout(s, l)
             \/ Extend(s)
             \/ \E t \in Players : TransferHost(s, t) \/ SendPrompt(s, t)
             \/ \E t \in Players, i \in 1 .. Cardinality(Players) : MoveSeat(s, t, i)
      PROVE  ViewsHold'
  BY <1>0, <1>2, QuietEventsShown, DisconnectShown, CloseShown, HandlersShown
<1>3. ASSUME NEW k \in Packets, NEW s \in Sockets,
             \/ \E r \in RoomIds :
                  \/ CreateRoom(k, s, r) \/ JoinRoom(k, s, r) \/ ClaimRecovery(k, s, r)
                  \/ \E p \in Players : Resume(k, s, r, p)
             \/ \E t \in Players : RemovePlayer(k, s, t) \/ LeaveAndTransfer(k, s, t)
             \/ \E t \in Players : IssueRecovery(k, s, t)
             \/ LeaveRoom(k, s)
             \/ \E at \in Commands : Command(k, s, at)
      PROVE  ViewsHold'
  <2>1. CASE \E r \in RoomIds :
               \/ CreateRoom(k, s, r) \/ JoinRoom(k, s, r) \/ ClaimRecovery(k, s, r)
               \/ \E p \in Players : Resume(k, s, r, p)
    <3>1. \E at, r, p : Arrives(k, at, s, r, p)
      BY <2>1 DEF CreateRoom, JoinRoom, ClaimRecovery, Resume
    <3> QED BY <3>1, QuietBeginsShown
  <2> QED BY <1>3, <2>1, DepartsShown, QuietBeginsShown
<1>4. ASSUME NEW k \in Packets,
             \/ GivenUp(k)
             \/ \E r \in RoomIds :
                  \/ Resumed(k, r) \/ Issued(k, r) \/ ClaimFails(k, r) \/ Departed(k, r)
                  \/ Started(k, r) \/ Restarted(k, r) \/ Played(k, r) \/ Aborted(k, r)
                  \/ \E p \in Players : RoomCreated(k, r, p) \/ Joined(k, r, p) \/ Claimed(k, r, p)
      PROVE  ViewsHold'
  BY <1>0, <1>4, QuietEndsShown, ResumedShown, GamesShown, RoomCreatedShown, JoinedShown,
     ClaimedShown
<1>5. CASE Tick
  BY <1>5, TickShown
<1> QED BY <1>1, <1>2, <1>3, <1>4, <1>5 DEF Next

\* However the packets of one payload overlap (server.ts), when the payload is
\* done, and after each tick (timedServer.ts), every member that is online on a
\* connection that did not ask for two seats has been shown its room as it is.
THEOREM ViewsStayCurrent == Spec => []ViewsCurrent
<1> USE NoneAssumption
<1>1. Init => ViewsHold
  BY DEF Init, ViewsHold, ViewsNow
<1>2. SeatInv /\ SeatInv' /\ TimingInv /\ ViewsHold /\ [Next]_vars => ViewsHold'
  BY ViewsNext
<1>3. ViewsHold => ViewsCurrent
  BY DEF ViewsHold, ViewsNow, ViewsCurrent, Quiet, Unsettled, Idle
<1> QED BY <1>1, <1>2, <1>3, TimingHolds, SeatsHold, PTL DEF Spec
=============================================================================
