------------------------------- MODULE NodeRoom -------------------------------
(***************************************************************************)
(* The Socket.IO host: rooms in memory, the connections their members sit  *)
(* on, what each connection was last shown, and the interaction timeouts,  *)
(* kept under the room's number beside the rooms and driven by one         *)
(* interval.  WerewolfGame says what a game does; here it is only told     *)
(* apart by the action it waits for.                                       *)
(*                                                                         *)
(* Handlers await hashing, the recovery codes in memory and the ledger of  *)
(* commands.  None of this lets the event of another connection or a tick  *)
(* come between, but the packets that came in the same payload are all     *)
(* taken up before the first of them goes on: a handler that awaits is an  *)
(* action for what it does before (it takes a place in pending) and one    *)
(* for what it does after, and the handlers of a payload go on in any      *)
(* order.                                                                  *)
(*                                                                         *)
(* Numbers of rooms are drawn at random and come back; ids of players,     *)
(* connections and actions never do, and an id that nothing refers to any  *)
(* more stands here for a new one.                                         *)
(***************************************************************************)
EXTENDS Naturals, Sequences, SequencesExt, FiniteSets

CONSTANTS
  RoomIds, Players, Sockets, Actions,
  Packets,       \* bound: places for the packets of a payload whose handlers await
  None,          \* no room, no player, no connection
  MinPlayers, MaxPlayers,
  Limits,        \* timeouts in ticks; 0 switches them off
  Default,       \* DEFAULT_INTERACTION_TIMEOUT_SECONDS
  Extension,     \* INTERACTION_TIMEOUT_EXTENSION_SECONDS
  MaxAge         \* bound: ticks counted of an action

ASSUME LimitAssumption == Limits \subseteq Nat /\ Default \in Limits
                          /\ Extension \in Nat \ {0} /\ MaxAge \in Nat
                          /\ \A l \in Limits : MaxAge > l + Extension
ASSUME ActionAssumption == Actions \intersect {"none", "lobby", "untimed"} = {}
ASSUME NoneAssumption == None \notin RoomIds \union Players \union Sockets
ASSUME SizeAssumption == MinPlayers \in Nat \ {0} /\ MaxPlayers \in Nat

VARIABLES
  roster,      \* players by seat; a room without players does not exist
  hosts,       \* players with isHost
  socketOf,    \* socketId of a member (connected whenever it has one)
  grants,      \* recovery codes given out for a player, by room
  prompt,      \* activePrompt
  game,        \* "lobby", "untimed", or the timed action of the game
  limit,       \* roomTimeoutSeconds, by room number
  timer,       \* timers, by room number
  open,        \* connections the server holds open
  seen,        \* room:state a connection got last
  pending,     \* packets of the payload at hand whose handlers await
  answering,   \* one of its handlers has gone on: all packets were taken up
  age,         \* history: ticks since the action came up
  pipelined,   \* history: connections that asked for two seats in one payload
  strays       \* history: players with a code that was given out too late, by room

seating == <<roster, hosts, socketOf>>
recovery == <<grants, strays>>
timing == <<limit, timer, age>>
payload == <<pending, answering>>
vars == <<roster, hosts, socketOf, grants, prompt, game, limit, timer, open,
          seen, pending, answering, age, pipelined, strays>>

NoPrompt == [to |-> None, status |-> "none"]
NoTimer == [action |-> "none", left |-> 0, extended |-> FALSE]
NoView == [viewer |-> None]
Statuses == {"sent", "acknowledged", "submitted"}
Idle == [at |-> "idle", by |-> None, room |-> None, player |-> None, count |-> 0]
Arrivals == {"create", "join", "resume", "claim"}
Commands == {"start", "restart", "play", "abort"}

Members(r) == Range(roster[r])
Exists(r) == roster[r] # <<>>
InLobby(r) == game[r] = "lobby"
Timed(r) == game[r] \in Actions
Online(p) == socketOf[p] # None

\* MaxAge, beyond what an action can last, caps the history variable age.
Older(n) == IF n < MaxAge THEN n + 1 ELSE n

\* findMembership: the first member of a room whose socketId is s
FirstSeat(seats, sockets, s) ==
  LET on == {i \in DOMAIN seats : sockets[seats[i]] = s}
  IN IF on = {} THEN None
     ELSE seats[CHOOSE i \in on : \A j \in on : i <= j]
SeatsOn(sockets, s) ==
  {m \in [room : RoomIds, player : Players] :
     m.player = FirstSeat(roster[m.room], sockets, s)}
Memberships(s) == SeatsOn(socketOf, s)

FreshPlayers ==
  {p \in Players :
     /\ \A r \in RoomIds : p \notin Members(r) /\ grants[r][p] = 0 /\ prompt[r].to # p
     /\ \A k \in Packets : pending[k].player # p}
FreshSockets ==
  {s \in Sockets \ open : \A p \in Players : socketOf[p] # s}
FreshActions(r) == Actions \ {game[r], timer[r].action}

\* What roomView shows a member.
View(r, p) ==
  [viewer |-> p, room |-> r, game |-> game[r],
   seats |-> [i \in DOMAIN roster[r] |->
                [id |-> roster[r][i], connected |-> Online(roster[r][i]),
                 isHost |-> roster[r][i] \in hosts]],
   prompt |-> IF p \in hosts THEN prompt[r] ELSE NoPrompt]

\* broadcastRoom: the members are served by seat, so that the last seat of
\* a connection is the one it is left with.
LastSeat(r, s) == FirstSeat(Reverse(roster[r]), socketOf, s)
Shown(r, before) ==
  [s \in Sockets |-> IF s \in open' /\ LastSeat(r, s)' # None
                    THEN View(r, LastSeat(r, s))' ELSE before[s]]
Broadcast(r, before) == seen' = Shown(r, before)
Forget(sockets) ==
  [s \in Sockets |-> IF s \in sockets THEN NoView ELSE seen[s]]

GameIs(r, next) ==
  /\ game' = [game EXCEPT ![r] = next]
  /\ age' = [age EXCEPT ![r] = 0]

Init ==
  /\ roster = [r \in RoomIds |-> <<>>]
  /\ hosts = {}
  /\ socketOf = [p \in Players |-> None]
  /\ grants = [r \in RoomIds |-> [p \in Players |-> 0]]
  /\ prompt = [r \in RoomIds |-> NoPrompt]
  /\ game = [r \in RoomIds |-> "lobby"]
  /\ limit = [r \in RoomIds |-> Default]
  /\ timer = [r \in RoomIds |-> NoTimer]
  /\ open = {}
  /\ seen = [s \in Sockets |-> NoView]
  /\ pending = [k \in Packets |-> Idle]
  /\ answering = FALSE
  /\ age = [r \in RoomIds |-> 0]
  /\ pipelined = {}
  /\ strays = [r \in RoomIds |-> {}]

-------------------------------------------------------- (* one payload *)
Quiet == \A k \in Packets : pending[k] = Idle

\* A packet of s is taken up: nothing else is under way, or other packets of
\* the payload, which all still await.
Heard(s) ==
  s \in open /\ ~answering /\ \A k \in Packets : pending[k].by \in {s, None}
Callers(s) == IF Heard(s) THEN Memberships(s) ELSE {}
Alone(s) == Heard(s) /\ Memberships(s) = {}

Begins(k, at, s, r, p) ==
  /\ pending[k] = Idle
  /\ pending' = [pending EXCEPT ![k] =
                   [at |-> at, by |-> s, room |-> r, player |-> p,
                    count |-> IF at \in Commands THEN Len(roster[r]) ELSE 0]]
  /\ UNCHANGED answering
Ends(k, at, r) ==
  /\ pending[k].at = at /\ pending[k].room = r
  /\ pending' = [pending EXCEPT ![k] = Idle]
  /\ answering' = (\E j \in Packets \ {k} : pending[j] # Idle)

\* The codes given out in r for ps are worth nothing any more.
NoCodes(r, ps) ==
  /\ grants' = [grants EXCEPT ![r] = [p \in Players |-> IF p \in ps THEN 0 ELSE @[p]]]
  /\ strays' = [strays EXCEPT ![r] = @ \ ps]
OneCodeLess(r, p) ==
  /\ grants' = [grants EXCEPT ![r][p] = @ - 1]
  /\ strays' = [strays EXCEPT ![r] = IF grants[r][p] = 1 THEN @ \ {p} ELSE @]

------------------------------------------------------- (* coming and going *)
Connect(s) ==
  /\ Quiet /\ s \in FreshSockets
  /\ open' = open \union {s}
  /\ pipelined' = pipelined \ {s}
  /\ UNCHANGED <<seating, recovery, prompt, game, timing, seen, payload>>

\* The server notices that a connection is gone.
Disconnect(s) ==
  /\ Quiet /\ s \in open
  /\ open' = open \ {s}
  /\ UNCHANGED <<roster, hosts, recovery, prompt, game, timing, payload, pipelined>>
  /\ \/ Memberships(s) = {} /\ seen' = Forget({s}) /\ UNCHANGED socketOf
     \/ \E m \in Memberships(s) :
          /\ socketOf' = [socketOf EXCEPT ![m.player] = None]
          /\ Broadcast(m.room, Forget({s}))

\* A connection without a seat asks for one: this is checked here and never
\* again.
Arrives(k, at, s, r, p) ==
  /\ Alone(s)
  /\ Begins(k, at, s, r, p)
  /\ pipelined' = IF \E j \in Packets : pending[j].at \in Arrivals
                  THEN pipelined \union {s} ELSE pipelined
  /\ UNCHANGED <<seating, recovery, prompt, game, timing, open, seen>>

\* A room whose last member left is found until that handler has gone on.
Dying(r) ==
  ~Exists(r) /\ \E k \in Packets : pending[k].at = "depart" /\ pending[k].room = r
Found(r) == Exists(r) \/ Dying(r)

\* The number is free; the timeout kept under it is not looked at.
CreateRoom(k, s, r) == ~Found(r) /\ Arrives(k, "create", s, r, None)

\* Two rooms of one payload may have drawn one number: the second takes it.
RoomCreated(k, r, p) ==
  LET gone == Members(r) IN
  /\ Ends(k, "create", r) /\ p \in FreshPlayers
  /\ roster' = [roster EXCEPT ![r] = <<p>>]
  /\ hosts' = (hosts \ gone) \union {p}
  /\ socketOf' = [q \in Players |-> IF q = p THEN pending[k].by
                                   ELSE IF q \in gone THEN None ELSE socketOf[q]]
  /\ NoCodes(r, Players)
  /\ prompt' = [prompt EXCEPT ![r] = NoPrompt]
  /\ GameIs(r, "lobby")
  /\ UNCHANGED <<limit, timer, open, pipelined>>
  /\ Broadcast(r, seen)

JoinRoom(k, s, r) ==
  /\ Found(r) /\ InLobby(r) /\ Len(roster[r]) < MaxPlayers
  /\ Arrives(k, "join", s, r, None)

\* addPlayer: the newcomer takes the seat after the last, whatever has become
\* of the room.
Seated(seats, p) == Append(seats, p)
Joined(k, r, p) ==
  /\ Ends(k, "join", r) /\ Exists(r) /\ p \in FreshPlayers
  /\ roster' = [roster EXCEPT ![r] = Seated(@, p)]
  /\ socketOf' = [socketOf EXCEPT ![p] = pending[k].by]
  /\ UNCHANGED <<hosts, recovery, prompt, game, timing, open, pipelined>>
  /\ Broadcast(r, seen)

\* A valid resume token.
Resume(k, s, r, p) == p \in Members(r) /\ Arrives(k, "resume", s, r, p)

\* Faulty variants (named ...F) stand before the operator they vary.
ResumedKeepingGrantF(k, r) ==
  LET p == pending[k].player  s == pending[k].by
      cut == {socketOf[p]} \intersect (open \ {s}) IN
  /\ Ends(k, "resume", r) /\ p \in Members(r)
  /\ socketOf' = [socketOf EXCEPT ![p] = s]
  /\ open' = open \ cut
  /\ UNCHANGED <<roster, hosts, recovery, prompt, game, timing, pipelined>>
  /\ Broadcast(r, Forget(cut))

\* The connection that is replaced is cut off, which ends another seat of that
\* connection, had it two.
Resumed(k, r) ==
  LET p == pending[k].player  s == pending[k].by
      cut == {socketOf[p]} \intersect (open \ {s})
      taken == [socketOf EXCEPT ![p] = s]
      left == UNION {SeatsOn(taken, c) : c \in cut}
  IN
  /\ Ends(k, "resume", r) /\ p \in Members(r)
  /\ open' = open \ cut
  /\ NoCodes(r, {p})
  /\ UNCHANGED <<roster, hosts, prompt, game, timing, pipelined>>
  /\ \/ left = {} /\ socketOf' = taken /\ Broadcast(r, Forget(cut))
     \/ \E m \in left :
          /\ socketOf' = [taken EXCEPT ![m.player] = None]
          /\ seen' = Shown(r, Shown(m.room, Forget(cut)))

----------------------------------------------------- (* identity recovery *)
Awaited(r, p) == p \in Members(r) \ hosts /\ ~Online(p)

\* An earlier code of t goes before any new one comes.
IssueRecovery(k, s, t) ==
  \E m \in Callers(s) :
    /\ m.player \in hosts /\ Awaited(m.room, t)
    /\ Begins(k, "issue", s, m.room, t)
    /\ NoCodes(m.room, {t})
    /\ UNCHANGED <<seating, prompt, game, timing, open, seen, pipelined>>

\* Whether t still waits for a code, or got one meanwhile, is not looked at.
\* (In a room that never gave out a code the last of two such handlers drops
\* the other's code; here both stay.)
Issued(k, r) ==
  LET t == pending[k].player IN
  /\ Ends(k, "issue", r)
  /\ grants' = [grants EXCEPT ![r][t] = @ + 1]
  /\ strays' = [strays EXCEPT ![r] = IF Awaited(r, t) /\ grants[r][t] = 0
                                    THEN @ \ {t} ELSE @ \union {t}]
  /\ UNCHANGED <<seating, prompt, game, timing, open, seen, pipelined>>

ClaimRecovery(k, s, r) == Found(r) /\ Arrives(k, "claim", s, r, None)

ClaimedShownToOneF(k, r, p) ==
  /\ Ends(k, "claim", r) /\ grants[r][p] > 0
  /\ Awaited(r, p)
  /\ OneCodeLess(r, p)
  /\ socketOf' = [socketOf EXCEPT ![p] = pending[k].by]
  /\ UNCHANGED <<roster, hosts, prompt, game, timing, open, pipelined>>
  /\ seen' = [seen EXCEPT ![pending[k].by] = View(r, p)']

\* The code is consumed whether or not it still serves.
Claimed(k, r, p) ==
  /\ Ends(k, "claim", r) /\ grants[r][p] > 0
  /\ OneCodeLess(r, p)
  /\ UNCHANGED <<roster, hosts, prompt, game, timing, open, pipelined>>
  /\ IF Awaited(r, p)
     THEN /\ socketOf' = [socketOf EXCEPT ![p] = pending[k].by]
          /\ Broadcast(r, seen)
     ELSE UNCHANGED <<socketOf, seen>>

\* A code that expired, and the attempt that is one too many for the others.
ClaimFails(k, r) ==
  /\ Ends(k, "claim", r)
  /\ \/ \E p \in Players : grants[r][p] > 0 /\ OneCodeLess(r, p)
     \/ NoCodes(r, Players)
  /\ UNCHANGED <<seating, prompt, game, timing, open, seen, pipelined>>

\* A token that is not made or not valid, an unknown code, a command the rules
\* refuse: an error is answered.  Or a newcomer to a room whose last member
\* left: the deleted room takes it along, and no room has changed.
GivenUp(k) ==
  /\ pending[k].at \in Arrivals \union Commands \union {"issue"}
  /\ Ends(k, pending[k].at, pending[k].room)
  /\ UNCHANGED <<seating, recovery, prompt, game, timing, open, seen, pipelined>>

------------------------------------------------------- (* room management *)
\* findIndex and splice
SeatOf(seats, p) == CHOOSE i \in DOMAIN seats : seats[i] = p
Unseated(seats, p) == RemoveAt(seats, SeatOf(seats, p))

\* p is no member any more; what is kept about p ends with Departed.
Departs(k, s, r, p) ==
  /\ Begins(k, "depart", s, r, p)
  /\ roster' = [roster EXCEPT ![r] = Unseated(@, p)]
  /\ socketOf' = [socketOf EXCEPT ![p] = None]
  /\ seen' = Forget({socketOf[p]})
  /\ UNCHANGED <<recovery, prompt, game, timing, open, pipelined>>

\* A room that nobody is left in is dropped with all its codes.
Departed(k, r) ==
  LET p == pending[k].player IN
  /\ Ends(k, "depart", r)
  /\ NoCodes(r, IF Exists(r) THEN {p} ELSE Players)
  /\ prompt' = [prompt EXCEPT ![r] = IF @.to = p THEN NoPrompt ELSE @]
  /\ UNCHANGED <<seating, game, timing, open, pipelined>>
  /\ Broadcast(r, seen)

Moved(seats, t, i) == InsertAt(Unseated(seats, t), i, t)
HostIs(r, t) == hosts' = (hosts \ Members(r)) \union {t}

MoveSeat(s, t, i) ==
  \E m \in Callers(s) :
    /\ m.player \in hosts /\ InLobby(m.room)
    /\ t \in Members(m.room) /\ i \in DOMAIN roster[m.room]
    /\ roster' = [roster EXCEPT ![m.room] = Moved(@, t, i)]
    /\ UNCHANGED <<hosts, socketOf, recovery, prompt, game, timing, open, payload, pipelined>>
    /\ Broadcast(m.room, seen)

RemovePlayer(k, s, t) ==
  \E m \in Callers(s) :
    /\ m.player \in hosts /\ InLobby(m.room)
    /\ t \in Members(m.room) \ hosts
    /\ UNCHANGED hosts
    /\ Departs(k, s, m.room, t)

TransferHost(s, t) ==
  \E m \in Callers(s) :
    /\ m.player \in hosts
    /\ t \in Members(m.room) \ {m.player} /\ Online(t)
    /\ HostIs(m.room, t)
    /\ UNCHANGED <<roster, socketOf, recovery, prompt, game, timing, open, payload, pipelined>>
    /\ Broadcast(m.room, seen)

LeaveAndTransfer(k, s, t) ==
  \E m \in Callers(s) :
    /\ m.player \in hosts /\ InLobby(m.room)
    /\ t \in Members(m.room) \ {m.player} /\ Online(t)
    /\ HostIs(m.room, t)
    /\ Departs(k, s, m.room, m.player)

\* The last one to leave takes the room along.
LeaveRoom(k, s) ==
  \E m \in Callers(s) :
    /\ InLobby(m.room)
    /\ m.player \in hosts => Len(roster[m.room]) = 1
    /\ hosts' = hosts \ {m.player}
    /\ Departs(k, s, m.room, m.player)

\* The room is dropped with all it holds; timer and limit stay.  Handlers that
\* await go on with a room that nobody can find.
CloseRoom(s) ==
  \E m \in Callers(s) :
    LET r == m.room  gone == Members(m.room) IN
    /\ m.player \in hosts
    /\ roster' = [roster EXCEPT ![r] = <<>>]
    /\ hosts' = hosts \ gone
    /\ socketOf' = [p \in Players |-> IF p \in gone THEN None ELSE socketOf[p]]
    /\ NoCodes(r, Players)
    /\ prompt' = [prompt EXCEPT ![r] = NoPrompt]
    /\ GameIs(r, "lobby")
    /\ seen' = Forget({socketOf[p] : p \in gone})
    /\ pending' = [k \in Packets |-> IF pending[k].room = r THEN Idle ELSE pending[k]]
    /\ UNCHANGED <<limit, timer, open, answering, pipelined>>

--------------------------------------------------------- (* test prompts *)
SendPrompt(s, t) ==
  \E m \in Callers(s) :
    /\ m.player \in hosts /\ InLobby(m.room)
    /\ t \in Members(m.room) \ hosts /\ Online(t)
    /\ prompt' = [prompt EXCEPT ![m.room] = [to |-> t, status |-> "sent"]]
    /\ UNCHANGED <<seating, recovery, game, timing, open, payload, pipelined>>
    /\ Broadcast(m.room, seen)

\* Acknowledging what was submitted leaves it submitted.
AckPrompt(s) ==
  \E m \in Callers(s) :
    /\ prompt[m.room].to = m.player
    /\ prompt' = [prompt EXCEPT ![m.room].status =
                    IF @ = "submitted" THEN @ ELSE "acknowledged"]
    /\ UNCHANGED <<seating, recovery, game, timing, open, payload, pipelined>>
    /\ Broadcast(m.room, seen)

SubmitPrompt(s) ==
  \E m \in Callers(s) :
    /\ prompt[m.room].to = m.player /\ prompt[m.room].status = "acknowledged"
    /\ prompt' = [prompt EXCEPT ![m.room].status = "submitted"]
    /\ UNCHANGED <<seating, recovery, game, timing, open, payload, pipelined>>
    /\ Broadcast(m.room, seen)

-------------------------------------------------------------- (* the game *)
\* The host controls the game: no handler of this host names a moderator.
Command(k, s, at) ==
  \E m \in Callers(s) :
    /\ IF at = "play" THEN ~InLobby(m.room) ELSE m.player \in hosts
    /\ Begins(k, at, s, m.room, m.player)
    /\ UNCHANGED <<seating, recovery, prompt, game, timing, open, seen, pipelined>>

\* dealRoles: the configuration is for the players there were.
Deals(k) ==
  pending[k].count \in MinPlayers .. MaxPlayers
  /\ pending[k].count = Len(roster[pending[k].room])

\* A new game, and no test prompt any more.
NewGame(r) ==
  /\ GameIs(r, "untimed")
  /\ prompt' = [prompt EXCEPT ![r] = NoPrompt]
  /\ UNCHANGED <<seating, recovery, limit, timer, open, pipelined>>
  /\ Broadcast(r, seen)

Started(k, r) ==
  /\ Ends(k, "start", r) /\ InLobby(r) /\ Deals(k)
  /\ \A p \in Members(r) : Online(p)
  /\ NewGame(r)

Restarted(k, r) ==
  Ends(k, "restart", r) /\ ~InLobby(r) /\ Deals(k) /\ NewGame(r)

\* What the game waits for next: another action, or something untimed.  A
\* night that is over does not rest there, the host starts the vote at once.
GoesOn(r) == FreshActions(r) \union {"untimed"}

\* A command of a member ends the action.
Played(k, r) ==
  /\ Ends(k, "play", r) /\ ~InLobby(r)
  /\ \E next \in GoesOn(r) : GameIs(r, next)
  /\ UNCHANGED <<seating, recovery, prompt, limit, timer, open, pipelined>>
  /\ Broadcast(r, seen)

Aborted(k, r) ==
  /\ Ends(k, "abort", r) /\ ~InLobby(r) /\ pending[k].player \in hosts
  /\ GameIs(r, "lobby")
  /\ prompt' = [prompt EXCEPT ![r] = NoPrompt]
  /\ timer' = [timer EXCEPT ![r] = NoTimer]
  /\ UNCHANGED <<seating, recovery, limit, open, pipelined>>
  /\ Broadcast(r, seen)

-------------------------------------------------------- (* the timeouts *)
SetTimeout(s, l) ==
  \E m \in Callers(s) :
    /\ m.player \in hosts /\ InLobby(m.room)
    /\ limit' = [limit EXCEPT ![m.room] = l]
    /\ timer' = [timer EXCEPT ![m.room] = NoTimer]
    /\ UNCHANGED <<seating, recovery, prompt, game, open, seen, payload, age, pipelined>>

ExtendAgainF(s) ==
  \E m \in Callers(s) :
    /\ ~InLobby(m.room) /\ timer[m.room] # NoTimer
    /\ timer' = [timer EXCEPT ![m.room].left = @ + Extension]
    /\ UNCHANGED <<seating, recovery, prompt, game, limit, open, seen, payload, age, pipelined>>

Extended(t) == [action |-> t.action, left |-> t.left + Extension, extended |-> TRUE]

\* A member the action waits for asks for more time, once; the deadline may
\* have passed only when the next tick has been through.
Extend(s) ==
  \E m \in Callers(s) :
    /\ ~InLobby(m.room)
    /\ timer[m.room] # NoTimer /\ ~timer[m.room].extended
    /\ timer' = [timer EXCEPT ![m.room] = Extended(@)]
    /\ UNCHANGED <<seating, recovery, prompt, game, limit, open, seen, payload, age, pipelined>>

\* ensure: the timer after this tick has found the room, before it is judged
EnsuredF(r) ==
  IF ~Exists(r) THEN timer[r]
  ELSE IF ~Timed(r) \/ limit[r] = 0 THEN NoTimer
  ELSE IF timer[r] # NoTimer
  THEN [timer[r] EXCEPT !.left = @ - 1]
  ELSE [action |-> game[r], left |-> limit[r], extended |-> FALSE]
Ensured(r) ==
  IF ~Exists(r) THEN timer[r]
  ELSE IF ~Timed(r) \/ limit[r] = 0 THEN NoTimer
  ELSE IF timer[r].action = game[r]
  THEN [timer[r] EXCEPT !.left = @ - 1]
  ELSE [action |-> game[r], left |-> limit[r], extended |-> FALSE]
Expires(r) == Exists(r) /\ Ensured(r) # NoTimer /\ Ensured(r).left = 0

\* afterTimedRecovery: the rooms whose action was taken are broadcast.
RecoveryShown ==
  [s \in Sockets |->
     IF \E m \in Memberships(s) : Expires(m.room)
     THEN LET m == CHOOSE m \in Memberships(s) : Expires(m.room)
          IN [View(m.room, LastSeat(m.room, s)) EXCEPT !.game = game'[m.room]]
     ELSE seen[s]]

\* The interval: what is due is recovered, with the default answer.  A room
\* that is gone is not visited, its timer not counted down.
Tick ==
  /\ Quiet
  /\ timer' = [r \in RoomIds |-> IF Expires(r) THEN NoTimer ELSE Ensured(r)]
  /\ game' \in [RoomIds -> Actions \union {"untimed", "lobby"}]
  /\ \A r \in RoomIds :
       IF Expires(r) THEN game'[r] \in GoesOn(r)
       ELSE game'[r] = game[r]
  /\ age' = [r \in RoomIds |->
               IF Timed(r) /\ limit[r] > 0 /\ ~Expires(r) THEN Older(age[r]) ELSE 0]
  /\ UNCHANGED <<seating, recovery, prompt, limit, open, payload, pipelined>>
  /\ seen' = RecoveryShown

Next ==
  \/ \E s \in Sockets : Connect(s)
  \/ \E s \in Sockets : Disconnect(s)
  \/ \E k \in Packets, s \in Sockets, r \in RoomIds : CreateRoom(k, s, r)
  \/ \E k \in Packets, r \in RoomIds, p \in Players : RoomCreated(k, r, p)
  \/ \E k \in Packets, s \in Sockets, r \in RoomIds : JoinRoom(k, s, r)
  \/ \E k \in Packets, r \in RoomIds, p \in Players : Joined(k, r, p)
  \/ \E k \in Packets, s \in Sockets, r \in RoomIds, p \in Players : Resume(k, s, r, p)
  \/ \E k \in Packets, r \in RoomIds : Resumed(k, r)
  \/ \E k \in Packets, s \in Sockets, t \in Players : IssueRecovery(k, s, t)
  \/ \E k \in Packets, r \in RoomIds : Issued(k, r)
  \/ \E k \in Packets, s \in Sockets, r \in RoomIds : ClaimRecovery(k, s, r)
  \/ \E k \in Packets, r \in RoomIds, p \in Players : Claimed(k, r, p)
  \/ \E k \in Packets, r \in RoomIds : ClaimFails(k, r)
  \/ \E k \in Packets : GivenUp(k)
  \/ \E s \in Sockets, t \in Players, i \in 1 .. Cardinality(Players) : MoveSeat(s, t, i)
  \/ \E k \in Packets, s \in Sockets, t \in Players : RemovePlayer(k, s, t)
  \/ \E s \in Sockets, t \in Players : TransferHost(s, t)
  \/ \E k \in Packets, s \in Sockets, t \in Players : LeaveAndTransfer(k, s, t)
  \/ \E k \in Packets, s \in Sockets : LeaveRoom(k, s)
  \/ \E k \in Packets, r \in RoomIds : Departed(k, r)
  \/ \E s \in Sockets : CloseRoom(s)
  \/ \E s \in Sockets, t \in Players : SendPrompt(s, t)
  \/ \E s \in Sockets : AckPrompt(s)
  \/ \E s \in Sockets : SubmitPrompt(s)
  \/ \E k \in Packets, s \in Sockets, at \in Commands : Command(k, s, at)
  \/ \E k \in Packets, r \in RoomIds : Started(k, r)
  \/ \E k \in Packets, r \in RoomIds : Restarted(k, r)
  \/ \E k \in Packets, r \in RoomIds : Played(k, r)
  \/ \E k \in Packets, r \in RoomIds : Aborted(k, r)
  \/ \E s \in Sockets, l \in Limits : SetTimeout(s, l)
  \/ \E s \in Sockets : Extend(s)
  \/ Tick

Spec == Init /\ [][Next]_vars

-----------------------------------------------------------------------------
\* When a payload is done (server.ts): an existing room has one host.  A
\* connection holds one seat and a member's connection is open, unless it
\* asked for two seats in one payload: then one of its seats outlives it.  A
\* player for whom a recovery code is out is an offline member, no host, and
\* has one code, unless the code was made while the payload took the player
\* out of the room, brought it back or asked for another code.  A test prompt
\* is for a member, in the lobby.
OneHost(r) == Exists(r) => Cardinality(Members(r) \intersect hosts) = 1
OneSeat(s) ==
  s \notin pipelined =>
    LET on == {p \in Players : socketOf[p] = s}
    IN Cardinality(on) <= 1 /\ (on # {} => s \in open)
GrantsServe(r) ==
  \A p \in Players \ strays[r] : grants[r][p] > 0 => grants[r][p] = 1 /\ Awaited(r, p)
PromptServes(r) ==
  prompt[r] # NoPrompt => InLobby(r) /\ prompt[r].to \in Members(r)
RoomsSound ==
  Quiet =>
    /\ \A r \in RoomIds : OneHost(r) /\ GrantsServe(r) /\ PromptServes(r)
    /\ \A s \in Sockets : OneSeat(s)

\* When a payload is done, every member that is online has been shown the room
\* as it is now (broadcastRoom at the end of each handler), but on a
\* connection that asked for two seats at once.
ViewsCurrent ==
  Quiet =>
    \A r \in RoomIds : \A p \in Members(r) :
      socketOf[p] \in open \ pipelined => seen[socketOf[p]] = View(r, p)

\* A timeout answers for the actors of an action only after that action has
\* had its full time, and the extension it was given (timedServer.ts): the
\* timer of an earlier action, game or room of the same number never does.
TimeoutKeepsPromise ==
  [][Tick => \A r \in RoomIds :
       Timed(r) /\ game'[r] # game[r] =>
         /\ limit[r] > 0
         /\ age[r] >= limit[r] + (IF timer[r].extended THEN Extension ELSE 0)]_vars

\* Whatever its actors do, online or not, a timed action does not last: by the
\* tick after its time and its one extension it was answered, timed out or
\* given up.
TimedActionEnds ==
  \A r \in RoomIds :
    age[r] <= limit[r] + (IF timer[r].extended THEN Extension ELSE 0)
=============================================================================
