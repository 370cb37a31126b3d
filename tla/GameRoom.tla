------------------------------- MODULE GameRoom -------------------------------
(***************************************************************************)
(* One Cloudflare Durable Object room: GameRoomDurableObject and what it   *)
(* keeps in storage - the room snapshot, the identity-recovery grants and  *)
(* the WebSocket tickets, three keys written separately - together with    *)
(* the sockets it holds open.                                              *)
(*                                                                         *)
(* The object runs one event at a time and its storage operations hold     *)
(* back other events, so a handler that awaits only storage is one action. *)
(* A handler that awaits Web Crypto (hashing a token or a recovery code)   *)
(* keeps what it read before the await and writes from it afterwards.      *)
(* Whether other events run during such an await is the platform's choice: *)
(* Yields names the await points where they may.                           *)
(***************************************************************************)
EXTENDS Naturals, FiniteSets

CONSTANTS
  Players,      \* player ids; createPlayerId never gives one out twice
  NoPlayer,     \* no human moderator: {mode: "automatic"}
  Codes,        \* recovery codes
  Tickets,      \* WebSocket tickets
  Requests,     \* HTTP requests the object may be handling at once
  Yields,       \* await points during which other events may run
  MinPlayers,   \* fewest participants a game starts with
  MaxPlayers,   \* options.maxPlayers
  MaxFailures,  \* IDENTITY_RECOVERY_MAX_FAILED_ATTEMPTS
  MaxRev,       \* bound: revisions of a room
  MaxCred       \* bound: credentials minted for one player

AwaitPoints == {"create", "join", "ticket", "issue", "grant", "claim", "rotate"}

ASSUME NoPlayerAssumption == NoPlayer \notin Players
ASSUME YieldsAssumption == Yields \subseteq AwaitPoints
ASSUME LimitsAssumption == /\ MinPlayers \in Nat \ {0}
                           /\ MaxPlayers \in Nat \ {0}
                           /\ MaxFailures \in Nat \ {0}
                           /\ MaxRev \in Nat /\ MaxCred \in Nat

VARIABLES
  room,         \* the stored snapshot, or NoRoom
  grants,       \* recovery state: [code, player] for each recovery code hash
  failed,       \* recovery state: failedAttempts
  tickets,      \* stored tickets: [id, player, cred]
  socket,       \* socket[p]: credential p's open socket was admitted with, or 0
  pending,      \* pending[r]: what request r keeps across its await
  minted,       \* credentials ever generated for each player id
  codeAge,      \* "new", "issued", or "expired" (past its expiresAt)
  joined,       \* history: members this incarnation of the room has had
  rotations     \* history: credential rotations each code has bought

recovery == <<grants, failed>>
history == <<joined, rotations>>
vars == <<room, grants, failed, tickets, socket, pending, minted, codeAge,
          joined, rotations>>

(***************************************************************************)
(* A snapshot: cred[p] identifies p's resumeTokenHash and is 0 for an id   *)
(* that is no member; playing holds the participants of the game, if any.  *)
(* Names, seats, ready flags and game states are not told apart.           *)
(***************************************************************************)
Snapshot == [rev : Nat, cred : [Players -> Nat], hosts : SUBSET Players,
             moderator : Players \union {NoPlayer}, playing : SUBSET Players]
NoRoom == [closed |-> TRUE]
Grant == [code : Codes, player : Players]
Ticket == [id : Tickets, player : Players, cred : Nat]

Failures == 0 .. MaxFailures - 1

Idle == [at |-> "idle"]
Pending ==
  {Idle}
    \union [at : {"create"}]
    \union [at : {"join"}, snap : Snapshot]
    \union [at : {"ticket"}, player : Players, cred : Nat]
    \union [at : {"issue"}, snap : Snapshot, actor : Players, target : Players]
    \union [at : {"grant"}, player : Players, grants : SUBSET Grant]
    \union [at : {"claim"}, snap : Snapshot, code : Codes,
            grants : SUBSET Grant, failed : Failures]
    \union [at : {"rotate"}, snap : Snapshot, code : Codes, player : Players,
            grants : SUBSET Grant, failed : Failures]

Exists == room # NoRoom
Members(s) == {p \in Players : s.cred[p] > 0}
Connected(p) == socket[p] > 0
GrantsWithout(gs, p) == {g \in gs : g.player # p}
Participants(s) == Members(s) \ {s.moderator}

\* hasGameModeratorControl
Controls(s, p) == IF s.moderator = NoPlayer THEN p \in s.hosts
                                            ELSE p = s.moderator

Init ==
  /\ room = NoRoom
  /\ grants = {} /\ failed = 0
  /\ tickets = {}
  /\ socket = [p \in Players |-> 0]
  /\ pending = [r \in Requests |-> Idle]
  /\ minted = [p \in Players |-> 0]
  /\ codeAge = [c \in Codes |-> "new"]
  /\ joined = {}
  /\ rotations = [c \in Codes |-> 0]

-----------------------------------------------------------------------------
\* No other request, or no request at all, holds other events back.
Undisturbed(r) == \A q \in Requests \ {r} : pending[q].at \in Yields \union {"idle"}
Delivered == \A q \in Requests : pending[q].at \in Yields \union {"idle"}

\* r takes its turn, and keeps p for the next one.
Await(r, p) == Undisturbed(r) /\ pending' = [pending EXCEPT ![r] = p]
Done(r) == Await(r, Idle)
SaveRecovery(gs, n) == grants' = gs /\ failed' = n
Close(ps) == socket' = [p \in Players |-> IF p \in ps THEN 0 ELSE socket[p]]

\* Faulty variants (named ...F) stand before the operator they vary.
RecordFailureNeverF(gs, n) == SaveRecovery(gs, n + 1)

\* recordFailedAttempt, and the save that follows it
RecordFailure(gs, n) ==
  IF n + 1 < MaxFailures THEN SaveRecovery(gs, n + 1) ELSE SaveRecovery({}, 0)

----------------------------------------------------------------- (* create *)
CreateBegin(r) ==
  /\ pending[r] = Idle /\ ~Exists
  /\ Await(r, [at |-> "create"])
  /\ UNCHANGED <<room, recovery, tickets, socket, minted, codeAge, history>>

\* RoomBootstrapService.create: the new room of host p.
Founded(p) ==
  [rev |-> 0, cred |-> [q \in Players |-> IF q = p THEN 1 ELSE 0],
   hosts |-> {p}, moderator |-> NoPlayer, playing |-> {}]

\* The token is made: a fresh host, a recovery state without grants, the room.
CreateEnd(r) ==
  /\ pending[r].at = "create"
  /\ \E p \in Players :
       /\ minted[p] = 0
       /\ minted' = [minted EXCEPT ![p] = 1]
       /\ room' = Founded(p)
       /\ joined' = {p}
  /\ SaveRecovery({}, 0)
  /\ Done(r)
  /\ UNCHANGED <<tickets, socket, codeAge, rotations>>

------------------------------------------------------------------- (* join *)
JoinBegin(r) ==
  /\ pending[r] = Idle
  /\ Exists
  /\ room.playing = {}
  /\ Cardinality(Members(room)) < MaxPlayers
  /\ Await(r, [at |-> "join", snap |-> room])
  /\ UNCHANGED <<room, recovery, tickets, socket, minted, codeAge, history>>

\* RoomBootstrapService.join: p added to the snapshot read before the await.
Admitted(s, p) == [s EXCEPT !.rev = @ + 1, !.cred[p] = 1]

\* The room with the new member is saved.
JoinEnd(r) ==
  LET s == pending[r].snap
  IN  /\ pending[r].at = "join"
      /\ s.rev < MaxRev
      /\ \E p \in Players :
           /\ minted[p] = 0
           /\ minted' = [minted EXCEPT ![p] = 1]
           /\ room' = Admitted(s, p)
           /\ joined' = joined \union {p}
      /\ Done(r)
      /\ UNCHANGED <<recovery, tickets, socket, codeAge, rotations>>

------------------------------------------------- (* WebSocket ticket, upgrade *)
\* A member asks with the credential it holds, which is still the current one.
TicketBegin(r, p) ==
  /\ pending[r] = Idle
  /\ Exists /\ p \in Members(room)
  /\ Await(r, [at |-> "ticket", player |-> p, cred |-> room.cred[p]])
  /\ UNCHANGED <<room, recovery, tickets, socket, minted, codeAge, history>>

\* A fresh ticket is stored, bound to the credential that was verified.
StoreTicket(p, cred) ==
  \E t \in Tickets :
    /\ \A k \in tickets : k.id # t
    /\ tickets' = tickets \union {[id |-> t, player |-> p, cred |-> cred]}

\* Verified: the member's grants are dropped, then the ticket is stored.
TicketEnd(r) ==
  LET p == pending[r].player
  IN  /\ pending[r].at = "ticket"
      /\ grants' = GrantsWithout(grants, p)
      /\ StoreTicket(p, pending[r].cred)
      /\ Done(r)
      /\ UNCHANGED <<room, failed, socket, minted, codeAge, history>>

\* acceptPlayerSocket: in place of the member's other socket.
AcceptSocket(p, cred) == socket' = [socket EXCEPT ![p] = cred]

UpgradeAnyCredentialF(id) ==
  /\ Delivered
  /\ \E t \in tickets :
       /\ t.id = id
       /\ tickets' = tickets \ {t}
       /\ IF Exists /\ room.cred[t.player] > 0
          THEN AcceptSocket(t.player, t.cred)
          ELSE UNCHANGED socket
  /\ UNCHANGED <<room, recovery, pending, minted, codeAge, history>>

\* The ticket is consumed whatever comes of it; the connection is admitted if
\* the member still has that credential.
Upgrade(id) ==
  /\ Delivered
  /\ \E t \in tickets :
       /\ t.id = id
       /\ tickets' = tickets \ {t}
       /\ IF Exists /\ room.cred[t.player] = t.cred
          THEN AcceptSocket(t.player, t.cred)
          ELSE UNCHANGED socket
  /\ UNCHANGED <<room, recovery, pending, minted, codeAge, history>>

TicketExpires(id) ==
  /\ Delivered
  /\ \E t \in tickets : t.id = id /\ tickets' = tickets \ {t}
  /\ UNCHANGED <<room, recovery, socket, pending, minted, codeAge, history>>

\* The client goes away, or the connection is lost.
Disconnect(p) ==
  /\ Delivered /\ Connected(p)
  /\ Close({p})
  /\ UNCHANGED <<room, recovery, tickets, pending, minted, codeAge, history>>

------------------------------------------------ (* identity recovery: issue *)
\* A member asks for a code for another one; its own credential is verified.
IssueBegin(r, actor, target) ==
  /\ pending[r] = Idle
  /\ Exists /\ actor \in Members(room)
  /\ Await(r, [at |-> "issue", snap |-> room, actor |-> actor, target |-> target])
  /\ UNCHANGED <<room, recovery, tickets, socket, minted, codeAge, history>>

\* A host may help an offline member that is no host.
MayIssue(s, actor, target) ==
  /\ actor \in s.hosts
  /\ target \in Members(s) \ s.hosts
  /\ target # actor
  /\ ~Connected(target)

\* The checks are made, the recovery state is read; the code is then hashed.
IssueCheck(r) ==
  LET a == pending[r]
  IN  /\ a.at = "issue"
      /\ IF MayIssue(a.snap, a.actor, a.target)
         THEN Await(r, [at |-> "grant", player |-> a.target,
                        grants |-> GrantsWithout(grants, a.target)])
         ELSE Done(r)
      /\ UNCHANGED <<room, recovery, tickets, socket, minted, codeAge, history>>

\* The recovery state read before is saved with the new grant.
IssueEnd(r) ==
  /\ pending[r].at = "grant"
  /\ \E c \in Codes :
       /\ codeAge[c] = "new"
       /\ codeAge' = [codeAge EXCEPT ![c] = "issued"]
       /\ SaveRecovery(pending[r].grants
            \union {[code |-> c, player |-> pending[r].player]}, 0)
  /\ Done(r)
  /\ UNCHANGED <<room, tickets, socket, minted, history>>

CodeExpires(c) ==
  /\ Delivered
  /\ codeAge[c] = "issued"
  /\ codeAge' = [codeAge EXCEPT ![c] = "expired"]
  /\ UNCHANGED <<room, recovery, tickets, socket, pending, minted, history>>

------------------------------------------------ (* identity recovery: claim *)
\* Not six digits: a failed attempt, without an await.
ClaimMalformed(r) ==
  /\ pending[r] = Idle /\ Exists
  /\ RecordFailure(grants, failed)
  /\ Done(r)
  /\ UNCHANGED <<room, tickets, socket, minted, codeAge, history>>

\* Snapshot and recovery state are read; the code is then hashed.
ClaimBegin(r, c) ==
  /\ pending[r] = Idle /\ Exists
  /\ Await(r, [at |-> "claim", snap |-> room, code |-> c,
               grants |-> grants, failed |-> failed])
  /\ UNCHANGED <<room, recovery, tickets, socket, minted, codeAge, history>>

ClaimMissing(r) ==
  LET a == pending[r]
  IN  /\ a.at = "claim"
      /\ \A g \in a.grants : g.code # a.code
      /\ RecordFailure(a.grants, a.failed)
      /\ Done(r)
      /\ UNCHANGED <<room, tickets, socket, minted, codeAge, history>>

ClaimExpired(r) ==
  LET a == pending[r]
  IN  /\ a.at = "claim"
      /\ codeAge[a.code] = "expired"
      /\ \E g \in a.grants : /\ g.code = a.code
                             /\ RecordFailure(a.grants \ {g}, a.failed)
      /\ Done(r)
      /\ UNCHANGED <<room, tickets, socket, minted, codeAge, history>>

RecoverableHostF(s, p) == p \in Members(s) /\ ~Connected(p)
Recoverable(s, p) == p \in Members(s) \ s.hosts /\ ~Connected(p)

\* The grant is consumed although its target cannot be recovered now.
ClaimUnavailable(r) ==
  LET a == pending[r]
  IN  /\ a.at = "claim"
      /\ codeAge[a.code] # "expired"
      /\ \E g \in a.grants : /\ g.code = a.code
                             /\ ~Recoverable(a.snap, g.player)
                             /\ SaveRecovery(a.grants \ {g}, a.failed)
      /\ Done(r)
      /\ UNCHANGED <<room, tickets, socket, minted, codeAge, history>>

ClaimKeepingGrantF(r) ==
  LET a == pending[r]
  IN  /\ a.at = "claim"
      /\ codeAge[a.code] # "expired"
      /\ \E g \in a.grants :
           /\ g.code = a.code
           /\ Recoverable(a.snap, g.player)
           /\ Await(r, [at |-> "rotate", snap |-> a.snap, code |-> a.code,
                        player |-> g.player, grants |-> a.grants,
                        failed |-> a.failed])
      /\ UNCHANGED <<room, recovery, tickets, socket, minted, codeAge, history>>

\* The grant is taken out of the state read; a new token is then generated.
ClaimAccepted(r) ==
  LET a == pending[r]
  IN  /\ a.at = "claim"
      /\ codeAge[a.code] # "expired"
      /\ \E g \in a.grants :
           /\ g.code = a.code
           /\ Recoverable(a.snap, g.player)
           /\ Await(r, [at |-> "rotate", snap |-> a.snap, code |-> a.code,
                        player |-> g.player, grants |-> a.grants \ {g},
                        failed |-> a.failed])
      /\ UNCHANGED <<room, recovery, tickets, socket, minted, codeAge, history>>

\* createSessionToken throws: the grant is spent, the credential stays.
ClaimRotationFails(r) ==
  LET a == pending[r]
  IN  /\ a.at = "rotate"
      /\ SaveRecovery(a.grants, a.failed)
      /\ Done(r)
      /\ UNCHANGED <<room, tickets, socket, minted, codeAge, history>>

\* The recovery state is saved, then the snapshot read at the start with the
\* target's new credential; the target's sockets are closed.
ClaimEnd(r) ==
  LET a == pending[r]
      p == a.player
  IN  /\ a.at = "rotate"
      /\ a.snap.rev < MaxRev /\ minted[p] < MaxCred
      /\ SaveRecovery(a.grants, 0)
      /\ minted' = [minted EXCEPT ![p] = @ + 1]
      /\ room' = [a.snap EXCEPT !.rev = @ + 1, !.cred[p] = minted[p] + 1]
      /\ Close({p})
      /\ rotations' = [rotations EXCEPT ![a.code] = @ + 1]
      /\ Done(r)
      /\ UNCHANGED <<tickets, codeAge, joined>>

-------------------------------------------------- (* commands over a socket *)
\* requireActor: any member may act, even over a socket that is being closed.
Acts(p) == Delivered /\ Exists /\ p \in Members(room)

\* A command saves the next revision of the snapshot it read.
Commit(s) ==
  /\ room.rev < MaxRev
  /\ room' = [s EXCEPT !.rev = room.rev + 1]
  /\ UNCHANGED <<recovery, tickets, pending, minted, codeAge, history>>

\* RoomCore.removePlayer
Without(s, p) ==
  [s EXCEPT !.cred[p] = 0, !.hosts = @ \ {p},
            !.moderator = IF @ = p THEN NoPlayer ELSE @]

\* room.updateName, and in the lobby room.setReady and room.movePlayerSeat
Edit(p) == Acts(p) /\ Commit(room) /\ UNCHANGED socket

SetModerator(p, m) ==
  /\ Acts(p)
  /\ p \in room.hosts
  /\ room.playing = {}
  /\ m \in Members(room) \union {NoPlayer}
  /\ Commit([room EXCEPT !.moderator = m])
  /\ UNCHANGED socket

RemovePlayer(p, target) ==
  /\ Acts(p)
  /\ p \in room.hosts
  /\ room.playing = {}
  /\ target \in Members(room) \ room.hosts /\ target # p
  /\ Commit(Without(room, target))
  /\ Close({target})

TransferAddingF(p, target) ==
  /\ Acts(p)
  /\ p \in room.hosts
  /\ target \in Members(room) \ {p}
  /\ Connected(target)
  /\ Commit([room EXCEPT !.hosts = @ \union {target}])
  /\ UNCHANGED socket

\* Also while a game runs.
TransferHost(p, target) ==
  /\ Acts(p)
  /\ p \in room.hosts
  /\ target \in Members(room) \ {p}
  /\ Connected(target)
  /\ Commit([room EXCEPT !.hosts = {target}])
  /\ UNCHANGED socket

LeaveAndTransfer(p, target) ==
  /\ Acts(p)
  /\ p \in room.hosts
  /\ room.playing = {}
  /\ target \in Members(room) \ {p}
  /\ Connected(target)
  /\ Commit(Without([room EXCEPT !.hosts = {target}], p))
  /\ Close({p})

\* snapshots.clear(): grants and tickets stay in storage.
ClearRoom(ps) ==
  /\ room' = NoRoom
  /\ Close(ps)
  /\ UNCHANGED <<recovery, tickets, pending, minted, codeAge, history>>

CloseRoom(p) == Acts(p) /\ p \in room.hosts /\ ClearRoom(Players)

\* A host leaves only as the last member, which clears the room.
Leave(p) ==
  /\ Acts(p)
  /\ room.playing = {}
  /\ p \notin room.hosts \/ Members(room) = {p}
  /\ IF Members(room) = {p} THEN ClearRoom({p})
     ELSE Commit(Without(room, p)) /\ Close({p})

StartGame(p) ==
  /\ Acts(p)
  /\ Controls(room, p)
  /\ room.playing = {}
  /\ Cardinality(Participants(room)) >= MinPlayers
  /\ \A q \in Participants(room) : Connected(q)
  /\ Commit([room EXCEPT !.playing = Participants(room)])
  /\ UNCHANGED socket

RestartGame(p) ==
  /\ Acts(p)
  /\ Controls(room, p)
  /\ room.playing # {}
  /\ Commit([room EXCEPT !.playing = Participants(room)])
  /\ UNCHANGED socket

AbortToLobby(p) ==
  /\ Acts(p)
  /\ p \in room.hosts
  /\ room.playing # {}
  /\ Commit([room EXCEPT !.playing = {}])
  /\ UNCHANGED socket

--------------------------------------------------------------- (* crashes *)
Restart ==
  /\ pending' = [r \in Requests |-> Idle]
  /\ Close(Players)

\* The object is restarted: suspended requests and sockets are gone.
Crash ==
  /\ \E r \in Requests : pending[r] # Idle
  /\ Restart
  /\ UNCHANGED <<room, recovery, tickets, minted, codeAge, history>>

\* The object is restarted after the first of the writes with which r ends.
CrashBetweenWrites(r) ==
  LET a == pending[r]
  IN  /\ \/ a.at = "create" /\ SaveRecovery({}, 0)
         \/ a.at = "ticket" /\ SaveRecovery(GrantsWithout(grants, a.player), failed)
         \/ a.at = "rotate" /\ SaveRecovery(a.grants, 0)
      /\ Restart
      /\ UNCHANGED <<room, tickets, minted, codeAge, history>>

-----------------------------------------------------------------------------
Command(p) ==
  \/ Edit(p) \/ CloseRoom(p) \/ Leave(p)
  \/ StartGame(p) \/ RestartGame(p) \/ AbortToLobby(p)
  \/ \E q \in Players : RemovePlayer(p, q) \/ TransferHost(p, q) \/ LeaveAndTransfer(p, q)
  \/ \E m \in Players \union {NoPlayer} : SetModerator(p, m)

Handle(r) ==
  \/ CreateBegin(r) \/ CreateEnd(r) \/ JoinBegin(r) \/ JoinEnd(r)
  \/ \E p \in Players : TicketBegin(r, p)
  \/ TicketEnd(r)
  \/ \E p, q \in Players : IssueBegin(r, p, q)
  \/ IssueCheck(r) \/ IssueEnd(r)
  \/ ClaimMalformed(r)
  \/ \E c \in Codes : ClaimBegin(r, c)
  \/ ClaimMissing(r) \/ ClaimExpired(r) \/ ClaimUnavailable(r)
  \/ ClaimAccepted(r) \/ ClaimRotationFails(r) \/ ClaimEnd(r)

Next ==
  \/ \E r \in Requests : Handle(r) \/ CrashBetweenWrites(r)
  \/ \E p \in Players : Command(p) \/ Disconnect(p)
  \/ \E t \in Tickets : Upgrade(t) \/ TicketExpires(t)
  \/ \E c \in Codes : CodeExpires(c)
  \/ Crash

Spec == Init /\ [][Next]_vars

-----------------------------------------------------------------------------
TypeOK ==
  /\ room \in Snapshot \union {NoRoom}
  /\ grants \in SUBSET Grant
  /\ failed \in Failures
  /\ tickets \in SUBSET Ticket
  /\ socket \in [Players -> Nat]
  /\ pending \in [Requests -> Pending]
  /\ minted \in [Players -> Nat]
  /\ codeAge \in [Codes -> {"new", "issued", "expired"}]
  /\ joined \in SUBSET Players
  /\ rotations \in [Codes -> Nat]

Sound(s) ==
  /\ \E h \in Members(s) : s.hosts = {h}
  /\ s.moderator \in Members(s) \union {NoPlayer}
  /\ s.playing \subseteq Members(s)
  /\ Cardinality(Members(s)) <= MaxPlayers

(***************************************************************************)
(* Whatever snapshot is stored, even one written from a stale read, makes  *)
(* sense: exactly one host; host, moderator and everybody in the game are  *)
(* members; the room is not overfull (roomManagementCommand.ts,            *)
(* RoomCore.removePlayer, RoomBootstrapService.join).                      *)
(***************************************************************************)
SnapshotSound == Exists => Sound(room)

OneGrantEach(gs) == \A g, h \in gs : g.player = h.player => g = h

\* A member has at most one recovery code at a time: asking the host again makes
\* the earlier code worthless (IdentityRecoveryService.issue).
OneGrantPerPlayer == OneGrantEach(grants)

(***************************************************************************)
(* What requests that were suspended write into storage from an earlier    *)
(* read is as sound as what they read: the snapshot, and the grants.       *)
(***************************************************************************)
StorageSound == SnapshotSound /\ OneGrantPerPlayer

(***************************************************************************)
(* An open socket belongs to a member and was admitted with the member's   *)
(* present credential: removal, leaving, closing and recovery reach every  *)
(* connection, and a ticket issued before them admits nobody               *)
(* (upgradeWebSocket, handleRoomManagement, handleIdentityRecovery).       *)
(***************************************************************************)
SessionCurrent ==
  \A p \in Players : Connected(p) => Exists /\ room.cred[p] = socket[p]

\* A recovery code buys one rotation of a credential: "Consume before any later
\* validation so concurrent/replayed claims cannot reuse the same recovery
\* capability" (IdentityRecoveryService.claim).
GrantOnce == \A c \in Codes : rotations[c] <= 1

\* "A reused Durable Object room code must never inherit [...] identity-recovery
\* grants [...] from a previous incarnation" (createRoomSession).
GrantsOfThisRoom == Exists => \A g \in grants : g.player \in joined

(***************************************************************************)
(* A recovery grant works once, whatever fails or crashes after it was     *)
(* consumed, and only in the room in whose life it was issued.             *)
(***************************************************************************)
GrantsSound == GrantOnce /\ GrantsOfThisRoom

\* A save is the next revision of the snapshot s it was made from, which is what
\* the clients' ordering relies on.
RevisionAdvances(s) == room'.rev = s.rev + 1

\* Recovery never replaces the credential of the host, who issues the grants, even
\* if the host was a plain member when the code was issued.
HostKeepsCredential(s) ==
  \A h \in s.hosts \intersect room'.hosts : room'.cred[h] = s.cred[h]

\* Nobody joins, leaves or is removed while a game runs: the way out is to close
\* the room or to abort the game first.
RosterFrozen(s) == s.playing # {} => Members(room') = Members(s)

\* What this step read: a request that ends with a save, before its last awaits;
\* a command, at once.
SavesNow(r) == pending[r].at \in {"join", "rotate"} /\ pending'[r] = Idle
Read ==
  IF \E r \in Requests : SavesNow(r)
  THEN {pending[r].snap : r \in {r \in Requests : SavesNow(r)}} ELSE {room}

(***************************************************************************)
(* Whatever came between a read and the save made from it, the save does   *)
(* nothing to what was read that no step may do to a room: reuse its       *)
(* revision, replace the credential of who stays host, change the roster   *)
(* of a game.  What came between is overwritten (a lost command, a room    *)
(* that was closed), as is a room that another create has just made; where *)
(* nothing came between, nothing is lost (GameRoomDurableObject).          *)
(***************************************************************************)
RoomSteps ==
  [][Exists' =>
       \/ \E r \in Requests : pending[r].at = "create" /\ pending'[r] = Idle
       \/ \E s \in Read : RevisionAdvances(s) /\ HostKeepsCredential(s) /\ RosterFrozen(s)]_room
=============================================================================
