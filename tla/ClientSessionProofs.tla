------------------------ MODULE ClientSessionProofs ------------------------
(***************************************************************************)
(* For any number of connections, revisions, requests, retries and faults, *)
(* and whether or not the network keeps order: a client session agrees     *)
(* with its transport, is fresh when it is Connected, and implements       *)
(* ClientView. The invariant is in two parts: a predicate of the client,   *)
(* for which each of its operators has a lemma, and what is on the wire.   *)
(* On a network that keeps order, a third part says in which order views   *)
(* follow each other on a connection: the room is never behind the         *)
(* player's view, and no answer is ever taken for a late one.              *)
(***************************************************************************)
EXTENDS ClientSession, TLAPS

\* TransportAgrees of a client.
Agrees(c) ==
  /\ c.status \in Live => c.active = c.generation /\ c.socket = "open"
  /\ c.status \in Opening =>
       c.active = c.generation /\ c.socket \in {"ticket", "opening"}
  /\ c.status \notin Live \union Opening => c.socket = "none"
  /\ c.pending # {} => c.socket = "open"
  /\ \A r \in c.pending : r.generation = c.active
  /\ (c.command = "waiting") = (\E r \in c.pending : r.kind = "command")

Sound(c) ==
  /\ c \in Client
  /\ Agrees(c)
  /\ \A r, q \in c.pending : r.kind = "command" /\ q.kind = "command" => r = q
  /\ c.status # "Disposed" => c.storeGeneration = c.generation
  /\ c.status \in Live \union Opening => c.generation > 0
  /\ c.status = "Idle" => c.generation = 0
  /\ c.generation = 0 => c.revision = 0

\* A message to a connection accepted at revision low, when the server is at high.
Sendable(low, high) ==
  {m \in Message : /\ m.revision <= high
                   /\ m.kind \in {"state", "synced"} => low <= m.revision}

\* What an event that brings such a message may do to the client.
Moves(c, d, low, high) ==
  /\ Sound(d)
  /\ d.generation = c.generation
  /\ d.socket = "open" => c.socket = "open" /\ d.active = c.active
  /\ d.socket = "opening" => c.socket = "opening"
  /\ \/ d.revision = c.revision
     \/ c.status # "Disposed" /\ d.revision \in c.revision + 1 .. high
  /\ d.status = "Disposed" <=> c.status = "Disposed"
  /\ d.status = "Connected" => c.status = "Connected" \/ low <= d.revision

------------------------------------------------------ (* about the client *)
LEMMA StatusesDistinct ==
  /\ Live = {"Syncing", "Connected"} /\ Opening = {"Connecting", "Reconnecting"}
BY DEF Live, Opening

LEMMA RejectAll ==
  ASSUME NEW c, Sound(c), NEW b, b = Reject(c, OfGeneration(c, c.active))
  PROVE  /\ b \in Client /\ b.pending = {}
         /\ b.command = (IF c.command = "waiting" THEN "failed" ELSE c.command)
         /\ b.generation = c.generation /\ b.revision = c.revision
         /\ b.storeGeneration = c.storeGeneration
<1>1. OfGeneration(c, c.active) = c.pending
  BY DEF OfGeneration, Sound, Agrees
<1>2. c.pending \ c.pending = {}
  OBVIOUS
<1>3. (c.command = "waiting") = (\E r \in c.pending : r.kind = "command")
  BY DEF Sound, Agrees
<1>4. b = [c EXCEPT !.pending = {},
                    !.command = IF c.command = "waiting" THEN "failed" ELSE c.command]
  BY <1>1, <1>2, <1>3 DEF Reject
<1>5. c \in Client /\ {} \in SUBSET Request
  BY DEF Sound
<1>6. (IF c.command = "waiting" THEN "failed" ELSE c.command)
        \in {"none", "waiting", "done", "failed"}
  BY <1>5 DEF Client
<1>7. QED  BY <1>4, <1>5, <1>6 DEF Client

LEMMA DisconnectAll ==
  ASSUME NEW c, Sound(c), NEW d, d = Disconnect(c)
  PROVE  /\ d \in Client /\ d.pending = {} /\ d.socket = "none" /\ d.active = 0
         /\ d.command = (IF c.command = "waiting" THEN "failed" ELSE c.command)
         /\ d.generation = c.generation /\ d.revision = c.revision
         /\ d.storeGeneration = c.storeGeneration
<1>. DEFINE b == Reject(c, OfGeneration(c, c.active))
<1>1. /\ b \in Client /\ b.pending = {}
      /\ b.command = (IF c.command = "waiting" THEN "failed" ELSE c.command)
      /\ b.generation = c.generation /\ b.revision = c.revision
      /\ b.storeGeneration = c.storeGeneration
  BY RejectAll
<1>2. d = [b EXCEPT !.active = 0, !.socket = "none"]
  BY DEF Disconnect
<1>3. 0 \in 0 .. MaxGeneration
  BY BoundAssumption
<1>. HIDE DEF b
<1>4. QED  BY <1>1, <1>2, <1>3 DEF Client

\* The end of a connection, whichever status it leaves.
LEMMA EndMoves ==
  ASSUME NEW c, Sound(c), c.status \in Live \union Opening,
         NEW d \in Client, d.status \in {"Failed", "Disconnected"},
         d.socket = "none", d.pending = {}, d.generation = c.generation,
         d.revision = c.revision, d.storeGeneration = c.storeGeneration,
         d.command = (IF c.command = "waiting" THEN "failed" ELSE c.command),
         NEW low, NEW high
  PROVE  Moves(c, d, low, high)
<1>1. Agrees(d)
  BY DEF Agrees, Live, Opening
<1>2. Sound(d)
  BY <1>1 DEF Sound, Live, Opening
<1>3. QED  BY <1>2 DEF Moves, Live, Opening

LEMMA FailMoves ==
  ASSUME NEW c, Sound(c), c.status \in Live \union Opening,
         NEW why \in {"ticket", "sync", "stale", "protocol"},
         NEW low, NEW high
  PROVE  Moves(c, Fail(c, why), low, high)
<1>. DEFINE b == Disconnect(c)
            d == Fail(c, why)
<1>1. /\ b \in Client /\ b.pending = {} /\ b.socket = "none"
      /\ b.command = (IF c.command = "waiting" THEN "failed" ELSE c.command)
      /\ b.generation = c.generation /\ b.revision = c.revision
      /\ b.storeGeneration = c.storeGeneration
  BY DisconnectAll
<1>2. d = [b EXCEPT !.status = "Failed", !.failure = why]
  BY DEF Fail
<1>. HIDE DEF b, d
<1>3. d \in Client
  BY <1>1, <1>2 DEF Client, Statuses
<1>4. /\ d.status \in {"Failed", "Disconnected"} /\ d.socket = "none" /\ d.pending = {}
      /\ d.generation = c.generation /\ d.revision = c.revision
      /\ d.storeGeneration = c.storeGeneration
      /\ d.command = (IF c.command = "waiting" THEN "failed" ELSE c.command)
  BY <1>1, <1>2 DEF Client
<1>5. Moves(c, d, low, high)
  BY <1>3, <1>4, EndMoves
<1>6. QED  BY <1>5 DEF d

LEMMA UnavailableMoves ==
  ASSUME NEW c, Sound(c), c.status \in Live \union Opening,
         NEW low, NEW high
  PROVE  Moves(c, Unavailable(c), low, high)
<1>. DEFINE b == Disconnect(c)
            d == Unavailable(c)
<1>1. /\ b \in Client /\ b.pending = {} /\ b.socket = "none"
      /\ b.command = (IF c.command = "waiting" THEN "failed" ELSE c.command)
      /\ b.generation = c.generation /\ b.revision = c.revision
      /\ b.storeGeneration = c.storeGeneration
  BY DisconnectAll
<1>2. d = [b EXCEPT !.status = "Disconnected"]
  BY DEF Unavailable
<1>. HIDE DEF b, d
<1>3. d \in Client
  BY <1>1, <1>2 DEF Client, Statuses
<1>4. /\ d.status \in {"Failed", "Disconnected"} /\ d.socket = "none" /\ d.pending = {}
      /\ d.generation = c.generation /\ d.revision = c.revision
      /\ d.storeGeneration = c.storeGeneration
      /\ d.command = (IF c.command = "waiting" THEN "failed" ELSE c.command)
  BY <1>1, <1>2 DEF Client
<1>5. Moves(c, d, low, high)
  BY <1>3, <1>4, EndMoves
<1>6. QED  BY <1>5 DEF d

LEMMA SocketClosedMoves ==
  ASSUME NEW c, Sound(c), c.status \in Live \union Opening,
         NEW low, NEW high
  PROVE  Moves(c, SocketClosed(c), low, high)
<1>. DEFINE b == Reject(c, OfGeneration(c, c.active))
            d == SocketClosed(c)
<1>1. /\ b \in Client /\ b.pending = {}
      /\ b.command = (IF c.command = "waiting" THEN "failed" ELSE c.command)
      /\ b.generation = c.generation /\ b.revision = c.revision
      /\ b.storeGeneration = c.storeGeneration
  BY RejectAll
<1>2. d \in Client
  BY <1>1, BoundAssumption DEF SocketClosed, Client, Statuses
<1>3. /\ d.status = "Disconnected" /\ d.socket = "none" /\ d.pending = {}
      /\ d.generation = c.generation /\ d.revision = c.revision
      /\ d.storeGeneration = c.storeGeneration
      /\ d.command = (IF c.command = "waiting" THEN "failed" ELSE c.command)
  BY <1>1 DEF SocketClosed, Client
<1>4. QED  BY <1>2, <1>3, EndMoves

LEMMA UnchangedMoves ==
  ASSUME NEW c, Sound(c), NEW low, NEW high
  PROVE  Moves(c, c, low, high)
BY DEF Moves

\* A view that is shown, and the session that is synchronised with it.
LEMMA ShownMoves ==
  ASSUME NEW c, Sound(c), c.status \in Live,
         NEW low \in Nat, NEW high \in Nat, NEW r \in Revisions,
         c.revision <= r, low <= r, r <= high,
         NEW d, d = Synchronized([c EXCEPT !.revision = r])
  PROVE  Moves(c, d, low, high)
<1>1. c \in Client /\ c.revision \in Nat
  BY BoundAssumption DEF Sound, Client, Revisions
<1>2. d = [c EXCEPT !.revision = r, !.status = IF @ = "Syncing" THEN "Connected" ELSE @]
  BY <1>1 DEF Synchronized, Client
<1>3. /\ d.status = "Connected" /\ d.socket = c.socket /\ d.pending = c.pending
      /\ d.command = c.command /\ d.active = c.active /\ d.generation = c.generation
      /\ d.revision = r /\ d.storeGeneration = c.storeGeneration
  BY <1>1, <1>2 DEF Client, Live
<1>4. d \in Client
  <2>1. (IF c.status = "Syncing" THEN "Connected" ELSE c.status) \in Statuses
    BY <1>1 DEF Client, Statuses
  <2>2. QED  BY <1>1, <1>2, <2>1 DEF Client
<1>5. Agrees(d)
  BY <1>1, <1>3 DEF Sound, Agrees, Live, Opening
<1>6. Sound(d)
  BY <1>1, <1>3, <1>4, <1>5 DEF Sound, Live, Opening, Client
<1>7. r = c.revision \/ r \in c.revision + 1 .. high
  BY <1>1 DEF Revisions
<1>8. QED  BY <1>3, <1>6, <1>7 DEF Moves, Live

LEMMA ReceiveStateMoves ==
  ASSUME NEW c, Sound(c), NEW g, NEW low \in Nat, NEW high \in Nat,
         NEW r \in Revisions, low <= r, r <= high
  PROVE  Moves(c, ReceiveState(c, g, r), low, high)
<1>1. CASE c.status \in Live /\ Acceptable(c, g, r)
  <2>1. c.revision \in Nat /\ r \in Nat
    BY BoundAssumption DEF Sound, Client, Revisions
  <2>2. QED  BY <1>1, <2>1, ShownMoves DEF ReceiveState, Acceptable
<1>2. CASE ~(c.status \in Live /\ Acceptable(c, g, r))
  BY <1>2, UnchangedMoves DEF ReceiveState
<1>3. QED  BY <1>1, <1>2

LEMMA ReceiveRoomMoves ==
  ASSUME NEW c, Sound(c), NEW g, NEW low, NEW high, NEW r \in Revisions
  PROVE  /\ Moves(c, ReceiveRoom(c, g, r), low, high)
         /\ ReceiveRoom(c, g, r).status = c.status
         /\ ReceiveRoom(c, g, r).revision = c.revision
         /\ ReceiveRoom(c, g, r).active = c.active
<1>. DEFINE d == [c EXCEPT !.roomRevision = r]
<1>1. /\ d.status = c.status /\ d.socket = c.socket /\ d.pending = c.pending
      /\ d.command = c.command /\ d.active = c.active /\ d.generation = c.generation
      /\ d.revision = c.revision /\ d.storeGeneration = c.storeGeneration
      /\ d \in Client
  BY DEF Sound, Client
<1>2. Sound(d)
  BY <1>1 DEF Sound, Agrees
<1>3. Moves(c, d, low, high)
  BY <1>1, <1>2 DEF Moves
<1>4. QED  BY <1>1, <1>3, UnchangedMoves DEF ReceiveRoom

LEMMA AcceptSyncMoves ==
  ASSUME NEW c, Sound(c), NEW g, NEW low \in Nat, NEW high \in Nat,
         NEW r \in Revisions, low <= r, r <= high
  PROVE  Moves(c, AcceptSync(c, g, r), low, high)
<1>1. CASE c.status # "Syncing" \/ g # c.generation
  BY <1>1, UnchangedMoves DEF AcceptSync
<1>2. CASE c.status = "Syncing" /\ g = c.generation /\ Acceptable(c, g, r)
  <2>1. c.revision \in Nat /\ r \in Nat
    BY BoundAssumption DEF Sound, Client, Revisions
  <2>2. QED  BY <1>2, <2>1, ShownMoves DEF AcceptSync, Acceptable, Live
<1>3. CASE c.status = "Syncing" /\ g = c.generation /\ ~Acceptable(c, g, r)
  BY <1>3, FailMoves DEF AcceptSync, Live
<1>4. QED  BY <1>1, <1>2, <1>3

LEMMA SyncRefusedMoves ==
  ASSUME NEW c, Sound(c), NEW g, NEW low, NEW high
  PROVE  Moves(c, SyncRefused(c, g), low, high)
<1>1. CASE c.status = "Syncing" /\ g = c.generation
  BY <1>1, FailMoves DEF SyncRefused, Live
<1>2. CASE ~(c.status = "Syncing" /\ g = c.generation)
  BY <1>2, UnchangedMoves DEF SyncRefused
<1>3. QED  BY <1>1, <1>2

LEMMA SyncLostMoves ==
  ASSUME NEW c, Sound(c), NEW g, NEW low, NEW high
  PROVE  Moves(c, SyncLost(c, g), low, high)
<1>1. CASE c.status = "Syncing" /\ g = c.generation
  BY <1>1, UnavailableMoves DEF SyncLost, Live
<1>2. CASE ~(c.status = "Syncing" /\ g = c.generation)
  BY <1>2, UnchangedMoves DEF SyncLost
<1>3. QED  BY <1>1, <1>2

LEMMA MovesOn ==
  ASSUME NEW c, NEW d, NEW e, NEW low \in Nat, NEW high \in Nat,
         Sound(c), Moves(c, d, low, high), Moves(d, e, low, high)
  PROVE  Moves(c, e, low, high)
<1>1. c.revision \in Nat /\ d.revision \in Nat /\ e.revision \in Nat
  BY BoundAssumption DEF Sound, Moves, Client, Revisions
<1>2. QED  BY <1>1 DEF Moves

\* A synchronisation is no longer waited for.
LEMMA SyncTaken ==
  ASSUME NEW c, Sound(c), NEW r \in c.pending, r.kind = "sync",
         NEW d, d = [c EXCEPT !.pending = @ \ {r}], NEW low, NEW high
  PROVE  Moves(c, d, low, high) /\ d.status = c.status
<1>1. c \in Client /\ c.pending \ {r} \in SUBSET Request
  BY DEF Sound, Client
<1>2. /\ d \in Client
      /\ d.status = c.status /\ d.socket = c.socket /\ d.pending = c.pending \ {r}
      /\ d.command = c.command /\ d.active = c.active /\ d.generation = c.generation
      /\ d.revision = c.revision /\ d.storeGeneration = c.storeGeneration
  BY <1>1 DEF Client
<1>3. (\E q \in d.pending : q.kind = "command") = (\E q \in c.pending : q.kind = "command")
  BY <1>2
<1>4. Sound(d)
  BY <1>2, <1>3 DEF Sound, Agrees
<1>5. QED  BY <1>2, <1>4 DEF Moves

\* The command's request is over, and the command with it.
LEMMA CommandTaken ==
  ASSUME NEW c, Sound(c), NEW r \in c.pending, r.kind = "command",
         NEW how \in {"done", "failed"},
         NEW d, d = [c EXCEPT !.pending = @ \ {r}, !.command = how],
         NEW low, NEW high
  PROVE  Moves(c, d, low, high)
<1>1. c \in Client /\ c.pending \ {r} \in SUBSET Request
  BY DEF Sound, Client
<1>2. /\ d \in Client
      /\ d.status = c.status /\ d.socket = c.socket /\ d.pending = c.pending \ {r}
      /\ d.command = how /\ d.active = c.active /\ d.generation = c.generation
      /\ d.revision = c.revision /\ d.storeGeneration = c.storeGeneration
  BY <1>1 DEF Client
<1>3. \A q \in d.pending : q.kind # "command"
  BY <1>2 DEF Sound
<1>4. d.command # "waiting"
  BY <1>2
<1>5. Agrees(d)
  BY <1>2, <1>3, <1>4 DEF Sound, Agrees
<1>6. Sound(d)
  BY <1>2, <1>5 DEF Sound
<1>7. QED  BY <1>2, <1>6 DEF Moves

LEMMA AnsweredMoves ==
  ASSUME NEW c, Sound(c), NEW r \in c.pending,
         NEW low \in Nat, NEW high \in Nat, NEW m \in Sendable(low, high)
  PROVE  Moves(c, Answered(c, r, m), low, high)
<1>. DEFINE d == [c EXCEPT !.pending = @ \ {r}]
            e == ReceiveRoom(d, r.generation, m.revision)
<1>1. m \in Message /\ r \in Request
  BY DEF Sound, Client, Sendable
<1>2. CASE r.kind = "command"
  <2>. DEFINE how == IF m.kind = "done" THEN "done" ELSE "failed"
  <2>1. Answered(c, r, m) = [c EXCEPT !.pending = @ \ {r}, !.command = how]
    BY <1>2 DEF Answered, Sound, Client
  <2>2. how \in {"done", "failed"}
    OBVIOUS
  <2>. HIDE DEF how
  <2>3. QED  BY <1>2, <2>1, <2>2, CommandTaken
<1>3. CASE r.kind # "command"
  <2>1. r.kind = "sync"
    BY <1>1, <1>3 DEF Request
  <2>2. Moves(c, d, low, high)
    BY <2>1, SyncTaken
  <2>3. Sound(d)
    BY <2>2 DEF Moves
  <2>4. CASE m.kind # "synced"
    <3>1. Answered(c, r, m) = SyncRefused(d, r.generation)
      BY <1>3, <2>4 DEF Answered
    <3>2. Moves(d, SyncRefused(d, r.generation), low, high)
      BY <2>3, SyncRefusedMoves
    <3>3. QED  BY <2>2, <3>1, <3>2, MovesOn
  <2>5. CASE m.kind = "synced"
    <3>1. Answered(c, r, m) = AcceptSync(e, r.generation, m.revision)
      BY <1>3, <2>5 DEF Answered, Synced
    <3>2. m.revision \in Revisions /\ low <= m.revision /\ m.revision <= high
      BY <2>5 DEF Sendable, Message
    <3>3. Moves(d, e, low, high)
      BY <2>3, <3>2, ReceiveRoomMoves
    <3>4. Sound(e)
      BY <3>3 DEF Moves
    <3>5. Moves(e, AcceptSync(e, r.generation, m.revision), low, high)
      BY <3>2, <3>4, AcceptSyncMoves
    <3>. HIDE DEF d, e
    <3>6. Moves(c, e, low, high)
      BY <2>2, <3>3, MovesOn
    <3>7. QED  BY <3>1, <3>5, <3>6, MovesOn
  <2>6. QED  BY <2>4, <2>5
<1>4. QED  BY <1>2, <1>3

LEMMA HandleMoves ==
  ASSUME NEW c, Sound(c), NEW g, c.socket = "open",
         NEW low \in Nat, NEW high \in Nat, NEW m \in Sendable(low, high)
  PROVE  Moves(c, Handle(c, g, m), low, high)
<1>1. m \in Message
  BY DEF Sendable
<1>2. c.status \in Live
  BY DEF Sound, Agrees, Live, Opening
<1>3. CASE m.kind = "state"
  <2>1. m.revision \in Revisions /\ low <= m.revision /\ m.revision <= high
    BY <1>3 DEF Sendable, Message
  <2>2. QED  BY <1>3, <2>1, ReceiveStateMoves DEF Handle
<1>4. CASE m.kind = "room"
  <2>1. m.revision \in Revisions
    BY <1>1 DEF Message
  <2>2. QED  BY <1>4, <2>1, ReceiveRoomMoves DEF Handle
<1>5. CASE m.kind = "error"
  BY <1>2, <1>5, FailMoves DEF Handle
<1>6. CASE m.kind \notin {"state", "room", "error"}
  <2>. DEFINE r == CHOOSE r \in OfGeneration(c, g) : r.id = m.id
  <2>1. CASE \E q \in OfGeneration(c, g) : q.id = m.id
    <3>1. r \in c.pending
      BY <2>1 DEF OfGeneration
    <3>2. Handle(c, g, m) = Answered(c, r, m)
      BY <1>6, <2>1 DEF Handle
    <3>. HIDE DEF r
    <3>3. QED  BY <3>1, <3>2, AnsweredMoves
  <2>2. CASE ~\E q \in OfGeneration(c, g) : q.id = m.id
    <3>1. Handle(c, g, m) = c
      BY <1>6, <2>2 DEF Handle
    <3>2. QED  BY <3>1, UnchangedMoves
  <2>3. QED  BY <2>1, <2>2
<1>7. QED  BY <1>3, <1>4, <1>5, <1>6

-------------------------------------------------------- (* about the wire *)
LEMMA SeqUp ==
  ASSUME NEW S, NEW T, S \subseteq T, NEW s \in Seq(S)
  PROVE  s \in Seq(T)
OBVIOUS

LEMMA RemoveAtSeq ==
  ASSUME NEW S, NEW s \in Seq(S), NEW i \in DOMAIN s
  PROVE  RemoveAt(s, i) \in Seq(S)
<1>1. i \in 1 .. Len(s) /\ Len(s) \in Nat
  OBVIOUS
<1>2. SubSeq(s, 1, i - 1) \in Seq(S)
  BY <1>1
<1>3. SubSeq(s, i + 1, Len(s)) \in Seq(S)
  BY <1>1
<1>4. QED  BY <1>2, <1>3 DEF RemoveAt

\* What a connection carries when the server is at revision high.
Carries(d, high) ==
  /\ d \in [Generations -> Seq(Message)]
  /\ \A g \in Generations : d[g] \in Seq(Sendable(opened[g], high))
  /\ \A g \in Generations : opened[g] = 0 => d[g] = <<>>

LEMMA CarriesUp ==
  ASSUME NEW d, NEW low \in Nat, NEW high \in Nat, low <= high, Carries(d, low)
  PROVE  Carries(d, high)
<1>1. ASSUME NEW g \in Generations
      PROVE  d[g] \in Seq(Sendable(opened[g], high))
  <2>1. Sendable(opened[g], low) \subseteq Sendable(opened[g], high)
    <3>1. ASSUME NEW m \in Sendable(opened[g], low)
          PROVE  m \in Sendable(opened[g], high)
      <4>1. m \in Message /\ m.revision \in Nat
        BY BoundAssumption DEF Sendable, Message, Revisions
      <4>2. QED  BY <4>1 DEF Sendable
    <3>2. QED  BY <3>1
  <2>2. d[g] \in Seq(Sendable(opened[g], low))
    BY DEF Carries
  <2>3. QED  BY <2>1, <2>2, SeqUp
<1>2. QED  BY <1>1 DEF Carries

LEMMA SentCarries ==
  ASSUME NEW d, NEW high \in Nat, Carries(d, high), NEW g \in Generations, opened[g] # 0,
         NEW messages \in Seq(Sendable(opened[g], high))
  PROVE  Carries(Sent(d, g, messages), high)
<1>1. CASE g \in dead
  BY <1>1 DEF Sent
<1>2. CASE g \notin dead
  <2>. DEFINE e == [d EXCEPT ![g] = @ \o messages]
  <2>1. Sent(d, g, messages) = e
    BY <1>2 DEF Sent
  <2>2. messages \in Seq(Message)
    <3>1. Sendable(opened[g], high) \subseteq Message
      BY DEF Sendable
    <3>2. QED  BY <3>1, SeqUp
  <2>3. e \in [Generations -> Seq(Message)]
    BY <2>2 DEF Carries
  <2>4. \A h \in Generations : e[h] \in Seq(Sendable(opened[h], high))
    <3>1. d[g] \o messages \in Seq(Sendable(opened[g], high))
      BY DEF Carries
    <3>2. \A h \in Generations : e[h] = IF h = g THEN d[g] \o messages ELSE d[h]
      BY DEF Carries
    <3>. HIDE DEF e
    <3>3. QED  BY <3>1, <3>2 DEF Carries
  <2>5. \A h \in Generations : opened[h] = 0 => e[h] = <<>>
    BY DEF Carries
  <2>6. QED  BY <2>1, <2>3, <2>4, <2>5 DEF Carries
<1>3. QED  BY <1>1, <1>2

LEMMA DeliveredCarries ==
  ASSUME NEW d, NEW high, Carries(d, high), NEW g \in Generations, NEW i \in DOMAIN d[g]
  PROVE  /\ Carries([d EXCEPT ![g] = RemoveAt(@, i)], high)
         /\ d[g][i] \in Sendable(opened[g], high)
<1>. DEFINE e == [d EXCEPT ![g] = RemoveAt(@, i)]
<1>1. RemoveAt(d[g], i) \in Seq(Message) /\ RemoveAt(d[g], i) \in Seq(Sendable(opened[g], high))
  BY RemoveAtSeq DEF Carries
<1>2. opened[g] # 0 /\ d[g][i] \in Sendable(opened[g], high)
  BY DEF Carries
<1>3. e \in [Generations -> Seq(Message)]
  BY <1>1 DEF Carries
<1>4. \A h \in Generations : e[h] \in Seq(Sendable(opened[h], high))
  BY <1>1 DEF Carries
<1>5. \A h \in Generations : opened[h] = 0 => e[h] = <<>>
  BY <1>2 DEF Carries
<1>6. QED  BY <1>2, <1>3, <1>4, <1>5 DEF Carries

LEMMA PushedCarries ==
  ASSUME NEW d, Carries(d, server.revision), NEW r, r = server.revision + 1, r \in Revisions,
         server.attached \in 0 .. MaxGeneration,
         server.attached # 0 => opened[server.attached] # 0,
         opened \in [Generations -> Revisions],
         \A g \in Generations : opened[g] <= server.revision,
         server.revision \in Nat
  PROVE  Carries(Pushed(d, r), r)
<1>1. Carries(d, r)
  BY CarriesUp
<1>2. CASE server.attached = 0
  BY <1>1, <1>2 DEF Pushed
<1>3. CASE server.attached # 0
  <2>. DEFINE g == server.attached
              room == [kind |-> "room", id |-> 0, revision |-> r]
              state == [kind |-> "state", id |-> 0, revision |-> r]
  <2>1. g \in Generations /\ opened[g] # 0 /\ opened[g] <= r /\ r \in Nat
    BY <1>3, BoundAssumption DEF Generations, Revisions
  <2>2. room \in Message /\ state \in Message
    BY DEF Message
  <2>3. room \in Sendable(opened[g], r) /\ state \in Sendable(opened[g], r)
    BY <2>1, <2>2 DEF Sendable
  <2>4. <<room, state>> \in Seq(Sendable(opened[g], r))
    BY <2>3
  <2>5. Pushed(d, r) = Sent(d, g, <<room, state>>)
    BY <1>3 DEF Pushed
  <2>. HIDE DEF g, room, state
  <2>6. QED  BY <1>1, <2>1, <2>4, <2>5, SentCarries
<1>4. QED  BY <1>2, <1>3

-------------------------------------------------------- (* the invariant *)
OnWire ==
  /\ Carries(down, server.revision)
  /\ \A g \in Generations : opened[g] <= server.revision
  /\ \A g \in Generations : opened[g] = 0 => up[g] = <<>>
  /\ client.socket = "open" => opened[client.active] # 0
  /\ server.attached # 0 => opened[server.attached] # 0
  /\ client.revision <= server.revision
  /\ ~server.applied => server.revision < MaxRevision

IInv == TypeOK /\ Sound(client) /\ OnWire /\ FreshWhenConnected

\* What a step may do to the view shown, in the words of ClientView.
Shows ==
  \/ Abstract!Commit \/ Abstract!Show \/ Abstract!Close
  \/ UNCHANGED <<server.revision, client.revision, client.status = "Disposed">>

LEMMA Ranges ==
  ASSUME IInv
  PROVE  /\ client \in Client /\ server.revision \in Nat /\ client.revision \in Nat
         /\ \A g \in Generations : opened[g] \in Nat
         /\ client.status \in Live \union Opening =>
              client.active = client.generation /\ client.generation \in Generations
         /\ client.socket = "open" => client.status \in Live
         /\ client.socket # "none" => client.status \in Live \union Opening
<1>1. client \in Client /\ server.revision \in Nat /\ opened \in [Generations -> Revisions]
  BY BoundAssumption DEF IInv, TypeOK
<1>2. client.revision \in Nat /\ \A g \in Generations : opened[g] \in Nat
  BY <1>1, BoundAssumption DEF Client, Revisions
<1>3. client.status \in Live \union Opening =>
        client.active = client.generation /\ client.generation \in Generations
  BY <1>1, BoundAssumption DEF IInv, Sound, Agrees, Client, Generations
<1>4. /\ client.socket = "open" => client.status \in Live
      /\ client.socket # "none" => client.status \in Live \union Opening
  BY <1>1 DEF IInv, Sound, Agrees, Live, Opening
<1>5. QED  BY <1>1, <1>2, <1>3, <1>4

LEMMA InitIInv == Init => IInv
<1>. SUFFICES ASSUME Init PROVE IInv
  OBVIOUS
<1>1. client \in Client
  BY BoundAssumption DEF Init, Client, Statuses, Revisions
<1>2. TypeOK
  BY <1>1, BoundAssumption DEF Init, TypeOK, Revisions, Generations
<1>3. Sound(client)
  BY <1>1 DEF Init, Sound, Agrees, Live, Opening
<1>4. Carries(down, server.revision)
  BY BoundAssumption DEF Init, Carries, Generations
<1>5. OnWire
  BY <1>4, BoundAssumption DEF Init, OnWire, Generations
<1>6. FreshWhenConnected
  BY DEF Init, FreshWhenConnected
<1>7. QED  BY <1>2, <1>3, <1>5, <1>6 DEF IInv

\* An event of the client that asks nothing: its messages bring what they may.
LEMMA QuietStep ==
  ASSUME IInv, NEW low \in Nat, Moves(client, client', low, server.revision),
         client.status \in Live => low = opened[client.generation],
         client'.socket = "open" => client'.active = client.active,
         up' = up, Carries(down', server.revision), faults' \in 0 .. MaxFaults, QuietNet
  PROVE  IInv' /\ Shows
<1>1. client' \in Client /\ Sound(client')
  BY DEF Moves, Sound
<1>2. TypeOK'
  BY <1>1 DEF IInv, TypeOK, QuietNet, Carries
<1>3. Carries(down, server.revision)'
  BY DEF QuietNet, Carries
<1>4. client.revision \in Nat /\ client'.revision \in Nat /\ server.revision \in Nat
  BY <1>1, Ranges, BoundAssumption DEF Client, Revisions
<1>5. OnWire'
  BY <1>3, <1>4 DEF IInv, OnWire, Moves, QuietNet
<1>6. FreshWhenConnected'
  <2>1. ASSUME client'.status = "Connected"
        PROVE  client'.revision >= opened[client'.generation]
    <3>1. client'.generation = client.generation /\ client'.socket = "open"
      BY <1>1, <2>1 DEF Moves, Sound, Agrees, Live
    <3>2. client.status \in Live
      BY <3>1, Ranges DEF Moves
    <3>3. opened[client.generation] \in Nat
      BY <3>2, Ranges
    <3>4. QED  BY <1>4, <2>1, <3>1, <3>2, <3>3 DEF Moves, IInv, FreshWhenConnected
  <2>2. QED  BY <2>1 DEF FreshWhenConnected, QuietNet
<1>7. Shows
  <2>1. CASE client'.revision = client.revision
    BY <2>1 DEF Shows, Moves, QuietNet
  <2>2. CASE client'.revision # client.revision
    <3>1. client'.revision \in client.revision + 1 .. server.revision
      BY <2>2 DEF Moves
    <3>2. client.status # "Disposed"
      BY <2>2 DEF Moves
    <3>3. QED  BY <3>1, <3>2 DEF Shows, Abstract!Show, Moves, QuietNet
  <2>3. QED  BY <2>1, <2>2
<1>8. QED  BY <1>1, <1>2, <1>5, <1>6, <1>7 DEF IInv

\* An event that asks something, or none that brings messages: the client goes
\* from one sound state to another without a newer view.
LEMMA LocalStep ==
  ASSUME IInv, Sound(client'), client'.revision = client.revision,
         (client'.status = "Disposed") = (client.status = "Disposed"),
         client'.socket = "open" => opened[client'.active] # 0,
         client'.status = "Connected" => client.status = "Connected",
         client'.status = "Connected" => client'.generation = client.generation,
         up' \in [Generations -> Seq(Request)],
         \A g \in Generations : opened[g] = 0 => up'[g] = <<>>,
         UNCHANGED <<ordered, down, dead, server, opened>>,
         faults' \in 0 .. MaxFaults
  PROVE  IInv' /\ Shows
<1>1. TypeOK'
  BY DEF IInv, TypeOK, Sound
<1>2. Carries(down, server.revision)'
  BY DEF IInv, OnWire, Carries
<1>3. OnWire'
  BY <1>2 DEF IInv, OnWire
<1>4. FreshWhenConnected'
  BY DEF IInv, FreshWhenConnected
<1>5. Shows
  BY DEF Shows
<1>6. QED  BY <1>1, <1>3, <1>4, <1>5 DEF IInv

\* What sendRequest does, to whichever client c it is called on.
LEMMA AskDoes ==
  ASSUME IInv, NEW c, NEW kind \in {"sync", "command"}, Ask(c, kind),
         c.active \in Generations, opened[c.active] # 0
  PROVE  /\ \E r \in Request : /\ r.kind = kind /\ r.generation = c.active
                              /\ client' = [c EXCEPT !.pending = @ \union {r}]
         /\ up' \in [Generations -> Seq(Request)]
         /\ \A g \in Generations : opened[g] = 0 => up'[g] = <<>>
<1>. DEFINE i == CHOOSE i \in Free : TRUE
            r == [id |-> i, generation |-> c.active, kind |-> kind]
<1>1. Free \subseteq Ids /\ Free # {}
  BY DEF Ask, Free
<1>2. i \in Free
  BY <1>1
<1>3. r \in Request
  BY <1>1, <1>2 DEF Request
<1>4. /\ client' = [c EXCEPT !.pending = @ \union {r}]
      /\ up' = IF c.active \in dead THEN up ELSE [up EXCEPT ![c.active] = Append(@, r)]
  BY DEF Ask
<1>. HIDE DEF r
<1>5. r.kind = kind /\ r.generation = c.active
  BY DEF r
<1>6. up \in [Generations -> Seq(Request)] /\ \A g \in Generations : opened[g] = 0 => up[g] = <<>>
  BY DEF IInv, TypeOK, OnWire
<1>7. up' \in [Generations -> Seq(Request)]
  BY <1>3, <1>4, <1>6
<1>8. \A g \in Generations : opened[g] = 0 => up'[g] = <<>>
  BY <1>4, <1>6
<1>9. QED  BY <1>3, <1>4, <1>5, <1>7, <1>8

\* A live client with one more request is sound if there is then one command's
\* request exactly when a command waits.
LEMMA AskedSound ==
  ASSUME NEW c \in Client, c.status \in Live, c.active = c.generation, c.generation > 0,
         c.socket = "open", c.storeGeneration = c.generation,
         NEW r \in Request, r.generation = c.active,
         \A q \in c.pending : q.generation = c.active,
         \A q, p \in c.pending \union {r} : q.kind = "command" /\ p.kind = "command" => q = p,
         (c.command = "waiting") = (\E q \in c.pending \union {r} : q.kind = "command"),
         NEW d, d = [c EXCEPT !.pending = @ \union {r}]
  PROVE  /\ Sound(d) /\ d.status = c.status /\ d.active = c.active
         /\ d.generation = c.generation /\ d.revision = c.revision
<1>1. c.pending \union {r} \in SUBSET Request
  BY DEF Client
<1>2. /\ d \in Client
      /\ d.status = c.status /\ d.socket = c.socket /\ d.pending = c.pending \union {r}
      /\ d.command = c.command /\ d.active = c.active /\ d.generation = c.generation
      /\ d.revision = c.revision /\ d.storeGeneration = c.storeGeneration
  BY <1>1 DEF Client
<1>3. Agrees(d)
  BY <1>2 DEF Agrees, Live, Opening
<1>4. Sound(d)
  BY <1>2, <1>3 DEF Sound, Live
<1>5. QED  BY <1>2, <1>4

--------------------------------------------------- (* the session's steps *)
LEMMA StartOk == IInv /\ Start => IInv' /\ Shows
<1>. SUFFICES ASSUME IInv, Start PROVE IInv' /\ Shows
  OBVIOUS
<1>1. client \in Client /\ Sound(client) /\ client.status = "Idle"
  BY DEF IInv, Start, Sound
<1>2. client.generation = 0 /\ client.revision = 0 /\ client.pending = {}
  BY <1>1 DEF Sound, Agrees, Live, Opening
<1>3. client' = [client EXCEPT !.status = "Connecting", !.generation = 1,
                               !.storeGeneration = 1, !.active = 1, !.socket = "ticket"]
  BY DEF Start
<1>4. 1 \in 0 .. MaxGeneration /\ 1 \in 0 .. MaxGeneration + 1
  BY BoundAssumption
<1>5. /\ client' \in Client
      /\ client'.status = "Connecting" /\ client'.generation = 1
      /\ client'.storeGeneration = 1 /\ client'.active = 1 /\ client'.socket = "ticket"
      /\ client'.pending = {} /\ client'.command = client.command /\ client'.revision = 0
  BY <1>1, <1>2, <1>3, <1>4 DEF Client, Statuses
<1>6. Agrees(client')
  BY <1>1, <1>2, <1>5 DEF Sound, Agrees, Live, Opening
<1>7. Sound(client')
  BY <1>5, <1>6 DEF Sound, Live, Opening
<1>8. QED  BY <1>1, <1>2, <1>5, <1>7, LocalStep DEF Start, QuietNet, IInv, TypeOK, OnWire

LEMMA TicketIssuedOk == IInv /\ TicketIssued => IInv' /\ Shows
<1>. SUFFICES ASSUME IInv, TicketIssued PROVE IInv' /\ Shows
  OBVIOUS
<1>1. client \in Client /\ Sound(client) /\ client.socket = "ticket"
  BY DEF IInv, TicketIssued, Sound
<1>2. client.status \in Opening /\ client.pending = {}
  BY <1>1 DEF Sound, Agrees, Live, Opening
<1>3. /\ client' \in Client
      /\ client'.socket = "opening" /\ client'.pending = {}
      /\ client'.status = client.status /\ client'.generation = client.generation
      /\ client'.storeGeneration = client.storeGeneration
      /\ client'.active = client.active /\ client'.command = client.command
      /\ client'.revision = client.revision
  BY <1>1, <1>2 DEF TicketIssued, Client
<1>4. Agrees(client')
  BY <1>1, <1>2, <1>3 DEF Sound, Agrees, Live, Opening
<1>5. Sound(client')
  BY <1>1, <1>3, <1>4 DEF Sound
<1>6. QED
  BY <1>2, <1>3, <1>5, LocalStep DEF TicketIssued, QuietNet, IInv, TypeOK, OnWire, Opening

\* The ends of a connection: whatever its status, nothing is shown that was not.
LEMMA EndStep ==
  ASSUME IInv, client.status \in Live \union Opening,
         \A low \in Nat : Moves(client, client', low, server.revision),
         client'.socket = "none",
         UNCHANGED <<up, down>>, faults' \in 0 .. MaxFaults, QuietNet
  PROVE  IInv' /\ Shows
<1>. DEFINE low == IF client.status \in Live THEN opened[client.generation] ELSE 0
<1>1. low \in Nat
  BY Ranges
<1>2. Carries(down', server.revision)
  BY DEF IInv, OnWire
<1>. HIDE DEF low
<1>3. Moves(client, client', low, server.revision)
  BY <1>1
<1>4. client.status \in Live => low = opened[client.generation]
  BY DEF low
<1>5. QED  BY <1>1, <1>2, <1>3, <1>4, QuietStep

LEMMA FaultBounded == TypeOK /\ Fault => faults' \in 0 .. MaxFaults
BY BoundAssumption DEF TypeOK, Fault

LEMMA TicketRefusedOk == IInv /\ TicketRefused => IInv' /\ Shows
<1>. SUFFICES ASSUME IInv, TicketRefused PROVE IInv' /\ Shows
  OBVIOUS
<1>1. Sound(client) /\ client.status \in Opening
  BY DEF IInv, TicketRefused, Sound, Agrees, Live, Opening
<1>2. \A low \in Nat : Moves(client, client', low, server.revision)
  BY <1>1, FailMoves DEF TicketRefused
<1>3. client'.socket = "none"
  <2>1. Disconnect(client) \in Client /\ Disconnect(client).socket = "none"
    BY <1>1, DisconnectAll
  <2>2. QED  BY <2>1 DEF TicketRefused, Fail, Client
<1>4. QED  BY <1>1, <1>2, <1>3, FaultBounded, EndStep DEF IInv, TicketRefused

LEMMA ClosedOk ==
  ASSUME IInv, client.status \in Live \union Opening, client' = SocketClosed(client),
         UNCHANGED <<up, down>>, faults' \in 0 .. MaxFaults, QuietNet
  PROVE  IInv' /\ Shows
<1>1. Sound(client)
  BY DEF IInv
<1>2. \A low \in Nat : Moves(client, client', low, server.revision)
  BY <1>1, SocketClosedMoves
<1>3. client'.socket = "none"
  <2>1. Reject(client, OfGeneration(client, client.active)) \in Client
    BY <1>1, RejectAll
  <2>2. QED  BY <2>1 DEF SocketClosed, Client
<1>4. QED  BY <1>2, <1>3, EndStep

LEMMA TicketLostOk == IInv /\ TicketLost => IInv' /\ Shows
<1>. SUFFICES ASSUME IInv, TicketLost PROVE IInv' /\ Shows
  OBVIOUS
<1>1. client.status \in Opening
  BY DEF IInv, TicketLost, Sound, Agrees, Live, Opening
<1>2. QED  BY <1>1, FaultBounded, ClosedOk DEF IInv, TicketLost

LEMMA LostOk == IInv /\ Lost => IInv' /\ Shows
<1>. SUFFICES ASSUME IInv, Lost PROVE IInv' /\ Shows
  OBVIOUS
<1>1. client.status \in Live \union Opening
  BY Ranges DEF Lost
<1>2. faults' \in 0 .. MaxFaults
  BY FaultBounded DEF Lost, IInv, TypeOK
<1>3. QED  BY <1>1, <1>2, ClosedOk DEF Lost

\* Open asks on behalf of c, which is the client with its socket open.
LEMMA OpenOk == IInv /\ Open => IInv' /\ Shows
<1>. SUFFICES ASSUME IInv, Open PROVE IInv' /\ Shows
  OBVIOUS
<1>. DEFINE c == [client EXCEPT !.socket = "open", !.status = "Syncing"]
<1>1. client \in Client /\ Sound(client) /\ client.socket = "opening"
  BY DEF IInv, Open, Sound
<1>2. /\ client.status \in Opening /\ client.pending = {} /\ client.generation > 0
      /\ client.active = client.generation /\ client.storeGeneration = client.generation
  BY <1>1 DEF Sound, Agrees, Live, Opening
<1>3. /\ c \in Client /\ c.status = "Syncing" /\ c.socket = "open" /\ c.pending = {}
      /\ c.active = client.active /\ c.generation = client.generation
      /\ c.storeGeneration = client.storeGeneration /\ c.command = client.command
      /\ c.revision = client.revision
  BY <1>1, <1>2 DEF Client, Statuses
<1>4. Ask(c, "sync")
  BY DEF Open
<1>. HIDE DEF c
<1>5. c.active \in Generations /\ opened[c.active] # 0
  BY <1>2, <1>3, Ranges DEF Open
<1>6. /\ up' \in [Generations -> Seq(Request)]
      /\ \A g \in Generations : opened[g] = 0 => up'[g] = <<>>
  BY <1>4, <1>5, AskDoes
<1>7. PICK r \in Request : /\ r.kind = "sync" /\ r.generation = c.active
                          /\ client' = [c EXCEPT !.pending = @ \union {r}]
  BY <1>4, <1>5, AskDoes
<1>8. client.command # "waiting"
  BY <1>1, <1>2 DEF Sound, Agrees
<1>9. (c.command = "waiting") = (\E q \in c.pending \union {r} : q.kind = "command")
  BY <1>3, <1>7, <1>8
<1>10. \A q, p \in c.pending \union {r} : q.kind = "command" /\ p.kind = "command" => q = p
  BY <1>3
<1>11. \A q \in c.pending : q.generation = c.active
  BY <1>3
<1>12. /\ Sound(client') /\ client'.status = c.status /\ client'.active = c.active
       /\ client'.generation = c.generation /\ client'.revision = c.revision
  BY <1>2, <1>3, <1>7, <1>9, <1>10, <1>11, AskedSound DEF Live
<1>13. QED
  BY <1>2, <1>3, <1>5, <1>6, <1>12, LocalStep DEF Open, QuietNet, IInv, TypeOK, Opening

\* A connected client that synchronises once more.
LEMMA ResyncOk == IInv /\ Resync => IInv' /\ Shows
<1>. SUFFICES ASSUME IInv, Resync PROVE IInv' /\ Shows
  OBVIOUS
<1>. DEFINE c == [client EXCEPT !.status = "Syncing"]
<1>1. client \in Client /\ Sound(client) /\ client.status = "Connected"
  BY DEF IInv, Resync, Sound
<1>2. /\ client.socket = "open" /\ client.generation > 0
      /\ client.active = client.generation /\ client.storeGeneration = client.generation
  BY <1>1 DEF Sound, Agrees, Live, Opening
<1>3. /\ c \in Client /\ c.status = "Syncing" /\ c.socket = "open"
      /\ c.pending = client.pending
      /\ c.active = client.active /\ c.generation = client.generation
      /\ c.storeGeneration = client.storeGeneration /\ c.command = client.command
      /\ c.revision = client.revision
  BY <1>1, <1>2 DEF Client, Statuses
<1>4. Ask(c, "sync")
  BY DEF Resync
<1>. HIDE DEF c
<1>5. c.active \in Generations /\ opened[c.active] # 0
  BY <1>1, <1>2, <1>3, Ranges DEF IInv, OnWire, Live
<1>6. /\ up' \in [Generations -> Seq(Request)]
      /\ \A g \in Generations : opened[g] = 0 => up'[g] = <<>>
  BY <1>4, <1>5, AskDoes
<1>7. PICK r \in Request : /\ r.kind = "sync" /\ r.generation = c.active
                          /\ client' = [c EXCEPT !.pending = @ \union {r}]
  BY <1>4, <1>5, AskDoes
<1>8. (c.command = "waiting") = (\E q \in c.pending \union {r} : q.kind = "command")
  BY <1>1, <1>3, <1>7 DEF Sound, Agrees
<1>9. \A q, p \in c.pending \union {r} : q.kind = "command" /\ p.kind = "command" => q = p
  BY <1>1, <1>3, <1>7 DEF Sound
<1>10. \A q \in c.pending : q.generation = c.active
  BY <1>1, <1>3 DEF Sound, Agrees
<1>11. /\ Sound(client') /\ client'.status = c.status /\ client'.active = c.active
       /\ client'.generation = c.generation /\ client'.revision = c.revision
  BY <1>2, <1>3, <1>7, <1>8, <1>9, <1>10, AskedSound DEF Live
<1>12. QED
  BY <1>1, <1>3, <1>5, <1>6, <1>11, LocalStep DEF Resync, IInv, TypeOK

LEMMA SendOk == IInv /\ Send => IInv' /\ Shows
<1>. SUFFICES ASSUME IInv, Send PROVE IInv' /\ Shows
  OBVIOUS
<1>. DEFINE c == [client EXCEPT !.command = "waiting"]
<1>1. client \in Client /\ Sound(client) /\ client.status = "Connected"
  BY DEF IInv, Send, Sound
<1>2. /\ client.socket = "open" /\ client.generation > 0
      /\ client.active = client.generation /\ client.storeGeneration = client.generation
      /\ \A q \in client.pending : q.kind # "command" /\ q.generation = client.active
  BY <1>1 DEF Sound, Agrees, Live, Opening, Send
<1>3. /\ c \in Client /\ c.status = "Connected" /\ c.socket = "open"
      /\ c.pending = client.pending
      /\ c.active = client.active /\ c.generation = client.generation
      /\ c.storeGeneration = client.storeGeneration /\ c.command = "waiting"
      /\ c.revision = client.revision
  BY <1>1, <1>2 DEF Client
<1>4. Ask(c, "command")
  BY DEF Send
<1>. HIDE DEF c
<1>5. c.active \in Generations /\ opened[c.active] # 0
  BY <1>1, <1>2, <1>3, Ranges DEF IInv, OnWire, Live
<1>6. /\ up' \in [Generations -> Seq(Request)]
      /\ \A g \in Generations : opened[g] = 0 => up'[g] = <<>>
  BY <1>4, <1>5, AskDoes
<1>7. PICK r \in Request : /\ r.kind = "command" /\ r.generation = c.active
                          /\ client' = [c EXCEPT !.pending = @ \union {r}]
  BY <1>4, <1>5, AskDoes
<1>8. (c.command = "waiting") = (\E q \in c.pending \union {r} : q.kind = "command")
  BY <1>3, <1>7
<1>9. \A q, p \in c.pending \union {r} : q.kind = "command" /\ p.kind = "command" => q = p
  BY <1>2, <1>3
<1>10. \A q \in c.pending : q.generation = c.active
  BY <1>2, <1>3
<1>11. /\ Sound(client') /\ client'.status = c.status /\ client'.active = c.active
       /\ client'.generation = c.generation /\ client'.revision = c.revision
  BY <1>2, <1>3, <1>7, <1>8, <1>9, <1>10, AskedSound DEF Live
<1>12. QED
  BY <1>1, <1>3, <1>5, <1>6, <1>11, LocalStep DEF Send, QuietNet, IInv, TypeOK

LEMMA ReconnectOk == IInv /\ Reconnect => IInv' /\ Shows
<1>. SUFFICES ASSUME IInv, Reconnect PROVE IInv' /\ Shows
  OBVIOUS
<1>. DEFINE b == Reject(client, OfGeneration(client, client.active))
            g == client.generation + 1
<1>1. client \in Client /\ Sound(client) /\ client.status = "Disconnected"
  BY DEF IInv, Reconnect, Sound
<1>2. /\ b \in Client /\ b.pending = {}
      /\ b.command = (IF client.command = "waiting" THEN "failed" ELSE client.command)
      /\ b.revision = client.revision
  BY <1>1, RejectAll
<1>3. client' = [b EXCEPT !.status = "Reconnecting", !.generation = g,
                          !.storeGeneration = g, !.active = g, !.socket = "ticket"]
  BY DEF Reconnect
<1>4. g \in 0 .. MaxGeneration /\ g \in 0 .. MaxGeneration + 1 /\ g > 0
  BY <1>1, BoundAssumption DEF Reconnect, Client
<1>. HIDE DEF b, g
<1>5. /\ client' \in Client
      /\ client'.status = "Reconnecting" /\ client'.generation = g
      /\ client'.storeGeneration = g /\ client'.active = g /\ client'.socket = "ticket"
      /\ client'.pending = {} /\ client'.command = b.command
      /\ client'.revision = client.revision
  BY <1>2, <1>3, <1>4 DEF Client, Statuses
<1>6. Agrees(client')
  BY <1>2, <1>5 DEF Agrees, Live, Opening
<1>7. Sound(client')
  BY <1>4, <1>5, <1>6 DEF Sound, Live, Opening
<1>8. QED
  BY <1>1, <1>5, <1>7, LocalStep DEF Reconnect, QuietNet, IInv, TypeOK, OnWire

LEMMA DeliverOk ==
  ASSUME IInv, NEW g \in Generations, NEW i, Deliver(g, i)
  PROVE  IInv' /\ Shows
<1>1. i \in DOMAIN down[g] /\ down' = [down EXCEPT ![g] = RemoveAt(@, i)]
  BY DEF Deliver
<1>2. Carries(down, server.revision) /\ Sound(client) /\ server.revision \in Nat
  BY Ranges DEF IInv, OnWire
<1>3. Carries(down', server.revision) /\ down[g][i] \in Sendable(opened[g], server.revision)
  BY <1>1, <1>2, DeliveredCarries
<1>4. opened[g] \in Nat
  BY Ranges
<1>5. faults' \in 0 .. MaxFaults /\ up' = up /\ QuietNet
  BY DEF Deliver, IInv, TypeOK
<1>6. CASE g = client.active /\ client.socket = "open"
  <2>1. client' = Handle(client, g, down[g][i])
    BY <1>6 DEF Deliver
  <2>2. Moves(client, client', opened[g], server.revision)
    BY <1>2, <1>3, <1>4, <1>6, <2>1, HandleMoves
  <2>3. opened[g] = opened[client.generation]
    BY <1>6, Ranges
  <2>4. client'.socket = "open" => client'.active = client.active
    BY <2>2 DEF Moves
  <2>5. QED  BY <1>3, <1>4, <1>5, <2>2, <2>3, <2>4, QuietStep
<1>7. CASE ~(g = client.active /\ client.socket = "open")
  <2>. DEFINE low == IF client.status \in Live THEN opened[client.generation] ELSE 0
  <2>1. client' = client
    BY <1>7 DEF Deliver
  <2>2. low \in Nat
    BY Ranges
  <2>3. client.status \in Live => low = opened[client.generation]
    OBVIOUS
  <2>. HIDE DEF low
  <2>4. Moves(client, client', low, server.revision)
    BY <1>2, <2>1, UnchangedMoves
  <2>5. client'.active = client.active
    BY <2>1
  <2>6. QED  BY <1>3, <1>5, <2>2, <2>3, <2>4, <2>5, QuietStep
<1>8. QED  BY <1>6, <1>7

\* Given up, a synchronisation may end the connection and a command fails.
LEMMA GivenUp ==
  ASSUME IInv, \A low \in Nat : Moves(client, client', low, server.revision),
         UNCHANGED <<up, down>>, faults' \in 0 .. MaxFaults, QuietNet
  PROVE  IInv' /\ Shows
<1>. DEFINE low == IF client.status \in Live THEN opened[client.generation] ELSE 0
<1>1. low \in Nat
  BY Ranges
<1>2. client.status \in Live => low = opened[client.generation]
  OBVIOUS
<1>. HIDE DEF low
<1>3. Moves(client, client', low, server.revision)
  BY <1>1
<1>4. client'.socket = "open" => client'.active = client.active
  BY <1>3 DEF Moves
<1>5. Carries(down', server.revision)
  BY DEF IInv, OnWire
<1>6. QED  BY <1>1, <1>2, <1>3, <1>4, <1>5, QuietStep

LEMMA RequestFailsOk ==
  ASSUME IInv, NEW r \in Request, RequestFails(r)
  PROVE  IInv' /\ Shows
<1>. DEFINE b == [client EXCEPT !.pending = @ \ {r}]
            c == [b EXCEPT !.retries = @ + 1]
<1>1. /\ client \in Client /\ Sound(client) /\ r \in client.pending
      /\ server.revision \in Nat
  BY Ranges DEF RequestFails, IInv, Sound
<1>2. faults' \in 0 .. MaxFaults /\ QuietNet /\ down' = down
  BY FaultBounded DEF RequestFails, IInv, TypeOK
<1>3. CASE r.kind = "sync"
  <2>1. client' = SyncLost(b, r.generation) /\ up' = up
    BY <1>3 DEF RequestFails
  <2>2. ASSUME NEW low \in Nat
        PROVE  Moves(client, client', low, server.revision)
    <3>1. Moves(client, b, low, server.revision)
      BY <1>1, <1>3, SyncTaken
    <3>2. Sound(b)
      BY <3>1 DEF Moves
    <3>3. Moves(b, SyncLost(b, r.generation), low, server.revision)
      BY <3>2, SyncLostMoves
    <3>. HIDE DEF b
    <3>4. QED  BY <1>1, <2>1, <3>1, <3>3, MovesOn
  <2>3. QED  BY <1>2, <2>1, <2>2, GivenUp
<1>4. CASE r.kind # "sync" /\ client.socket = "open" /\ client.retries < CommandRetries
  <2>1. r.kind = "command" /\ client.status \in Live
    BY <1>4, Ranges DEF Request
  <2>2. /\ client.socket = "open" /\ client.generation > 0 /\ client.command = "waiting"
        /\ client.active = client.generation /\ client.storeGeneration = client.generation
    BY <1>1, <2>1 DEF Sound, Agrees, Live, Opening
  <2>3. client.pending \ {r} \in SUBSET Request /\ client.retries + 1 \in 0 .. CommandRetries
    BY <1>1, <1>4, BoundAssumption DEF Client
  <2>4. /\ c \in Client /\ c.status = client.status /\ c.socket = "open"
        /\ c.pending = client.pending \ {r}
        /\ c.active = client.active /\ c.generation = client.generation
        /\ c.storeGeneration = client.storeGeneration /\ c.command = client.command
        /\ c.revision = client.revision
    BY <1>1, <2>2, <2>3 DEF Client
  <2>5. Ask(c, "command")
    BY <1>4 DEF RequestFails
  <2>. HIDE DEF c
  <2>6. c.active \in Generations /\ opened[c.active] # 0
    BY <1>4, <2>1, <2>4, Ranges DEF IInv, OnWire
  <2>7. /\ up' \in [Generations -> Seq(Request)]
        /\ \A g \in Generations : opened[g] = 0 => up'[g] = <<>>
    BY <2>5, <2>6, AskDoes
  <2>8. PICK q \in Request : /\ q.kind = "command" /\ q.generation = c.active
                            /\ client' = [c EXCEPT !.pending = @ \union {q}]
    BY <2>5, <2>6, AskDoes
  <2>9. \A p \in c.pending : p.kind # "command" /\ p.generation = c.active
    BY <1>1, <2>1, <2>4 DEF Sound, Agrees
  <2>10. (c.command = "waiting") = (\E p \in c.pending \union {q} : p.kind = "command")
    BY <2>2, <2>4, <2>8
  <2>11. \A p, s \in c.pending \union {q} : p.kind = "command" /\ s.kind = "command" => p = s
    BY <2>9
  <2>12. /\ Sound(client') /\ client'.status = c.status /\ client'.active = c.active
         /\ client'.generation = c.generation /\ client'.revision = c.revision
    <3>1. /\ c \in Client /\ c.status \in Live /\ c.active = c.generation
          /\ c.generation > 0 /\ c.socket = "open" /\ c.storeGeneration = c.generation
          /\ \A p \in c.pending : p.generation = c.active
      BY <2>1, <2>2, <2>4, <2>9
    <3>2. /\ q \in Request /\ q.generation = c.active
          /\ client' = [c EXCEPT !.pending = @ \union {q}]
      BY <2>8
    <3>. HIDE DEF b
    <3>3. QED  BY ONLY <2>10, <2>11, <3>1, <3>2, AskedSound
  <2>13. UNCHANGED <<ordered, down, dead, server, opened>>
    BY <1>2 DEF QuietNet, IInv, TypeOK
  <2>14. QED  BY <1>2, <2>4, <2>6, <2>7, <2>12, <2>13, LocalStep
<1>5. CASE r.kind # "sync" /\ ~(client.socket = "open" /\ client.retries < CommandRetries)
  <2>1. r.kind = "command"
    BY <1>5 DEF Request
  <2>2. client' = [b EXCEPT !.command = "failed"] /\ up' = up
    BY <1>5 DEF RequestFails
  <2>3. client' = [client EXCEPT !.pending = @ \ {r}, !.command = "failed"]
    BY <1>1, <2>2 DEF Client
  <2>4. ASSUME NEW low \in Nat
        PROVE  Moves(client, client', low, server.revision)
    BY <1>1, <2>1, <2>3, CommandTaken
  <2>5. QED  BY <1>2, <2>2, <2>4, GivenUp
<1>6. QED  BY <1>3, <1>4, <1>5

LEMMA DisposeOk == IInv /\ Dispose => IInv' /\ Shows
<1>. SUFFICES ASSUME IInv, Dispose PROVE IInv' /\ Shows
  OBVIOUS
<1>. DEFINE c == IF client.status \in Live \union Opening THEN Disconnect(client) ELSE client
<1>1. client \in Client /\ Sound(client) /\ client.status # "Disposed"
  BY DEF IInv, Dispose, Sound
<1>2. /\ c \in Client /\ c.pending = {} /\ c.socket = "none" /\ c.command # "waiting"
      /\ c.generation = client.generation /\ c.storeGeneration = client.storeGeneration
  <2>1. CASE client.status \in Live \union Opening
    BY <1>1, <2>1, DisconnectAll
  <2>2. CASE client.status \notin Live \union Opening
    BY <1>1, <2>2 DEF Sound, Agrees
  <2>3. QED  BY <2>1, <2>2
<1>3. client' = [c EXCEPT !.status = "Disposed", !.revision = 0, !.roomRevision = 0,
                          !.storeGeneration = IF @ = 0 THEN 0 ELSE @ + 1]
  BY DEF Dispose
<1>. HIDE DEF c
<1>4. /\ 0 \in Revisions
      /\ (IF c.storeGeneration = 0 THEN 0 ELSE c.storeGeneration + 1) \in 0 .. MaxGeneration + 1
  BY <1>1, <1>2, BoundAssumption DEF Sound, Client, Revisions
<1>5. /\ client' \in Client
      /\ client'.status = "Disposed" /\ client'.revision = 0 /\ client'.socket = "none"
      /\ client'.pending = {} /\ client'.command = c.command
  BY <1>2, <1>3, <1>4 DEF Client, Statuses
<1>6. Agrees(client')
  BY <1>2, <1>5 DEF Agrees, Live, Opening
<1>7. Sound(client')
  BY <1>5, <1>6 DEF Sound, Live, Opening
<1>8. UNCHANGED <<ordered, up, down, dead, server, opened, faults>>
  BY DEF Dispose, QuietNet
<1>9. TypeOK'
  BY <1>5, <1>8 DEF IInv, TypeOK
<1>10. OnWire'
  <2>1. Carries(down, server.revision)'
    BY <1>8 DEF IInv, OnWire, Carries
  <2>2. QED  BY <1>5, <1>8, <2>1, Ranges DEF IInv, OnWire
<1>11. FreshWhenConnected'
  BY <1>5 DEF FreshWhenConnected
<1>12. Shows
  BY <1>1, <1>5, <1>8 DEF Shows, Abstract!Close
<1>13. QED  BY <1>7, <1>9, <1>10, <1>11, <1>12 DEF IInv

---------------------------------------------------- (* the server's steps *)
LEMMA ServerStep ==
  ASSUME IInv, UNCHANGED <<client, ordered, dead, opened>>,
         up' \in [Generations -> Seq(Request)],
         \A g \in Generations : opened[g] = 0 => up'[g] = <<>>,
         server' \in [revision : 1 .. MaxRevision, applied : BOOLEAN,
                      attached : 0 .. MaxGeneration],
         server'.attached = server.attached,
         server'.revision = server.revision \/ server'.revision = server.revision + 1,
         ~server'.applied => server'.revision < MaxRevision,
         Carries(down', server'.revision), faults' \in 0 .. MaxFaults
  PROVE  IInv' /\ Shows
<1>1. TypeOK'
  BY DEF IInv, TypeOK, Carries
<1>2. Sound(client')
  BY DEF IInv
<1>3. Carries(down, server.revision)'
  BY DEF Carries
<1>4. OnWire'
  BY <1>3, Ranges DEF IInv, OnWire
<1>5. FreshWhenConnected'
  BY DEF IInv, FreshWhenConnected
<1>6. Shows
  BY DEF Shows, Abstract!Commit
<1>7. QED  BY <1>1, <1>2, <1>4, <1>5, <1>6 DEF IInv

\* A request that is taken from the wire.
LEMMA TakenOk ==
  ASSUME IInv, NEW g \in Generations, up[g] # <<>>
  PROVE  /\ opened[g] # 0 /\ Head(up[g]) \in Request
         /\ Taken(g) => /\ up' \in [Generations -> Seq(Request)]
                        /\ \A h \in Generations : opened[h] = 0 => up'[h] = <<>>
<1>1. up \in [Generations -> Seq(Request)] /\ up[g] \in Seq(Request)
  BY DEF IInv, TypeOK
<1>2. Head(up[g]) \in Request /\ Tail(up[g]) \in Seq(Request)
  BY <1>1
<1>3. opened[g] # 0 /\ \A h \in Generations : opened[h] = 0 => up[h] = <<>>
  BY DEF IInv, OnWire
<1>4. QED  BY <1>1, <1>2, <1>3 DEF Taken

\* The answer that fits a connection and the revision the server is at.
LEMMA AnswerCarries ==
  ASSUME IInv, NEW g \in Generations, opened[g] # 0, NEW m \in Message,
         m.kind \notin {"state", "synced"} \/ m.revision = server.revision,
         m.revision <= server.revision
  PROVE  Carries(Sent(down, g, <<m>>), server.revision)
<1>1. opened[g] <= server.revision /\ Carries(down, server.revision) /\ server.revision \in Nat
  BY Ranges DEF IInv, OnWire
<1>2. m \in Sendable(opened[g], server.revision)
  BY <1>1 DEF Sendable
<1>3. <<m>> \in Seq(Sendable(opened[g], server.revision))
  BY <1>2
<1>4. QED  BY <1>1, <1>3, SentCarries

LEMMA CommitOk == IInv /\ Commit => IInv' /\ Shows
<1>. SUFFICES ASSUME IInv, Commit PROVE IInv' /\ Shows
  OBVIOUS
<1>1. server \in [revision : 1 .. MaxRevision, applied : BOOLEAN, attached : 0 .. MaxGeneration]
  BY DEF IInv, TypeOK
<1>2. server.revision + 1 \in 1 .. MaxRevision /\ server.revision + 1 \in Revisions
  BY <1>1, BoundAssumption DEF Commit, Revisions
<1>3. server' = [server EXCEPT !.revision = server.revision + 1]
  BY DEF Commit
<1>4. /\ server' \in [revision : 1 .. MaxRevision, applied : BOOLEAN,
                      attached : 0 .. MaxGeneration]
      /\ server'.attached = server.attached /\ server'.applied = server.applied
      /\ server'.revision = server.revision + 1
  BY <1>1, <1>2, <1>3
<1>5. Carries(Pushed(down, server.revision + 1), server.revision + 1)
  BY <1>1, <1>2, Ranges, PushedCarries DEF IInv, OnWire, TypeOK
<1>6. Carries(down', server'.revision)
  BY <1>4, <1>5 DEF Commit
<1>7. ~server'.applied => server'.revision < MaxRevision
  BY <1>1, <1>4, BoundAssumption DEF Commit
<1>8. QED  BY <1>4, <1>6, <1>7, ServerStep DEF Commit, IInv, TypeOK, OnWire

LEMMA AnswerSyncOk ==
  ASSUME IInv, NEW g \in Generations, AnswerSync(g)
  PROVE  IInv' /\ Shows
<1>. DEFINE m == [kind |-> "synced", id |-> Head(up[g]).id, revision |-> server.revision]
<1>1. /\ opened[g] # 0 /\ Head(up[g]) \in Request
      /\ up' \in [Generations -> Seq(Request)]
      /\ \A h \in Generations : opened[h] = 0 => up'[h] = <<>>
  BY TakenOk DEF AnswerSync
<1>2. m \in Message
  BY <1>1, BoundAssumption DEF IInv, TypeOK, Message, Request, Revisions
<1>3. m.revision = server.revision /\ server.revision \in Nat
  BY Ranges
<1>4. down' = Sent(down, g, <<m>>) /\ server' = server /\ faults' = faults
  BY DEF AnswerSync
<1>. HIDE DEF m
<1>5. Carries(down', server'.revision)
  BY <1>1, <1>2, <1>3, <1>4, AnswerCarries
<1>6. QED  BY <1>1, <1>4, <1>5, ServerStep DEF AnswerSync, IInv, TypeOK, OnWire

\* Refusals, error frames and the answers to commands show no view.
LEMMA PlainAnswer ==
  ASSUME IInv, NEW g \in Generations, opened[g] # 0,
         NEW kind \in {"refused", "error", "done"}, NEW i \in Ids \union {0}
  PROVE  Carries(Sent(down, g, <<[kind |-> kind, id |-> i, revision |-> 0]>>),
                 server.revision)
<1>. DEFINE m == [kind |-> kind, id |-> i, revision |-> 0]
<1>1. m \in Message
  BY BoundAssumption DEF Message, Revisions
<1>2. m.revision = 0 /\ m.kind \notin {"state", "synced"} /\ 0 <= server.revision
  BY Ranges
<1>. HIDE DEF m
<1>3. Carries(Sent(down, g, <<m>>), server.revision)
  BY <1>1, <1>2, AnswerCarries
<1>4. QED  BY <1>3 DEF m

LEMMA RefuseOk ==
  ASSUME IInv, NEW g \in Generations, Refuse(g)
  PROVE  IInv' /\ Shows
<1>1. /\ opened[g] # 0 /\ Head(up[g]).id \in Ids \union {0}
      /\ up' \in [Generations -> Seq(Request)]
      /\ \A h \in Generations : opened[h] = 0 => up'[h] = <<>>
  BY TakenOk DEF Refuse, Request
<1>2. Carries(down', server'.revision) /\ faults' \in 0 .. MaxFaults
  BY <1>1, PlainAnswer, FaultBounded DEF Refuse, IInv
<1>3. QED  BY <1>1, <1>2, ServerStep DEF Refuse, IInv, TypeOK, OnWire

LEMMA ServerErrorOk ==
  ASSUME IInv, NEW g \in Generations, ServerError(g)
  PROVE  IInv' /\ Shows
<1>1. /\ opened[g] # 0 /\ 0 \in Ids \union {0}
      /\ up' \in [Generations -> Seq(Request)]
      /\ \A h \in Generations : opened[h] = 0 => up'[h] = <<>>
  BY TakenOk DEF ServerError
<1>2. Carries(down', server'.revision) /\ faults' \in 0 .. MaxFaults
  BY <1>1, PlainAnswer, FaultBounded DEF ServerError, IInv
<1>3. QED  BY <1>1, <1>2, ServerStep DEF ServerError, IInv, TypeOK, OnWire

LEMMA AnswerCommandOk ==
  ASSUME IInv, NEW g \in Generations, AnswerCommand(g)
  PROVE  IInv' /\ Shows
<1>. DEFINE sent == Sent(down, g, <<[kind |-> "done", id |-> Head(up[g]).id, revision |-> 0]>>)
<1>1. /\ opened[g] # 0 /\ Head(up[g]).id \in Ids \union {0}
      /\ up' \in [Generations -> Seq(Request)]
      /\ \A h \in Generations : opened[h] = 0 => up'[h] = <<>>
  BY TakenOk DEF AnswerCommand, Request
<1>2. Carries(sent, server.revision)
  BY <1>1, PlainAnswer
<1>3. server \in [revision : 1 .. MaxRevision, applied : BOOLEAN, attached : 0 .. MaxGeneration]
  BY DEF IInv, TypeOK
<1>4. CASE server.applied /\ server' = server
  <2>1. Carries(down', server'.revision)
    BY <1>2, <1>4 DEF AnswerCommand
  <2>2. QED  BY <1>1, <1>3, <1>4, <2>1, ServerStep DEF AnswerCommand, IInv, TypeOK
<1>5. CASE /\ ~server.applied
           /\ server' = [server EXCEPT !.applied = TRUE, !.revision = @ + 1]
           /\ down' = Pushed(sent, server.revision + 1)
  <2>1. server.revision + 1 \in 1 .. MaxRevision /\ server.revision + 1 \in Revisions
    BY <1>3, <1>5, BoundAssumption DEF IInv, OnWire, Revisions
  <2>2. /\ server' \in [revision : 1 .. MaxRevision, applied : BOOLEAN,
                        attached : 0 .. MaxGeneration]
        /\ server'.attached = server.attached /\ server'.applied = TRUE
        /\ server'.revision = server.revision + 1
    BY <1>3, <1>5, <2>1
  <2>. HIDE DEF sent
  <2>3. Carries(Pushed(sent, server.revision + 1), server.revision + 1)
    BY <1>2, <1>3, <2>1, Ranges, PushedCarries DEF IInv, OnWire, TypeOK
  <2>4. Carries(down', server'.revision)
    BY <1>5, <2>2, <2>3
  <2>5. QED  BY <1>1, <2>2, <2>4, ServerStep DEF AnswerCommand, IInv, TypeOK
<1>6. QED  BY <1>4, <1>5 DEF AnswerCommand

LEMMA DieOk ==
  ASSUME IInv, NEW g \in Generations, Die(g)
  PROVE  IInv' /\ Shows
<1>1. /\ UNCHANGED <<client, ordered, down, server, opened>>
      /\ dead' = dead \union {g} /\ up' = [up EXCEPT ![g] = <<>>]
      /\ faults' \in 0 .. MaxFaults
  BY FaultBounded DEF Die, IInv
<1>2. TypeOK'
  BY <1>1 DEF IInv, TypeOK
<1>3. OnWire'
  <2>1. Carries(down, server.revision)'
    BY <1>1 DEF IInv, OnWire, Carries
  <2>2. \A h \in Generations : opened'[h] = 0 => up'[h] = <<>>
    BY <1>1 DEF IInv, OnWire, TypeOK
  <2>3. QED  BY <1>1, <2>1, <2>2 DEF IInv, OnWire
<1>4. Sound(client') /\ FreshWhenConnected'
  BY <1>1 DEF IInv, FreshWhenConnected
<1>5. QED  BY <1>1, <1>2, <1>3, <1>4 DEF IInv, Shows

LEMMA AcceptOk == IInv /\ Accept => IInv' /\ Shows
<1>. SUFFICES ASSUME IInv, Accept PROVE IInv' /\ Shows
  OBVIOUS
<1>. DEFINE g == client.active
<1>1. /\ g \in Generations /\ client.status \notin Live /\ client.socket = "opening"
  <2>1. client.status \in Opening
    BY DEF Accept, IInv, Sound, Agrees, Live, Opening
  <2>2. QED  BY <2>1, Ranges DEF Accept, Live, Opening
<1>2. /\ server \in [revision : 1 .. MaxRevision, applied : BOOLEAN, attached : 0 .. MaxGeneration]
      /\ opened \in [Generations -> Revisions]
  BY DEF IInv, TypeOK
<1>3. server.revision \in Revisions /\ server.revision # 0 /\ g \in 0 .. MaxGeneration
  BY <1>1, <1>2, BoundAssumption DEF Revisions, Generations
<1>4. /\ UNCHANGED <<client, ordered, up, down, dead, faults>>
      /\ opened' = [opened EXCEPT ![g] = server.revision]
      /\ server' = [server EXCEPT !.attached = g] /\ opened[g] = 0
  BY DEF Accept
<1>. HIDE DEF g
<1>5. /\ server' \in [revision : 1 .. MaxRevision, applied : BOOLEAN,
                      attached : 0 .. MaxGeneration]
      /\ server'.revision = server.revision /\ server'.applied = server.applied
      /\ server'.attached = g
  BY <1>2, <1>3, <1>4
<1>6. /\ opened' \in [Generations -> Revisions]
      /\ \A h \in Generations : opened'[h] = IF h = g THEN server.revision ELSE opened[h]
  BY <1>1, <1>2, <1>3, <1>4
<1>7. TypeOK'
  BY <1>4, <1>5, <1>6 DEF IInv, TypeOK
<1>8. Carries(down, server.revision)'
  <2>1. Carries(down, server.revision)
    BY DEF IInv, OnWire
  <2>2. ASSUME NEW h \in Generations
        PROVE  down[h] \in Seq(Sendable(opened'[h], server.revision))
    <3>1. CASE h = g
      <4>1. down[h] = <<>>
        BY <1>4, <2>1, <3>1 DEF Carries
      <4>2. QED  BY <4>1
    <3>2. CASE h # g
      BY <1>6, <2>1, <3>2 DEF Carries
    <3>3. QED  BY <3>1, <3>2
  <2>3. \A h \in Generations : opened'[h] = 0 => down[h] = <<>>
    BY <1>3, <1>6, <2>1 DEF Carries
  <2>4. QED  BY <1>4, <1>5, <2>1, <2>2, <2>3 DEF Carries
<1>9. OnWire'
  <2>1. \A h \in Generations : opened'[h] <= server'.revision
    BY <1>2, <1>5, <1>6 DEF IInv, OnWire
  <2>2. \A h \in Generations : opened'[h] = 0 => up'[h] = <<>>
    BY <1>3, <1>4, <1>6 DEF IInv, OnWire
  <2>3. client'.socket # "open" /\ (server'.attached # 0 => opened'[server'.attached] # 0)
    BY <1>1, <1>3, <1>4, <1>5, <1>6
  <2>4. client'.revision <= server'.revision /\ (~server'.applied => server'.revision < MaxRevision)
    BY <1>4, <1>5 DEF IInv, OnWire
  <2>5. QED  BY <1>8, <2>1, <2>2, <2>3, <2>4 DEF OnWire
<1>10. Sound(client') /\ FreshWhenConnected'
  BY <1>1, <1>4 DEF IInv, FreshWhenConnected, Live
<1>11. Shows
  BY <1>4, <1>5 DEF Shows
<1>12. QED  BY <1>7, <1>9, <1>10, <1>11 DEF IInv

--------------------------------------------------------- (* the theorems *)
LEMMA NextOk == IInv /\ [Next]_vars => IInv' /\ (Shows \/ UNCHANGED vars)
<1>. SUFFICES ASSUME IInv, [Next]_vars
              PROVE  IInv' /\ (Shows \/ UNCHANGED vars)
  OBVIOUS
<1>1. CASE Start \/ TicketIssued \/ TicketRefused \/ TicketLost \/ Open \/ Lost
  BY <1>1, StartOk, TicketIssuedOk, TicketRefusedOk, TicketLostOk, OpenOk, LostOk
<1>2. CASE Resync \/ Reconnect \/ Send \/ Dispose \/ Accept \/ Commit
  BY <1>2, ResyncOk, ReconnectOk, SendOk, DisposeOk, AcceptOk, CommitOk
<1>3. ASSUME NEW g \in Generations, NEW i, Deliver(g, i)
      PROVE  IInv' /\ Shows
  BY <1>3, DeliverOk
<1>4. ASSUME NEW r \in Request, RequestFails(r)
      PROVE  IInv' /\ Shows
  BY <1>4, RequestFailsOk
<1>5. ASSUME NEW g \in Generations,
             AnswerSync(g) \/ AnswerCommand(g) \/ Refuse(g) \/ ServerError(g) \/ Die(g)
      PROVE  IInv' /\ Shows
  BY <1>5, AnswerSyncOk, AnswerCommandOk, RefuseOk, ServerErrorOk, DieOk
<1>6. CASE UNCHANGED vars
  <2>1. Carries(down, server.revision)'
    BY <1>6 DEF vars, IInv, OnWire, Carries
  <2>2. QED
    BY <1>6, <2>1 DEF vars, IInv, TypeOK, OnWire, FreshWhenConnected
<1>7. QED  BY <1>1, <1>2, <1>3, <1>4, <1>5, <1>6 DEF Next

LEMMA Invariance == Spec => []IInv
<1>1. QED  BY InitIInv, NextOk, PTL DEF Spec

\* Every state of the client, of the wire and of the server is one the code has.
THEOREM TypeCorrect == Spec => []TypeOK
<1>1. IInv => TypeOK
  BY DEF IInv
<1>2. QED  BY <1>1, Invariance, PTL

\* The connection state machine agrees with its transport in every state: a live
\* session has an open socket of its own generation, and no request waits for an
\* answer that cannot come (ConnectionStateMachine, BrowserWebSocketTransport).
THEOREM TransportAgreed == Spec => []TransportAgrees
<1>1. IInv => TransportAgrees
  BY DEF IInv, Sound, Agrees, TransportAgrees
<1>2. QED  BY <1>1, Invariance, PTL

\* A Connected session shows nothing older than what the server had when it
\* accepted the connection, whatever is reordered, lost or late.
THEOREM FreshAlways == Spec => []FreshWhenConnected
<1>1. IInv => FreshWhenConnected
  BY DEF IInv
<1>2. QED  BY <1>1, Invariance, PTL

LEMMA InitView == Init => Abstract!Init
BY DEF Init, Abstract!Init

LEMMA NextView ==
  IInv /\ [Next]_vars =>
    [Abstract!Next]_<<server.revision, client.revision, client.status = "Disposed">>
<1>. SUFFICES ASSUME IInv, [Next]_vars
              PROVE  [Abstract!Next]_<<server.revision, client.revision,
                                       client.status = "Disposed">>
  OBVIOUS
<1>1. CASE Shows
  BY <1>1 DEF Shows, Abstract!Next
<1>2. CASE UNCHANGED vars
  BY <1>2 DEF vars
<1>3. QED  BY <1>1, <1>2, NextOk

\* A session implements the abstract view: what it shows the server really had,
\* and never goes back, over every reconnection (AuthoritativeClientStateStore).
THEOREM SessionImplementsView == Spec => ViewForward
<1>1. QED  BY InitView, NextView, Invariance, PTL DEF Spec, ViewForward, Abstract!View

------------------------------------------- (* on a network that keeps order *)
IsView(m) == m.kind \in {"state", "synced"}

\* The messages q on their way to a client that shows revision rev of its own view
\* and room of the room's: no view among them is older than one before it, and the
\* room's view comes before every pushed view that is newer.
Fits(q, rev, room) ==
  /\ \A j \in DOMAIN q : IsView(q[j]) => rev <= q[j].revision
  /\ \A i, j \in DOMAIN q :
       i < j /\ IsView(q[i]) /\ IsView(q[j]) => q[i].revision <= q[j].revision
  /\ \A j \in DOMAIN q : q[j].kind = "state" =>
       \/ q[j].revision <= room
       \/ \E i \in DOMAIN q : /\ i < j /\ q[i].kind = "room"
                             /\ q[j].revision <= q[i].revision

\* No connection is accepted before it is asked for.
Unopened ==
  \A h \in Generations :
    h > client.generation \/ (h = client.generation /\ client.socket = "ticket")
      => opened[h] = 0

Orderly(c) == c.revision <= c.roomRevision /\ c.failure # "stale"

InOrder ==
  /\ Unopened
  /\ Orderly(client)
  /\ client.socket # "none" =>
       Fits(down[client.active], client.revision, client.roomRevision)

OrderInv == ordered => InOrder

\* An event after which the client has no connection it had not before, and has
\* not failed for a late answer.
Stays(c, d) ==
  /\ d.generation = c.generation
  /\ d.socket # "none" => c.socket # "none" /\ d.active = c.active
  /\ d.socket = "ticket" => c.socket = "ticket"
  /\ d.failure = "stale" => c.failure = "stale"

\* ... and shows what it showed.
Keeps(c, d) ==
  /\ Stays(c, d)
  /\ d.revision = c.revision /\ d.roomRevision = c.roomRevision

LEMMA RejectKeeps ==
  ASSUME NEW c \in Client, NEW rs
  PROVE  Keeps(c, Reject(c, rs))
<1>. DEFINE p == c.pending \ rs
            k == IF \E r \in rs : r.kind = "command" THEN "failed" ELSE c.command
<1>1. Reject(c, rs) = [c EXCEPT !.pending = p, !.command = k]
  BY DEF Reject, Client
<1>. HIDE DEF p, k
<1>2. QED  BY <1>1 DEF Keeps, Stays, Client

LEMMA DisconnectKeeps ==
  ASSUME NEW c, Sound(c), NEW d, d = Disconnect(c)
  PROVE  d \in Client /\ Keeps(c, d) /\ d.socket = "none"
<1>. DEFINE b == Reject(c, OfGeneration(c, c.active))
<1>1. b \in Client /\ Keeps(c, b)
  BY RejectAll, RejectKeeps DEF Sound
<1>2. d = [b EXCEPT !.active = 0, !.socket = "none"]
  BY DEF Disconnect
<1>3. d \in Client
  BY DisconnectAll
<1>. HIDE DEF b
<1>4. QED  BY <1>1, <1>2, <1>3 DEF Keeps, Stays, Client

LEMMA FailKeeps ==
  ASSUME NEW c, Sound(c), NEW why, why # "stale"
  PROVE  Keeps(c, Fail(c, why)) /\ Fail(c, why).socket = "none"
<1>. DEFINE b == Disconnect(c)
<1>1. b \in Client /\ Keeps(c, b) /\ b.socket = "none"
  BY DisconnectKeeps
<1>2. Fail(c, why) = [b EXCEPT !.status = "Failed", !.failure = why]
  BY DEF Fail
<1>. HIDE DEF b
<1>3. QED  BY <1>1, <1>2 DEF Keeps, Stays, Client

LEMMA UnavailableKeeps ==
  ASSUME NEW c, Sound(c)
  PROVE  Keeps(c, Unavailable(c)) /\ Unavailable(c).socket = "none"
<1>. DEFINE b == Disconnect(c)
<1>1. b \in Client /\ Keeps(c, b) /\ b.socket = "none"
  BY DisconnectKeeps
<1>2. Unavailable(c) = [b EXCEPT !.status = "Disconnected"]
  BY DEF Unavailable
<1>. HIDE DEF b
<1>3. QED  BY <1>1, <1>2 DEF Keeps, Stays, Client

LEMMA SocketClosedKeeps ==
  ASSUME NEW c, Sound(c)
  PROVE  Keeps(c, SocketClosed(c))
<1>. DEFINE b == Reject(c, OfGeneration(c, c.active))
<1>1. b \in Client /\ Keeps(c, b)
  BY RejectAll, RejectKeeps DEF Sound
<1>2. SocketClosed(c) = [b EXCEPT !.status = "Disconnected", !.socket = "none"]
  BY DEF SocketClosed
<1>. HIDE DEF b
<1>3. QED  BY <1>1, <1>2 DEF Keeps, Stays, Client

LEMMA SyncLostKeeps ==
  ASSUME NEW c, Sound(c), NEW g
  PROVE  Keeps(c, SyncLost(c, g))
<1>1. Keeps(c, c)
  BY DEF Keeps, Stays
<1>2. QED  BY <1>1, UnavailableKeeps DEF SyncLost

LEMMA SyncRefusedKeeps ==
  ASSUME NEW c, Sound(c), NEW g
  PROVE  Keeps(c, SyncRefused(c, g))
<1>1. Keeps(c, c)
  BY DEF Keeps, Stays
<1>2. QED  BY <1>1, FailKeeps DEF SyncRefused

\* The first message to a live client, when what is shown and what arrives fit.
Fitting(c, m) ==
  /\ IsView(m) => c.revision <= m.revision
  /\ m.kind = "state" => m.revision <= c.roomRevision

\* What it leaves: nothing newer is shown than the room, and what it brought.
Brings(c, d, m) ==
  /\ Stays(c, d)
  /\ c.roomRevision <= d.roomRevision
  /\ d.revision <= d.roomRevision
  /\ d.revision = c.revision \/ (IsView(m) /\ d.revision = m.revision)
  /\ m.kind = "room" /\ d.socket # "none" => m.revision <= d.roomRevision

LEMMA KeepsBrings ==
  ASSUME NEW c \in Client, NEW d, NEW m, Orderly(c), Keeps(c, d),
         m.kind # "room" \/ d.socket = "none"
  PROVE  Brings(c, d, m)
<1>1. c.roomRevision \in Nat
  BY BoundAssumption DEF Client, Revisions
<1>2. QED  BY <1>1 DEF Keeps, Brings, Orderly

LEMMA ShownBrings ==
  ASSUME NEW c \in Client, NEW m \in Message, IsView(m), Orderly(c),
         m.revision <= c.roomRevision,
         NEW d, d = Synchronized([c EXCEPT !.revision = m.revision])
  PROVE  Brings(c, d, m)
<1>1. c.roomRevision \in Nat
  BY BoundAssumption DEF Client, Revisions
<1>2. /\ d.revision = m.revision /\ d.roomRevision = c.roomRevision
      /\ d.generation = c.generation /\ d.socket = c.socket /\ d.active = c.active
      /\ d.failure = c.failure
  BY DEF Synchronized, Client
<1>3. QED  BY <1>1, <1>2 DEF Brings, Stays, IsView

\* While the client is live, every room view that is newer is taken.
LEMMA RoomTaken ==
  ASSUME NEW c, Sound(c), c.status \in Live, NEW r \in Revisions, Orderly(c),
         NEW d, d = ReceiveRoom(c, c.generation, r)
  PROVE  /\ d \in Client /\ Stays(c, d) /\ Orderly(d)
         /\ d.status = c.status /\ d.revision = c.revision
         /\ d.storeGeneration = c.storeGeneration
         /\ c.roomRevision <= d.roomRevision /\ r <= d.roomRevision
<1>1. c \in Client /\ c.revision \in Nat /\ c.roomRevision \in Nat /\ r \in Nat
  BY BoundAssumption DEF Sound, Client, Revisions
<1>2. CASE r > c.roomRevision
  <2>1. d = [c EXCEPT !.roomRevision = r]
    BY <1>2 DEF ReceiveRoom
  <2>2. QED  BY <1>1, <1>2, <2>1 DEF Client, Stays, Orderly
<1>3. CASE ~(r > c.roomRevision)
  <2>1. d = c
    BY <1>3 DEF ReceiveRoom
  <2>2. QED  BY <1>1, <1>3, <2>1 DEF Stays
<1>4. QED  BY <1>2, <1>3

\* The answer to a synchronisation is never taken for a late one.
LEMMA SyncedBrings ==
  ASSUME NEW c, Sound(c), c.status \in Live, NEW m \in Message, m.kind = "synced",
         Orderly(c), Fitting(c, m)
  PROVE  Brings(c, Synced(c, c.generation, m.revision), m)
<1>. DEFINE b == ReceiveRoom(c, c.generation, m.revision)
            d == Synced(c, c.generation, m.revision)
<1>1. m.revision \in Revisions
  BY DEF Message
<1>2. /\ b \in Client /\ Stays(c, b) /\ Orderly(b)
      /\ b.status = c.status /\ b.revision = c.revision
      /\ b.storeGeneration = c.storeGeneration
      /\ c.roomRevision <= b.roomRevision /\ m.revision <= b.roomRevision
  BY <1>1, RoomTaken
<1>3. d = AcceptSync(b, c.generation, m.revision)
  BY DEF Synced
<1>4. b.generation = c.generation /\ c.storeGeneration = c.generation
  BY <1>2 DEF Stays, Sound, Live
<1>5. Acceptable(b, c.generation, m.revision)
  BY <1>2, <1>4 DEF Acceptable, Fitting, IsView
<1>. HIDE DEF b, d
<1>6. ASSUME b.status # "Syncing" PROVE Brings(c, d, m)
  <2>1. d = b
    BY <1>3, <1>6 DEF AcceptSync
  <2>2. QED  BY <1>2, <2>1 DEF Brings, Orderly
<1>7. ASSUME b.status = "Syncing" PROVE Brings(c, d, m)
  <2>1. d = Synchronized([b EXCEPT !.revision = m.revision])
    BY <1>3, <1>4, <1>5, <1>7 DEF AcceptSync
  <2>2. Brings(b, d, m)
    BY <1>2, <2>1, ShownBrings DEF IsView
  <2>3. /\ c.roomRevision \in Nat /\ b.roomRevision \in Nat /\ d.roomRevision \in Nat
    <3>1. d.roomRevision = b.roomRevision
      BY <1>2, <2>1 DEF Synchronized, Client
    <3>2. QED  BY <1>2, <3>1, BoundAssumption DEF Sound, Client, Revisions
  <2>4. QED  BY <1>2, <2>2, <2>3 DEF Brings, Stays
<1>8. QED  BY <1>6, <1>7 DEF d

LEMMA AnsweredBrings ==
  ASSUME NEW c, Sound(c), c.status \in Live, NEW r \in c.pending, NEW m \in Message,
         m.kind # "room", Orderly(c), Fitting(c, m)
  PROVE  Brings(c, Answered(c, r, m), m)
<1>. DEFINE d == [c EXCEPT !.pending = @ \ {r}]
<1>1. c \in Client /\ r \in Request /\ r.generation = c.generation
  BY DEF Sound, Agrees, Client
<1>2. CASE r.kind = "command"
  <2>. DEFINE how == IF m.kind = "done" THEN "done" ELSE "failed"
              e == Answered(c, r, m)
  <2>1. e = [c EXCEPT !.pending = @ \ {r}, !.command = how]
    BY <1>1, <1>2 DEF Answered, Client
  <2>. HIDE DEF how, e
  <2>2. Keeps(c, e)
    BY <1>1, <2>1 DEF Keeps, Stays, Client
  <2>3. Brings(c, e, m)
    BY <1>1, <2>2, KeepsBrings
  <2>4. QED  BY <2>3 DEF e
<1>3. CASE r.kind # "command"
  <2>1. r.kind = "sync"
    BY <1>1, <1>3 DEF Request
  <2>2. Sound(d)
    <3>1. Moves(c, d, 0, 0)
      BY <2>1, SyncTaken
    <3>2. QED  BY <3>1 DEF Moves
  <2>3. /\ d \in Client /\ Keeps(c, d) /\ Keeps(d, c) /\ d.status = c.status
        /\ d.generation = c.generation
    BY <1>1, <2>2 DEF Keeps, Stays, Client, Sound
  <2>. HIDE DEF d
  <2>4. Orderly(d) /\ Fitting(d, m)
    BY <2>3 DEF Keeps, Orderly, Fitting, Stays
  <2>5. CASE m.kind # "synced"
    <3>1. Answered(c, r, m) = SyncRefused(d, d.generation)
      BY <1>1, <1>3, <2>3, <2>5 DEF Answered, d
    <3>2. Keeps(d, SyncRefused(d, d.generation))
      BY <2>2, SyncRefusedKeeps
    <3>3. Keeps(c, SyncRefused(d, d.generation))
      BY <2>3, <3>2 DEF Keeps, Stays
    <3>4. QED  BY <1>1, <3>1, <3>3, KeepsBrings
  <2>6. CASE m.kind = "synced"
    <3>1. Answered(c, r, m) = Synced(d, d.generation, m.revision)
      BY <1>1, <1>3, <2>3, <2>6 DEF Answered, d
    <3>2. Brings(d, Synced(d, d.generation, m.revision), m)
      BY <2>2, <2>3, <2>4, <2>6, SyncedBrings
    <3>3. QED  BY <2>3, <3>1, <3>2 DEF Brings, Keeps, Stays
  <2>7. QED  BY <2>5, <2>6
<1>4. QED  BY <1>2, <1>3

LEMMA HandleBrings ==
  ASSUME NEW c, Sound(c), c.socket = "open", NEW m \in Message,
         Orderly(c), Fitting(c, m)
  PROVE  Brings(c, Handle(c, c.active, m), m)
<1>1. /\ c \in Client /\ c.status \in Live /\ c.active = c.generation
      /\ c.storeGeneration = c.generation
  BY DEF Sound, Agrees, Live, Opening
<1>2. Keeps(c, c)
  BY DEF Keeps, Stays
<1>3. CASE m.kind = "state"
  <2>1. Handle(c, c.active, m) = ReceiveState(c, c.active, m.revision)
    BY <1>3 DEF Handle
  <2>2. CASE Acceptable(c, c.active, m.revision)
    <3>1. Handle(c, c.active, m) = Synchronized([c EXCEPT !.revision = m.revision])
      BY <1>1, <2>1, <2>2 DEF ReceiveState
    <3>2. m.revision <= c.roomRevision
      BY <1>3 DEF Fitting
    <3>3. QED  BY <1>1, <1>3, <3>1, <3>2, ShownBrings DEF IsView
  <2>3. CASE ~Acceptable(c, c.active, m.revision)
    <3>1. Handle(c, c.active, m) = c
      BY <2>1, <2>3 DEF ReceiveState
    <3>2. QED  BY <1>1, <1>2, <1>3, <3>1, KeepsBrings
  <2>4. QED  BY <2>2, <2>3
<1>4. CASE m.kind = "room"
  <2>1. Handle(c, c.active, m) = ReceiveRoom(c, c.generation, m.revision)
    BY <1>1, <1>4 DEF Handle
  <2>2. m.revision \in Revisions
    BY DEF Message
  <2>3. QED  BY <1>1, <2>1, <2>2, RoomTaken DEF Brings, Orderly
<1>5. CASE m.kind = "error"
  <2>1. Handle(c, c.active, m) = Fail(c, "protocol")
    BY <1>5 DEF Handle
  <2>2. Keeps(c, Fail(c, "protocol"))
    BY FailKeeps
  <2>3. QED  BY <1>1, <1>5, <2>1, <2>2, KeepsBrings
<1>6. CASE m.kind \notin {"state", "room", "error"}
  <2>. DEFINE r == CHOOSE r \in OfGeneration(c, c.active) : r.id = m.id
  <2>1. CASE \E q \in OfGeneration(c, c.active) : q.id = m.id
    <3>1. r \in c.pending
      BY <2>1 DEF OfGeneration
    <3>2. Handle(c, c.active, m) = Answered(c, r, m)
      BY <1>6, <2>1 DEF Handle
    <3>. HIDE DEF r
    <3>3. QED  BY <1>1, <1>6, <3>1, <3>2, AnsweredBrings
  <2>2. CASE ~\E q \in OfGeneration(c, c.active) : q.id = m.id
    <3>1. Handle(c, c.active, m) = c
      BY <1>6, <2>2 DEF Handle
    <3>2. QED  BY <1>1, <1>2, <1>6, <3>1, KeepsBrings
  <2>3. QED  BY <2>1, <2>2
<1>7. QED  BY <1>3, <1>4, <1>5, <1>6

---------------------------------------------- (* what a queue of views says *)
LEMMA EmptyFits == \A rev, room : Fits(<<>>, rev, room)
BY DEF Fits

LEMMA Behead ==
  ASSUME NEW S, NEW q \in Seq(S), q # <<>>
  PROVE  /\ RemoveAt(q, 1) \in Seq(S)
         /\ Len(RemoveAt(q, 1)) = Len(q) - 1
         /\ \A j \in DOMAIN RemoveAt(q, 1) :
              j + 1 \in DOMAIN q /\ RemoveAt(q, 1)[j] = q[j + 1]
<1>1. SubSeq(q, 1, 0) = <<>> /\ Len(q) \in Nat \ {0}
  OBVIOUS
<1>2. RemoveAt(q, 1) = <<>> \o SubSeq(q, 2, Len(q))
  BY <1>1 DEF RemoveAt
<1>3. <<>> \o SubSeq(q, 2, Len(q)) = SubSeq(q, 2, Len(q))
  BY <1>1
<1>. DEFINE t == RemoveAt(q, 1)
            n == Len(q)
<1>4. t = SubSeq(q, 2, n)
  BY <1>2, <1>3
<1>5. q \in Seq(S) /\ n \in Nat \ {0} /\ DOMAIN q = 1 .. n
  BY <1>1
<1>. HIDE DEF t, n
<1>6. n - 1 \in Nat /\ n \in Nat
  BY <1>5
<1>7. t \in Seq(S) /\ Len(t) = n - 1
  BY <1>4, <1>5, <1>6
<1>8. ASSUME NEW j \in DOMAIN t
      PROVE  j + 1 \in DOMAIN q /\ t[j] = q[j + 1]
  <2>1. j \in 1 .. n - 1
    BY <1>7
  <2>2. t[j] = q[2 + j - 1]
    BY <1>4, <1>5, <1>6, <2>1
  <2>3. 2 + j - 1 = j + 1 /\ j + 1 \in 1 .. n
    BY <1>6, <2>1
  <2>4. QED  BY <1>5, <2>2, <2>3
<1>9. QED  BY <1>7, <1>8 DEF t, n

\* The head taken, the rest fits what it left.
LEMMA HeadTakenFits ==
  ASSUME NEW q \in Seq(Message), q # <<>>, NEW c \in Client, NEW d \in Client,
         Orderly(c), Fits(q, c.revision, c.roomRevision), Brings(c, d, q[1]),
         d.socket # "none"
  PROVE  Fits(RemoveAt(q, 1), d.revision, d.roomRevision)
<1>. DEFINE t == RemoveAt(q, 1)
<1>1. /\ t \in Seq(Message) /\ 1 \in DOMAIN q
      /\ \A j \in DOMAIN t : j + 1 \in DOMAIN q /\ t[j] = q[j + 1] /\ j \in Nat \ {0}
      /\ \A j \in DOMAIN q : j # 1 => j - 1 \in DOMAIN t /\ t[j - 1] = q[j]
  <2>1. t \in Seq(Message) /\ Len(t) = Len(q) - 1
    BY Behead
  <2>2. \A j \in DOMAIN t : j + 1 \in DOMAIN q /\ t[j] = q[j + 1]
    BY Behead
  <2>. HIDE DEF t
  <2>3. DOMAIN t = 1 .. Len(t) /\ DOMAIN q = 1 .. Len(q) /\ Len(q) \in Nat
    BY <2>1
  <2>4. Len(q) # 0
    OBVIOUS
  <2>5. QED  BY <2>1, <2>2, <2>3, <2>4
<1>. HIDE DEF t
<1>2. \A j \in DOMAIN q : q[j] \in Message /\ q[j].revision \in Nat
  <2>1. \A m \in Message : m.revision \in Nat
    BY BoundAssumption DEF Message, Revisions
  <2>2. \A j \in DOMAIN q : q[j] \in Message
    OBVIOUS
  <2>3. QED  BY <2>1, <2>2
<1>3. /\ c.revision \in Nat /\ d.revision \in Nat
      /\ c.roomRevision \in Nat /\ d.roomRevision \in Nat
  BY BoundAssumption DEF Client, Revisions
<1>4. ASSUME NEW j \in DOMAIN t, IsView(t[j])
      PROVE  d.revision <= t[j].revision
  <2>1. j + 1 \in DOMAIN q /\ t[j] = q[j + 1] /\ 1 < j + 1
    BY <1>1
  <2>2. c.revision <= q[j + 1].revision
    BY <1>4, <2>1 DEF Fits
  <2>3. IsView(q[1]) => q[1].revision <= q[j + 1].revision
    BY <1>1, <1>4, <2>1 DEF Fits
  <2>4. QED  BY <2>1, <2>2, <2>3 DEF Brings
<1>5. ASSUME NEW i \in DOMAIN t, NEW j \in DOMAIN t, i < j, IsView(t[i]), IsView(t[j])
      PROVE  t[i].revision <= t[j].revision
  <2>1. /\ i + 1 \in DOMAIN q /\ t[i] = q[i + 1] /\ j + 1 \in DOMAIN q /\ t[j] = q[j + 1]
        /\ i + 1 < j + 1
    BY <1>1, <1>5
  <2>2. QED  BY <1>5, <2>1 DEF Fits
<1>6. ASSUME NEW j \in DOMAIN t, t[j].kind = "state"
      PROVE  \/ t[j].revision <= d.roomRevision
             \/ \E i \in DOMAIN t : /\ i < j /\ t[i].kind = "room"
                                   /\ t[j].revision <= t[i].revision
  <2>1. j + 1 \in DOMAIN q /\ t[j] = q[j + 1] /\ j \in Nat
    BY <1>1
  <2>2. CASE q[j + 1].revision <= c.roomRevision
    BY <1>2, <1>3, <2>1, <2>2 DEF Brings
  <2>3. ASSUME NEW k \in DOMAIN q, k < j + 1, q[k].kind = "room",
               q[j + 1].revision <= q[k].revision
        PROVE  \/ t[j].revision <= d.roomRevision
               \/ \E i \in DOMAIN t : /\ i < j /\ t[i].kind = "room"
                                     /\ t[j].revision <= t[i].revision
    <3>1. CASE k = 1
      BY <1>1, <1>2, <1>3, <2>1, <2>3, <3>1 DEF Brings
    <3>2. CASE k # 1
      <4>1. k - 1 \in DOMAIN t /\ t[k - 1] = q[k] /\ k - 1 < j
        BY <1>1, <2>1, <2>3, <3>2
      <4>2. QED  BY <2>1, <2>3, <4>1
    <3>3. QED  BY <3>1, <3>2
  <2>4. q[j + 1].kind = "state"
    BY <1>6, <2>1
  <2>5. QED  BY <2>1, <2>2, <2>3, <2>4 DEF Fits
<1>7. Fits(t, d.revision, d.roomRevision)
  BY <1>4, <1>5, <1>6 DEF Fits
<1>8. QED  BY <1>7 DEF t

\* The head fits the client.
LEMMA HeadFits ==
  ASSUME NEW q \in Seq(Message), 1 \in DOMAIN q, NEW c \in Client,
         Fits(q, c.revision, c.roomRevision)
  PROVE  Fitting(c, q[1])
<1>1. ~\E i \in DOMAIN q : i < 1
  OBVIOUS
<1>2. QED  BY <1>1 DEF Fits, Fitting

\* A message that is sent fits if no view was sent that is newer, and the room's
\* view before it.
LEMMA AppendedFits ==
  ASSUME NEW q \in Seq(Message), NEW m \in Message, NEW rev \in Nat, NEW room \in Nat,
         Fits(q, rev, room),
         IsView(m) => /\ rev <= m.revision
                      /\ \A j \in DOMAIN q : IsView(q[j]) => q[j].revision <= m.revision,
         m.kind = "state" =>
           \E i \in DOMAIN q : q[i].kind = "room" /\ m.revision <= q[i].revision
  PROVE  Fits(Append(q, m), rev, room)
<1>. DEFINE t == Append(q, m)
            n == Len(q) + 1
<1>1. /\ DOMAIN q = 1 .. Len(q) /\ DOMAIN t = DOMAIN q \union {n} /\ Len(q) \in Nat
      /\ t[n] = m /\ \A j \in DOMAIN q : t[j] = q[j] /\ j < n /\ j \in Nat
  OBVIOUS
<1>. HIDE DEF t, n
<1>2. ASSUME NEW j \in DOMAIN t, IsView(t[j])
      PROVE  rev <= t[j].revision
  BY <1>1, <1>2 DEF Fits
<1>3. ASSUME NEW i \in DOMAIN t, NEW j \in DOMAIN t, i < j, IsView(t[i]), IsView(t[j])
      PROVE  t[i].revision <= t[j].revision
  <2>1. i \in DOMAIN q
    BY <1>1, <1>3 DEF n
  <2>2. CASE j = n
    BY <1>1, <1>3, <2>1, <2>2
  <2>3. CASE j # n
    BY <1>1, <1>3, <2>1, <2>3 DEF Fits
  <2>4. QED  BY <2>2, <2>3
<1>4. ASSUME NEW j \in DOMAIN t, t[j].kind = "state"
      PROVE  \/ t[j].revision <= room
             \/ \E i \in DOMAIN t : /\ i < j /\ t[i].kind = "room"
                                   /\ t[j].revision <= t[i].revision
  <2>1. CASE j = n
    BY <1>1, <1>4, <2>1
  <2>2. CASE j # n
    BY <1>1, <1>4, <2>2 DEF Fits
  <2>3. QED  BY <2>1, <2>2
<1>5. Fits(t, rev, room)
  BY <1>2, <1>3, <1>4 DEF Fits
<1>6. QED  BY <1>5 DEF t

--------------------------------------------- (* the steps, views in order *)
LEMMA KeepsOn ==
  ASSUME NEW c, NEW d, NEW e, Keeps(c, d), Keeps(d, e)
  PROVE  Keeps(c, e)
BY DEF Keeps, Stays

LEMMA AskKeeps ==
  ASSUME NEW c \in Client, NEW kind, Ask(c, kind)
  PROVE  Keeps(c, client')
<1>1. PICK r : client' = [c EXCEPT !.pending = @ \union {r}]
  BY DEF Ask
<1>2. QED  BY <1>1 DEF Keeps, Stays, Client

LEMMA KeptStep ==
  ASSUME InOrder, Keeps(client, client'), UNCHANGED <<ordered, down, opened>>
  PROVE  InOrder'
<1>1. Unopened'
  BY DEF InOrder, Unopened, Keeps, Stays
<1>2. QED  BY <1>1 DEF InOrder, Orderly, Keeps, Stays

LEMMA EndsKeep ==
  ASSUME IInv, TicketRefused \/ TicketLost \/ Lost
  PROVE  Keeps(client, client')
<1>1. Sound(client)
  BY DEF IInv
<1>2. CASE TicketRefused
  BY <1>1, <1>2, FailKeeps DEF TicketRefused
<1>3. CASE TicketLost \/ Lost
  BY <1>1, <1>3, SocketClosedKeeps DEF TicketLost, Lost
<1>4. QED  BY <1>2, <1>3

LEMMA AsksKeep ==
  ASSUME IInv, TicketIssued \/ Open \/ Resync \/ Send
  PROVE  Keeps(client, client')
<1>1. client \in Client
  BY DEF IInv, Sound
<1>2. CASE TicketIssued
  BY <1>1, <1>2 DEF TicketIssued, Keeps, Stays, Client
<1>3. CASE Open
  <2>. DEFINE c == [client EXCEPT !.socket = "open", !.status = "Syncing"]
  <2>1. c \in Client /\ Keeps(client, c)
    BY <1>1, <1>3 DEF Open, Keeps, Stays, Client, Statuses
  <2>2. Ask(c, "sync")
    BY <1>3 DEF Open
  <2>. HIDE DEF c
  <2>3. QED  BY <2>1, <2>2, AskKeeps, KeepsOn
<1>4. CASE Resync
  <2>. DEFINE c == [client EXCEPT !.status = "Syncing"]
  <2>1. c \in Client /\ Keeps(client, c)
    BY <1>1 DEF Keeps, Stays, Client, Statuses
  <2>2. Ask(c, "sync")
    BY <1>4 DEF Resync
  <2>. HIDE DEF c
  <2>3. QED  BY <2>1, <2>2, AskKeeps, KeepsOn
<1>5. CASE Send
  <2>. DEFINE c == [client EXCEPT !.command = "waiting"]
  <2>1. c \in Client /\ Keeps(client, c)
    BY <1>1 DEF Keeps, Stays, Client
  <2>2. Ask(c, "command")
    BY <1>5 DEF Send
  <2>. HIDE DEF c
  <2>3. QED  BY <2>1, <2>2, AskKeeps, KeepsOn
<1>6. QED  BY <1>2, <1>3, <1>4, <1>5

LEMMA RequestFailsKeeps ==
  ASSUME IInv, NEW r \in Request, RequestFails(r)
  PROVE  Keeps(client, client')
<1>. DEFINE b == [client EXCEPT !.pending = @ \ {r}]
            c == [b EXCEPT !.retries = @ + 1]
<1>1. client \in Client /\ Sound(client) /\ r \in client.pending
  BY DEF RequestFails, IInv, Sound
<1>2. client.pending \ {r} \in SUBSET Request
  BY <1>1 DEF Client
<1>3. b \in Client /\ Keeps(client, b) /\ b.retries = client.retries
  BY <1>1, <1>2 DEF Keeps, Stays, Client
<1>4. CASE r.kind = "sync"
  <2>1. client' = SyncLost(b, r.generation)
    BY <1>4 DEF RequestFails
  <2>2. Moves(client, b, 0, 0)
    BY <1>1, <1>4, SyncTaken
  <2>3. Sound(b)
    BY <2>2 DEF Moves
  <2>. HIDE DEF b
  <2>4. QED  BY <1>3, <2>1, <2>3, SyncLostKeeps, KeepsOn
<1>5. CASE r.kind # "sync" /\ client.socket = "open" /\ client.retries < CommandRetries
  <2>1. Ask(c, "command")
    BY <1>5 DEF RequestFails
  <2>2. client.retries + 1 \in 0 .. CommandRetries
    BY <1>1, <1>5, BoundAssumption DEF Client
  <2>. HIDE DEF b
  <2>3. c \in Client /\ Keeps(b, c)
    BY <1>3, <2>2 DEF Keeps, Stays, Client
  <2>. HIDE DEF c
  <2>4. QED  BY <1>3, <2>1, <2>3, AskKeeps, KeepsOn
<1>6. CASE r.kind # "sync" /\ ~(client.socket = "open" /\ client.retries < CommandRetries)
  <2>1. client' = [b EXCEPT !.command = "failed"]
    BY <1>6 DEF RequestFails
  <2>. HIDE DEF b
  <2>2. Keeps(b, client')
    BY <1>3, <2>1 DEF Keeps, Stays, Client
  <2>3. QED  BY <1>3, <2>2, KeepsOn
<1>7. QED  BY <1>4, <1>5, <1>6

\* The first and every later connection: nothing was sent on it yet.
LEMMA NewConnection ==
  ASSUME IInv, InOrder, NEW g \in Generations, g > client.generation,
         client'.generation = g, client'.active = g, client'.socket = "ticket",
         client'.revision = client.revision,
         client'.roomRevision = client.roomRevision,
         client'.failure = client.failure, UNCHANGED <<ordered, down, opened>>
  PROVE  InOrder'
<1>1. client.generation \in Nat /\ g \in Nat /\ Generations \subseteq Int
  BY BoundAssumption DEF IInv, Sound, Client, Generations
<1>2. opened[g] = 0
  BY DEF InOrder, Unopened
<1>3. down[g] = <<>>
  BY <1>2 DEF IInv, OnWire, Carries
<1>4. Unopened'
  BY <1>1 DEF InOrder, Unopened
<1>5. QED  BY <1>3, <1>4, EmptyFits DEF InOrder, Orderly

LEMMA StartOrdered == IInv /\ InOrder /\ Start => InOrder'
<1>. SUFFICES ASSUME IInv, InOrder, Start PROVE InOrder'
  OBVIOUS
<1>1. client \in Client /\ client.generation = 0 /\ 1 \in Generations
  BY BoundAssumption DEF IInv, Sound, Start, Generations
<1>2. client' = [client EXCEPT !.status = "Connecting", !.generation = 1,
                               !.storeGeneration = 1, !.active = 1, !.socket = "ticket"]
  BY DEF Start
<1>3. /\ client'.generation = 1 /\ client'.active = 1 /\ client'.socket = "ticket"
      /\ client'.revision = client.revision
      /\ client'.roomRevision = client.roomRevision
      /\ client'.failure = client.failure
  BY <1>1, <1>2 DEF Client
<1>4. QED  BY <1>1, <1>3, NewConnection DEF Start, QuietNet

LEMMA ReconnectOrdered == IInv /\ InOrder /\ Reconnect => InOrder'
<1>. SUFFICES ASSUME IInv, InOrder, Reconnect PROVE InOrder'
  OBVIOUS
<1>. DEFINE b == Reject(client, OfGeneration(client, client.active))
            g == client.generation + 1
<1>1. client \in Client /\ client.status = "Disconnected" /\ client.socket = "none"
  BY DEF IInv, Sound, Agrees, Reconnect, Live, Opening
<1>2. b \in Client /\ Keeps(client, b)
  BY <1>1, RejectAll, RejectKeeps DEF IInv
<1>3. client' = [b EXCEPT !.status = "Reconnecting", !.generation = g,
                          !.storeGeneration = g, !.active = g, !.socket = "ticket"]
  BY DEF Reconnect
<1>4. b.failure = client.failure
  BY <1>1 DEF Reject, Client
<1>5. g \in Generations /\ g > client.generation
  BY <1>1, BoundAssumption DEF Reconnect, Client, Generations
<1>. HIDE DEF b, g
<1>6. /\ client'.generation = g /\ client'.active = g /\ client'.socket = "ticket"
      /\ client'.revision = client.revision
      /\ client'.roomRevision = client.roomRevision
      /\ client'.failure = client.failure
  BY <1>2, <1>3, <1>4 DEF Client, Keeps
<1>7. QED  BY <1>5, <1>6, NewConnection DEF Reconnect, QuietNet

LEMMA DisposeOrdered == IInv /\ InOrder /\ Dispose => InOrder'
<1>. SUFFICES ASSUME IInv, InOrder, Dispose PROVE InOrder'
  OBVIOUS
<1>. DEFINE c == IF client.status \in Live \union Opening THEN Disconnect(client) ELSE client
<1>1. Sound(client) /\ client \in Client
  BY DEF IInv, Sound
<1>2. c \in Client /\ Keeps(client, c) /\ c.socket = "none"
  <2>1. CASE client.status \in Live \union Opening
    BY <1>1, <2>1, DisconnectKeeps
  <2>2. CASE client.status \notin Live \union Opening
    BY <1>1, <2>2 DEF Sound, Agrees, Keeps, Stays
  <2>3. QED  BY <2>1, <2>2
<1>3. client' = [c EXCEPT !.status = "Disposed", !.revision = 0, !.roomRevision = 0,
                          !.storeGeneration = IF @ = 0 THEN 0 ELSE @ + 1]
  BY DEF Dispose
<1>. HIDE DEF c
<1>4. /\ client'.generation = client.generation /\ client'.socket = "none"
      /\ client'.revision = 0 /\ client'.roomRevision = 0
      /\ client'.failure = "stale" => client.failure = "stale"
  BY <1>2, <1>3 DEF Keeps, Stays, Client
<1>5. QED
  BY <1>4 DEF Unopened, InOrder, Orderly, Dispose, QuietNet


\* In order, the first message of the active connection's queue is handled.
LEMMA DeliverOrdered ==
  ASSUME IInv, InOrder, ordered, NEW g \in Generations, NEW i, Deliver(g, i)
  PROVE  InOrder'
<1>1. /\ 1 \in DOMAIN down[g] /\ i = 1 /\ down' = [down EXCEPT ![g] = RemoveAt(@, 1)]
      /\ UNCHANGED opened
  BY DEF Deliver, QuietNet
<1>2. /\ Sound(client) /\ client \in Client /\ down \in [Generations -> Seq(Message)]
      /\ Unopened /\ Orderly(client)
  BY DEF IInv, Sound, TypeOK, InOrder
<1>3. \A h \in Generations : down'[h] = IF h = g THEN RemoveAt(down[g], 1) ELSE down[h]
  BY <1>1, <1>2
<1>4. CASE g = client.active /\ client.socket = "open"
  <2>. DEFINE m == down[g][1]
  <2>1. client' = Handle(client, g, m) /\ m \in Message
    BY <1>1, <1>2, <1>4 DEF Deliver
  <2>2. client' \in Client
    <3>1. m \in Sendable(opened[g], server.revision)
      BY <1>1, DeliveredCarries DEF IInv, OnWire
    <3>2. Moves(client, client', opened[g], server.revision)
      BY <1>2, <1>4, <2>1, <3>1, HandleMoves, Ranges
    <3>3. QED  BY <3>2 DEF Moves, Sound
  <2>3. Fits(down[g], client.revision, client.roomRevision) /\ down[g] \in Seq(Message)
    BY <1>2, <1>4 DEF InOrder
  <2>4. Fitting(client, m)
    BY <1>1, <1>2, <2>3, HeadFits
  <2>5. Brings(client, client', m)
    BY <1>2, <1>4, <2>1, <2>4, HandleBrings
  <2>6. Orderly(client')
    BY <1>2, <2>5 DEF Brings, Stays, Orderly
  <2>7. Unopened'
    BY <1>1, <1>2, <2>5 DEF Unopened, Brings, Stays
  <2>8. ASSUME client'.socket # "none"
        PROVE  Fits(down'[client'.active], client'.revision, client'.roomRevision)
    <3>1. client'.active = g /\ down'[g] = RemoveAt(down[g], 1) /\ down[g] # <<>>
      BY <1>1, <1>3, <1>4, <2>5, <2>8 DEF Brings, Stays
    <3>2. QED  BY <1>2, <2>2, <2>3, <2>5, <2>8, <3>1, HeadTakenFits
  <2>9. QED  BY <2>6, <2>7, <2>8 DEF InOrder
<1>5. CASE ~(g = client.active /\ client.socket = "open")
  <2>1. client' = client
    BY <1>5 DEF Deliver
  <2>2. client.socket # "none" => client.active \in Generations /\ client.active # g
    <3>1. ASSUME client.socket # "none" PROVE client.active \in Generations
      BY <3>1, Ranges
    <3>2. ASSUME client.socket = "ticket" PROVE client.active # g
      <4>1. opened[client.active] = 0
        BY <1>2, <3>2, Ranges DEF Unopened
      <4>2. opened[g] # 0
        BY <1>1 DEF IInv, OnWire, Carries
      <4>3. QED  BY <4>1, <4>2
    <3>3. client.socket \in {"none", "ticket", "opening", "open"}
      BY <1>2 DEF Client
    <3>4. QED  BY <1>5, <3>1, <3>2, <3>3 DEF Deliver
  <2>3. client.socket # "none" => down'[client.active] = down[client.active]
    BY <1>3, <2>2
  <2>4. QED  BY <1>1, <2>1, <2>3 DEF Unopened, InOrder
<1>6. QED  BY <1>4, <1>5

\* What the server sends, and to whom.
LEMMA CarriedRevision ==
  ASSUME NEW d, NEW high, Carries(d, high), NEW g \in Generations, NEW j \in DOMAIN d[g]
  PROVE  d[g][j].revision <= high
<1>1. d[g][j] \in Sendable(opened[g], high)
  BY DeliveredCarries
<1>2. QED  BY <1>1 DEF Sendable

LEMMA SentOrdered ==
  ASSUME IInv, NEW d, Carries(d, server.revision), NEW g \in Generations,
         NEW m \in Message, m.kind # "state",
         m.kind = "synced" => m.revision = server.revision,
         NEW a \in Generations, Fits(d[a], client.revision, client.roomRevision)
  PROVE  Fits(Sent(d, g, <<m>>)[a], client.revision, client.roomRevision)
<1>1. /\ d[a] \in Seq(Message) /\ client.revision \in Nat /\ client.roomRevision \in Nat
      /\ client.revision <= server.revision
  BY Ranges, BoundAssumption DEF Carries, Client, Revisions, IInv, OnWire
<1>2. CASE a # g \/ g \in dead
  BY <1>2 DEF Sent, Carries
<1>3. CASE a = g /\ g \notin dead
  <2>1. Sent(d, g, <<m>>)[a] = Append(d[a], m)
    BY <1>1, <1>3 DEF Sent, Carries
  <2>2. \A j \in DOMAIN d[a] : d[a][j].revision <= server.revision
    BY CarriedRevision
  <2>3. IsView(m) => m.revision = server.revision
    BY DEF IsView
  <2>4. QED  BY <1>1, <2>1, <2>2, <2>3, AppendedFits
<1>4. QED  BY <1>2, <1>3

LEMMA PushedOrdered ==
  ASSUME IInv, NEW d, Carries(d, server.revision), NEW r \in Revisions,
         r = server.revision + 1,
         NEW a \in Generations, Fits(d[a], client.revision, client.roomRevision)
  PROVE  Fits(Pushed(d, r)[a], client.revision, client.roomRevision)
<1>1. /\ d[a] \in Seq(Message) /\ client.revision \in Nat /\ client.roomRevision \in Nat
      /\ client.revision <= server.revision /\ server.revision \in Nat
  BY Ranges, BoundAssumption DEF Carries, Client, Revisions, IInv, OnWire
<1>2. CASE server.attached # a \/ a \in dead
  BY <1>2 DEF Pushed, Sent, Carries
<1>3. CASE server.attached = a /\ a \notin dead
  <2>. DEFINE room == [kind |-> "room", id |-> 0, revision |-> r]
              state == [kind |-> "state", id |-> 0, revision |-> r]
              q == d[a]
              n == Len(q) + 1
              t == Append(q, room)
  <2>1. room \in Message /\ state \in Message
    BY DEF Message
  <2>2. /\ room.kind = "room" /\ room.revision = r
        /\ state.kind = "state" /\ state.revision = r
    OBVIOUS
  <2>3. a # 0
    BY BoundAssumption DEF Generations
  <2>. HIDE DEF room, state
  <2>4. Pushed(d, r)[a] = q \o <<room, state>>
    BY <1>3, <2>3 DEF Pushed, Sent, Carries, room, state
  <2>5. \A j \in DOMAIN q : q[j].revision <= server.revision /\ q[j].revision \in Nat
    <3>1. \A j \in DOMAIN q : q[j].revision <= server.revision
      BY CarriedRevision
    <3>2. \A k \in Message : k.revision \in Nat
      BY BoundAssumption DEF Message, Revisions
    <3>3. QED  BY <1>1, <3>1, <3>2
  <2>6. q \in Seq(Message)
    BY <1>1
  <2>. HIDE DEF q
  <2>7. /\ t \in Seq(Message) /\ q \o <<room, state>> = Append(t, state)
        /\ DOMAIN t = DOMAIN q \union {n} /\ n \in DOMAIN t /\ t[n] = room
        /\ \A j \in DOMAIN q : t[j] = q[j]
    BY <2>1, <2>6
  <2>. HIDE DEF t, n
  <2>8. Fits(t, client.revision, client.roomRevision)
    <3>1. ~IsView(room)
      BY <2>2 DEF IsView
    <3>2. Fits(q, client.revision, client.roomRevision)
      BY DEF q
    <3>3. QED  BY <1>1, <2>1, <2>2, <2>6, <3>1, <3>2, AppendedFits DEF t
  <2>9. \A j \in DOMAIN t : IsView(t[j]) => t[j].revision <= state.revision
    BY <1>1, <2>2, <2>5, <2>7 DEF IsView
  <2>10. \E i \in DOMAIN t : t[i].kind = "room" /\ state.revision <= t[i].revision
    BY <1>1, <2>2, <2>7
  <2>11. client.revision <= state.revision
    BY <1>1, <2>2
  <2>12. Fits(Append(t, state), client.revision, client.roomRevision)
    BY <1>1, <2>1, <2>7, <2>8, <2>9, <2>10, <2>11, AppendedFits
  <2>13. QED  BY <2>4, <2>7, <2>12
<1>4. QED  BY <1>2, <1>3

LEMMA ServerOrdered ==
  ASSUME IInv, InOrder, UNCHANGED <<client, opened>>,
         \A a \in Generations :
           Fits(down[a], client.revision, client.roomRevision)
             => Fits(down'[a], client.revision, client.roomRevision)
  PROVE  InOrder'
<1>1. client.socket # "none" => client.active \in Generations
  BY Ranges
<1>2. QED  BY <1>1 DEF InOrder, Unopened, Orderly

LEMMA CommitOrdered == IInv /\ InOrder /\ Commit => InOrder'
<1>. SUFFICES ASSUME IInv, InOrder, Commit PROVE InOrder'
  OBVIOUS
<1>1. server.revision + 1 \in Revisions
  BY BoundAssumption DEF Commit, IInv, TypeOK, Revisions
<1>2. Carries(down, server.revision) /\ UNCHANGED <<client, opened>>
  BY DEF IInv, OnWire, Commit
<1>3. down' = Pushed(down, server.revision + 1)
  BY DEF Commit
<1>4. QED  BY <1>1, <1>2, <1>3, PushedOrdered, ServerOrdered

\* Answers: the view the server has now, or none.
LEMMA AnswersOrdered ==
  ASSUME IInv, InOrder, NEW g \in Generations,
         AnswerSync(g) \/ Refuse(g) \/ ServerError(g)
  PROVE  InOrder'
<1>1. Head(up[g]).id \in Ids \union {0} /\ 0 \in Ids \union {0}
  BY TakenOk DEF AnswerSync, Refuse, ServerError, Request
<1>2. Carries(down, server.revision) /\ UNCHANGED <<client, opened>>
  BY DEF IInv, OnWire, AnswerSync, Refuse, ServerError
<1>3. server.revision \in Revisions /\ 0 \in Revisions
  BY BoundAssumption DEF IInv, TypeOK, Revisions
<1>4. PICK m \in Message : /\ down' = Sent(down, g, <<m>>) /\ m.kind # "state"
                           /\ m.kind = "synced" => m.revision = server.revision
  <2>1. CASE AnswerSync(g)
    <3>. DEFINE m == [kind |-> "synced", id |-> Head(up[g]).id,
                      revision |-> server.revision]
    <3>1. m \in Message /\ down' = Sent(down, g, <<m>>)
      BY <1>1, <1>3, <2>1 DEF AnswerSync, Message
    <3>2. QED  BY <3>1
  <2>2. CASE Refuse(g)
    <3>. DEFINE m == [kind |-> "refused", id |-> Head(up[g]).id, revision |-> 0]
    <3>1. m \in Message /\ down' = Sent(down, g, <<m>>)
      BY <1>1, <1>3, <2>2 DEF Refuse, Message
    <3>2. QED  BY <3>1
  <2>3. CASE ServerError(g)
    <3>. DEFINE m == [kind |-> "error", id |-> 0, revision |-> 0]
    <3>1. m \in Message /\ down' = Sent(down, g, <<m>>)
      BY <1>1, <1>3, <2>3 DEF ServerError, Message
    <3>2. QED  BY <3>1
  <2>4. QED  BY <2>1, <2>2, <2>3
<1>5. ASSUME NEW a \in Generations, Fits(down[a], client.revision, client.roomRevision)
      PROVE  Fits(down'[a], client.revision, client.roomRevision)
  BY <1>2, <1>4, <1>5, SentOrdered
<1>6. QED  BY <1>2, <1>5, ServerOrdered

\* A command's answer, and the views it leads to.
LEMMA AnswerCommandOrdered ==
  ASSUME IInv, InOrder, NEW g \in Generations, AnswerCommand(g)
  PROVE  InOrder'
<1>. DEFINE m == [kind |-> "done", id |-> Head(up[g]).id, revision |-> 0]
            sent == Sent(down, g, <<m>>)
<1>1. opened[g] # 0 /\ Head(up[g]).id \in Ids \union {0}
  BY TakenOk DEF AnswerCommand, Request
<1>2. m \in Message /\ m.kind = "done"
  BY <1>1, BoundAssumption DEF Message, Revisions
<1>3. Carries(down, server.revision) /\ Carries(sent, server.revision)
  BY <1>1, PlainAnswer DEF IInv, OnWire
<1>4. UNCHANGED <<client, opened>>
  BY DEF AnswerCommand
<1>5. down' = sent \/ (~server.applied /\ down' = Pushed(sent, server.revision + 1))
  BY DEF AnswerCommand
<1>. HIDE DEF m
<1>6. ASSUME NEW a \in Generations, Fits(down[a], client.revision, client.roomRevision)
      PROVE  Fits(sent[a], client.revision, client.roomRevision)
  BY <1>2, <1>3, <1>6, SentOrdered
<1>. HIDE DEF sent
<1>7. ~server.applied => server.revision + 1 \in Revisions
  BY BoundAssumption DEF IInv, TypeOK, OnWire, Revisions
<1>8. ASSUME NEW a \in Generations, Fits(down[a], client.revision, client.roomRevision)
      PROVE  Fits(down'[a], client.revision, client.roomRevision)
  BY <1>3, <1>5, <1>6, <1>7, <1>8, PushedOrdered
<1>9. QED  BY <1>4, <1>8, ServerOrdered

LEMMA AcceptOrdered == IInv /\ InOrder /\ Accept => InOrder'
<1>. SUFFICES ASSUME IInv, InOrder, Accept PROVE InOrder'
  OBVIOUS
<1>1. client.active = client.generation /\ client.generation \in Nat
  BY Ranges DEF Accept, Client
<1>2. Unopened'
  BY <1>1 DEF Accept, InOrder, Unopened, IInv, TypeOK, Generations
<1>3. QED  BY <1>2 DEF InOrder, Accept

LEMMA DieOrdered ==
  ASSUME InOrder, NEW g \in Generations, Die(g)
  PROVE  InOrder'
BY DEF Die, InOrder, Unopened

LEMMA InitOrdered == Init => OrderInv
<1>. SUFFICES ASSUME Init PROVE InOrder
  BY DEF OrderInv
<1>1. Unopened
  BY DEF Init, Unopened
<1>2. QED  BY <1>1 DEF Init, InOrder, Orderly

LEMMA NextOrdered == IInv /\ OrderInv /\ [Next]_vars => OrderInv'
<1>. SUFFICES ASSUME IInv, OrderInv, [Next]_vars, ordered' PROVE InOrder'
  BY DEF OrderInv
<1>1. ordered
  BY DEF vars, Next, Start, TicketIssued, TicketRefused, TicketLost, Open, Lost,
         Deliver, RequestFails, Resync, Reconnect, Send, Dispose, Accept, Commit,
         AnswerSync, AnswerCommand, Refuse, ServerError, Die, QuietNet
<1>2. InOrder
  BY <1>1 DEF OrderInv
<1>3. CASE TicketIssued \/ Open \/ Resync \/ Send
  BY <1>2, <1>3, AsksKeep, KeptStep DEF TicketIssued, Open, Resync, Send, QuietNet
<1>4. CASE TicketRefused \/ TicketLost \/ Lost
  BY <1>2, <1>4, EndsKeep, KeptStep DEF TicketRefused, TicketLost, Lost, QuietNet
<1>5. CASE Start \/ Reconnect \/ Dispose \/ Accept \/ Commit
  BY <1>2, <1>5, StartOrdered, ReconnectOrdered, DisposeOrdered, AcceptOrdered,
     CommitOrdered
<1>6. ASSUME NEW g \in Generations, NEW i, Deliver(g, i) PROVE InOrder'
  BY <1>1, <1>2, <1>6, DeliverOrdered
<1>7. ASSUME NEW r \in Request, RequestFails(r) PROVE InOrder'
  BY <1>2, <1>7, RequestFailsKeeps, KeptStep DEF RequestFails, QuietNet
<1>8. ASSUME NEW g \in Generations,
             AnswerSync(g) \/ AnswerCommand(g) \/ Refuse(g) \/ ServerError(g) \/ Die(g)
      PROVE  InOrder'
  BY <1>2, <1>8, AnswersOrdered, AnswerCommandOrdered, DieOrdered
<1>9. CASE UNCHANGED vars
  BY <1>2, <1>9 DEF vars, InOrder, Unopened
<1>10. QED  BY <1>3, <1>4, <1>5, <1>6, <1>7, <1>8, <1>9 DEF Next

\* A session is what it claims to be: its status agrees with its transport;
\* Connected, it is no older than its connection; and on a network that keeps order
\* the room is never behind the player's own view and no answer is taken for a late
\* one (AuthoritativeClientStateStore, ConnectionStateMachine).
THEOREM SessionStaysSound == Spec => []SessionSound
<1>1. Spec => []OrderInv
  BY InitOrdered, NextOrdered, Invariance, PTL DEF Spec
<1>2. OrderInv => RoomKeepsUp /\ NoFalseAlarm
  BY DEF OrderInv, InOrder, Orderly, RoomKeepsUp, NoFalseAlarm
<1>3. IInv => client.revision \in Int /\ client.roomRevision \in Int
  BY BoundAssumption DEF IInv, Sound, Client, Revisions
<1>4. IInv /\ OrderInv => RoomKeepsUp /\ NoFalseAlarm
  BY <1>2, <1>3
<1>5. QED
  BY <1>1, <1>4, Invariance, TransportAgreed, FreshAlways, PTL DEF SessionSound
=============================================================================
