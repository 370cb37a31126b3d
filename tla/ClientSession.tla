---------------------------- MODULE ClientSession ----------------------------
(***************************************************************************)
(* One client session: the connection state machine, the store of the      *)
(* authoritative view, the request engine of the raw WebSocket transports  *)
(* (browser and WeChat) and the lifecycle bridge that resynchronises or    *)
(* reconnects when the user comes back. The server answers synchronisation *)
(* requests and commands and pushes every new revision; it is modelled as  *)
(* far as the client sees it.                                              *)
(*                                                                         *)
(* An action is one event of the client's event loop with the microtasks   *)
(* it starts. The client is a record, and what an event does to it an      *)
(* operator from the client to the client it leaves. Revisions start at 1; *)
(* 0 is a view not yet received. A session is only ever sent its own       *)
(* player's views, so a foreign one is out of the model.                   *)
(***************************************************************************)
EXTENDS Integers, Sequences, SequencesExt

CONSTANTS
  MaxGeneration,   \* a bound on the connections of a session
  MaxRevision,     \* a bound on the authoritative revision
  MaxRequests,     \* a bound on the requests under way
  MaxFaults,       \* a bound on what goes wrong in the network
  CommandRetries   \* how often a command is sent again

ASSUME BoundAssumption ==
  /\ MaxGeneration \in Nat \ {0} /\ MaxRevision \in Nat \ {0, 1}
  /\ MaxRequests \in Nat \ {0} /\ MaxFaults \in Nat /\ CommandRetries \in Nat

VARIABLES
  client,    \* the session with its transport
  ordered,   \* the network keeps messages in order
  up, down,  \* messages on their way to the server and to the client, per connection
  dead,      \* connections that carry nothing any more, though nobody was told
  server,    \* the revision, whether the command was applied, the connection attached
  opened,    \* history: the revision when each connection was accepted, 0 before
  faults

vars == <<client, ordered, up, down, dead, server, opened, faults>>

Generations == 1 .. MaxGeneration
Revisions == 0 .. MaxRevision
Ids == 1 .. MaxRequests
Request == [id : Ids, generation : Generations, kind : {"sync", "command"}]
Message == [kind : {"state", "room", "synced", "done", "refused", "error"},
            id : Ids \union {0}, revision : Revisions]

Statuses == {"Idle", "Connecting", "Syncing", "Connected", "Disconnected",
             "Reconnecting", "Failed", "Disposed"}
Live == {"Syncing", "Connected"}
Opening == {"Connecting", "Reconnecting"}

Client ==
  [status : Statuses, generation : 0 .. MaxGeneration,
   failure : {"none", "ticket", "sync", "stale", "protocol"},
   storeGeneration : 0 .. MaxGeneration + 1, revision : Revisions,
   roomRevision : Revisions,
   active : 0 .. MaxGeneration,                        \* activeGeneration
   socket : {"none", "ticket", "opening", "open"},     \* of the active generation
   pending : SUBSET Request,
   command : {"none", "waiting", "done", "failed"}, retries : 0 .. CommandRetries]

Init ==
  /\ client = [status |-> "Idle", generation |-> 0, failure |-> "none",
               storeGeneration |-> 0, revision |-> 0, roomRevision |-> 0,
               active |-> 0, socket |-> "none", pending |-> {},
               command |-> "none", retries |-> 0]
  /\ ordered \in BOOLEAN
  /\ up = [g \in Generations |-> <<>>]
  /\ down = [g \in Generations |-> <<>>]
  /\ dead = {}
  /\ server = [revision |-> 1, applied |-> FALSE, attached |-> 0]
  /\ opened = [g \in Generations |-> 0]
  /\ faults = 0

---------------------------------------------- (* the client, event by event *)
\* Requests that get no answer: the command among them fails.
Reject(c, requests) ==
  [c EXCEPT !.pending = @ \ requests,
            !.command = IF \E r \in requests : r.kind = "command" THEN "failed" ELSE @]
OfGeneration(c, g) == {r \in c.pending : r.generation = g}

\* The core's disconnect: nothing of this connection is listened to any more.
Disconnect(c) ==
  [Reject(c, OfGeneration(c, c.active)) EXCEPT !.active = 0, !.socket = "none"]

\* protocolFailed, transportUnavailable, and transportClosed of the socket's end.
Fail(c, why) == [Disconnect(c) EXCEPT !.status = "Failed", !.failure = why]
Unavailable(c) == [Disconnect(c) EXCEPT !.status = "Disconnected"]
\* Faulty variants (named ...F) stand before the operator they vary.
SocketClosedF(c) == [c EXCEPT !.status = "Disconnected", !.socket = "none"]
SocketClosed(c) ==
  [Reject(c, OfGeneration(c, c.active)) EXCEPT !.status = "Disconnected",
                                                !.socket = "none"]

\* authoritativeStateSynchronized
Synchronized(c) == [c EXCEPT !.status = IF @ = "Syncing" THEN "Connected" ELSE @]

AcceptableF(c, g, r) == g = c.storeGeneration /\ r > 0
\* A view of this generation, newer than the store's or the same once more.
Acceptable(c, g, r) == g = c.storeGeneration /\ r >= c.revision

\* receiveAuthoritativeState
ReceiveState(c, g, r) ==
  IF c.status \in Live /\ Acceptable(c, g, r)
  THEN Synchronized([c EXCEPT !.revision = r]) ELSE c

\* receiveAuthoritativeRoomState
ReceiveRoom(c, g, r) ==
  IF c.status \in Live /\ g = c.generation /\ r > c.roomRevision
  THEN [c EXCEPT !.roomRevision = r] ELSE c

\* acceptSynchronization
AcceptSync(c, g, r) ==
  IF c.status # "Syncing" \/ g # c.generation THEN c
  ELSE IF Acceptable(c, g, r) THEN Synchronized([c EXCEPT !.revision = r])
  ELSE Fail(c, "stale")

\* An error answer to a synchronisation that is still waited for.
SyncRefused(c, g) ==
  IF c.status = "Syncing" /\ g = c.generation THEN Fail(c, "sync") ELSE c
SyncLostF(c, g) == c
SyncLost(c, g) ==
  IF c.status = "Syncing" /\ g = c.generation THEN Unavailable(c) ELSE c

\* The core's synchronize: the answer brings the room's view first.
Synced(c, g, r) == AcceptSync(ReceiveRoom(c, g, r), g, r)

\* resolveResponse: the request is no longer pending, whatever comes of it.
Answered(c, request, message) ==
  LET d == [c EXCEPT !.pending = @ \ {request}]
      g == request.generation
  IN  IF request.kind = "command"
      THEN [d EXCEPT !.command = IF message.kind = "done" THEN "done" ELSE "failed"]
      ELSE IF message.kind # "synced" THEN SyncRefused(d, g)
      ELSE Synced(d, g, message.revision)

\* handleMessage of the active connection.
Handle(c, g, message) ==
  CASE message.kind = "state" -> ReceiveState(c, g, message.revision)
    [] message.kind = "room" -> ReceiveRoom(c, g, message.revision)
    [] message.kind = "error" -> Fail(c, "protocol")
    [] OTHER ->
         IF \E r \in OfGeneration(c, g) : r.id = message.id
         THEN Answered(c, CHOOSE r \in OfGeneration(c, g) : r.id = message.id, message)
         ELSE c

------------------------------------------------------------ (* the network *)
\* Ids of requests nobody speaks of any more: requestIds are never used twice.
InUse(i) == \/ \E r \in client.pending : r.id = i
            \/ \E g \in Generations :
                 \/ \E j \in DOMAIN up[g] : up[g][j].id = i
                 \/ \E j \in DOMAIN down[g] : down[g][j].id = i
Free == {i \in Ids : ~InUse(i)}

\* sendRequest of the client c, by its active connection.
Ask(c, kind) ==
  /\ Free # {}
  /\ LET i == CHOOSE i \in Free : TRUE
         r == [id |-> i, generation |-> c.active, kind |-> kind]
     IN  /\ client' = [c EXCEPT !.pending = @ \union {r}]
         /\ up' = IF c.active \in dead THEN up ELSE [up EXCEPT ![c.active] = Append(@, r)]

\* pushCloudflareAuthoritativeStates: the room's view first, then the player's.
Sent(d, g, messages) == IF g \in dead THEN d ELSE [d EXCEPT ![g] = @ \o messages]
Pushed(d, r) ==
  IF server.attached = 0 THEN d
  ELSE Sent(d, server.attached, <<[kind |-> "room", id |-> 0, revision |-> r],
                                  [kind |-> "state", id |-> 0, revision |-> r]>>)

Fault == faults < MaxFaults /\ faults' = faults + 1
QuietNet == UNCHANGED <<ordered, dead, server, opened>>

------------------------------------------------------------- (* the session *)
Start ==
  /\ client.status = "Idle"
  /\ client' = [client EXCEPT !.status = "Connecting", !.generation = 1,
                              !.storeGeneration = 1, !.active = 1, !.socket = "ticket"]
  /\ UNCHANGED <<up, down, faults>> /\ QuietNet

\* connectCurrent: a ticket, none because it is refused, or none at all.
TicketIssued ==
  /\ client.socket = "ticket"
  /\ client' = [client EXCEPT !.socket = "opening"]
  /\ UNCHANGED <<up, down, faults>> /\ QuietNet

TicketRefused ==
  /\ client.socket = "ticket" /\ Fault
  /\ client' = Fail(client, "ticket")
  /\ UNCHANGED <<up, down>> /\ QuietNet

TicketLost ==
  /\ client.socket = "ticket" /\ Fault
  /\ client' = SocketClosed(client)
  /\ UNCHANGED <<up, down>> /\ QuietNet

\* transportOpened: what is shown is not trusted before it is synchronised.
OpenTrustingF ==
  /\ client.socket = "opening" /\ opened[client.active] > 0
  /\ Ask([client EXCEPT !.socket = "open",
                        !.status = IF client.revision > 0 THEN "Connected" ELSE "Syncing"],
         "sync")
  /\ UNCHANGED <<down, faults>> /\ QuietNet
Open ==
  /\ client.socket = "opening" /\ opened[client.active] > 0
  /\ Ask([client EXCEPT !.socket = "open", !.status = "Syncing"], "sync")
  /\ UNCHANGED <<down, faults>> /\ QuietNet

\* The platform reports the end of the socket; of a dead one it may at any time.
Lost ==
  /\ client.socket \in {"opening", "open"}
  /\ IF client.active \in dead THEN UNCHANGED faults ELSE Fault
  /\ client' = SocketClosed(client)
  /\ UNCHANGED <<up, down>> /\ QuietNet

\* A message arrives. One of a connection that is closed or replaced is dropped.
Deliver(g, i) ==
  /\ i \in DOMAIN down[g]
  /\ ordered => i = 1
  /\ ~(g = client.active /\ client.socket = "opening")
  /\ client' = IF g = client.active /\ client.socket = "open"
               THEN Handle(client, g, down[g][i]) ELSE client
  /\ down' = [down EXCEPT ![g] = RemoveAt(@, i)]
  /\ UNCHANGED <<up, faults>> /\ QuietNet

\* A request gets no answer in time, or could not be sent. A command is sent
\* again over the same connection; a synchronisation that is waited for gives
\* the connection up.
RequestFailsRetryingF(r) ==
  LET c == [client EXCEPT !.pending = @ \ {r}]
  IN  /\ r \in client.pending
      /\ IF r.generation \in dead THEN UNCHANGED faults ELSE Fault
      /\ IF r.kind = "sync" THEN client' = SyncLost(c, r.generation) /\ UNCHANGED up
         ELSE Ask([c EXCEPT !.retries = @ + 1], "command")
      /\ UNCHANGED down /\ QuietNet
RequestFails(r) ==
  LET c == [client EXCEPT !.pending = @ \ {r}]
  IN  /\ r \in client.pending
      /\ IF r.generation \in dead THEN UNCHANGED faults ELSE Fault
      /\ IF r.kind = "sync" THEN client' = SyncLost(c, r.generation) /\ UNCHANGED up
         ELSE IF client.socket = "open" /\ client.retries < CommandRetries
              THEN Ask([c EXCEPT !.retries = @ + 1], "command")
         ELSE client' = [c EXCEPT !.command = "failed"] /\ UNCHANGED up
      /\ UNCHANGED down /\ QuietNet

\* The user comes back (recoverSession), or asks for it.
Resync ==
  /\ client.status = "Connected"
  /\ Ask([client EXCEPT !.status = "Syncing"], "sync")
  /\ UNCHANGED <<ordered, down, dead, server, opened, faults>>

Reconnect ==
  /\ client.status = "Disconnected" /\ client.generation < MaxGeneration
  /\ LET g == client.generation + 1
     IN  client' = [Reject(client, OfGeneration(client, client.active)) EXCEPT
                      !.status = "Reconnecting", !.generation = g,
                      !.storeGeneration = g, !.active = g, !.socket = "ticket"]
  /\ UNCHANGED <<up, down, faults>> /\ QuietNet

Send ==
  /\ client.status = "Connected" /\ client.command = "none"
  /\ Ask([client EXCEPT !.command = "waiting"], "command")
  /\ UNCHANGED <<down, faults>> /\ QuietNet

\* dispose: the transport is told only if the connection is not over already.
Dispose ==
  /\ client.status # "Disposed"
  /\ LET c == IF client.status \in Live \union Opening THEN Disconnect(client) ELSE client
     IN  client' = [c EXCEPT !.status = "Disposed", !.revision = 0, !.roomRevision = 0,
                      !.storeGeneration = IF @ = 0 THEN 0 ELSE @ + 1]
  /\ UNCHANGED <<up, down, faults>> /\ QuietNet

-------------------------------------------------------------- (* the server *)
\* The socket of the connection the client is opening is accepted.
Accept ==
  /\ client.socket = "opening" /\ opened[client.active] = 0
  /\ opened' = [opened EXCEPT ![client.active] = server.revision]
  /\ server' = [server EXCEPT !.attached = client.active]
  /\ UNCHANGED <<client, ordered, up, down, dead, faults>>

\* Something changes the room: everybody is sent the new revision. The last
\* revision of the bound is left to the command.
Commit ==
  /\ server.revision + (IF server.applied THEN 0 ELSE 1) < MaxRevision
  /\ server' = [server EXCEPT !.revision = @ + 1]
  /\ down' = Pushed(down, server.revision + 1)
  /\ UNCHANGED <<client, ordered, up, dead, opened, faults>>

Taken(g) == up' = [up EXCEPT ![g] = Tail(@)]

AnswerSync(g) ==
  /\ up[g] # <<>> /\ Head(up[g]).kind = "sync"
  /\ down' = Sent(down, g, <<[kind |-> "synced", id |-> Head(up[g]).id,
                              revision |-> server.revision]>>)
  /\ Taken(g)
  /\ UNCHANGED <<client, ordered, dead, server, opened, faults>>

\* A command is applied once; a retry is answered from the receipt.
AnswerCommand(g) ==
  LET done == <<[kind |-> "done", id |-> Head(up[g]).id, revision |-> 0]>>
  IN  /\ up[g] # <<>> /\ Head(up[g]).kind = "command"
      /\ \/ /\ server.applied
            /\ down' = Sent(down, g, done) /\ UNCHANGED server
         \/ /\ ~server.applied
            /\ server' = [server EXCEPT !.applied = TRUE, !.revision = @ + 1]
            /\ down' = Pushed(Sent(down, g, done), server.revision + 1)
      /\ Taken(g)
      /\ UNCHANGED <<client, ordered, dead, opened, faults>>

\* The room is gone, the player no member, or the command against the rules.
Refuse(g) ==
  /\ up[g] # <<>> /\ Fault
  /\ down' = Sent(down, g, <<[kind |-> "refused", id |-> Head(up[g]).id,
                              revision |-> 0]>>)
  /\ Taken(g)
  /\ UNCHANGED <<client, ordered, dead, server, opened>>

\* The handler throws: an error frame that names no request.
ServerError(g) ==
  /\ up[g] # <<>> /\ Fault
  /\ down' = Sent(down, g, <<[kind |-> "error", id |-> 0, revision |-> 0]>>)
  /\ Taken(g)
  /\ UNCHANGED <<client, ordered, dead, server, opened>>

\* A connection dies and nobody is told: only what has reached the device is left.
Die(g) ==
  /\ opened[g] > 0 /\ g \notin dead /\ Fault
  /\ dead' = dead \union {g}
  /\ up' = [up EXCEPT ![g] = <<>>]
  /\ UNCHANGED <<client, ordered, down, server, opened>>

Next ==
  \/ Start \/ TicketIssued \/ TicketRefused \/ TicketLost \/ Open \/ Lost
  \/ \E g \in Generations, i \in 1 .. 2 * MaxRevision + MaxRequests : Deliver(g, i)
  \/ \E r \in Request : RequestFails(r)
  \/ Resync \/ Reconnect \/ Send \/ Dispose
  \/ Accept \/ Commit
  \/ \E g \in Generations : AnswerSync(g)
  \/ \E g \in Generations : AnswerCommand(g)
  \/ \E g \in Generations : Refuse(g)
  \/ \E g \in Generations : ServerError(g)
  \/ \E g \in Generations : Die(g)

Spec == Init /\ [][Next]_vars

\* The network delivers what it carries, the server answers, timers run out, and
\* the user comes back again and again; nothing need go wrong or be changed.
Fairness ==
  /\ WF_vars(Start) /\ WF_vars(TicketIssued) /\ WF_vars(Accept) /\ WF_vars(Open)
  /\ \A g \in Generations :
       /\ WF_vars(Deliver(g, 1)) /\ WF_vars(AnswerSync(g)) /\ WF_vars(AnswerCommand(g))
  /\ WF_vars(\E r \in Request : r.generation \in dead /\ RequestFails(r))
  /\ WF_vars(Resync) /\ WF_vars(Reconnect)
FairSpec == Spec /\ Fairness

----------------------------------------------------------- (* properties *)
TypeOK ==
  /\ client \in Client
  /\ ordered \in BOOLEAN
  /\ up \in [Generations -> Seq(Request)] /\ down \in [Generations -> Seq(Message)]
  /\ dead \subseteq Generations
  /\ server \in [revision : 1 .. MaxRevision, applied : BOOLEAN,
                 attached : 0 .. MaxGeneration]
  /\ opened \in [Generations -> Revisions]
  /\ faults \in 0 .. MaxFaults

\* Over reconnections, losses and reordering, what is shown are views the server
\* had, each newer than the one before (AuthoritativeClientStateStore).
Abstract == INSTANCE ClientView WITH truth <- server.revision,
                                     shown <- client.revision,
                                     over <- client.status = "Disposed"
ViewForward == Abstract!View

\* Connected means synchronised: nothing older is shown than what the server had
\* when it accepted this connection (transportOpened leads to Syncing only).
FreshWhenConnected ==
  client.status = "Connected" => client.revision >= opened[client.generation]

\* The room is never shown as it was before the player's own view, as long as the
\* network keeps the order in which the server sends the two.
RoomKeepsUp == ordered => client.roomRevision >= client.revision

\* State machine and transport agree: a live session has an open socket of its own
\* generation, one being opened has a socket on the way, any other has none, and no
\* request waits for an answer that cannot come.
TransportAgrees ==
  /\ client.status \in Live => client.active = client.generation /\ client.socket = "open"
  /\ client.status \in Opening =>
       client.active = client.generation /\ client.socket \in {"ticket", "opening"}
  /\ client.status \notin Live \union Opening => client.socket = "none"
  /\ client.pending # {} => client.socket = "open"
  /\ \A r \in client.pending : r.generation = client.active
  /\ (client.command = "waiting") = (\E r \in client.pending : r.kind = "command")

\* On a network that keeps order a session never takes a late answer for an
\* older authoritative state and fails for good (acceptSynchronization).
NoFalseAlarm == ordered => client.failure # "stale"

(***************************************************************************)
(* The session is what it claims to be: its status agrees with its         *)
(* transport; Connected, it is no older than its connection; the room and  *)
(* the player's view belong together; and it does not fail without cause.  *)
(***************************************************************************)
SessionSound == TransportAgrees /\ FreshWhenConnected /\ RoomKeepsUp /\ NoFalseAlarm

\* If changes and faults cease and the user keeps coming back, the view is the
\* authoritative one in the end, unless the session was refused or disposed of.
CatchesUp == <>[](\/ client.status \in {"Failed", "Disposed"}
                  \/ client.revision = server.revision)

\* Every command is answered or reported as failed.
CommandAnswered == client.command = "waiting" ~> client.command # "waiting"
=============================================================================
