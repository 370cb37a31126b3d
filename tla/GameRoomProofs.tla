---------------------------- MODULE GameRoomProofs ----------------------------
(***************************************************************************)
(* Proofs about GameRoom, for any number of players, codes, tickets and    *)
(* requests, and whatever await points let other events run: the type      *)
(* invariant, that every stored snapshot is sound, that no player has two  *)
(* recovery codes, and what a save does to the snapshot it was made from.  *)
(* And what does depend on the await points: as long as a request yields   *)
(* at most where it makes a ticket (Gated), what it has read is current    *)
(* when it is used, so sessions and recovery grants agree with the         *)
(* players' credentials and generations.                                   *)
(***************************************************************************)
EXTENDS GameRoom, FiniteSetTheorems, TLAPS

\* What the code relies on in a snapshot it has read.
Good(s) == s \in Snapshot /\ Sound(s) /\ IsFiniteSet(Members(s))

GoodGrants(gs) == gs \in SUBSET Grant /\ OneGrantEach(gs)

\* A suspended request holds such a snapshot, and what it checked of it.
Held(a) ==
  /\ a.at \in {"join", "issue", "claim", "rotate"} => Good(a.snap)
  /\ a.at = "join" => a.snap.playing = {} /\ Cardinality(Members(a.snap)) < MaxPlayers
  /\ a.at = "rotate" => a.player \in Members(a.snap)
  /\ a.at \in {"grant", "claim", "rotate"} => GoodGrants(a.grants)
  /\ a.at = "grant" => \A g \in a.grants : g.player # a.player

IInv ==
  /\ TypeOK
  /\ Exists => Good(room)
  /\ GoodGrants(grants)
  /\ \A r \in Requests : Held(pending[r])

-----------------------------------------------------------------------------
\* A snapshot is recognisable: the marker of a cleared room is not one.
LEMMA NoRoomIsNone == NoRoom \notin Snapshot
BY DEF NoRoom, Snapshot

LEMMA RevisionGood ==
  ASSUME NEW s, Good(s), NEW n \in Nat
  PROVE  Good([s EXCEPT !.rev = n])
BY DEF Good, Snapshot, Sound, Members

LEMMA CredentialsTyped ==
  ASSUME NEW s \in Snapshot, NEW f \in [Players -> Nat]
  PROVE  [[s EXCEPT !.rev = s.rev + 1] EXCEPT !.cred = f] \in Snapshot
<1> DEFINE u == [s EXCEPT !.rev = s.rev + 1]
<1>1. u \in Snapshot
  BY DEF Snapshot
<1> HIDE DEF u
<1>2. [u EXCEPT !.cred = f] \in Snapshot
  BY <1>1 DEF Snapshot
<1>3. QED  BY <1>2 DEF u

\* The room createRoomSession stores has its creator as host and only member.
LEMMA CreatedGood ==
  ASSUME NEW p \in Players
  PROVE  Good([rev |-> 0, cred |-> [q \in Players |-> IF q = p THEN 1 ELSE 0],
               hosts |-> {p}, moderator |-> NoPlayer, playing |-> {}])
<1> DEFINE s == [rev |-> 0, cred |-> [q \in Players |-> IF q = p THEN 1 ELSE 0],
                 hosts |-> {p}, moderator |-> NoPlayer, playing |-> {}]
<1>1. s \in Snapshot
  BY DEF Snapshot
<1>2. Members(s) = {p}
  BY DEF Members
<1>3. IsFiniteSet({p}) /\ Cardinality({p}) = 1
  BY FS_Singleton
<1>4. Sound(s)
  BY <1>2, <1>3, LimitsAssumption DEF Sound
<1>5. QED  BY <1>1, <1>2, <1>3, <1>4 DEF Good

\* addPlayer on a lobby with a free place.
LEMMA JoinedGood ==
  ASSUME NEW s, Good(s), s.playing = {}, Cardinality(Members(s)) < MaxPlayers,
         NEW p \in Players
  PROVE  Good([s EXCEPT !.rev = @ + 1, !.cred[p] = 1])
<1> DEFINE t == [s EXCEPT !.rev = @ + 1, !.cred[p] = 1]
<1>1. s \in Snapshot /\ Sound(s) /\ IsFiniteSet(Members(s))
  BY DEF Good
<1>2. /\ t \in Snapshot
      /\ t.hosts = s.hosts /\ t.moderator = s.moderator /\ t.playing = {}
  <2> DEFINE f == [s.cred EXCEPT ![p] = 1]
  <2>1. f \in [Players -> Nat]
    BY <1>1 DEF Snapshot
  <2>2. t = [[s EXCEPT !.rev = s.rev + 1] EXCEPT !.cred = f]
    BY <1>1 DEF Snapshot
  <2> HIDE DEF f, t
  <2>3. t \in Snapshot
    BY <1>1, <2>1, <2>2, CredentialsTyped
  <2>4. QED  BY <1>1, <2>3 DEF Snapshot, t
<1>3. Members(t) = Members(s) \union {p}
  BY <1>1 DEF Snapshot, Members
<1>4. /\ IsFiniteSet(Members(t))
      /\ \/ Cardinality(Members(t)) = Cardinality(Members(s))
         \/ Cardinality(Members(t)) = Cardinality(Members(s)) + 1
  BY <1>1, <1>3, FS_AddElement
<1>5. Cardinality(Members(s)) \in Nat
  BY <1>1, FS_CardinalityType
<1>6. Cardinality(Members(t)) <= MaxPlayers
  BY <1>4, <1>5, LimitsAssumption
<1>7. Sound(t)
  BY <1>1, <1>2, <1>3, <1>6 DEF Sound
<1>8. QED  BY <1>2, <1>4, <1>7 DEF Good

\* Recovery gives a member another credential.
LEMMA RotatedGood ==
  ASSUME NEW s, Good(s), NEW p \in Members(s), NEW c \in Nat
  PROVE  Good([s EXCEPT !.rev = @ + 1, !.cred[p] = c + 1])
<1> DEFINE t == [s EXCEPT !.rev = @ + 1, !.cred[p] = c + 1]
<1>1. s \in Snapshot /\ Sound(s) /\ IsFiniteSet(Members(s)) /\ p \in Players
  BY DEF Good, Members
<1>2. /\ t \in Snapshot
      /\ t.hosts = s.hosts /\ t.moderator = s.moderator /\ t.playing = s.playing
  <2> DEFINE f == [s.cred EXCEPT ![p] = c + 1]
  <2>1. f \in [Players -> Nat]
    BY <1>1 DEF Snapshot
  <2>2. t = [[s EXCEPT !.rev = s.rev + 1] EXCEPT !.cred = f]
    BY <1>1 DEF Snapshot
  <2> HIDE DEF f, t
  <2>3. t \in Snapshot
    BY <1>1, <2>1, <2>2, CredentialsTyped
  <2>4. QED  BY <1>1, <2>3 DEF Snapshot, t
<1>3. Members(t) = Members(s)
  BY <1>1 DEF Snapshot, Members
<1>4. QED  BY <1>1, <1>2, <1>3 DEF Good, Sound

\* removePlayer of somebody who is not the host, in the lobby.
LEMMA WithoutGood ==
  ASSUME NEW s, Good(s), s.playing = {}, NEW p \in Players, p \notin s.hosts
  PROVE  Good(Without(s, p))
<1> DEFINE t == Without(s, p)
<1>1. s \in Snapshot /\ Sound(s) /\ IsFiniteSet(Members(s))
  BY DEF Good
<1>2. /\ t \in Snapshot
      /\ t.hosts = s.hosts /\ t.playing = {}
      /\ t.moderator = IF s.moderator = p THEN NoPlayer ELSE s.moderator
  BY <1>1 DEF Snapshot, Without
<1>3. Members(t) = Members(s) \ {p}
  BY <1>1 DEF Snapshot, Members, Without
<1>4. IsFiniteSet(Members(t)) /\ Cardinality(Members(t)) <= Cardinality(Members(s))
  BY <1>1, <1>3, FS_Subset
<1>5. Cardinality(Members(s)) \in Nat /\ Cardinality(Members(t)) \in Nat
  BY <1>1, <1>4, FS_CardinalityType
<1>6. Cardinality(Members(t)) <= MaxPlayers
  BY <1>1, <1>4, <1>5, LimitsAssumption DEF Sound
<1>7. Sound(t)
  BY <1>1, <1>2, <1>3, <1>6 DEF Sound
<1>8. QED  BY <1>2, <1>4, <1>7 DEF Good

\* transferHost, setGameModerator and the start or end of a game.
LEMMA HostGood ==
  ASSUME NEW s, Good(s), NEW p \in Members(s)
  PROVE  Good([s EXCEPT !.hosts = {p}])
BY DEF Good, Snapshot, Sound, Members

LEMMA ModeratorGood ==
  ASSUME NEW s, Good(s), NEW m \in Members(s) \union {NoPlayer}
  PROVE  Good([s EXCEPT !.moderator = m])
BY DEF Good, Snapshot, Sound, Members

LEMMA PlayingGood ==
  ASSUME NEW s, Good(s), NEW ps \in SUBSET Members(s)
  PROVE  Good([s EXCEPT !.playing = ps])
BY DEF Good, Snapshot, Sound, Members

-----------------------------------------------------------------------------
(***************************************************************************)
(* Pieces the actions share.                                               *)
(***************************************************************************)
LEMMA InitIInv == Init => IInv
<1> SUFFICES ASSUME Init PROVE IInv
  OBVIOUS
<1>1. TypeOK
  BY LimitsAssumption DEF Init, TypeOK, Pending, Idle, Failures
<1>2. \A r \in Requests : Held(pending[r])
  BY DEF Init, Held, Idle
<1>3. QED  BY <1>1, <1>2 DEF IInv, Exists, Init, GoodGrants, OneGrantEach

\* recordFailedAttempt keeps the counter below its limit.
LEMMA RecordFailureTyped ==
  ASSUME NEW gs, GoodGrants(gs), NEW n \in Failures, RecordFailure(gs, n)
  PROVE  GoodGrants(grants') /\ failed' \in Failures
BY LimitsAssumption DEF RecordFailure, SaveRecovery, Failures, GoodGrants, OneGrantEach

LEMMA FewerGrantsGood ==
  ASSUME NEW gs, GoodGrants(gs), NEW hs \in SUBSET gs
  PROVE  GoodGrants(hs)
BY DEF GoodGrants, OneGrantEach

LEMMA CloseTyped ==
  ASSUME TypeOK, NEW ps, Close(ps)
  PROVE  socket' \in [Players -> Nat]
BY DEF TypeOK, Close

\* A request that ends or is suspended with p leaves the others alone.
LEMMA AwaitHolds ==
  ASSUME IInv, NEW r \in Requests, NEW p \in Pending, Held(p), Await(r, p)
  PROVE  pending' \in [Requests -> Pending] /\ \A q \in Requests : Held(pending'[q])
BY DEF IInv, TypeOK, Await

LEMMA DoneHolds ==
  ASSUME IInv, NEW r \in Requests, Done(r)
  PROVE  pending' \in [Requests -> Pending] /\ \A q \in Requests : Held(pending'[q])
<1>1. Idle \in Pending /\ Held(Idle)
  BY DEF Pending, Idle, Held
<1>2. QED  BY <1>1, AwaitHolds DEF Done

\* What the record of a suspended request contains.
LEMMA PendingFields ==
  ASSUME IInv, NEW r \in Requests
  PROVE  LET a == pending[r]
         IN  /\ a.at = "join" => Good(a.snap)
             /\ a.at = "ticket" => a.player \in Players /\ a.cred \in Nat
             /\ a.at = "issue" => /\ Good(a.snap)
                                  /\ a.actor \in Players /\ a.target \in Players
             /\ a.at = "grant" => a.player \in Players /\ GoodGrants(a.grants)
             /\ a.at = "claim" => /\ Good(a.snap) /\ a.code \in Codes
                                  /\ GoodGrants(a.grants) /\ a.failed \in Failures
             /\ a.at = "rotate" => /\ Good(a.snap) /\ a.code \in Codes
                                   /\ a.player \in Players
                                   /\ GoodGrants(a.grants) /\ a.failed \in Failures
<1>1. pending[r] \in Pending /\ Held(pending[r])
  BY DEF IInv, TypeOK
<1>2. QED  BY <1>1 DEF Pending, Held, Idle, GoodGrants

(***************************************************************************)
(* A command over a socket saves a good snapshot, or clears the room.      *)
(***************************************************************************)
LEMMA CommitKeeps ==
  ASSUME IInv, Exists, NEW s, Good(s), Commit(s), socket' \in [Players -> Nat]
  PROVE  IInv'
<1>1. Good(room) /\ room.rev + 1 \in Nat
  BY DEF IInv, Good, Snapshot
<1>2. Good(room')
  BY <1>1, RevisionGood DEF Commit
<1>3. TypeOK'
  BY <1>2 DEF IInv, TypeOK, Commit, Good, recovery, history
<1>4. QED  BY <1>2, <1>3 DEF IInv, Commit, recovery

LEMMA ClearRoomKeeps ==
  ASSUME IInv, NEW ps, ClearRoom(ps)
  PROVE  IInv'
<1>1. socket' \in [Players -> Nat]
  BY CloseTyped DEF ClearRoom, IInv
<1>2. TypeOK'
  BY <1>1 DEF IInv, TypeOK, ClearRoom, recovery, history
<1>3. QED  BY <1>2 DEF IInv, ClearRoom, Exists, recovery

LEMMA CommandKeeps ==
  ASSUME IInv, NEW p \in Players, Command(p)
  PROVE  IInv'
<1>1. ASSUME Acts(p)
      PROVE  Exists /\ p \in Members(room) /\ Good(room) /\ socket \in [Players -> Nat]
  BY <1>1 DEF Acts, IInv, TypeOK
<1>2. CASE Edit(p)
  BY <1>1, <1>2, CommitKeeps DEF Edit
<1>3. CASE CloseRoom(p)
  BY <1>3, ClearRoomKeeps DEF CloseRoom
<1>4. CASE Leave(p)
  <2>1. CASE Members(room) = {p}
    BY <1>4, <2>1, ClearRoomKeeps DEF Leave
  <2>2. CASE Members(room) # {p}
    <3>1. Good(Without(room, p))
      BY <1>1, <1>4, <2>2, WithoutGood DEF Leave
    <3>2. Commit(Without(room, p)) /\ socket' \in [Players -> Nat]
      BY <1>4, <2>2, CloseTyped DEF Leave, IInv
    <3>3. QED  BY <1>1, <1>4, <3>1, <3>2, CommitKeeps DEF Leave
  <2>3. QED  BY <2>1, <2>2
<1>5. CASE StartGame(p) \/ RestartGame(p)
  <2>1. Participants(room) \in SUBSET Members(room)
    BY DEF Participants
  <2>2. Acts(p) /\ Commit([room EXCEPT !.playing = Participants(room)])
                /\ UNCHANGED socket
    BY <1>5 DEF StartGame, RestartGame
  <2>3. Good([room EXCEPT !.playing = Participants(room)])
    BY <1>1, <2>1, <2>2, PlayingGood
  <2>4. QED  BY <1>1, <2>2, <2>3, CommitKeeps
<1>6. CASE AbortToLobby(p)
  <2>1. Acts(p) /\ Commit([room EXCEPT !.playing = {}]) /\ UNCHANGED socket
    BY <1>6 DEF AbortToLobby
  <2>2. Good([room EXCEPT !.playing = {}])
    BY <1>1, <2>1, PlayingGood
  <2>3. QED  BY <1>1, <2>1, <2>2, CommitKeeps
<1>7. ASSUME NEW q \in Players, RemovePlayer(p, q)
      PROVE  IInv'
  <2>1. Acts(p) /\ Commit(Without(room, q)) /\ Close({q})
        /\ room.playing = {} /\ q \notin room.hosts
    BY <1>7 DEF RemovePlayer
  <2>2. Good(Without(room, q)) /\ socket' \in [Players -> Nat]
    BY <1>1, <2>1, WithoutGood, CloseTyped DEF IInv
  <2>3. QED  BY <1>1, <2>1, <2>2, CommitKeeps
<1>8. ASSUME NEW q \in Players, TransferHost(p, q)
      PROVE  IInv'
  <2>1. Acts(p) /\ Commit([room EXCEPT !.hosts = {q}]) /\ UNCHANGED socket
        /\ q \in Members(room)
    BY <1>8 DEF TransferHost
  <2>2. Good([room EXCEPT !.hosts = {q}])
    BY <1>1, <2>1, HostGood
  <2>3. QED  BY <1>1, <2>1, <2>2, CommitKeeps
<1>9. ASSUME NEW q \in Players, LeaveAndTransfer(p, q)
      PROVE  IInv'
  <2> DEFINE s == [room EXCEPT !.hosts = {q}]
  <2>1. Acts(p) /\ Commit(Without(s, p)) /\ Close({p})
        /\ q \in Members(room) /\ q # p /\ room.playing = {}
    BY <1>9 DEF LeaveAndTransfer
  <2>2. Good(s)
    BY <1>1, <2>1, HostGood
  <2>3. s.playing = {} /\ p \notin s.hosts
    BY <1>1, <2>1 DEF Good, Snapshot
  <2> HIDE DEF s
  <2>4. Good(Without(s, p)) /\ socket' \in [Players -> Nat]
    BY <2>1, <2>2, <2>3, WithoutGood, CloseTyped DEF IInv
  <2>5. QED  BY <1>1, <2>1, <2>4, CommitKeeps
<1>10. ASSUME NEW m \in Players \union {NoPlayer}, SetModerator(p, m)
       PROVE  IInv'
  <2>1. Acts(p) /\ Commit([room EXCEPT !.moderator = m]) /\ UNCHANGED socket
        /\ m \in Members(room) \union {NoPlayer}
    BY <1>10 DEF SetModerator
  <2>2. Good([room EXCEPT !.moderator = m])
    BY <1>1, <2>1, ModeratorGood
  <2>3. QED  BY <1>1, <2>1, <2>2, CommitKeeps
<1>11. QED
  BY <1>2, <1>3, <1>4, <1>5, <1>6, <1>7, <1>8, <1>9, <1>10 DEF Command

-----------------------------------------------------------------------------
(***************************************************************************)
(* One turn of an HTTP request: before its await, or after it.             *)
(***************************************************************************)
LEMMA TurnKeeps ==
  ASSUME IInv, NEW r \in Requests, NEW p \in Pending, Held(p), Await(r, p),
         room' = room \/ Good(room'),
         GoodGrants(grants'), failed' \in Failures,
         tickets' \in SUBSET Ticket, socket' \in [Players -> Nat],
         minted' \in [Players -> Nat],
         codeAge' \in [Codes -> {"new", "issued", "expired"}],
         joined' \in SUBSET Players, rotations' \in [Codes -> Nat]
  PROVE  IInv'
<1>1. pending' \in [Requests -> Pending] /\ \A q \in Requests : Held(pending'[q])
  BY AwaitHolds
<1>2. room' \in Snapshot \union {NoRoom}
  BY DEF IInv, TypeOK, Good
<1>3. TypeOK'
  BY <1>1, <1>2 DEF TypeOK, GoodGrants
<1>4. Exists' => Good(room')
  BY DEF IInv, Exists
<1>5. QED  BY <1>1, <1>3, <1>4 DEF IInv

LEMMA IdleHeld == Idle \in Pending /\ Held(Idle)
BY DEF Pending, Idle, Held

LEMMA HandleKeeps ==
  ASSUME IInv, NEW r \in Requests, Handle(r)
  PROVE  IInv'
<1> USE DEF recovery, history
<1>0. TypeOK /\ (Exists => Good(room)) /\ GoodGrants(grants)
  BY DEF IInv
<1>1. CASE CreateBegin(r)
  <2> DEFINE a == [at |-> "create"]
  <2>1. a \in Pending /\ Held(a)
    BY DEF Pending, Held
  <2>2. QED  BY <1>0, <1>1, <2>1, TurnKeeps DEF CreateBegin, TypeOK
<1>2. CASE CreateEnd(r)
  <2>1. room' = room \/ Good(room')
    BY <1>2, CreatedGood DEF CreateEnd, Founded
  <2>2. GoodGrants(grants') /\ failed' \in Failures
    BY <1>2, LimitsAssumption
       DEF CreateEnd, Founded, SaveRecovery, Failures, GoodGrants, OneGrantEach
  <2>3. minted' \in [Players -> Nat] /\ joined' \in SUBSET Players
    BY <1>0, <1>2 DEF CreateEnd, Founded, TypeOK
  <2>4. Await(r, Idle) /\ UNCHANGED <<tickets, socket, codeAge, rotations>>
    BY <1>2 DEF CreateEnd, Founded, Done
  <2>5. QED  BY <1>0, <2>1, <2>2, <2>3, <2>4, IdleHeld, TurnKeeps DEF TypeOK
<1>3. CASE JoinBegin(r)
  <2> DEFINE a == [at |-> "join", snap |-> room]
  <2>1. Good(room) /\ room \in Snapshot
    BY <1>0, <1>3 DEF JoinBegin, Good
  <2>2. a \in Pending
    BY <2>1 DEF Pending
  <2>3. Held(a)
    BY <1>3, <2>1 DEF JoinBegin, Held
  <2>4. QED  BY <1>0, <1>3, <2>2, <2>3, TurnKeeps DEF JoinBegin, TypeOK
<1>4. CASE JoinEnd(r)
  <2> DEFINE s == pending[r].snap
  <2>1. Good(s) /\ s.playing = {} /\ Cardinality(Members(s)) < MaxPlayers
    BY <1>4 DEF JoinEnd, Admitted, IInv, Held
  <2> HIDE DEF s
  <2>2. PICK p \in Players : room' = [s EXCEPT !.rev = @ + 1, !.cred[p] = 1]
                             /\ minted' = [minted EXCEPT ![p] = 1]
                             /\ joined' = joined \union {p}
    BY <1>4 DEF JoinEnd, Admitted, s
  <2>3. Good(room')
    BY <2>1, <2>2, JoinedGood
  <2>4. minted' \in [Players -> Nat] /\ joined' \in SUBSET Players
    BY <1>0, <2>2 DEF TypeOK
  <2>5. Await(r, Idle) /\ UNCHANGED <<grants, failed, tickets, socket, codeAge, rotations>>
    BY <1>4 DEF JoinEnd, Admitted, Done
  <2>6. QED  BY <1>0, <2>3, <2>4, <2>5, IdleHeld, TurnKeeps DEF TypeOK
<1>5. ASSUME NEW p \in Players, TicketBegin(r, p)
      PROVE  IInv'
  <2> DEFINE a == [at |-> "ticket", player |-> p, cred |-> room.cred[p]]
  <2>1. room.cred[p] \in Nat
    BY <1>0, <1>5 DEF TicketBegin, Good, Snapshot
  <2>2. a \in Pending /\ Held(a)
    BY <2>1 DEF Pending, Held
  <2>3. QED  BY <1>0, <1>5, <2>2, TurnKeeps DEF TicketBegin, TypeOK
<1>6. CASE TicketEnd(r)
  <2>1. pending[r].player \in Players /\ pending[r].cred \in Nat
    BY <1>6, PendingFields DEF TicketEnd, StoreTicket
  <2>2. tickets' \in SUBSET Ticket
    BY <1>0, <1>6, <2>1 DEF TicketEnd, StoreTicket, TypeOK, Ticket
  <2>3. GoodGrants(grants')
    BY <1>0, <1>6, FewerGrantsGood DEF TicketEnd, StoreTicket, GrantsWithout
  <2>4. Await(r, Idle)
        /\ UNCHANGED <<room, failed, socket, minted, codeAge, joined, rotations>>
    BY <1>6 DEF TicketEnd, StoreTicket, Done
  <2>5. QED  BY <1>0, <2>2, <2>3, <2>4, IdleHeld, TurnKeeps DEF TypeOK
<1>7. ASSUME NEW p \in Players, NEW q \in Players, IssueBegin(r, p, q)
      PROVE  IInv'
  <2> DEFINE a == [at |-> "issue", snap |-> room, actor |-> p, target |-> q]
  <2>1. Good(room) /\ room \in Snapshot
    BY <1>0, <1>7 DEF IssueBegin, Good
  <2>2. a \in Pending
    BY <2>1 DEF Pending
  <2>3. Held(a)
    BY <2>1 DEF Held
  <2>4. QED  BY <1>0, <1>7, <2>2, <2>3, TurnKeeps DEF IssueBegin, TypeOK
<1>8. CASE IssueCheck(r)
  <2> DEFINE t == pending[r].target
             a == [at |-> "grant", player |-> t, grants |-> GrantsWithout(grants, t)]
  <2>1. t \in Players
    BY <1>8, PendingFields DEF IssueCheck
  <2>2. a \in Pending
    BY <1>0, <2>1 DEF Pending, GrantsWithout, TypeOK
  <2>3. GoodGrants(GrantsWithout(grants, t))
    BY <1>0, FewerGrantsGood DEF GrantsWithout
  <2>4. Held(a)
    BY <2>3 DEF Held, GrantsWithout
  <2>5. Await(r, a) \/ Await(r, Idle)
    BY <1>8 DEF IssueCheck, Done
  <2>6. QED  BY <1>0, <1>8, <2>2, <2>4, <2>5, IdleHeld, TurnKeeps DEF IssueCheck, TypeOK
<1>9. CASE IssueEnd(r)
  <2>1. /\ pending[r].player \in Players /\ GoodGrants(pending[r].grants)
        /\ \A g \in pending[r].grants : g.player # pending[r].player
    BY <1>9, PendingFields DEF IssueEnd, IInv, Held
  <2>2. GoodGrants(grants') /\ failed' \in Failures
    BY <1>9, <2>1, LimitsAssumption
       DEF IssueEnd, SaveRecovery, Grant, Failures, GoodGrants, OneGrantEach
  <2>3. codeAge' \in [Codes -> {"new", "issued", "expired"}]
    BY <1>0, <1>9 DEF IssueEnd, TypeOK
  <2>4. Await(r, Idle) /\ UNCHANGED <<room, tickets, socket, minted, joined, rotations>>
    BY <1>9 DEF IssueEnd, Done
  <2>5. QED  BY <1>0, <2>2, <2>3, <2>4, IdleHeld, TurnKeeps DEF TypeOK
<1>10. CASE ClaimMalformed(r)
  <2>1. GoodGrants(grants') /\ failed' \in Failures
    BY <1>0, <1>10, RecordFailureTyped DEF ClaimMalformed, TypeOK
  <2>2. Await(r, Idle)
        /\ UNCHANGED <<room, tickets, socket, minted, codeAge, joined, rotations>>
    BY <1>10 DEF ClaimMalformed, Done
  <2>3. QED  BY <1>0, <2>1, <2>2, IdleHeld, TurnKeeps DEF TypeOK
<1>11. ASSUME NEW c \in Codes, ClaimBegin(r, c)
       PROVE  IInv'
  <2> DEFINE a == [at |-> "claim", snap |-> room, code |-> c,
                   grants |-> grants, failed |-> failed]
  <2>1. Good(room) /\ room \in Snapshot
    BY <1>0, <1>11 DEF ClaimBegin, Good
  <2>2. a \in Pending
    BY <1>0, <2>1 DEF Pending, TypeOK
  <2>3. Held(a)
    BY <1>0, <2>1 DEF Held
  <2>4. QED  BY <1>0, <1>11, <2>2, <2>3, TurnKeeps DEF ClaimBegin, TypeOK
<1>12. CASE ClaimMissing(r) \/ ClaimExpired(r) \/ ClaimUnavailable(r)
  <2> DEFINE a == pending[r]
  <2>1. GoodGrants(a.grants) /\ a.failed \in Failures
    BY <1>12, PendingFields DEF ClaimMissing, ClaimExpired, ClaimUnavailable
  <2>2. Await(r, Idle)
        /\ UNCHANGED <<room, tickets, socket, minted, codeAge, joined, rotations>>
    BY <1>12 DEF ClaimMissing, ClaimExpired, ClaimUnavailable, Done
  <2>3. GoodGrants(grants') /\ failed' \in Failures
    <3>1. CASE ClaimMissing(r)
      BY <2>1, <3>1, RecordFailureTyped DEF ClaimMissing
    <3>2. CASE ClaimExpired(r)
      <4>1. PICK g \in a.grants : RecordFailure(a.grants \ {g}, a.failed)
        BY <3>2 DEF ClaimExpired
      <4>2. QED  BY <2>1, <4>1, RecordFailureTyped, FewerGrantsGood
    <3>3. CASE ClaimUnavailable(r)
      BY <2>1, <3>3, FewerGrantsGood DEF ClaimUnavailable, SaveRecovery
    <3>4. QED  BY <1>12, <3>1, <3>2, <3>3
  <2>4. QED  BY <1>0, <2>2, <2>3, IdleHeld, TurnKeeps DEF TypeOK
<1>13. CASE ClaimAccepted(r)
  <2> DEFINE a == pending[r]
             b(g) == [at |-> "rotate", snap |-> a.snap, code |-> a.code,
                      player |-> g.player, grants |-> a.grants \ {g},
                      failed |-> a.failed]
  <2>1. /\ Good(a.snap) /\ a.snap \in Snapshot /\ a.code \in Codes
        /\ GoodGrants(a.grants) /\ a.failed \in Failures
    BY <1>13, PendingFields DEF ClaimAccepted, Good
  <2>2. PICK g \in a.grants : Recoverable(a.snap, g.player) /\ Await(r, b(g))
    BY <1>13 DEF ClaimAccepted
  <2>3. g.player \in Players /\ g.player \in Members(a.snap)
    BY <2>1, <2>2 DEF Recoverable, Grant, GoodGrants
  <2>4. b(g) \in Pending
    BY <2>1, <2>3 DEF Pending, GoodGrants
  <2>5. Held(b(g))
    BY <2>1, <2>3, FewerGrantsGood DEF Held
  <2>6. UNCHANGED <<room, grants, failed, tickets, socket, minted, codeAge, joined, rotations>>
    BY <1>13 DEF ClaimAccepted
  <2>7. QED  BY <1>0, <2>2, <2>4, <2>5, <2>6, TurnKeeps DEF TypeOK
<1>14. CASE ClaimRotationFails(r)
  <2>1. GoodGrants(pending[r].grants) /\ pending[r].failed \in Failures
    BY <1>14, PendingFields DEF ClaimRotationFails
  <2>2. GoodGrants(grants') /\ failed' \in Failures
    BY <1>14, <2>1 DEF ClaimRotationFails, SaveRecovery
  <2>3. Await(r, Idle)
        /\ UNCHANGED <<room, tickets, socket, minted, codeAge, joined, rotations>>
    BY <1>14 DEF ClaimRotationFails, Done
  <2>4. QED  BY <1>0, <2>2, <2>3, IdleHeld, TurnKeeps DEF TypeOK
<1>15. CASE ClaimEnd(r)
  <2> DEFINE s == pending[r].snap
             p == pending[r].player
             c == pending[r].code
  <2>1. /\ Good(s) /\ p \in Players /\ c \in Codes
        /\ GoodGrants(pending[r].grants) /\ p \in Members(s)
    BY <1>15, PendingFields DEF ClaimEnd, IInv, Held
  <2>2. minted[p] \in Nat
    BY <1>0, <2>1 DEF TypeOK
  <2>3. room' = [s EXCEPT !.rev = @ + 1, !.cred[p] = minted[p] + 1]
    BY <1>15 DEF ClaimEnd
  <2>4. Good(room')
    <3> HIDE DEF s, p
    <3>1. QED  BY <2>1, <2>2, <2>3, RotatedGood
  <2>5. GoodGrants(grants') /\ failed' \in Failures
    BY <1>15, <2>1, LimitsAssumption DEF ClaimEnd, SaveRecovery, Failures
  <2>6. minted' \in [Players -> Nat] /\ rotations' \in [Codes -> Nat]
    BY <1>0, <1>15, <2>1 DEF ClaimEnd, TypeOK
  <2>7. socket' \in [Players -> Nat]
    BY <1>0, <1>15, CloseTyped DEF ClaimEnd
  <2>8. Await(r, Idle) /\ UNCHANGED <<tickets, codeAge, joined>>
    BY <1>15 DEF ClaimEnd, Done
  <2>9. QED
    BY <1>0, <2>4, <2>5, <2>6, <2>7, <2>8, IdleHeld, TurnKeeps DEF TypeOK
<1>16. QED
  BY <1>1, <1>2, <1>3, <1>4, <1>5, <1>6, <1>7, <1>8, <1>9, <1>10, <1>11, <1>12,
     <1>13, <1>14, <1>15 DEF Handle

-----------------------------------------------------------------------------
LEMMA RestartHolds ==
  ASSUME IInv, Restart
  PROVE  /\ pending' \in [Requests -> Pending]
         /\ \A q \in Requests : Held(pending'[q])
         /\ socket' \in [Players -> Nat]
<1>1. socket' \in [Players -> Nat]
  BY CloseTyped DEF Restart, IInv
<1>2. QED  BY <1>1, IdleHeld DEF Restart

LEMMA CrashKeeps ==
  ASSUME IInv, Crash \/ \E r \in Requests : CrashBetweenWrites(r)
  PROVE  IInv'
<1>1. /\ Restart
      /\ UNCHANGED <<room, tickets, minted, codeAge, joined, rotations>>
  BY DEF Crash, CrashBetweenWrites, history
<1>2. GoodGrants(grants') /\ failed' \in Failures
  <2>1. CASE Crash
    BY <2>1 DEF Crash, recovery, IInv, TypeOK
  <2>2. ASSUME NEW r \in Requests, CrashBetweenWrites(r)
        PROVE  GoodGrants(grants') /\ failed' \in Failures
    <3>1. pending[r].at = "rotate" => GoodGrants(pending[r].grants)
      BY PendingFields
    <3>2. 0 \in Failures /\ GoodGrants({})
      BY LimitsAssumption DEF Failures, GoodGrants, OneGrantEach
    <3>3. GoodGrants(GrantsWithout(grants, pending[r].player))
      BY FewerGrantsGood DEF GrantsWithout, IInv
    <3>4. QED
      BY <2>2, <3>1, <3>2, <3>3 DEF CrashBetweenWrites, SaveRecovery, IInv, TypeOK
  <2>3. QED  BY <2>1, <2>2
<1>3. TypeOK'
  BY <1>1, <1>2, RestartHolds DEF IInv, TypeOK, GoodGrants
<1>4. QED  BY <1>1, <1>2, <1>3, RestartHolds DEF IInv, Exists

LEMMA EnvironmentKeeps ==
  ASSUME IInv,
         \/ \E t \in Tickets : Upgrade(t) \/ TicketExpires(t)
         \/ \E p \in Players : Disconnect(p)
         \/ \E c \in Codes : CodeExpires(c)
  PROVE  IInv'
<1> USE DEF recovery, history
<1>1. /\ UNCHANGED <<room, grants, failed, pending, minted, joined, rotations>>
      /\ tickets' \in SUBSET Ticket
      /\ codeAge' \in [Codes -> {"new", "issued", "expired"}]
  BY DEF Upgrade, AcceptSocket, TicketExpires, Disconnect, CodeExpires, IInv, TypeOK
<1>2. socket' \in [Players -> Nat]
  <2>1. ASSUME NEW i \in Tickets, Upgrade(i)
        PROVE  socket' \in [Players -> Nat]
    <3>1. PICK t \in tickets : \/ socket' = [socket EXCEPT ![t.player] = t.cred]
                               \/ socket' = socket
      BY <2>1 DEF Upgrade, AcceptSocket
    <3>2. t.cred \in Nat /\ socket \in [Players -> Nat]
      BY DEF IInv, TypeOK, Ticket
    <3>3. QED  BY <3>1, <3>2
  <2>2. ASSUME NEW p \in Players, Disconnect(p)
        PROVE  socket' \in [Players -> Nat]
    BY <2>2, CloseTyped DEF Disconnect, IInv
  <2>3. CASE UNCHANGED socket
    BY <2>3 DEF IInv, TypeOK
  <2>4. QED  BY <2>1, <2>2, <2>3 DEF TicketExpires, CodeExpires
<1>3. TypeOK'
  BY <1>1, <1>2 DEF IInv, TypeOK
<1>4. QED  BY <1>1, <1>3 DEF IInv, Exists

LEMMA NextKeeps == IInv /\ Next => IInv'
<1> SUFFICES ASSUME IInv, Next PROVE IInv'
  OBVIOUS
<1>1. ASSUME NEW r \in Requests, Handle(r) PROVE IInv'
  BY <1>1, HandleKeeps
<1>2. ASSUME NEW p \in Players, Command(p) PROVE IInv'
  BY <1>2, CommandKeeps
<1> QED BY <1>1, <1>2, CrashKeeps, EnvironmentKeeps DEF Next

(***************************************************************************)
(* The inductive invariant: every stored snapshot and every snapshot a     *)
(* suspended request will write from is sound.                             *)
(***************************************************************************)
THEOREM Invariance == Spec => []IInv
<1>1. Init => IInv
  BY InitIInv
<1>2. IInv /\ [Next]_vars => IInv'
  <2> SUFFICES ASSUME IInv, [Next]_vars PROVE IInv'
    OBVIOUS
  <2>1. CASE Next
    BY <2>1, NextKeeps
  <2>2. CASE UNCHANGED vars
    BY <2>2 DEF vars, IInv, TypeOK, Exists
  <2>3. QED  BY <2>1, <2>2
<1>3. QED  BY <1>1, <1>2, PTL DEF Spec

(***************************************************************************)
(* The room's state is always well typed (GameRoomDurableObject's storage).*)
(***************************************************************************)
THEOREM TypeCorrect == Spec => []TypeOK
<1>1. IInv => TypeOK
  BY DEF IInv
<1>2. QED  BY <1>1, Invariance, PTL

(***************************************************************************)
(* Every stored snapshot has one host, and host, moderator and everybody   *)
(* in the game are members, however many requests write from stale reads.  *)
(***************************************************************************)
THEOREM SnapshotsSound == Spec => []SnapshotSound
<1>1. IInv => SnapshotSound
  BY DEF IInv, SnapshotSound, Good
<1>2. QED  BY <1>1, Invariance, PTL

(***************************************************************************)
(* No player has two recovery codes, wherever requests are suspended.      *)
(***************************************************************************)
THEOREM GrantsUnique == Spec => []OneGrantPerPlayer
<1>1. IInv => OneGrantPerPlayer
  BY DEF IInv, OneGrantPerPlayer, GoodGrants
<1>2. QED  BY <1>1, Invariance, PTL

(***************************************************************************)
(* What suspended requests write from an earlier read is sound: snapshot   *)
(* and grants together (joinRoomSession, IdentityRecoveryService).         *)
(***************************************************************************)
THEOREM StorageStaysSound == Spec => []StorageSound
BY SnapshotsSound, GrantsUnique, PTL DEF StorageSound
-----------------------------------------------------------------------------
(***************************************************************************)
(* What needs the platform to hold events back. From here on no other      *)
(* event runs during an await that leads to a write from an earlier read:  *)
(* only the ticket handler, which re-reads what it changes, may be         *)
(* interrupted. The invariant says that what a suspended request has read  *)
(* is still so, that no credential is ahead of those generated, and that   *)
(* a grant's code is known to nobody else and has bought nothing.          *)
(***************************************************************************)
Gated == Yields \subseteq {"ticket"}

Calm(a) == a.at \in {"idle", "ticket"}

\* At most one request holds other events back.
Alone == \A q, r \in Requests : q = r \/ Calm(pending[q]) \/ Calm(pending[r])

\* What a suspended request has read of storage is what storage holds.
Fresh(a) ==
  /\ a.at = "create" => ~Exists
  /\ a.at \in {"join", "issue", "claim", "rotate"} => Exists /\ a.snap = room
  /\ a.at = "claim" => a.grants = grants
  /\ a.at = "grant" => Exists /\ a.player \in joined /\ a.grants \subseteq grants
  /\ a.at = "rotate" => /\ a.player \notin room.hosts
                        /\ \E g \in grants : /\ g.code = a.code
                                             /\ a.grants = grants \ {g}

ReadsFresh == Alone /\ \A r \in Requests : Fresh(pending[r])

CredentialsMinted == Exists => \A p \in Players : room.cred[p] <= minted[p]

MembersJoined == Exists => Members(room) \subseteq joined

\* A code stands for one grant, was issued with it, and has bought nothing yet.
CodesServe ==
  /\ \A g, h \in grants : g.code = h.code => g = h
  /\ \A g \in grants : codeAge[g.code] # "new" /\ rotations[g.code] = 0
  /\ \A c \in Codes : codeAge[c] = "new" => rotations[c] = 0

SessionsHold == CredentialsMinted /\ SessionCurrent
GrantsHold == MembersJoined /\ CodesServe /\ GrantsSound

SerialInv == ReadsFresh /\ SessionsHold /\ GrantsHold

LEMMA SerialInit == Init => SerialInv
BY DEF Init, SerialInv, ReadsFresh, Alone, Calm, Fresh, Idle, Exists, SessionsHold,
       CredentialsMinted, SessionCurrent, Connected, GrantsHold, MembersJoined,
       CodesServe, GrantsSound, GrantOnce, GrantsOfThisRoom

\* When nothing but tickets is suspended, no read can be out of date.
LEMMA CalmIsFresh ==
  ASSUME \A q \in Requests : Calm(pending'[q])
  PROVE  ReadsFresh'
BY DEF Calm, ReadsFresh, Alone, Fresh

LEMMA DeliveredCalm ==
  ASSUME Gated, Delivered
  PROVE  \A q \in Requests : Calm(pending[q])
BY DEF Gated, Delivered, Calm

\* The turn of a request that keeps p: nobody else holds events back.
LEMMA OthersCalm ==
  ASSUME Gated, TypeOK, NEW r \in Requests, NEW p, Await(r, p)
  PROVE  /\ pending'[r] = p
         /\ \A q \in Requests \ {r} : Calm(pending'[q])
BY DEF Gated, TypeOK, Await, Undisturbed, Calm

LEMMA TurnIsFresh ==
  ASSUME Gated, TypeOK, NEW r \in Requests, NEW p, Await(r, p), Fresh(pending[r])'
  PROVE  ReadsFresh'
<1>1. \A q \in Requests \ {r} : Calm(pending'[q])
  BY OthersCalm
<1>2. \A q \in Requests \ {r} : Fresh(pending[q])'
  BY <1>1 DEF Calm, Fresh
<1> QED BY <1>1, <1>2 DEF ReadsFresh, Alone

LEMMA DoneIsFresh ==
  ASSUME Gated, TypeOK, NEW r \in Requests, Done(r)
  PROVE  ReadsFresh'
<1>1. pending'[r] = Idle /\ \A q \in Requests \ {r} : Calm(pending'[q])
  BY OthersCalm DEF Done
<1> QED BY <1>1, CalmIsFresh DEF Calm, Idle

-----------------------------------------------------------------------------
(***************************************************************************)
(* What a command does to the room: it clears it, or saves its next        *)
(* revision, in which nobody's credential is other than it was except that *)
(* of somebody who is gone, connection and all.                            *)
(***************************************************************************)
Saves ==
  /\ room' \in Snapshot /\ room'.rev = room.rev + 1
  /\ socket' \in [Players -> Nat]
  /\ \A p \in Players :
       \/ room'.cred[p] = room.cred[p] /\ socket'[p] \in {socket[p], 0}
       \/ room'.cred[p] = 0 /\ socket'[p] = 0 /\ room.playing = {}

Clears ==
  /\ room' = NoRoom
  /\ \A p \in Players : p \in Members(room) => socket'[p] = 0
  /\ \A p \in Players : socket'[p] \in {socket[p], 0}

LEMMA CommitSaves ==
  ASSUME Exists, room \in Snapshot, NEW s \in Snapshot, Commit(s), s.cred = room.cred,
         socket \in [Players -> Nat], UNCHANGED socket
  PROVE  Saves
<1>1. room' = [s EXCEPT !.rev = room.rev + 1]
  BY DEF Commit
<1> QED BY <1>1 DEF Saves, Snapshot

LEMMA RemovalSaves ==
  ASSUME Exists, room \in Snapshot, room.playing = {}, NEW s \in Snapshot,
         NEW p \in Players, Commit(Without(s, p)), s.cred = room.cred,
         socket \in [Players -> Nat], Close({p})
  PROVE  Saves
<1> DEFINE t == Without(s, p)
<1>1. t \in Snapshot /\ t.cred = [room.cred EXCEPT ![p] = 0]
  BY DEF Without, Snapshot
<1>2. room' = [t EXCEPT !.rev = room.rev + 1]
  BY DEF Commit
<1> HIDE DEF t
<1>3. room' \in Snapshot /\ room'.rev = room.rev + 1 /\ room'.cred = t.cred
  BY <1>1, <1>2 DEF Snapshot
<1>4. socket' \in [Players -> Nat] /\ socket'[p] = 0
      /\ \A q \in Players : q # p => socket'[q] = socket[q]
  BY DEF Close
<1>5. room.cred \in [Players -> Nat]
  BY DEF Snapshot
<1> QED BY <1>1, <1>3, <1>4, <1>5 DEF Saves

LEMMA CommandSaves ==
  ASSUME IInv, NEW p \in Players, Command(p)
  PROVE  /\ Delivered /\ Exists /\ room \in Snapshot
         /\ Saves \/ Clears
         /\ UNCHANGED <<grants, failed, tickets, pending, minted, codeAge, joined, rotations>>
<1> USE DEF recovery, history
<1>0. socket \in [Players -> Nat] /\ (Exists => room \in Snapshot)
  BY DEF IInv, TypeOK, Good
<1>1. Acts(p)
  BY DEF Command, Edit, CloseRoom, Leave, StartGame, RestartGame, AbortToLobby,
         RemovePlayer, TransferHost, LeaveAndTransfer, SetModerator
<1>2. Delivered /\ Exists /\ room \in Snapshot
  BY <1>0, <1>1 DEF Acts
<1>3. UNCHANGED <<grants, failed, tickets, pending, minted, codeAge, joined, rotations>>
  BY DEF Command, Edit, CloseRoom, Leave, StartGame, RestartGame, AbortToLobby,
         RemovePlayer, TransferHost, LeaveAndTransfer, SetModerator, Commit, ClearRoom
<1>4. CASE \/ Edit(p) \/ StartGame(p) \/ RestartGame(p) \/ AbortToLobby(p)
           \/ \E q \in Players : TransferHost(p, q)
           \/ \E m \in Players \union {NoPlayer} : SetModerator(p, m)
  <2>1. \E s \in Snapshot : Commit(s) /\ s.cred = room.cred
    <3>1. \A ps \in SUBSET Players : /\ [room EXCEPT !.playing = ps] \in Snapshot
                                     /\ [room EXCEPT !.playing = ps].cred = room.cred
      BY <1>2 DEF Snapshot
    <3>2. \A q \in Players : /\ [room EXCEPT !.hosts = {q}] \in Snapshot
                             /\ [room EXCEPT !.hosts = {q}].cred = room.cred
      BY <1>2 DEF Snapshot
    <3>3. \A m \in Players \union {NoPlayer} :
            /\ [room EXCEPT !.moderator = m] \in Snapshot
            /\ [room EXCEPT !.moderator = m].cred = room.cred
      BY <1>2 DEF Snapshot
    <3>4. Participants(room) \subseteq Players
      BY DEF Participants, Members
    <3>5. CASE Edit(p)
      BY <1>2, <3>5 DEF Edit
    <3>6. CASE StartGame(p) \/ RestartGame(p)
      BY <3>1, <3>4, <3>6 DEF StartGame, RestartGame
    <3>7. CASE AbortToLobby(p)
      BY <3>1, <3>7 DEF AbortToLobby
    <3>8. CASE \E q \in Players : TransferHost(p, q)
      BY <3>2, <3>8 DEF TransferHost
    <3>9. CASE \E m \in Players \union {NoPlayer} : SetModerator(p, m)
      BY <3>3, <3>9 DEF SetModerator
    <3> QED BY <1>4, <3>5, <3>6, <3>7, <3>8, <3>9
  <2>2. UNCHANGED socket
    BY <1>4 DEF Edit, StartGame, RestartGame, AbortToLobby, TransferHost, SetModerator
  <2>3. Saves
    BY <1>0, <1>2, <2>1, <2>2, CommitSaves
  <2> QED BY <1>2, <1>3, <2>3
<1>5. CASE CloseRoom(p)
  <2>1. Clears
    BY <1>0, <1>5 DEF CloseRoom, ClearRoom, Close, Clears, Members
  <2> QED BY <1>2, <1>3, <2>1
<1>6. CASE Leave(p)
  <2>1. CASE Members(room) = {p}
    BY <1>0, <1>2, <1>3, <1>6, <2>1 DEF Leave, ClearRoom, Close, Clears
  <2>2. CASE Members(room) # {p}
    <3>1. room.playing = {} /\ Commit(Without(room, p)) /\ Close({p})
      BY <1>6, <2>2 DEF Leave
    <3>2. Saves
      BY <1>0, <1>2, <3>1, RemovalSaves
    <3> QED BY <1>2, <1>3, <3>2
  <2> QED BY <2>1, <2>2
<1>7. ASSUME NEW q \in Players, RemovePlayer(p, q) PROVE Saves
  BY <1>0, <1>2, <1>7, RemovalSaves DEF RemovePlayer
<1>8. ASSUME NEW q \in Players, LeaveAndTransfer(p, q) PROVE Saves
  <2> DEFINE s == [room EXCEPT !.hosts = {q}]
  <2>1. s \in Snapshot /\ s.cred = room.cred
    BY <1>2 DEF Snapshot
  <2>2. room.playing = {} /\ Commit(Without(s, p)) /\ Close({p})
    BY <1>8 DEF LeaveAndTransfer
  <2> HIDE DEF s
  <2> QED BY <1>0, <1>2, <2>1, <2>2, RemovalSaves
<1> QED BY <1>2, <1>3, <1>4, <1>5, <1>6, <1>7, <1>8 DEF Command


-----------------------------------------------------------------------------
(***************************************************************************)
(* What a turn of a request does to the room, with the reads it writes     *)
(* from known to be fresh.                                                 *)
(***************************************************************************)
Keeps == UNCHANGED <<room, socket, minted, joined>>

Founds(p) ==
  /\ ~Exists /\ minted[p] = 0
  /\ room' = Founded(p) /\ joined' = {p}
  /\ minted' = [minted EXCEPT ![p] = 1] /\ UNCHANGED socket
  /\ grants' = {}

Admits(p) ==
  /\ Exists /\ room.playing = {} /\ minted[p] = 0
  /\ room' = Admitted(room, p) /\ joined' = joined \union {p}
  /\ minted' = [minted EXCEPT ![p] = 1] /\ UNCHANGED socket

Rotates(p) ==
  /\ Exists /\ p \in Members(room) \ room.hosts
  /\ room' = [room EXCEPT !.rev = @ + 1, !.cred[p] = minted[p] + 1]
  /\ minted' = [minted EXCEPT ![p] = @ + 1] /\ Close({p}) /\ UNCHANGED joined

LEMMA HandleMoves ==
  ASSUME IInv, ReadsFresh, NEW r \in Requests, Handle(r)
  PROVE  Keeps \/ \E p \in Players : Founds(p) \/ Admits(p) \/ Rotates(p)
<1> USE DEF recovery, history
<1>0. Fresh(pending[r]) /\ Held(pending[r])
  BY DEF IInv, ReadsFresh
<1>1. CASE CreateEnd(r)
  BY <1>0, <1>1 DEF CreateEnd, Founds, Fresh, SaveRecovery
<1>2. CASE JoinEnd(r)
  <2>1. pending[r].snap = room /\ Exists /\ room.playing = {}
    BY <1>0, <1>2 DEF JoinEnd, Fresh, Held
  <2> QED BY <1>2, <2>1 DEF JoinEnd, Admits
<1>3. CASE ClaimEnd(r)
  <2>1. /\ pending[r].snap = room /\ Exists
        /\ pending[r].player \in Members(room) \ room.hosts
    BY <1>0, <1>3 DEF ClaimEnd, Fresh, Held
  <2>2. pending[r].player \in Players
    BY <2>1 DEF Members
  <2> QED BY <1>3, <2>1, <2>2 DEF ClaimEnd, Rotates
<1>4. CASE ~(CreateEnd(r) \/ JoinEnd(r) \/ ClaimEnd(r))
  BY <1>4 DEF Handle, CreateBegin, JoinBegin, TicketBegin, TicketEnd, IssueBegin,
     IssueCheck, IssueEnd, ClaimMalformed, ClaimBegin, ClaimMissing, ClaimExpired,
     ClaimUnavailable, ClaimAccepted, ClaimRotationFails, Keeps
<1> QED BY <1>1, <1>2, <1>3, <1>4

LEMMA RoomTyped ==
  ASSUME IInv, Exists
  PROVE  /\ room \in Snapshot /\ room.cred \in [Players -> Nat] /\ room.rev \in Nat
         /\ \A h \in room.hosts : h \in Players /\ room.cred[h] > 0
BY DEF IInv, Good, Sound, Snapshot, Members

LEMMA AdmittedFields ==
  ASSUME IInv, Exists, NEW p \in Players
  PROVE  LET s == Admitted(room, p)
         IN  /\ s.rev = room.rev + 1 /\ s.cred = [room.cred EXCEPT ![p] = 1]
             /\ s.hosts = room.hosts
BY RoomTyped DEF Admitted, Snapshot

LEMMA RotatedFields ==
  ASSUME IInv, Exists, NEW p \in Players, NEW c,
         room' = [room EXCEPT !.rev = @ + 1, !.cred[p] = c]
  PROVE  /\ room'.rev = room.rev + 1 /\ room'.cred = [room.cred EXCEPT ![p] = c]
         /\ room'.hosts = room.hosts
BY RoomTyped DEF Snapshot

LEMMA FoundedFields ==
  ASSUME NEW p \in Players
  PROVE  LET s == Founded(p)
         IN  \A q \in Players : s.cred[q] = IF q = p THEN 1 ELSE 0
BY DEF Founded

\* Nobody connected, nobody's credential ahead: what a fresh id relies on.
LEMMA UnmintedAbsent ==
  ASSUME IInv, SessionsHold, NEW p \in Players, minted[p] = 0
  PROVE  /\ Exists => room.cred[p] = 0
         /\ socket[p] = 0
<1>1. Exists => room.cred[p] = 0
  BY RoomTyped DEF SessionsHold, CredentialsMinted
<1>2. socket[p] \in Nat
  BY DEF IInv, TypeOK
<1> QED BY <1>1, <1>2 DEF SessionsHold, SessionCurrent, Connected

LEMMA HandleSessions ==
  ASSUME IInv, ReadsFresh, SessionsHold, NEW r \in Requests, Handle(r)
  PROVE  SessionsHold'
<1>0. minted \in [Players -> Nat] /\ socket \in [Players -> Nat]
  BY DEF IInv, TypeOK
<1>1. CASE Keeps
  BY <1>1 DEF Keeps, SessionsHold, CredentialsMinted, SessionCurrent, Connected, Exists
<1>2. ASSUME NEW p \in Players, Founds(p) PROVE SessionsHold'
  <2>1. \A q \in Players : room'.cred[q] <= minted'[q]
    BY <1>0, <1>2, FoundedFields DEF Founds
  <2>2. \A q \in Players : ~Connected(q)'
    BY <1>0, <1>2 DEF Founds, SessionsHold, SessionCurrent, Connected
  <2> QED BY <2>1, <2>2 DEF SessionsHold, CredentialsMinted, SessionCurrent
<1>3. ASSUME NEW p \in Players, Admits(p) PROVE SessionsHold'
  <2>1. room'.cred = [room.cred EXCEPT ![p] = 1] /\ Exists'
    BY <1>3, AdmittedFields, RoomTyped, NoRoomIsNone, HandleKeeps
       DEF Admits, IInv, Good, Admitted, Exists, NoRoom, Snapshot
  <2>2. socket[p] = 0 /\ socket' = socket
    BY <1>3, UnmintedAbsent DEF Admits
  <2>3. \A q \in Players : room'.cred[q] <= minted'[q]
    BY <1>0, <1>3, <2>1, RoomTyped DEF Admits, SessionsHold, CredentialsMinted
  <2>4. \A q \in Players : Connected(q)' => room'.cred[q] = socket'[q]
    BY <1>3, <2>1, <2>2, RoomTyped DEF Admits, SessionsHold, SessionCurrent, Connected
  <2> QED BY <2>1, <2>3, <2>4 DEF SessionsHold, CredentialsMinted, SessionCurrent
<1>4. ASSUME NEW p \in Players, Rotates(p) PROVE SessionsHold'
  <2>1. room'.cred = [room.cred EXCEPT ![p] = minted[p] + 1]
    BY <1>4, RotatedFields DEF Rotates
  <2>2. Exists'
    BY <1>4, RoomTyped, NoRoomIsNone DEF Rotates, Exists, NoRoom, Snapshot
  <2>3. \A q \in Players : socket'[q] = IF q = p THEN 0 ELSE socket[q]
    BY <1>4 DEF Rotates, Close
  <2>4. \A q \in Players : room'.cred[q] <= minted'[q]
    BY <1>0, <1>4, <2>1, RoomTyped DEF Rotates, SessionsHold, CredentialsMinted
  <2>5. \A q \in Players : Connected(q)' => room'.cred[q] = socket'[q]
    BY <1>4, <2>1, <2>3, RoomTyped DEF Rotates, SessionsHold, SessionCurrent, Connected
  <2> QED BY <2>2, <2>4, <2>5 DEF SessionsHold, CredentialsMinted, SessionCurrent
<1> QED BY <1>1, <1>2, <1>3, <1>4, HandleMoves

LEMMA CommandSessions ==
  ASSUME IInv, SessionsHold, NEW p \in Players, Command(p)
  PROVE  SessionsHold'
<1>1. /\ Exists /\ (Saves \/ Clears)
      /\ minted' = minted
  BY CommandSaves
<1>2. CASE Clears
  BY <1>1, <1>2 DEF Clears, Exists, SessionsHold, CredentialsMinted, SessionCurrent,
     Connected, Members, IInv, TypeOK
<1>3. CASE Saves
  <2>1. \A q \in Players : minted[q] \in Nat
    BY DEF IInv, TypeOK
  <2>2. CredentialsMinted'
    BY <1>1, <1>3, <2>1 DEF Saves, SessionsHold, CredentialsMinted
  <2>3. Exists'
    BY <1>3, NoRoomIsNone DEF Saves, Exists
  <2>4. SessionCurrent'
    BY <1>1, <1>3, <2>3 DEF Saves, SessionsHold, SessionCurrent, Connected
  <2> QED BY <2>2, <2>4 DEF SessionsHold
<1> QED BY <1>1, <1>2, <1>3


-----------------------------------------------------------------------------
(***************************************************************************)
(* What a turn of a request does to the grants.                            *)
(***************************************************************************)
Drops == grants' \subseteq grants /\ UNCHANGED <<codeAge, rotations>>

Issues(c, q) ==
  /\ codeAge[c] = "new" /\ codeAge' = [codeAge EXCEPT ![c] = "issued"]
  /\ Exists /\ q \in joined
  /\ grants' \subseteq grants \union {[code |-> c, player |-> q]}
  /\ UNCHANGED rotations

Buys(g) ==
  /\ grants' = grants \ {g} /\ UNCHANGED codeAge
  /\ rotations' = [rotations EXCEPT ![g.code] = @ + 1]

LEMMA FailureDrops ==
  ASSUME NEW gs \in SUBSET grants, NEW n, RecordFailure(gs, n)
  PROVE  grants' \subseteq grants
BY DEF RecordFailure, SaveRecovery

LEMMA HandleGrants ==
  ASSUME IInv, ReadsFresh, NEW r \in Requests, Handle(r)
  PROVE  \/ Drops
         \/ \E c \in Codes, q \in Players : Issues(c, q)
         \/ \E g \in grants : Buys(g)
<1> USE DEF recovery, history
<1>0. Fresh(pending[r])
  BY DEF ReadsFresh
<1>1. CASE UNCHANGED <<grants, codeAge, rotations>>
  BY <1>1 DEF Drops
<1>2. CASE CreateEnd(r) \/ TicketEnd(r)
  BY <1>2 DEF CreateEnd, TicketEnd, SaveRecovery, GrantsWithout, Drops
<1>3. CASE IssueEnd(r)
  <2>1. pending[r].player \in Players
    BY <1>3, PendingFields DEF IssueEnd
  <2>2. Exists /\ pending[r].player \in joined /\ pending[r].grants \subseteq grants
    BY <1>0, <1>3 DEF IssueEnd, Fresh
  <2>3. PICK c \in Codes :
          /\ codeAge[c] = "new"
          /\ codeAge' = [codeAge EXCEPT ![c] = "issued"]
          /\ grants' = pending[r].grants \union {[code |-> c, player |-> pending[r].player]}
    BY <1>3 DEF IssueEnd, SaveRecovery
  <2>4. UNCHANGED rotations
    BY <1>3 DEF IssueEnd
  <2>5. Issues(c, pending[r].player)
    BY <2>2, <2>3, <2>4 DEF Issues
  <2> QED BY <2>1, <2>5
<1>4. CASE ClaimMalformed(r)
  BY <1>4, FailureDrops DEF ClaimMalformed, Drops
<1>5. CASE ClaimMissing(r) \/ ClaimExpired(r) \/ ClaimUnavailable(r)
  <2>1. pending[r].grants = grants /\ UNCHANGED <<codeAge, rotations>>
    BY <1>0, <1>5 DEF ClaimMissing, ClaimExpired, ClaimUnavailable, Fresh
  <2>2. CASE ClaimMissing(r)
    BY <2>1, <2>2, FailureDrops DEF ClaimMissing, Drops
  <2>3. CASE ClaimExpired(r)
    <3>1. PICK g \in grants : RecordFailure(grants \ {g}, pending[r].failed)
      BY <2>1, <2>3 DEF ClaimExpired
    <3> QED BY <2>1, <3>1, FailureDrops DEF Drops
  <2>4. CASE ClaimUnavailable(r)
    BY <2>1, <2>4 DEF ClaimUnavailable, SaveRecovery, Drops
  <2> QED BY <1>5, <2>2, <2>3, <2>4
<1>6. CASE ClaimRotationFails(r) \/ ClaimEnd(r)
  <2>1. PICK g \in grants : g.code = pending[r].code /\ pending[r].grants = grants \ {g}
    BY <1>0, <1>6 DEF ClaimRotationFails, ClaimEnd, Fresh
  <2>2. CASE ClaimRotationFails(r)
    BY <2>1, <2>2 DEF ClaimRotationFails, SaveRecovery, Drops
  <2>3. CASE ClaimEnd(r)
    BY <2>1, <2>3 DEF ClaimEnd, SaveRecovery, Buys
  <2> QED BY <1>6, <2>2, <2>3
<1> QED
  BY <1>1, <1>2, <1>3, <1>4, <1>5, <1>6 DEF Handle, CreateBegin, JoinBegin, JoinEnd,
     TicketBegin, IssueBegin, IssueCheck, ClaimBegin, ClaimAccepted

\* Codes go on serving one grant each, and none buys two rotations.
LEMMA GrantStep ==
  ASSUME IInv, CodesServe, GrantOnce,
         Drops \/ (\E c \in Codes, q \in Players : Issues(c, q)) \/ \E g \in grants : Buys(g)
  PROVE  CodesServe' /\ GrantOnce'
<1>0. /\ codeAge \in [Codes -> {"new", "issued", "expired"}]
      /\ rotations \in [Codes -> Nat]
      /\ \A g \in grants : g.code \in Codes
  BY DEF IInv, TypeOK, Grant
<1>1. CASE Drops
  BY <1>1 DEF Drops, CodesServe, GrantOnce
<1>2. ASSUME NEW c \in Codes, NEW q \in Players, Issues(c, q)
      PROVE  CodesServe' /\ GrantOnce'
  <2> DEFINE new == [code |-> c, player |-> q]
  <2>1. new.code = c
    OBVIOUS
  <2>2. \A g \in grants' : g \in grants \/ g = new
    BY <1>2 DEF Issues
  <2>3. \A g \in grants : g.code # c
    BY <1>2 DEF Issues, CodesServe
  <2> HIDE DEF new
  <2>4. /\ \A g \in grants' : codeAge'[g.code] # "new" /\ rotations'[g.code] = 0
        /\ \A d \in Codes : codeAge'[d] = "new" => rotations'[d] = 0
    BY <1>0, <1>2, <2>1, <2>2, <2>3 DEF Issues, CodesServe
  <2>5. \A g, h \in grants' : g.code = h.code => g = h
    BY <2>1, <2>2, <2>3 DEF CodesServe
  <2> QED BY <1>2, <2>4, <2>5 DEF Issues, CodesServe, GrantOnce
<1>3. ASSUME NEW g \in grants, Buys(g) PROVE CodesServe' /\ GrantOnce'
  <2>1. \A h \in grants' : h \in grants /\ h.code # g.code
    BY <1>3 DEF Buys, CodesServe
  <2>2. /\ rotations[g.code] = 0 /\ codeAge[g.code] # "new" /\ g.code \in Codes
        /\ \A d \in Codes : rotations'[d] = IF d = g.code THEN 1 ELSE rotations[d]
    BY <1>0, <1>3 DEF Buys, CodesServe
  <2> QED BY <1>0, <1>3, <2>1, <2>2 DEF Buys, CodesServe, GrantOnce
<1> QED BY <1>1, <1>2, <1>3

LEMMA HandleGrantsHold ==
  ASSUME IInv, ReadsFresh, SessionsHold, GrantsHold, NEW r \in Requests, Handle(r)
  PROVE  GrantsHold'
<1>1. CodesServe' /\ GrantOnce'
  BY HandleGrants, GrantStep DEF GrantsHold, GrantsSound
<1>2. Exists => \A g \in grants' : g \in grants \/ g.player \in joined
  BY HandleGrants DEF Drops, Issues, Buys
<1>3. CASE Keeps
  BY <1>1, <1>2, <1>3 DEF Keeps, GrantsHold, GrantsSound, GrantsOfThisRoom, MembersJoined,
     Exists, Members
<1>4. ASSUME NEW p \in Players, Founds(p) PROVE GrantsHold'
  <2>1. MembersJoined'
    BY <1>4, FoundedFields DEF Founds, MembersJoined, Members
  <2> QED BY <1>1, <1>4, <2>1 DEF Founds, GrantsHold, GrantsSound, GrantsOfThisRoom
<1>5. ASSUME NEW p \in Players, Admits(p) PROVE GrantsHold'
  <2>1. room'.cred = [room.cred EXCEPT ![p] = 1]
    BY <1>5, AdmittedFields DEF Admits
  <2>2. MembersJoined'
    BY <1>5, <2>1, RoomTyped DEF Admits, GrantsHold, MembersJoined, Members
  <2> QED BY <1>1, <1>2, <1>5, <2>2 DEF Admits, GrantsHold, GrantsSound, GrantsOfThisRoom
<1>6. ASSUME NEW p \in Players, Rotates(p) PROVE GrantsHold'
  <2>1. room'.cred = [room.cred EXCEPT ![p] = minted[p] + 1]
    BY <1>6, RotatedFields DEF Rotates
  <2>2. MembersJoined'
    BY <1>6, <2>1, RoomTyped DEF Rotates, GrantsHold, MembersJoined, Members
  <2> QED BY <1>1, <1>2, <1>6, <2>2 DEF Rotates, GrantsHold, GrantsSound, GrantsOfThisRoom
<1> QED BY <1>3, <1>4, <1>5, <1>6, HandleMoves

LEMMA CommandGrants ==
  ASSUME IInv, GrantsHold, NEW p \in Players, Command(p)
  PROVE  GrantsHold'
<1>1. /\ Exists /\ (Saves \/ Clears)
      /\ UNCHANGED <<grants, codeAge, joined, rotations>>
  BY CommandSaves
<1>2. MembersJoined'
  <2>1. CASE Clears
    BY <2>1 DEF Clears, MembersJoined, Exists
  <2>2. CASE Saves
    BY <1>1, <2>2 DEF Saves, GrantsHold, MembersJoined, Members
  <2> QED BY <1>1, <2>1, <2>2
<1> QED BY <1>1, <1>2 DEF GrantsHold, CodesServe, GrantsSound, GrantOnce, GrantsOfThisRoom


-----------------------------------------------------------------------------
(***************************************************************************)
(* What a request keeps across its await is what storage holds.            *)
(***************************************************************************)
LEMMA HandleReads ==
  ASSUME Gated, IInv, ReadsFresh, MembersJoined, CodesServe, NEW r \in Requests, Handle(r)
  PROVE  ReadsFresh'
<1> USE DEF recovery, history
<1>0. TypeOK /\ Fresh(pending[r]) /\ Held(pending[r])
  BY DEF IInv, ReadsFresh
<1>1. CASE Done(r)
  BY <1>0, <1>1, DoneIsFresh
<1>2. CASE CreateBegin(r)
  <2> DEFINE a == [at |-> "create"]
  <2>1. Await(r, a) /\ a.at = "create" /\ ~Exists'
    BY <1>2 DEF CreateBegin, Exists
  <2>2. pending'[r] = a
    BY <1>0, <2>1, OthersCalm
  <2>3. Fresh(pending[r])'
    BY <2>1, <2>2 DEF Fresh
  <2> QED BY <1>0, <2>1, <2>3, TurnIsFresh
<1>3. CASE JoinBegin(r)
  <2> DEFINE a == [at |-> "join", snap |-> room]
  <2>1. Await(r, a) /\ a.at = "join" /\ a.snap = room /\ room' = room /\ Exists
    BY <1>3 DEF JoinBegin
  <2>2. pending'[r] = a
    BY <1>0, <2>1, OthersCalm
  <2>3. Fresh(pending[r])'
    BY <2>1, <2>2 DEF Fresh, Exists
  <2> QED BY <1>0, <2>1, <2>3, TurnIsFresh
<1>4. ASSUME NEW p \in Players, TicketBegin(r, p) PROVE ReadsFresh'
  <2> DEFINE a == [at |-> "ticket", player |-> p, cred |-> room.cred[p]]
  <2>1. Await(r, a) /\ a.at = "ticket"
    BY <1>4 DEF TicketBegin
  <2>2. pending'[r] = a /\ \A q \in Requests \ {r} : Calm(pending'[q])
    BY <1>0, <2>1, OthersCalm
  <2> QED BY <2>1, <2>2, CalmIsFresh DEF Calm
<1>5. ASSUME NEW p \in Players, NEW q \in Players, IssueBegin(r, p, q) PROVE ReadsFresh'
  <2> DEFINE a == [at |-> "issue", snap |-> room, actor |-> p, target |-> q]
  <2>1. Await(r, a) /\ a.at = "issue" /\ a.snap = room /\ room' = room /\ Exists
    BY <1>5 DEF IssueBegin
  <2>2. pending'[r] = a
    BY <1>0, <2>1, OthersCalm
  <2>3. Fresh(pending[r])'
    BY <2>1, <2>2 DEF Fresh, Exists
  <2> QED BY <1>0, <2>1, <2>3, TurnIsFresh
<1>6. CASE IssueCheck(r) /\ ~Done(r)
  <2> DEFINE t == pending[r].target
             a == [at |-> "grant", player |-> t, grants |-> GrantsWithout(grants, t)]
  <2>1. /\ Await(r, a) /\ t \in Members(room) /\ Exists
        /\ room' = room /\ grants' = grants /\ joined' = joined
    BY <1>0, <1>6 DEF IssueCheck, MayIssue, Fresh
  <2>2. a.at = "grant" /\ a.player \in joined /\ a.grants \subseteq grants
    BY <2>1 DEF GrantsWithout, MembersJoined
  <2>3. pending'[r] = a
    BY <1>0, <2>1, OthersCalm
  <2> HIDE DEF a
  <2>4. Fresh(pending[r])'
    BY <2>1, <2>2, <2>3 DEF Fresh, Exists
  <2> QED BY <1>0, <2>1, <2>4, TurnIsFresh
<1>7. ASSUME NEW c \in Codes, ClaimBegin(r, c) PROVE ReadsFresh'
  <2> DEFINE a == [at |-> "claim", snap |-> room, code |-> c,
                   grants |-> grants, failed |-> failed]
  <2>1. /\ Await(r, a) /\ a.at = "claim" /\ a.snap = room /\ a.grants = grants
        /\ room' = room /\ grants' = grants /\ Exists
    BY <1>7 DEF ClaimBegin
  <2>2. pending'[r] = a
    BY <1>0, <2>1, OthersCalm
  <2>3. Fresh(pending[r])'
    BY <2>1, <2>2 DEF Fresh, Exists
  <2> QED BY <1>0, <2>1, <2>3, TurnIsFresh
<1>8. CASE ClaimAccepted(r)
  <2>1. pending[r].snap = room /\ pending[r].grants = grants /\ Exists
    BY <1>0, <1>8 DEF ClaimAccepted, Fresh
  <2>2. PICK g \in grants :
          /\ g.code = pending[r].code /\ Recoverable(room, g.player)
          /\ Await(r, [at |-> "rotate", snap |-> room, code |-> pending[r].code,
                       player |-> g.player, grants |-> grants \ {g},
                       failed |-> pending[r].failed])
    BY <1>8, <2>1 DEF ClaimAccepted
  <2> DEFINE a == [at |-> "rotate", snap |-> room, code |-> pending[r].code,
                   player |-> g.player, grants |-> grants \ {g},
                   failed |-> pending[r].failed]
  <2>3. room' = room /\ grants' = grants
    BY <1>8 DEF ClaimAccepted
  <2>4. /\ a.at = "rotate" /\ a.snap = room /\ a.code = g.code
        /\ a.player \notin room.hosts /\ a.grants = grants \ {g}
    BY <2>2 DEF Recoverable
  <2>5. pending'[r] = a
    BY <1>0, <2>2, OthersCalm
  <2>6. Await(r, a)
    BY <2>2
  <2> HIDE DEF a
  <2>7. Fresh(pending[r])'
    BY <2>1, <2>3, <2>4, <2>5 DEF Fresh, Exists
  <2> QED BY <1>0, <2>6, <2>7, TurnIsFresh
<1> QED
  BY <1>1, <1>2, <1>3, <1>4, <1>5, <1>6, <1>7, <1>8 DEF Handle, CreateEnd, JoinEnd,
     TicketEnd, IssueEnd, ClaimMalformed, ClaimMissing, ClaimExpired, ClaimUnavailable,
     ClaimRotationFails, ClaimEnd

-----------------------------------------------------------------------------
LEMMA CrashSerial ==
  ASSUME IInv, SerialInv, Crash \/ \E r \in Requests : CrashBetweenWrites(r)
  PROVE  SerialInv'
<1>1. /\ Restart
      /\ UNCHANGED <<room, tickets, minted, codeAge, joined, rotations>>
  BY DEF Crash, CrashBetweenWrites, history
<1>2. ReadsFresh'
  <2>1. \A q \in Requests : Calm(pending'[q])
    BY <1>1 DEF Restart, Calm, Idle
  <2> QED BY <2>1, CalmIsFresh
<1>3. SessionsHold'
  BY <1>1 DEF Restart, Close, SerialInv, SessionsHold, CredentialsMinted,
              SessionCurrent, Connected, Exists
<1>4. grants' \subseteq grants
  <2>1. CASE Crash
    BY <2>1 DEF Crash, recovery
  <2>2. ASSUME NEW r \in Requests, CrashBetweenWrites(r) PROVE grants' \subseteq grants
    <3>1. Fresh(pending[r])
      BY DEF SerialInv, ReadsFresh
    <3> QED BY <2>2, <3>1 DEF CrashBetweenWrites, SaveRecovery, GrantsWithout, Fresh
  <2> QED BY <2>1, <2>2
<1>5. CodesServe' /\ GrantOnce'
  BY <1>1, <1>4, GrantStep DEF Drops, SerialInv, GrantsHold, GrantsSound
<1> QED BY <1>1, <1>2, <1>3, <1>4, <1>5
        DEF SerialInv, GrantsHold, GrantsSound, GrantsOfThisRoom, MembersJoined,
            Exists, Members

LEMMA EnvironmentSerial ==
  ASSUME Gated, IInv, SerialInv,
         \/ \E t \in Tickets : Upgrade(t) \/ TicketExpires(t)
         \/ \E p \in Players : Disconnect(p)
         \/ \E c \in Codes : CodeExpires(c)
  PROVE  SerialInv'
<1> USE DEF recovery, history
<1>1. /\ UNCHANGED <<room, grants, failed, pending, minted, joined, rotations>>
      /\ Delivered
  BY DEF Upgrade, TicketExpires, Disconnect, CodeExpires
<1>2. ReadsFresh'
  <2>1. \A q \in Requests : Calm(pending'[q])
    BY <1>1, DeliveredCalm
  <2> QED BY <2>1, CalmIsFresh
<1>3. SessionCurrent'
  <2>1. ASSUME NEW i \in Tickets, Upgrade(i) PROVE SessionCurrent'
    <3>1. PICK t \in tickets : IF Exists /\ room.cred[t.player] = t.cred
                               THEN AcceptSocket(t.player, t.cred)
                               ELSE UNCHANGED socket
      BY <2>1 DEF Upgrade
    <3>2. socket \in [Players -> Nat]
      BY DEF IInv, TypeOK
    <3> QED BY <1>1, <3>1, <3>2 DEF AcceptSocket, SerialInv, SessionsHold,
               SessionCurrent, Connected, Exists
  <2>2. ASSUME NEW p \in Players, Disconnect(p) PROVE SessionCurrent'
    BY <1>1, <2>2 DEF Disconnect, Close, SerialInv, SessionsHold, SessionCurrent,
       Connected, Exists
  <2>3. CASE UNCHANGED socket
    BY <1>1, <2>3 DEF SerialInv, SessionsHold, SessionCurrent, Connected, Exists
  <2> QED BY <2>1, <2>2, <2>3 DEF TicketExpires, CodeExpires
<1>4. CodesServe'
  <2>1. CASE UNCHANGED codeAge
    BY <1>1, <2>1 DEF SerialInv, GrantsHold, CodesServe
  <2>2. ASSUME NEW c \in Codes, CodeExpires(c) PROVE CodesServe'
    <3>1. codeAge \in [Codes -> {"new", "issued", "expired"}]
          /\ \A g \in grants : g.code \in Codes
      BY DEF IInv, TypeOK, Grant
    <3> QED BY <1>1, <2>2, <3>1 DEF CodeExpires, SerialInv, GrantsHold, CodesServe
  <2> QED BY <2>1, <2>2 DEF Upgrade, TicketExpires, Disconnect
<1> QED BY <1>1, <1>2, <1>3, <1>4
        DEF SerialInv, SessionsHold, CredentialsMinted, GrantsHold, GrantsSound,
            GrantOnce, GrantsOfThisRoom, MembersJoined, Exists, Members

LEMMA SerialNext ==
  ASSUME Gated, IInv, SerialInv, [Next]_vars
  PROVE  SerialInv'
<1>1. ASSUME NEW r \in Requests, Handle(r) PROVE SerialInv'
  BY <1>1, HandleReads, HandleSessions, HandleGrantsHold DEF SerialInv, GrantsHold
<1>2. ASSUME NEW p \in Players, Command(p) PROVE SerialInv'
  <2>1. Delivered /\ pending' = pending
    BY <1>2, CommandSaves
  <2>2. ReadsFresh'
    BY <2>1, DeliveredCalm, CalmIsFresh
  <2> QED BY <1>2, <2>2, CommandSessions, CommandGrants DEF SerialInv
<1>3. CASE UNCHANGED vars
  BY <1>3 DEF vars, SerialInv, ReadsFresh, Alone, Fresh, SessionsHold, GrantsHold,
     CredentialsMinted, SessionCurrent, Connected, MembersJoined, CodesServe,
     GrantsSound, GrantOnce, GrantsOfThisRoom, Exists, Members
<1> QED BY <1>1, <1>2, <1>3, CrashSerial, EnvironmentSerial DEF Next

(***************************************************************************)
(* While the platform holds events back, what a suspended request has read *)
(* is still so when it writes.                                             *)
(***************************************************************************)
THEOREM SerialInvariance == ASSUME Gated PROVE Spec => []SerialInv
<1>1. IInv /\ SerialInv /\ [Next]_vars => SerialInv'
  BY SerialNext
<1> QED BY <1>1, SerialInit, Invariance, PTL DEF Spec

(***************************************************************************)
(* An open socket belongs to a member, with the member's present           *)
(* credential: removal, leaving, closing and recovery reach every          *)
(* connection, and an earlier ticket admits nobody (upgradeWebSocket).     *)
(***************************************************************************)
THEOREM SessionsStayCurrent == ASSUME Gated PROVE Spec => []SessionCurrent
<1>1. SerialInv => SessionCurrent
  BY DEF SerialInv, SessionsHold
<1> QED BY <1>1, SerialInvariance, PTL

(***************************************************************************)
(* A recovery code buys one rotation of a credential at most, and grants   *)
(* are of the room in whose life they were issued, across crashes between  *)
(* any two writes (IdentityRecoveryService.claim, createRoomSession).      *)
(***************************************************************************)
THEOREM GrantsStaySound == ASSUME Gated PROVE Spec => []GrantsSound
<1>1. SerialInv => GrantsSound
  BY DEF SerialInv, GrantsHold
<1> QED BY <1>1, SerialInvariance, PTL


-----------------------------------------------------------------------------
(***************************************************************************)
(* What a save does to the snapshot it was made from, whatever the await   *)
(* points let in between.  No snapshot has a credential that was not       *)
(* generated, so the newcomer of a join is in none; and a recovery under   *)
(* way is of nobody who was host when it was checked.                      *)
(***************************************************************************)
Backed(s) == \A q \in Players : s.cred[q] <= minted[q]
ReadBacked(a) ==
  /\ a.at \in {"join", "issue", "claim", "rotate"} => Backed(a.snap)
  /\ a.at = "rotate" => a.player \notin a.snap.hosts
AllBacked ==
  (Exists => Backed(room)) /\ \A r \in Requests : ReadBacked(pending[r])

\* What is read stays backed: more credentials are generated, none is forgotten.
LEMMA BackedLasts ==
  ASSUME NEW s \in Snapshot, Backed(s), minted \in [Players -> Nat],
         minted' \in [Players -> Nat], \A q \in Players : minted[q] <= minted'[q]
  PROVE  \A q \in Players : s.cred[q] <= minted'[q]
<1>1. s.cred \in [Players -> Nat]
  BY DEF Snapshot
<1> QED BY <1>1 DEF Backed

LEMMA MintedGrows ==
  ASSUME IInv, Next
  PROVE  /\ minted \in [Players -> Nat]
         /\ \A q \in Players : minted[q] <= minted'[q]
<1>1. minted \in [Players -> Nat]
  BY DEF IInv, TypeOK
<1>2. \/ UNCHANGED minted
      \/ \E p \in Players : minted[p] = 0 /\ minted' = [minted EXCEPT ![p] = 1]
      \/ \E r \in Requests : ClaimEnd(r)
  <2>1. ASSUME NEW p \in Players, Command(p) PROVE UNCHANGED minted
    BY <2>1, CommandSaves
  <2> QED BY <2>1 DEF Next, Handle, CreateBegin, CreateEnd, JoinBegin, JoinEnd, TicketBegin,
          TicketEnd, IssueBegin, IssueCheck, IssueEnd, ClaimMalformed, ClaimBegin,
          ClaimMissing, ClaimExpired, ClaimUnavailable, ClaimAccepted, ClaimRotationFails,
          CrashBetweenWrites, Disconnect, Upgrade, TicketExpires, CodeExpires, Crash
<1>3. ASSUME NEW r \in Requests, ClaimEnd(r)
      PROVE  \A q \in Players : minted[q] <= minted'[q]
  <2>1. pending[r].player \in Players
    BY <1>3, PendingFields DEF ClaimEnd
  <2>2. minted' = [minted EXCEPT ![pending[r].player] = @ + 1]
    BY <1>3 DEF ClaimEnd
  <2> QED BY <1>1, <2>1, <2>2
<1> QED BY <1>1, <1>2, <1>3

\* The three ends of a request that save a room.
LEMMA JoinSaves ==
  ASSUME IInv, AllBacked, NEW r \in Requests, JoinEnd(r)
  PROVE  LET s == pending[r].snap
         IN  /\ RevisionAdvances(s) /\ HostKeepsCredential(s) /\ RosterFrozen(s)
             /\ Backed(room)'
<1> DEFINE s == pending[r].snap
<1>1. Good(s) /\ s.playing = {} /\ Backed(s)
  BY DEF JoinEnd, IInv, Held, AllBacked, ReadBacked
<1>2. PICK p \in Players : /\ minted[p] = 0 /\ minted' = [minted EXCEPT ![p] = 1]
                           /\ room' = Admitted(s, p)
  BY DEF JoinEnd
<1>3. minted \in [Players -> Nat]
  BY DEF IInv, TypeOK
<1> HIDE DEF s
<1>4. s.cred \in [Players -> Nat] /\ \A h \in s.hosts : h \in Players /\ s.cred[h] > 0
  BY <1>1 DEF Good, Snapshot, Sound, Members
<1>5. /\ room'.rev = s.rev + 1 /\ room'.cred = [s.cred EXCEPT ![p] = 1]
      /\ room'.hosts = s.hosts
  BY <1>1, <1>2 DEF Admitted, Good, Snapshot
<1>6. s.cred[p] = 0
  BY <1>1, <1>2, <1>4 DEF Backed
<1>7. RevisionAdvances(s) /\ HostKeepsCredential(s) /\ RosterFrozen(s)
  BY <1>1, <1>4, <1>5, <1>6 DEF RevisionAdvances, HostKeepsCredential, RosterFrozen
<1>8. Backed(room)'
  BY <1>1, <1>2, <1>3, <1>4, <1>5 DEF Backed
<1> QED BY <1>7, <1>8 DEF s

LEMMA ClaimSaves ==
  ASSUME IInv, AllBacked, NEW r \in Requests, ClaimEnd(r)
  PROVE  LET s == pending[r].snap
         IN  /\ RevisionAdvances(s) /\ HostKeepsCredential(s) /\ RosterFrozen(s)
             /\ Backed(room)'
<1> DEFINE s == pending[r].snap
           p == pending[r].player
<1>1. Good(s) /\ p \in Members(s) /\ Backed(s) /\ p \notin s.hosts
  BY DEF ClaimEnd, IInv, Held, AllBacked, ReadBacked
<1>2. /\ minted' = [minted EXCEPT ![p] = @ + 1]
      /\ room' = [s EXCEPT !.rev = @ + 1, !.cred[p] = minted[p] + 1]
  BY DEF ClaimEnd
<1>3. minted \in [Players -> Nat]
  BY DEF IInv, TypeOK
<1> HIDE DEF s, p
<1>4. s.cred \in [Players -> Nat] /\ p \in Players /\ s.cred[p] > 0
  BY <1>1 DEF Good, Snapshot, Members
<1>5. /\ room'.rev = s.rev + 1 /\ room'.cred = [s.cred EXCEPT ![p] = minted[p] + 1]
      /\ room'.hosts = s.hosts
  BY <1>1, <1>2 DEF Good, Snapshot
<1>6. \A h \in s.hosts : h \in Players /\ h # p
  BY <1>1 DEF Good, Snapshot
<1>7. Members(room') = Members(s)
  BY <1>3, <1>4, <1>5 DEF Members
<1>8. RevisionAdvances(s) /\ HostKeepsCredential(s) /\ RosterFrozen(s)
  BY <1>4, <1>5, <1>6, <1>7 DEF RevisionAdvances, HostKeepsCredential, RosterFrozen
<1>9. Backed(room)'
  BY <1>1, <1>2, <1>3, <1>4, <1>5 DEF Backed
<1> QED BY <1>8, <1>9 DEF s

LEMMA FoundingBacked ==
  ASSUME IInv, NEW r \in Requests, CreateEnd(r)
  PROVE  Backed(room)'
<1>1. PICK p \in Players : /\ minted[p] = 0 /\ minted' = [minted EXCEPT ![p] = 1]
                           /\ room' = Founded(p)
  BY DEF CreateEnd
<1>2. minted \in [Players -> Nat]
  BY DEF IInv, TypeOK
<1> QED BY <1>1, <1>2, FoundedFields DEF Backed

\* What a request holds on to: the room of now, or what it held before.
LEMMA TurnBacked ==
  ASSUME IInv, AllBacked, Next, NEW r \in Requests, NEW a, Await(r, a),
         a.at \in {"join", "issue", "claim", "rotate"} =>
           \/ Exists /\ a.snap = room
           \/ pending[r].at \in {"join", "issue", "claim", "rotate"} /\ a.snap = pending[r].snap,
         a.at = "rotate" => a.player \notin a.snap.hosts
  PROVE  \A q \in Requests : ReadBacked(pending[q])'
<1>1. /\ minted \in [Players -> Nat] /\ minted' \in [Players -> Nat]
      /\ \A q \in Players : minted[q] <= minted'[q]
  <2>1. IInv'
    BY NextKeeps
  <2> QED BY <2>1, MintedGrows DEF IInv, TypeOK
<1>2. pending' = [pending EXCEPT ![r] = a] /\ pending \in [Requests -> Pending]
  BY DEF Await, IInv, TypeOK
<1>3. \A s \in Snapshot : Backed(s) => \A q \in Players : s.cred[q] <= minted'[q]
  BY <1>1, BackedLasts
<1>4. /\ Exists => room \in Snapshot /\ Backed(room)
      /\ \A q \in Requests :
           pending[q].at \in {"join", "issue", "claim", "rotate"} =>
             pending[q].snap \in Snapshot /\ Backed(pending[q].snap)
  BY DEF IInv, AllBacked, ReadBacked, Held, Good
<1>5. ReadBacked(pending[r])'
  BY <1>2, <1>3, <1>4 DEF ReadBacked, Backed
<1>6. ASSUME NEW q \in Requests \ {r} PROVE ReadBacked(pending[q])'
  BY <1>2, <1>3, <1>4 DEF ReadBacked, Backed, AllBacked
<1> QED BY <1>5, <1>6

\* What no turn reads or writes stays backed.
LEMMA QuietBacked ==
  ASSUME IInv, AllBacked, Next, UNCHANGED pending
  PROVE  \A q \in Requests : ReadBacked(pending[q])'
<1>1. /\ minted \in [Players -> Nat] /\ minted' \in [Players -> Nat]
      /\ \A q \in Players : minted[q] <= minted'[q]
  BY NextKeeps, MintedGrows DEF IInv, TypeOK
<1>2. \A s \in Snapshot : Backed(s) => \A q \in Players : s.cred[q] <= minted'[q]
  BY <1>1, BackedLasts
<1>3. \A q \in Requests :
        pending[q].at \in {"join", "issue", "claim", "rotate"} =>
          pending[q].snap \in Snapshot /\ Backed(pending[q].snap)
  BY DEF IInv, AllBacked, ReadBacked, Held, Good
<1> QED BY <1>2, <1>3 DEF ReadBacked, Backed, AllBacked

LEMMA StillRooms ==
  ASSUME Next
  PROVE  \/ UNCHANGED room
         \/ \E p \in Players : Command(p)
         \/ \E r \in Requests : JoinEnd(r) \/ ClaimEnd(r) \/ CreateEnd(r)
BY DEF Next, Handle, CreateBegin, JoinBegin, TicketBegin, TicketEnd, IssueBegin,
   IssueCheck, IssueEnd, ClaimMalformed, ClaimBegin, ClaimMissing, ClaimExpired,
   ClaimUnavailable, ClaimAccepted, ClaimRotationFails, CrashBetweenWrites,
   Disconnect, Upgrade, TicketExpires, CodeExpires, Crash

LEMMA RoomBacked ==
  ASSUME IInv, AllBacked, Next
  PROVE  (Exists => Backed(room))'
<1>1. /\ minted \in [Players -> Nat] /\ minted' \in [Players -> Nat]
      /\ \A q \in Players : minted[q] <= minted'[q]
  BY NextKeeps, MintedGrows DEF IInv, TypeOK
<1>2. CASE UNCHANGED room
  <2>1. ASSUME Exists PROVE \A q \in Players : room.cred[q] <= minted'[q]
    BY <1>1, <2>1, BackedLasts DEF IInv, Good, AllBacked
  <2> QED BY <1>2, <2>1 DEF Backed, Exists
<1>3. ASSUME NEW p \in Players, Command(p) PROVE (Exists => Backed(room))'
  <2>1. Exists /\ room \in Snapshot /\ (Saves \/ Clears) /\ minted' = minted
    BY <1>3, CommandSaves
  <2>2. room.cred \in [Players -> Nat] /\ \A q \in Players : room.cred[q] <= minted[q]
    BY <2>1 DEF AllBacked, Backed, Snapshot
  <2> QED BY <1>1, <2>1, <2>2 DEF Saves, Clears, Backed, Exists
<1>4. ASSUME NEW r \in Requests, JoinEnd(r) \/ ClaimEnd(r) \/ CreateEnd(r)
      PROVE  (Exists => Backed(room))'
  BY <1>4, JoinSaves, ClaimSaves, FoundingBacked
<1> QED BY <1>2, <1>3, <1>4, StillRooms

LEMMA TurnsBacked ==
  ASSUME IInv, AllBacked, Next, NEW r \in Requests, Handle(r)
  PROVE  \A q \in Requests : ReadBacked(pending[q])'
<1>1. ASSUME NEW a, Await(r, a), a.at \notin {"join", "issue", "claim", "rotate"}
      PROVE  \A q \in Requests : ReadBacked(pending[q])'
  BY <1>1, TurnBacked
<1>2. CASE Done(r)
  <2>1. Await(r, Idle) /\ Idle.at \notin {"join", "issue", "claim", "rotate"}
    BY <1>2 DEF Done, Idle
  <2> QED BY <1>1, <2>1
<1>3. CASE CreateBegin(r)
  <2> DEFINE a == [at |-> "create"]
  <2>1. Await(r, a) /\ a.at \notin {"join", "issue", "claim", "rotate"}
    BY <1>3 DEF CreateBegin
  <2> QED BY <1>1, <2>1
<1>4. CASE JoinBegin(r)
  <2> DEFINE a == [at |-> "join", snap |-> room]
  <2>1. Await(r, a) /\ Exists /\ a.snap = room /\ a.at = "join"
    BY <1>4 DEF JoinBegin
  <2> HIDE DEF a
  <2> QED BY <2>1, TurnBacked
<1>5. ASSUME NEW p \in Players, TicketBegin(r, p)
      PROVE  \A q \in Requests : ReadBacked(pending[q])'
  <2> DEFINE a == [at |-> "ticket", player |-> p, cred |-> room.cred[p]]
  <2>1. Await(r, a) /\ a.at \notin {"join", "issue", "claim", "rotate"}
    BY <1>5 DEF TicketBegin
  <2> QED BY <1>1, <2>1
<1>6. ASSUME NEW p \in Players, NEW t \in Players, IssueBegin(r, p, t)
      PROVE  \A q \in Requests : ReadBacked(pending[q])'
  <2> DEFINE a == [at |-> "issue", snap |-> room, actor |-> p, target |-> t]
  <2>1. Await(r, a) /\ Exists /\ a.snap = room /\ a.at = "issue"
    BY <1>6 DEF IssueBegin
  <2> HIDE DEF a
  <2> QED BY <2>1, TurnBacked
<1>7. CASE IssueCheck(r) /\ ~Done(r)
  <2> DEFINE a == [at |-> "grant", player |-> pending[r].target,
                   grants |-> GrantsWithout(grants, pending[r].target)]
  <2>1. Await(r, a) /\ a.at \notin {"join", "issue", "claim", "rotate"}
    BY <1>7 DEF IssueCheck
  <2> QED BY <1>1, <2>1
<1>8. ASSUME NEW c \in Codes, ClaimBegin(r, c)
      PROVE  \A q \in Requests : ReadBacked(pending[q])'
  <2> DEFINE a == [at |-> "claim", snap |-> room, code |-> c,
                   grants |-> grants, failed |-> failed]
  <2>1. Await(r, a) /\ Exists /\ a.snap = room /\ a.at = "claim"
    BY <1>8 DEF ClaimBegin
  <2> HIDE DEF a
  <2> QED BY <2>1, TurnBacked
<1>9. CASE ClaimAccepted(r)
  <2>1. PICK g \in pending[r].grants :
          /\ Recoverable(pending[r].snap, g.player)
          /\ Await(r, [at |-> "rotate", snap |-> pending[r].snap,
                       code |-> pending[r].code, player |-> g.player,
                       grants |-> pending[r].grants \ {g}, failed |-> pending[r].failed])
    BY <1>9 DEF ClaimAccepted
  <2> DEFINE a == [at |-> "rotate", snap |-> pending[r].snap,
                   code |-> pending[r].code, player |-> g.player,
                   grants |-> pending[r].grants \ {g}, failed |-> pending[r].failed]
  <2>2. /\ Await(r, a) /\ a.at = "rotate" /\ a.snap = pending[r].snap
        /\ a.player \notin a.snap.hosts /\ pending[r].at = "claim"
    BY <1>9, <2>1 DEF ClaimAccepted, Recoverable
  <2> HIDE DEF a
  <2> QED BY <2>2, TurnBacked
<1> QED
  BY <1>2, <1>3, <1>4, <1>5, <1>6, <1>7, <1>8, <1>9 DEF Handle, CreateEnd, JoinEnd,
     TicketEnd, IssueEnd, ClaimMalformed, ClaimMissing, ClaimExpired, ClaimUnavailable,
     ClaimRotationFails, ClaimEnd

LEMMA NextBacked == IInv /\ AllBacked /\ [Next]_vars => AllBacked'
<1> SUFFICES ASSUME IInv, AllBacked, [Next]_vars PROVE AllBacked'
  OBVIOUS
<1>1. CASE Next
  <2>1. ASSUME NEW r \in Requests, Handle(r)
        PROVE  \A q \in Requests : ReadBacked(pending[q])'
    BY <1>1, <2>1, TurnsBacked
  <2>2. ASSUME Restart PROVE \A q \in Requests : ReadBacked(pending[q])'
    BY <2>2 DEF Restart, ReadBacked, Idle
  <2>3. ASSUME NEW p \in Players, Command(p)
        PROVE  \A q \in Requests : ReadBacked(pending[q])'
    BY <1>1, <2>3, CommandSaves, QuietBacked
  <2>4. \A q \in Requests : ReadBacked(pending[q])'
    BY <1>1, <2>1, <2>2, <2>3, QuietBacked DEF Next, Crash, CrashBetweenWrites,
       Upgrade, TicketExpires, Disconnect, CodeExpires
  <2> QED BY <1>1, <2>4, RoomBacked DEF AllBacked
<1>2. CASE UNCHANGED vars
  BY <1>2 DEF vars, AllBacked, ReadBacked, Backed, Exists
<1> QED BY <1>1, <1>2

THEOREM BackedInvariance == Spec => []AllBacked
<1>1. Init => AllBacked
  BY DEF Init, AllBacked, Exists, ReadBacked, Idle
<1> QED BY <1>1, NextBacked, Invariance, PTL DEF Spec

(***************************************************************************)
(* What a request saves, wherever it was suspended and whatever came in    *)
(* between, is the next revision of the snapshot it was made from, leaves  *)
(* the host's credential alone and nobody joins or leaves a game; what a   *)
(* command saves does so with the room of that moment                      *)
(* (GameRoomDurableObject).                                                *)
(***************************************************************************)
THEOREM RoomStepsHold == Spec => RoomSteps
<1> DEFINE Step ==
      Exists' =>
        \/ \E r \in Requests : pending[r].at = "create" /\ pending'[r] = Idle
        \/ \E s \in Read : RevisionAdvances(s) /\ HostKeepsCredential(s) /\ RosterFrozen(s)
<1>1. IInv /\ IInv' /\ AllBacked /\ [Next]_vars => [Step]_room
  <2> SUFFICES ASSUME IInv, IInv', AllBacked, [Next]_vars, room' # room, Exists'
               PROVE  \/ \E r \in Requests : pending[r].at = "create" /\ pending'[r] = Idle
                      \/ \E s \in Read : /\ RevisionAdvances(s)
                                         /\ HostKeepsCredential(s) /\ RosterFrozen(s)
    OBVIOUS
  <2>0. pending \in [Requests -> Pending]
    BY DEF IInv, TypeOK
  <2>1. ASSUME NEW p \in Players, Command(p)
        PROVE  \E s \in Read : RevisionAdvances(s) /\ HostKeepsCredential(s) /\ RosterFrozen(s)
    <3>1. /\ Exists /\ room \in Snapshot /\ UNCHANGED pending
          /\ Saves
      BY <2>1, CommandSaves DEF Clears, Exists
    <3>2. \A r \in Requests : ~SavesNow(r)
      BY <3>1 DEF SavesNow, Idle
    <3>3. Read = {room}
      BY <3>2 DEF Read
    <3>4. RevisionAdvances(room)
      BY <3>1 DEF Saves, RevisionAdvances
    <3>5. \A h \in room'.hosts : h \in Players /\ room'.cred[h] > 0
      BY RoomTyped DEF IInv, Good, Sound, Snapshot, Members
    <3>6. HostKeepsCredential(room)
      BY <3>1, <3>5 DEF Saves, HostKeepsCredential
    <3>7. RosterFrozen(room)
      BY <3>1 DEF Saves, RosterFrozen, Members
    <3> QED BY <3>3, <3>4, <3>6, <3>7
  <2>2. ASSUME NEW r \in Requests, JoinEnd(r) \/ ClaimEnd(r)
        PROVE  \E s \in Read : RevisionAdvances(s) /\ HostKeepsCredential(s) /\ RosterFrozen(s)
    <3>1. Done(r) /\ pending[r].at \in {"join", "rotate"}
      BY <2>2 DEF JoinEnd, ClaimEnd
    <3>2. SavesNow(r)
      BY <2>0, <3>1 DEF Done, Await, SavesNow
    <3>3. pending[r].snap \in Read
      BY <3>2 DEF Read
    <3> QED BY <2>2, <3>3, JoinSaves, ClaimSaves
  <2>3. ASSUME NEW r \in Requests, CreateEnd(r)
        PROVE  pending[r].at = "create" /\ pending'[r] = Idle
    BY <2>0, <2>3 DEF CreateEnd, Done, Await
  <2> QED BY <2>1, <2>2, <2>3, StillRooms DEF vars
<1>2. QED
  BY <1>1, Invariance, BackedInvariance, PTL DEF Spec, RoomSteps
=============================================================================
