----------------------------- MODULE MCNodeRoom -----------------------------
\* NodeRoom for TLC.  What is hard about a room (replacement and timeouts; the
\* packets of one payload; these beside another connection) is hard enough by
\* itself: each behaviour keeps to one scene, which says how much of the
\* constants it uses.
EXTENDS NodeRoom, FiniteSetsExt, TLC

CONSTANTS Scenes
VARIABLE scene

Timeouts == [rooms |-> 1, players |-> 3, sockets |-> 2, packets |-> 1, timed |-> TRUE]
Payload == [rooms |-> 2, players |-> 3, sockets |-> 1, packets |-> 2, timed |-> FALSE]
Peers == [rooms |-> 2, players |-> 2, sockets |-> 2, packets |-> 2, timed |-> FALSE]
MCScenes == {Timeouts, Payload, Peers}

Cast(sc) ==
  [rooms : kSubset(sc.rooms, RoomIds), players : kSubset(sc.players, Players),
   sockets : kSubset(sc.sockets, Sockets), packets : kSubset(sc.packets, Packets),
   timed : {sc.timed}]

KeepsTo(c) ==
  /\ open \subseteq c.sockets
  /\ \A r \in RoomIds : roster[r] # <<>> => r \in c.rooms /\ Members(r) \subseteq c.players
  /\ \A k \in Packets : pending[k] # Idle => k \in c.packets /\ pending[k].room \in c.rooms
  /\ c.timed \/ \A r \in RoomIds : ~Timed(r) /\ limit[r] = Default

MCInit == Init /\ scene \in UNION {Cast(sc) : sc \in Scenes}
MCNext == Next /\ UNCHANGED scene /\ KeepsTo(scene)'
MCSpec == MCInit /\ [][MCNext]_<<vars, scene>>

MCSymmetry ==
  Permutations(RoomIds) \union Permutations(Players) \union Permutations(Sockets)
    \union Permutations(Actions) \union Permutations(Packets)
=============================================================================
