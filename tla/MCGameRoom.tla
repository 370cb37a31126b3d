----------------------------- MODULE MCGameRoom -----------------------------
\* GameRoom on small instances.
EXTENDS GameRoom, TLC

MCSymmetry ==
  Permutations(Players) \union Permutations(Requests) \union
  Permutations(Codes) \union Permutations(Tickets)
=============================================================================
