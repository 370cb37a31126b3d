--------------------------- MODULE MCCommandLedger ---------------------------
\* CommandLedger on a small instance: two player commands and a lifecycle one.
EXTENDS CommandLedger

CONSTANTS move, vote, restart

MCIds == {move, vote, restart}
MCResetIds == {restart}
=============================================================================
