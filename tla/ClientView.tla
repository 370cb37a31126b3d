----------------------------- MODULE ClientView -----------------------------
(***************************************************************************)
(* What a client promises about the view it shows: it is a view the server *)
(* really had, and each one shown is newer than the one before, across     *)
(* connections, until the session is over and shows nothing any more.      *)
(***************************************************************************)
EXTENDS Naturals

VARIABLES
  truth,  \* revision of the authoritative state
  shown,  \* revision of the view shown, 0 for none
  over    \* the session is disposed of

Init == truth = 1 /\ shown = 0 /\ over = FALSE

Commit == truth' = truth + 1 /\ UNCHANGED <<shown, over>>

Show == /\ ~over
        /\ shown' \in shown + 1 .. truth
        /\ UNCHANGED <<truth, over>>

Close == ~over /\ over' = TRUE /\ shown' = 0 /\ UNCHANGED truth

Next == Commit \/ Show \/ Close

View == Init /\ [][Next]_<<truth, shown, over>>
=============================================================================
