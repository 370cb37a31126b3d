---------------------------- MODULE CommandWindow ----------------------------
(***************************************************************************)
(* What the room command boundary promises about retries, with every       *)
(* mechanism left out: a command is applied only while nothing remembers   *)
(* an earlier application of it.  An application may be forgotten, because *)
(* the receipt window is bounded and a game lifecycle change resets it,    *)
(* and a forgotten one may be recalled.  CommandLedger implements this.    *)
(***************************************************************************)
EXTENDS Naturals

CONSTANT Ids            \* scoped command ids, "<scope>:<commandId>"

VARIABLES
  live,                 \* ids whose last application is remembered
  applied,              \* applied[id]: how often the mutation of id took effect
  forgotten             \* forgotten[id]: how often a memory of id was dropped

windowVars == <<live, applied, forgotten>>

WindowTypeOK ==
  /\ live \in SUBSET Ids
  /\ applied \in [Ids -> Nat]
  /\ forgotten \in [Ids -> Nat]

WindowInit ==
  /\ live = {}
  /\ applied = [id \in Ids |-> 0]
  /\ forgotten = [id \in Ids |-> 0]

\* The mutation of a command nothing remembers takes effect.
Apply(id) ==
  /\ id \notin live
  /\ live' = live \union {id}
  /\ applied' = [applied EXCEPT ![id] = @ + 1]
  /\ UNCHANGED forgotten

\* Remembered applications leave the window; others may be recalled.
Refresh(dropped, recalled) ==
  /\ live' = (live \ dropped) \union recalled
  /\ forgotten' = [id \in Ids |-> IF id \in dropped THEN forgotten[id] + 1
                                                    ELSE forgotten[id]]
  /\ UNCHANGED applied

WindowNext ==
  \/ \E id \in Ids : Apply(id)
  \/ \E dropped \in SUBSET live,
        recalled \in SUBSET {id \in Ids : applied[id] > 0} :
       Refresh(dropped, recalled)

WindowSpec == WindowInit /\ [][WindowNext]_windowVars
=============================================================================
