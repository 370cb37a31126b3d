---------------------------- MODULE CommandLedger ----------------------------
(***************************************************************************)
(* The retry boundary every room mutation passes through: one room's       *)
(* IdempotentCommandLedger (bounded receipts, shared in-flight mutations)  *)
(* driven by RoomCommandRuntime.execute, which publishes the receipts on   *)
(* the room and starts a new history when a lifecycle command asks for it. *)
(*                                                                         *)
(* execute() runs in the microtasks of one JavaScript thread.  Each action *)
(* below is one of them: what execute() does up to its await, the mutation *)
(* settling, the owner of the mutation resuming after its await, and the   *)
(* continuation of RoomCommandRuntime.execute.  Between any two of them    *)
(* other callers run.  Mutations may be asynchronous (their type is        *)
(* TOutcome | Promise<TOutcome>), so the in-flight window may be long.     *)
(***************************************************************************)
EXTENDS Naturals, Sequences

CONSTANTS
  Ids,          \* scoped command ids
  NoId,         \* the id of a caller that is not executing a command
  ResetIds,     \* ids of lifecycle commands, run with resetReceiptHistory
  Callers,      \* concurrent executions the transports may have open
  MaxEntries,   \* receiptLimit / maxEntries of the code, 128 by default
  MaxApplied    \* bound: a command is not issued again once applied this often

ASSUME IdsAssumption == NoId \notin Ids /\ ResetIds \subseteq Ids
ASSUME MaxEntriesAssumption == MaxEntries \in Nat \ {0}

VARIABLES
  receipts,     \* the ledger's Map in insertion order: [id, result] records
  inFlight,     \* inFlight[id]: the pending promise of id, if there is one
  published,    \* room.commandReceipts, what a later adapter restores
  call,         \* call[c]: how far the execution of caller c has got
  applied,      \* history: applications of each command
  forgotten     \* history: receipts of each command dropped from the ledger

ledger == <<receipts, inFlight>>
history == <<applied, forgotten>>
vars == <<receipts, inFlight, published, call, applied, forgotten>>

(***************************************************************************)
(* A result is the ordinal of the application that produced it, so two     *)
(* results of one command are equal exactly when they are the same answer. *)
(***************************************************************************)
Receipt == [id : Ids, result : Nat]
Flight == {"none", "scheduled", "resolved", "rejected"}
Call == [pc : {"idle", "owner", "joiner", "returned"}, id : Ids \union {NoId},
         result : Nat, replayed : BOOLEAN]
NoCall == [pc |-> "idle", id |-> NoId, result |-> 0, replayed |-> FALSE]

RememberedIn(rs) == {rs[i].id : i \in DOMAIN rs}
Remembered == RememberedIn(receipts)

\* The result a ledger holding rs replays for id.
ResultIn(rs, id) == rs[CHOOSE i \in DOMAIN rs : rs[i].id = id].result

\* Faulty variants (named ...F): each is what a slip in the operator that
\* follows it would make of it; the properties are shown to tell them apart.
RememberNothingF(rs, id, result) == rs

\* receipts.set for a known id, else append and evict the oldest.
Remember(rs, id, result) ==
  IF id \in RememberedIn(rs)
  THEN [i \in DOMAIN rs |->
          IF rs[i].id = id THEN [id |-> id, result |-> result] ELSE rs[i]]
  ELSE IF Len(rs) < MaxEntries
       THEN Append(rs, [id |-> id, result |-> result])
       ELSE Append(Tail(rs), [id |-> id, result |-> result])

\* History of a step that replaces the receipts by rs.
Forget(rs) ==
  forgotten' = [id \in Ids |->
    IF id \in Remembered \ RememberedIn(rs) THEN forgotten[id] + 1
                                            ELSE forgotten[id]]

Init ==
  /\ receipts = <<>>
  /\ inFlight = [id \in Ids |-> "none"]
  /\ published = <<>>
  /\ call = [c \in Callers |-> NoCall]
  /\ applied = [id \in Ids |-> 0]
  /\ forgotten = [id \in Ids |-> 0]

-----------------------------------------------------------------------------
Open(c, id, pc, result, replayed) ==
  call' = [call EXCEPT ![c] = [pc |-> pc, id |-> id, result |-> result,
                               replayed |-> replayed]]

\* execute(): the receipt is replayed.
Replay(c, id) ==
  /\ call[c].pc = "idle"
  /\ id \in Remembered
  /\ Open(c, id, "returned", ResultIn(receipts, id), TRUE)
  /\ UNCHANGED <<ledger, published, history>>

\* execute(): another execution of id is pending; wait for its promise.
Join(c, id) ==
  /\ call[c].pc = "idle"
  /\ id \notin Remembered
  /\ inFlight[id] # "none"
  /\ Open(c, id, "joiner", 0, TRUE)
  /\ UNCHANGED <<ledger, published, history>>

StartTwiceF(c, id) ==
  /\ call[c].pc = "idle"
  /\ id \notin Remembered
  /\ applied[id] < MaxApplied
  /\ inFlight' = [inFlight EXCEPT ![id] = "scheduled"]
  /\ Open(c, id, "owner", 0, FALSE)
  /\ UNCHANGED <<receipts, published, history>>

\* execute(): schedule the mutation in a microtask and register its promise.
Start(c, id) ==
  /\ call[c].pc = "idle"
  /\ id \notin Remembered
  /\ inFlight[id] = "none"
  /\ applied[id] < MaxApplied
  /\ inFlight' = [inFlight EXCEPT ![id] = "scheduled"]
  /\ Open(c, id, "owner", 0, FALSE)
  /\ UNCHANGED <<receipts, published, history>>

\* The mutation takes effect and its promise resolves.
Mutate(id) ==
  /\ inFlight[id] = "scheduled"
  /\ inFlight' = [inFlight EXCEPT ![id] = "resolved"]
  /\ applied' = [applied EXCEPT ![id] = @ + 1]
  /\ UNCHANGED <<receipts, published, call, forgotten>>

\* The mutation throws, having changed nothing, and its promise rejects.
MutationThrows(id) ==
  /\ inFlight[id] = "scheduled"
  /\ inFlight' = [inFlight EXCEPT ![id] = "rejected"]
  /\ UNCHANGED <<receipts, published, call, history>>

\* The reactions of id's promise run in the order they were registered, the
\* owner's first: nothing runs between them that could tell them apart.
WakeJoiners(id, owner, settled, ownerCall) ==
  call' = [c \in Callers |->
    IF c = owner THEN ownerCall
    ELSE IF call[c].pc = "joiner" /\ call[c].id = id THEN settled
    ELSE call[c]]

\* The owner's await returns: remember the result, drop the promise.
OwnerResumes(c) ==
  LET id == call[c].id
      rs == Remember(receipts, id, applied[id])
      done == [pc |-> "returned", id |-> id, result |-> applied[id],
               replayed |-> TRUE]
  IN  /\ call[c].pc = "owner"
      /\ inFlight[id] = "resolved"
      /\ receipts' = rs
      /\ Forget(rs)
      /\ inFlight' = [inFlight EXCEPT ![id] = "none"]
      /\ WakeJoiners(id, c, done, [done EXCEPT !.replayed = FALSE])
      /\ UNCHANGED <<published, applied>>

OwnerFailsKeepingF(c) ==
  /\ call[c].pc = "owner"
  /\ inFlight[call[c].id] = "rejected"
  /\ WakeJoiners(call[c].id, c, NoCall, NoCall)
  /\ UNCHANGED <<ledger, published, history>>

OwnerFailsAnsweringF(c) ==
  LET id == call[c].id
      done == [pc |-> "returned", id |-> id, result |-> applied[id],
               replayed |-> TRUE]
  IN  /\ call[c].pc = "owner"
      /\ inFlight[id] = "rejected"
      /\ inFlight' = [inFlight EXCEPT ![id] = "none"]
      /\ WakeJoiners(id, c, done, NoCall)
      /\ UNCHANGED <<receipts, published, history>>

OwnerFailsMarkingF(c) ==
  /\ call[c].pc = "owner"
  /\ inFlight[call[c].id] = "rejected"
  /\ inFlight' = [inFlight EXCEPT ![call[c].id] = "deleted"]
  /\ WakeJoiners(call[c].id, c, NoCall, NoCall)
  /\ UNCHANGED <<receipts, published, history>>

\* The owner's await throws: no receipt; owner and joiners answer the error.
OwnerFails(c) ==
  LET id == call[c].id
  IN  /\ call[c].pc = "owner"
      /\ inFlight[id] = "rejected"
      /\ inFlight' = [inFlight EXCEPT ![id] = "none"]
      /\ WakeJoiners(id, c, NoCall, NoCall)
      /\ UNCHANGED <<receipts, published, history>>

IsReset(c) == ~call[c].replayed /\ call[c].id \in ResetIds

\* RoomCommandRuntime.execute publishes the receipts and answers.
Publish(c) ==
  /\ call[c].pc = "returned"
  /\ ~IsReset(c)
  /\ published' = receipts
  /\ call' = [call EXCEPT ![c] = NoCall]
  /\ UNCHANGED <<ledger, history>>

\* A lifecycle command starts a new history with its own receipt.
Reset(c) ==
  LET rs == <<[id |-> call[c].id, result |-> call[c].result]>>
  IN  /\ call[c].pc = "returned"
      /\ IsReset(c)
      /\ \A id \in Ids : inFlight[id] = "none"
      /\ receipts' = rs
      /\ Forget(rs)
      /\ published' = rs
      /\ call' = [call EXCEPT ![c] = NoCall]
      /\ UNCHANGED <<inFlight, applied>>

\* restore() refuses while mutations are in flight: the command has been
\* applied and remembered, but its caller is answered with the error.
ResetRefused(c) ==
  /\ call[c].pc = "returned"
  /\ IsReset(c)
  /\ \E id \in Ids : inFlight[id] # "none"
  /\ call' = [call EXCEPT ![c] = NoCall]
  /\ UNCHANGED <<ledger, published, history>>

\* A new runtime meets the room object, or one rebuilt from its snapshot.
Reconstruct ==
  /\ \A c \in Callers : call[c].pc = "idle"
  /\ receipts # published
  /\ receipts' = published
  /\ Forget(published)
  /\ UNCHANGED <<inFlight, published, call, applied>>

Next ==
  \/ \E c \in Callers, id \in Ids : Replay(c, id) \/ Join(c, id) \/ Start(c, id)
  \/ \E id \in Ids : Mutate(id) \/ MutationThrows(id)
  \/ \E c \in Callers :
       OwnerResumes(c) \/ OwnerFails(c) \/ Publish(c) \/ Reset(c) \/ ResetRefused(c)
  \/ Reconstruct

\* The event loop runs every queued microtask; whether a mutation succeeds,
\* and whether anybody calls, is not its choice.
Fairness ==
  /\ \A id \in Ids : WF_vars(Mutate(id) \/ MutationThrows(id))
  /\ \A c \in Callers :
       /\ WF_vars(OwnerResumes(c) \/ OwnerFails(c))
       /\ WF_vars(Publish(c) \/ Reset(c) \/ ResetRefused(c))

Spec == Init /\ [][Next]_vars
FairSpec == Spec /\ Fairness

-----------------------------------------------------------------------------
TypeOK ==
  /\ receipts \in Seq(Receipt)
  /\ inFlight \in [Ids -> Flight]
  /\ published \in Seq(Receipt)
  /\ call \in [Callers -> Call]
  /\ applied \in [Ids -> Nat]
  /\ forgotten \in [Ids -> Nat]

\* Ids the ledger would not run again: remembered, or resolved and about to be.
Live == Remembered \union {id \in Ids : inFlight[id] = "resolved"}

(***************************************************************************)
(* A retry is applied again only if the ledger has dropped the receipt of  *)
(* every earlier application: "a repeated commandId returns the original   *)
(* result without re-running the mutation while the receipt remains inside *)
(* the bounded window" (IdempotentCommandLedger.ts).                       *)
(***************************************************************************)
AtMostOnce == \A id \in Ids : applied[id] <= forgotten[id] + 1

\* An answer about to be sent, replayed or not, is the result of a mutation of that
\* very command that took effect: sharing one in-flight mutation never answers
\* success for a failure, or for another command.
AnswerIsReal ==
  \A c \in Callers : call[c].pc = "returned" =>
    call[c].id \in Ids /\ call[c].result \in 1 .. applied[call[c].id]

\* A registered promise has exactly one execution that will remove it, and a waiting
\* execution waits for a registered promise; otherwise a failed or finished command
\* would block its id for every later retry.
FlightHasOneOwner ==
  /\ \A id \in Ids : inFlight[id] # "none" =>
       \E c \in Callers : /\ call[c].pc = "owner" /\ call[c].id = id
                          /\ \A d \in Callers : call[d].pc = "owner" /\ call[d].id = id
                                                  => d = c
  /\ \A c \in Callers : call[c].pc \in {"owner", "joiner"} =>
       call[c].id \in Ids /\ inFlight[call[c].id] # "none"

\* The window is never exceeded and never holds two receipts of one id, in the ledger
\* or on the room: a replay has one answer to choose.
WindowSound(rs) ==
  /\ Len(rs) <= MaxEntries
  /\ \A i, j \in DOMAIN rs : rs[i].id = rs[j].id => i = j
OneReceiptPerId == WindowSound(receipts) /\ WindowSound(published)

(***************************************************************************)
(* What a retry meets is right: a receipt of that command, the one there   *)
(* is; or a promise somebody will settle; and so the answer is a real one. *)
(***************************************************************************)
LedgerSound == AnswerIsReal /\ FlightHasOneOwner /\ OneReceiptPerId

(***************************************************************************)
(* Every execution is answered, however mutations end and retries overlap. *)
(***************************************************************************)
EveryCallAnswered ==
  \A c \in Callers : (call[c].pc # "idle") ~> (call[c].pc = "idle")

\* The ledger implements the abstract replay window.
Window == INSTANCE CommandWindow WITH live <- Live
WindowRefined == Window!WindowSpec
=============================================================================
