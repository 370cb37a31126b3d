------------------------- MODULE CommandLedgerProofs -------------------------
(***************************************************************************)
(* Proofs about CommandLedger, for every set of commands and callers and   *)
(* every window size: type correctness, the inductive invariant behind     *)
(* at-most-once application, and that the ledger implements CommandWindow. *)
(***************************************************************************)
EXTENDS CommandLedger, TLAPS

\* Every receipt kept stands for an application that took effect.
ReceiptsReal(rs) == \A i \in DOMAIN rs : rs[i].result \in 1 .. applied[rs[i].id]

\* A command is pending only while the ledger does not remember it.
PendingIsNew == \A id \in Ids : inFlight[id] # "none" => id \notin Remembered

\* The sharper form of AtMostOnce: the allowance of one belongs to Live ids.
AppliedOncePerMemory ==
  \A id \in Ids : /\ applied[id] <= forgotten[id] + 1
                  /\ id \notin Live => applied[id] <= forgotten[id]

\* A resolved mutation has taken effect.
ResolvedApplied == \A id \in Ids : inFlight[id] = "resolved" => applied[id] >= 1

IInv ==
  /\ TypeOK
  /\ OneReceiptPerId
  /\ FlightHasOneOwner
  /\ AnswerIsReal
  /\ ReceiptsReal(receipts)
  /\ ReceiptsReal(published)
  /\ PendingIsNew
  /\ AppliedOncePerMemory
  /\ ResolvedApplied

-----------------------------------------------------------------------------
LEMMA ReceiptFields ==
  ASSUME NEW rs \in Seq(Receipt), NEW i \in DOMAIN rs
  PROVE  rs[i].id \in Ids /\ rs[i].result \in Nat
<1>1. rs[i] \in Receipt
  OBVIOUS
<1>2. QED  BY <1>1 DEF Receipt

(***************************************************************************)
(* What remember() does to a sound list of receipts: the list stays sound, *)
(* the command is remembered, and nothing else is new in it.               *)
(***************************************************************************)
LEMMA RememberSound ==
  ASSUME NEW rs \in Seq(Receipt), WindowSound(rs), NEW id \in Ids, NEW r \in Nat
  PROVE  LET new == Remember(rs, id, r)
         IN  /\ new \in Seq(Receipt)
             /\ WindowSound(new)
             /\ id \in RememberedIn(new)
             /\ \A j \in DOMAIN new : \/ new[j].id = id /\ new[j].result = r
                                      \/ \E i \in DOMAIN rs : new[j] = rs[i]
<1> DEFINE e == [id |-> id, result |-> r]
           new == Remember(rs, id, r)
<1>0. e \in Receipt /\ e.id = id /\ e.result = r
  BY DEF Receipt
<1>1. CASE id \in RememberedIn(rs)
  <2>1. new = [i \in DOMAIN rs |-> IF rs[i].id = id THEN e ELSE rs[i]]
    BY <1>1 DEF Remember
  <2>2. /\ new \in Seq(Receipt)
        /\ Len(new) = Len(rs)
        /\ DOMAIN new = DOMAIN rs
    BY <1>0, <2>1
  <2>3. \A j \in DOMAIN new : /\ new[j].id = rs[j].id
                              /\ \/ new[j].id = id /\ new[j].result = r
                                 \/ new[j] = rs[j]
    BY <1>0, <2>1, <2>2
  <2>4. id \in RememberedIn(new)
    BY <1>1, <2>2, <2>3 DEF RememberedIn
  <2>5. WindowSound(new)
    BY <2>2, <2>3 DEF WindowSound
  <2>6. QED  BY <2>2, <2>3, <2>4, <2>5
<1>2. CASE id \notin RememberedIn(rs) /\ Len(rs) < MaxEntries
  <2>1. new = Append(rs, e)
    BY <1>2 DEF Remember
  <2>2. /\ new \in Seq(Receipt)
        /\ Len(new) = Len(rs) + 1
        /\ DOMAIN new = 1 .. Len(rs) + 1
        /\ new[Len(rs) + 1] = e
        /\ \A i \in 1 .. Len(rs) : new[i] = rs[i]
    BY <1>0, <2>1
  <2>3. \A i \in 1 .. Len(rs) : rs[i].id # id
    BY <1>2 DEF RememberedIn
  <2>4. id \in RememberedIn(new)
    BY <1>0, <2>2 DEF RememberedIn
  <2>5. WindowSound(new)
    BY <1>0, <1>2, <2>2, <2>3, MaxEntriesAssumption DEF WindowSound
  <2>6. QED  BY <1>0, <2>2, <2>4, <2>5
<1>3. CASE id \notin RememberedIn(rs) /\ ~(Len(rs) < MaxEntries)
  <2>1. new = Append(Tail(rs), e)
    BY <1>3 DEF Remember
  <2>2. Len(rs) = MaxEntries /\ Len(rs) > 0
    BY <1>3, MaxEntriesAssumption DEF WindowSound
  <2>3. /\ new \in Seq(Receipt)
        /\ Len(new) = Len(rs)
        /\ DOMAIN new = 1 .. Len(rs)
        /\ new[Len(rs)] = e
        /\ \A i \in 1 .. Len(rs) - 1 : new[i] = rs[i + 1] /\ i + 1 \in DOMAIN rs
    BY <1>0, <2>1, <2>2
  <2>4. \A i \in 1 .. Len(rs) : rs[i].id # id
    BY <1>3 DEF RememberedIn
  <2>5. id \in RememberedIn(new)
    BY <1>0, <2>2, <2>3 DEF RememberedIn
  <2>6. WindowSound(new)
    <3>1. SUFFICES ASSUME NEW i \in DOMAIN new, NEW j \in DOMAIN new,
                          new[i].id = new[j].id
                   PROVE  i = j
      BY <2>2, <2>3 DEF WindowSound
    <3>2. CASE i = Len(rs) \/ j = Len(rs)
      BY <1>0, <2>3, <2>4, <3>1, <3>2
    <3>3. CASE i # Len(rs) /\ j # Len(rs)
      <4>1. rs[i + 1].id = rs[j + 1].id /\ i + 1 \in DOMAIN rs /\ j + 1 \in DOMAIN rs
        BY <2>3, <3>1, <3>3
      <4>2. i + 1 = j + 1
        BY <4>1 DEF WindowSound
      <4>3. QED  BY <4>2, <2>3
    <3>4. QED  BY <3>2, <3>3
  <2>7. ASSUME NEW j \in DOMAIN new
        PROVE  \/ new[j].id = id /\ new[j].result = r
               \/ \E i \in DOMAIN rs : new[j] = rs[i]
    <3>1. CASE j = Len(rs)
      BY <1>0, <2>3, <3>1
    <3>2. CASE j # Len(rs)
      <4>1. new[j] = rs[j + 1] /\ j + 1 \in DOMAIN rs
        BY <2>3, <3>2
      <4>2. QED  BY <4>1
    <3>3. QED  BY <3>1, <3>2
  <2>8. QED  BY <2>3, <2>5, <2>6, <2>7
<1>4. QED  BY <1>1, <1>2, <1>3
-----------------------------------------------------------------------------
(***************************************************************************)
(* Type correctness and the inductive invariant.                           *)
(***************************************************************************)
LEMMA InitIInv == Init => IInv
<1> SUFFICES ASSUME Init PROVE IInv
  OBVIOUS
<1> USE DEF Init
<1>1. TypeOK
  BY IdsAssumption DEF TypeOK, Call, NoCall, Flight, Receipt
<1>2. OneReceiptPerId
  BY MaxEntriesAssumption DEF OneReceiptPerId, WindowSound
<1>3. FlightHasOneOwner /\ AnswerIsReal
  BY DEF FlightHasOneOwner, AnswerIsReal, NoCall
<1>4. ReceiptsReal(receipts) /\ ReceiptsReal(published)
  BY DEF ReceiptsReal
<1>5. PendingIsNew /\ AppliedOncePerMemory /\ ResolvedApplied
  BY DEF PendingIsNew, AppliedOncePerMemory, Live, ResolvedApplied
<1>6. QED  BY <1>1, <1>2, <1>3, <1>4, <1>5 DEF IInv

\* Dropping receipts and counting them keeps the at-most-once allowance.
LEMMA ForgetKeepsAllowance ==
  ASSUME TypeOK, AppliedOncePerMemory, NEW rs, Forget(rs),
         applied' = applied, receipts' = rs,
         \A id \in Ids : inFlight'[id] = "resolved" => inFlight[id] = "resolved",
         \A id \in Ids : inFlight[id] = "resolved" /\ inFlight'[id] # "resolved"
           => id \in RememberedIn(rs)
  PROVE  AppliedOncePerMemory'
<1> SUFFICES ASSUME NEW id \in Ids
             PROVE  /\ applied[id] <= forgotten'[id] + 1
                    /\ id \notin Live' => applied[id] <= forgotten'[id]
  BY DEF AppliedOncePerMemory
<1>1. applied[id] \in Nat /\ forgotten[id] \in Nat
  BY DEF TypeOK
<1>2. Live' = RememberedIn(rs) \union {i \in Ids : inFlight'[i] = "resolved"}
  BY DEF Live, Remembered, RememberedIn
<1>3. forgotten'[id] = IF id \in Remembered \ RememberedIn(rs)
                       THEN forgotten[id] + 1 ELSE forgotten[id]
  BY DEF Forget
<1>4. CASE id \in Live'
  BY <1>1, <1>3, <1>4 DEF AppliedOncePerMemory
<1>5. CASE id \notin Live' /\ id \in Remembered
  BY <1>1, <1>2, <1>3, <1>5 DEF AppliedOncePerMemory
<1>6. CASE id \notin Live' /\ id \notin Remembered
  BY <1>1, <1>2, <1>3, <1>6 DEF AppliedOncePerMemory, Live
<1>7. QED  BY <1>4, <1>5, <1>6

\* The steps that only open an execution leave the ledger as it is.
LEMMA OpeningKeepsIInv ==
  ASSUME IInv, NEW c \in Callers, NEW id \in Ids,
         Replay(c, id) \/ Join(c, id) \/ Start(c, id)
  PROVE  IInv'
<1> USE DEF IInv
<1>0. /\ call \in [Callers -> Call] /\ inFlight \in [Ids -> Flight]
      /\ receipts \in Seq(Receipt) /\ call[c].pc = "idle"
  BY DEF TypeOK, Replay, Join, Start
<1>1. CASE Replay(c, id)
  <2> USE <1>1 DEF Replay, Open, ledger, history
  <2>1. PICK i \in DOMAIN receipts : /\ receipts[i].id = id
                                     /\ ResultIn(receipts, id) = receipts[i].result
    BY DEF Remembered, RememberedIn, ResultIn
  <2>2. receipts[i] \in Receipt
    BY <1>0
  <2>3. receipts[i].result \in 1 .. applied[id] /\ receipts[i].result \in Nat
    BY <2>1, <2>2 DEF ReceiptsReal, Receipt
  <2>4. call' = [call EXCEPT ![c] = [pc |-> "returned", id |-> id,
                    result |-> receipts[i].result, replayed |-> TRUE]]
    BY <2>1
  <2>5. TypeOK'
    BY <2>3, <2>4, <1>0 DEF TypeOK, Call
  <2>6. AnswerIsReal'
    BY <2>3, <2>4, <1>0 DEF AnswerIsReal
  <2>7. FlightHasOneOwner'
    BY <2>4, <1>0 DEF FlightHasOneOwner
  <2>8. QED
    BY <2>5, <2>6, <2>7 DEF OneReceiptPerId, ReceiptsReal, PendingIsNew, Remembered,
       AppliedOncePerMemory, Live, ResolvedApplied
<1>2. CASE Join(c, id)
  <2> USE <1>2 DEF Join, Open, ledger, history
  <2>1. TypeOK'
    BY <1>0 DEF TypeOK, Call
  <2>2. AnswerIsReal' /\ FlightHasOneOwner'
    BY <1>0 DEF AnswerIsReal, FlightHasOneOwner
  <2>3. QED
    BY <2>1, <2>2 DEF OneReceiptPerId, ReceiptsReal, PendingIsNew, Remembered,
       AppliedOncePerMemory, Live, ResolvedApplied
<1>3. CASE Start(c, id)
  <2> USE <1>3 DEF Start, Open, history
  <2>1. TypeOK'
    BY <1>0 DEF TypeOK, Call, Flight
  <2>2. AnswerIsReal'
    BY <1>0 DEF AnswerIsReal
  <2>3. FlightHasOneOwner'
    BY <1>0 DEF FlightHasOneOwner
  <2>4. PendingIsNew'
    BY <1>0 DEF PendingIsNew, Remembered
  <2>5. AppliedOncePerMemory'
    BY <1>0 DEF AppliedOncePerMemory, Live, Remembered
  <2>6. ResolvedApplied'
    BY <1>0 DEF ResolvedApplied
  <2>7. QED
    BY <2>1, <2>2, <2>3, <2>4, <2>5, <2>6 DEF OneReceiptPerId, ReceiptsReal
<1>4. QED  BY <1>1, <1>2, <1>3

\* A mutation settling, either way.
LEMMA MutationKeepsIInv ==
  ASSUME IInv, NEW id \in Ids, Mutate(id) \/ MutationThrows(id)
  PROVE  IInv'
<1> USE DEF IInv
<1>0. /\ call \in [Callers -> Call] /\ inFlight \in [Ids -> Flight]
      /\ receipts \in Seq(Receipt) /\ published \in Seq(Receipt)
      /\ applied \in [Ids -> Nat] /\ inFlight[id] = "scheduled"
  BY DEF TypeOK, Mutate, MutationThrows
<1>1. FlightHasOneOwner' /\ PendingIsNew' /\ OneReceiptPerId'
  <2>1. /\ UNCHANGED <<receipts, published, call>>
        /\ inFlight' \in [Ids -> Flight]
        /\ \A i \in Ids : (inFlight'[i] = "none") <=> (inFlight[i] = "none")
    BY <1>0 DEF Mutate, MutationThrows, Flight
  <2>2. FlightHasOneOwner'
    BY <2>1 DEF FlightHasOneOwner
  <2>3. PendingIsNew' /\ OneReceiptPerId'
    BY <2>1 DEF PendingIsNew, OneReceiptPerId, Remembered, RememberedIn, WindowSound
  <2>4. QED  BY <2>2, <2>3
<1>2. CASE Mutate(id)
  <2> USE <1>2 DEF Mutate
  <2>1. TypeOK'
    BY <1>0 DEF TypeOK, Flight
  <2>2. \A i \in Ids : applied[i] \in Nat /\ applied'[i] \in Nat /\ applied[i] <= applied'[i]
    BY <1>0
  <2>3. AnswerIsReal'
    <3>1. SUFFICES ASSUME NEW c \in Callers, call[c].pc = "returned"
                   PROVE  call[c].id \in Ids /\ call[c].result \in 1 .. applied'[call[c].id]
      BY DEF AnswerIsReal
    <3>2. call[c].id \in Ids /\ call[c].result \in 1 .. applied[call[c].id]
      BY <3>1 DEF AnswerIsReal
    <3>3. QED  BY <3>2, <2>2
  <2>4. \A i \in DOMAIN receipts : receipts[i].id \in Ids
    BY <1>0, ReceiptFields
  <2>5. \A i \in DOMAIN published : published[i].id \in Ids
    BY <1>0, ReceiptFields
  <2>6. ReceiptsReal(receipts)'
    BY <2>2, <2>4 DEF ReceiptsReal
  <2>7. ReceiptsReal(published)'
    BY <2>2, <2>5 DEF ReceiptsReal
  <2>8. AppliedOncePerMemory'
    <3>1. id \notin Live
      BY <1>0 DEF PendingIsNew, Live
    <3>2. Live' = Live \union {id}
      BY <1>0 DEF Live, Remembered
    <3>3. applied[id] <= forgotten[id] /\ forgotten \in [Ids -> Nat]
      BY <3>1 DEF AppliedOncePerMemory, TypeOK
    <3>4. applied' = [applied EXCEPT ![id] = applied[id] + 1]
      OBVIOUS
    <3>5. QED  BY <1>0, <3>2, <3>3, <3>4 DEF AppliedOncePerMemory
  <2>9. ResolvedApplied'
    BY <1>0, <2>2 DEF ResolvedApplied
  <2>10. QED  BY <1>1, <2>1, <2>3, <2>6, <2>7, <2>8, <2>9
<1>3. CASE MutationThrows(id)
  <2> USE <1>3 DEF MutationThrows, history
  <2>1. TypeOK'
    BY <1>0 DEF TypeOK, Flight
  <2>2. Live' = Live
    BY <1>0 DEF Live, Remembered
  <2>3. QED
    BY <1>0, <1>1, <2>1, <2>2 DEF AnswerIsReal, ReceiptsReal, AppliedOncePerMemory,
       ResolvedApplied
<1>4. QED  BY <1>2, <1>3

\* The owner of a settled mutation resuming, with its joiners.
LEMMA OwnerKeepsIInv ==
  ASSUME IInv, NEW c \in Callers, OwnerResumes(c) \/ OwnerFails(c)
  PROVE  IInv'
<1> DEFINE id == call[c].id
<1>0. /\ call \in [Callers -> Call] /\ inFlight \in [Ids -> Flight]
      /\ receipts \in Seq(Receipt) /\ published \in Seq(Receipt)
      /\ applied \in [Ids -> Nat] /\ forgotten \in [Ids -> Nat]
      /\ call[c].pc = "owner" /\ inFlight[id] # "none"
      /\ TypeOK
  BY DEF IInv, TypeOK, OwnerResumes, OwnerFails
<1>1. id \in Ids /\ id \notin Remembered
  BY <1>0 DEF IInv, FlightHasOneOwner, PendingIsNew
<1>2. \A d \in Callers : call[d].pc = "owner" /\ call[d].id = id => d = c
  BY <1>0, <1>1 DEF IInv, FlightHasOneOwner
<1>3. ASSUME inFlight' = [inFlight EXCEPT ![id] = "none"],
             NEW settled, NEW mine, WakeJoiners(id, c, settled, mine),
             settled.pc \notin {"owner", "joiner"}, mine.pc \notin {"owner", "joiner"}
      PROVE  FlightHasOneOwner'
  <2>1. \A d \in Callers : call'[d] = IF d = c THEN mine
          ELSE IF call[d].pc = "joiner" /\ call[d].id = id THEN settled ELSE call[d]
    BY <1>3 DEF WakeJoiners
  <2>2. \A i \in Ids : inFlight'[i] = IF i = id THEN "none" ELSE inFlight[i]
    BY <1>0, <1>3
  <2>3. ASSUME NEW i \in Ids, inFlight'[i] # "none"
        PROVE  \E o \in Callers : /\ call'[o].pc = "owner" /\ call'[o].id = i
                 /\ \A d \in Callers : call'[d].pc = "owner" /\ call'[d].id = i => d = o
    <3>1. i # id /\ inFlight[i] # "none"
      BY <2>2, <2>3
    <3>2. PICK o \in Callers : /\ call[o].pc = "owner" /\ call[o].id = i
             /\ \A d \in Callers : call[d].pc = "owner" /\ call[d].id = i => d = o
      BY <3>1 DEF IInv, FlightHasOneOwner
    <3>3. call'[o] = call[o]
      BY <2>1, <3>1, <3>2
    <3>4. \A d \in Callers : call'[d].pc = "owner" => call'[d] = call[d]
      BY <1>3, <2>1
    <3>5. QED  BY <3>2, <3>3, <3>4
  <2>4. ASSUME NEW d \in Callers, call'[d].pc \in {"owner", "joiner"}
        PROVE  call'[d].id \in Ids /\ inFlight'[call'[d].id] # "none"
    <3>1. call'[d] = call[d] /\ d # c /\ ~(call[d].pc = "joiner" /\ call[d].id = id)
      BY <1>3, <2>1, <2>4
    <3>2. call[d].id \in Ids /\ inFlight[call[d].id] # "none"
      BY <2>4, <3>1 DEF IInv, FlightHasOneOwner
    <3>3. call[d].id # id
      BY <1>2, <2>4, <3>1
    <3>4. QED  BY <2>2, <3>1, <3>2, <3>3
  <2>5. QED  BY <2>3, <2>4 DEF FlightHasOneOwner
<1>4. CASE OwnerResumes(c)
  <2> DEFINE rs == Remember(receipts, id, applied[id])
             done == [pc |-> "returned", id |-> id, result |-> applied[id], replayed |-> TRUE]
             mine == [done EXCEPT !.replayed = FALSE]
  <2>1. /\ inFlight[id] = "resolved" /\ receipts' = rs /\ Forget(rs)
        /\ inFlight' = [inFlight EXCEPT ![id] = "none"]
        /\ WakeJoiners(id, c, done, mine)
        /\ UNCHANGED <<published, applied>>
    BY <1>4 DEF OwnerResumes
  <2>2. applied[id] \in Nat /\ applied[id] >= 1
    BY <1>0, <1>1, <2>1 DEF IInv, ResolvedApplied
  <2>3. /\ rs \in Seq(Receipt) /\ WindowSound(rs) /\ id \in RememberedIn(rs)
        /\ \A j \in DOMAIN rs : \/ rs[j].id = id /\ rs[j].result = applied[id]
                                \/ \E i \in DOMAIN receipts : rs[j] = receipts[i]
    BY <1>0, <1>1, <2>2, RememberSound DEF IInv, OneReceiptPerId
  <2>4. done \in Call /\ mine \in Call
    BY <1>1, <2>2 DEF Call
  <2>5. TypeOK'
    <3>1. call' \in [Callers -> Call]
      BY <1>0, <2>1, <2>4 DEF WakeJoiners
    <3>2. forgotten' \in [Ids -> Nat]
      BY <1>0, <2>1 DEF Forget
    <3>3. QED  BY <1>0, <2>1, <2>3, <3>1, <3>2 DEF TypeOK, Flight
  <2>6. OneReceiptPerId'
    BY <2>1, <2>3 DEF IInv, OneReceiptPerId, WindowSound
  <2>7. FlightHasOneOwner'
    BY <1>3, <2>1
  <2>8. AnswerIsReal'
    BY <1>1, <2>1, <2>2 DEF WakeJoiners, IInv, AnswerIsReal
  <2>9. ReceiptsReal(receipts)' /\ ReceiptsReal(published)'
    BY <2>1, <2>2, <2>3 DEF IInv, ReceiptsReal
  <2>10. PendingIsNew'
    <3>1. SUFFICES ASSUME NEW i \in Ids, inFlight'[i] # "none"
                   PROVE  i \notin RememberedIn(rs)
      BY <2>1 DEF PendingIsNew, Remembered, RememberedIn
    <3>2. i # id /\ inFlight[i] # "none"
      BY <1>0, <1>1, <2>1, <3>1
    <3>3. \A j \in DOMAIN receipts : receipts[j].id # i
      BY <3>2 DEF IInv, PendingIsNew, Remembered, RememberedIn
    <3>4. QED  BY <2>3, <3>2, <3>3 DEF RememberedIn
  <2>11. AppliedOncePerMemory'
    BY <1>0, <1>1, <2>1, <2>3, ForgetKeepsAllowance DEF IInv
  <2>12. ResolvedApplied'
    BY <1>0, <2>1 DEF IInv, ResolvedApplied
  <2>13. QED
    BY <2>5, <2>6, <2>7, <2>8, <2>9, <2>10, <2>11, <2>12 DEF IInv
<1>5. CASE OwnerFails(c)
  <2>1. /\ inFlight[id] = "rejected"
        /\ inFlight' = [inFlight EXCEPT ![id] = "none"]
        /\ WakeJoiners(id, c, NoCall, NoCall)
        /\ UNCHANGED <<receipts, published, applied, forgotten>>
    BY <1>5 DEF OwnerFails, history
  <2>2. NoCall \in Call
    BY DEF NoCall, Call
  <2>3. TypeOK'
    BY <1>0, <2>1, <2>2 DEF TypeOK, WakeJoiners, Flight
  <2>4. FlightHasOneOwner'
    BY <1>3, <2>1 DEF NoCall
  <2>5. AnswerIsReal'
    BY <2>1 DEF WakeJoiners, IInv, AnswerIsReal, NoCall
  <2>6. Live' = Live
    BY <1>0, <1>1, <2>1 DEF Live, Remembered
  <2>7. PendingIsNew' /\ OneReceiptPerId' /\ ReceiptsReal(receipts)' /\ ReceiptsReal(published)'
    BY <1>0, <2>1 DEF IInv, PendingIsNew, OneReceiptPerId, ReceiptsReal, Remembered
  <2>8. AppliedOncePerMemory' /\ ResolvedApplied'
    BY <1>0, <2>1, <2>6 DEF IInv, AppliedOncePerMemory, ResolvedApplied
  <2>9. QED  BY <2>3, <2>4, <2>5, <2>7, <2>8 DEF IInv
<1>6. QED  BY <1>4, <1>5

\* The continuation of RoomCommandRuntime.execute, and a new runtime.
LEMMA ReturningKeepsIInv ==
  ASSUME IInv, NEW c \in Callers, Publish(c) \/ Reset(c) \/ ResetRefused(c)
  PROVE  IInv'
<1>0. /\ call \in [Callers -> Call] /\ call[c].pc = "returned"
      /\ call' = [call EXCEPT ![c] = NoCall]
      /\ inFlight' = inFlight /\ applied' = applied
      /\ NoCall \in Call /\ NoCall.pc = "idle" /\ TypeOK
      /\ forgotten \in [Ids -> Nat]
  BY DEF IInv, TypeOK, Publish, Reset, ResetRefused, NoCall, Call, ledger, history
<1>1. FlightHasOneOwner' /\ AnswerIsReal' /\ ResolvedApplied'
  BY <1>0 DEF IInv, FlightHasOneOwner, AnswerIsReal, ResolvedApplied
<1>2. CASE Publish(c)
  <2>1. published' = receipts /\ receipts' = receipts /\ forgotten' = forgotten
    BY <1>2 DEF Publish, ledger, history
  <2>2. TypeOK' /\ OneReceiptPerId'
    BY <1>0, <2>1 DEF IInv, TypeOK, OneReceiptPerId, WindowSound
  <2>3. ReceiptsReal(receipts)' /\ ReceiptsReal(published)' /\ PendingIsNew'
    BY <1>0, <2>1 DEF IInv, ReceiptsReal, PendingIsNew, Remembered
  <2>4. AppliedOncePerMemory'
    BY <1>0, <2>1 DEF IInv, AppliedOncePerMemory, Live, Remembered
  <2>5. QED  BY <1>1, <2>2, <2>3, <2>4 DEF IInv
<1>3. CASE Reset(c)
  <2> DEFINE e == [id |-> call[c].id, result |-> call[c].result]
             rs == <<e>>
  <2>1. /\ receipts' = rs /\ published' = rs /\ Forget(rs)
        /\ \A id \in Ids : inFlight[id] = "none"
    BY <1>3 DEF Reset
  <2>2. e.id \in Ids /\ e.result \in 1 .. applied[e.id]
    BY <1>0 DEF IInv, AnswerIsReal
  <2>3. e \in Receipt /\ rs \in Seq(Receipt)
    BY <1>0, <2>2 DEF Receipt, TypeOK
  <2>4. Len(rs) = 1 /\ DOMAIN rs = {1} /\ rs[1] = e
    OBVIOUS
  <2>5. TypeOK'
    BY <1>0, <2>1, <2>3 DEF TypeOK, Forget
  <2>6. OneReceiptPerId' /\ ReceiptsReal(receipts)' /\ ReceiptsReal(published)'
    BY <1>0, <2>1, <2>2, <2>4, MaxEntriesAssumption
       DEF OneReceiptPerId, WindowSound, ReceiptsReal
  <2>7. PendingIsNew'
    BY <1>0, <2>1 DEF PendingIsNew
  <2>8. AppliedOncePerMemory'
    BY <1>0, <2>1, ForgetKeepsAllowance DEF IInv
  <2>9. QED  BY <1>1, <2>5, <2>6, <2>7, <2>8 DEF IInv
<1>4. CASE ResetRefused(c)
  <2>1. UNCHANGED <<published, receipts, forgotten>>
    BY <1>4 DEF ResetRefused, ledger, history
  <2>2. TypeOK' /\ OneReceiptPerId'
    BY <1>0, <2>1 DEF IInv, TypeOK, OneReceiptPerId, WindowSound
  <2>3. ReceiptsReal(receipts)' /\ ReceiptsReal(published)' /\ PendingIsNew'
    BY <1>0, <2>1 DEF IInv, ReceiptsReal, PendingIsNew, Remembered
  <2>4. AppliedOncePerMemory'
    BY <1>0, <2>1 DEF IInv, AppliedOncePerMemory, Live, Remembered
  <2>5. QED  BY <1>1, <2>2, <2>3, <2>4 DEF IInv
<1>5. QED  BY <1>2, <1>3, <1>4

LEMMA ReconstructKeepsIInv == ASSUME IInv, Reconstruct PROVE IInv'
<1>0. /\ receipts' = published /\ Forget(published) /\ TypeOK
      /\ UNCHANGED <<inFlight, published, call, applied>>
      /\ \A c \in Callers : call[c].pc = "idle"
  BY DEF IInv, Reconstruct
<1>1. \A id \in Ids : inFlight[id] = "none"
  BY <1>0 DEF IInv, FlightHasOneOwner
<1>2. TypeOK'
  BY <1>0 DEF TypeOK, Forget
<1>3. OneReceiptPerId' /\ ReceiptsReal(receipts)' /\ ReceiptsReal(published)'
  BY <1>0 DEF IInv, OneReceiptPerId, ReceiptsReal, WindowSound
<1>4. FlightHasOneOwner' /\ AnswerIsReal' /\ ResolvedApplied'
  BY <1>0 DEF IInv, FlightHasOneOwner, AnswerIsReal, ResolvedApplied
<1>5. PendingIsNew'
  BY <1>0, <1>1 DEF PendingIsNew
<1>6. AppliedOncePerMemory'
  BY <1>0, <1>1, ForgetKeepsAllowance DEF IInv
<1>7. QED  BY <1>2, <1>3, <1>4, <1>5, <1>6 DEF IInv

LEMMA NextIInv == IInv /\ [Next]_vars => IInv'
<1> SUFFICES ASSUME IInv, [Next]_vars PROVE IInv'
  OBVIOUS
<1>1. CASE Next
  BY <1>1, OpeningKeepsIInv, MutationKeepsIInv, OwnerKeepsIInv, ReturningKeepsIInv,
     ReconstructKeepsIInv DEF Next
<1>2. CASE UNCHANGED vars
  BY <1>2 DEF vars, IInv, TypeOK, OneReceiptPerId, WindowSound, FlightHasOneOwner,
     AnswerIsReal, ReceiptsReal, PendingIsNew, AppliedOncePerMemory, ResolvedApplied,
     Live, Remembered
<1>3. QED  BY <1>1, <1>2

\* The invariant everything below rests on.
THEOREM Invariance == Spec => []IInv
<1>1. QED  BY InitIInv, NextIInv, PTL DEF Spec

\* Every variable keeps its type, whatever the commands, callers and bounds.
THEOREM TypeCorrect == Spec => []TypeOK
<1>1. IInv => TypeOK
  BY DEF IInv
<1>2. QED  BY <1>1, Invariance, PTL

\* A command is applied again only after its receipts have been dropped.
THEOREM AppliedAtMostOnce == Spec => []AtMostOnce
<1>1. IInv => AtMostOnce
  BY DEF IInv, AppliedOncePerMemory, AtMostOnce
<1>2. QED  BY <1>1, Invariance, PTL

\* Answers come from applications of the very command that was executed.
THEOREM AnswersReal == Spec => []AnswerIsReal
<1>1. IInv => AnswerIsReal
  BY DEF IInv
<1>2. QED  BY <1>1, Invariance, PTL

\* A registered promise always has the one execution that removes it.
THEOREM PromiseOwned == Spec => []FlightHasOneOwner
<1>1. IInv => FlightHasOneOwner
  BY DEF IInv
<1>2. QED  BY <1>1, Invariance, PTL

\* The window bound and the uniqueness of receipts, in memory and on the room.
THEOREM WindowBounded == Spec => []OneReceiptPerId
<1>1. IInv => OneReceiptPerId
  BY DEF IInv
<1>2. QED  BY <1>1, Invariance, PTL

\* A retry meets the one receipt of its command, or a promise that will be settled,
\* and is answered with what really happened (IdempotentCommandLedger.execute).
THEOREM LedgerStaysSound == Spec => []LedgerSound
BY AnswersReal, PromiseOwned, WindowBounded, PTL DEF LedgerSound

-----------------------------------------------------------------------------
(***************************************************************************)
(* The ledger implements CommandWindow.  Its steps that replace the        *)
(* receipts are Refresh steps, a mutation taking effect is Apply, and      *)
(* every other step leaves the window alone.                               *)
(***************************************************************************)
LEMMA RealReceiptsApplied ==
  ASSUME TypeOK, NEW rs \in Seq(Receipt), ReceiptsReal(rs), NEW i \in DOMAIN rs
  PROVE  rs[i].id \in Ids /\ applied[rs[i].id] > 0
<1>1. rs[i].id \in Ids /\ rs[i].result \in 1 .. applied[rs[i].id]
  BY ReceiptFields DEF ReceiptsReal
<1>2. applied[rs[i].id] \in Nat
  BY <1>1 DEF TypeOK
<1>3. QED  BY <1>1, <1>2

LEMMA ReplacingReceiptsRefreshes ==
  ASSUME IInv, NEW rs \in Seq(Receipt), receipts' = rs, Forget(rs), applied' = applied,
         \A i \in DOMAIN rs : rs[i].id \in Ids /\ applied[rs[i].id] > 0,
         \A id \in Ids : inFlight'[id] = "resolved" => inFlight[id] = "resolved",
         \A id \in Ids : inFlight[id] = "resolved" /\ inFlight'[id] # "resolved"
           => id \in RememberedIn(rs)
  PROVE  Window!WindowNext
<1> DEFINE dropped == Remembered \ RememberedIn(rs)
           resolved == {id \in Ids : inFlight[id] = "resolved"}
<1>1. RememberedIn(rs) \subseteq {id \in Ids : applied[id] > 0}
  BY DEF RememberedIn
<1>2. \A id \in resolved : id \notin Remembered
  BY DEF IInv, PendingIsNew
<1>3. Live = Remembered \union resolved
  BY DEF Live
<1>4. Live' = RememberedIn(rs) \union {id \in Ids : inFlight'[id] = "resolved"}
  BY DEF Live, Remembered, RememberedIn
<1>5. Live' = (Live \ dropped) \union RememberedIn(rs)
  BY <1>2, <1>3, <1>4
<1>6. dropped \subseteq Live
  BY <1>3
<1>7. Window!Refresh(dropped, RememberedIn(rs))
  BY <1>5 DEF Window!Refresh, Forget
<1>8. QED  BY <1>1, <1>6, <1>7 DEF Window!WindowNext

LEMMA InitWindow == Init => Window!WindowInit
BY DEF Init, Window!WindowInit, Live, Remembered, RememberedIn

LEMMA NextWindow == IInv /\ [Next]_vars => [Window!WindowNext]_(Window!windowVars)
<1> SUFFICES ASSUME IInv, [Next]_vars
             PROVE  \/ Window!WindowNext
                    \/ Live' = Live /\ applied' = applied /\ forgotten' = forgotten
  BY DEF Window!windowVars
<1>0. TypeOK
  BY DEF IInv
<1>1. ASSUME NEW c \in Callers, NEW id \in Ids, Replay(c, id) \/ Join(c, id) \/ Start(c, id)
      PROVE  Live' = Live /\ applied' = applied /\ forgotten' = forgotten
  BY <1>0, <1>1 DEF TypeOK, Replay, Join, Start, Live, Remembered, ledger, history
<1>2. ASSUME NEW id \in Ids, Mutate(id)
      PROVE  Window!WindowNext
  <2>1. id \notin Live
    BY <1>2 DEF IInv, PendingIsNew, Live, Mutate
  <2>2. Live' = Live \union {id}
    BY <1>0, <1>2 DEF TypeOK, Live, Remembered, Mutate
  <2>3. Window!Apply(id)
    BY <1>2, <2>1, <2>2 DEF Window!Apply, Mutate
  <2>4. QED  BY <2>3 DEF Window!WindowNext
<1>3. ASSUME NEW id \in Ids, MutationThrows(id)
      PROVE  Live' = Live /\ applied' = applied /\ forgotten' = forgotten
  BY <1>0, <1>3 DEF TypeOK, MutationThrows, Live, Remembered, history
<1>4. ASSUME NEW c \in Callers, OwnerResumes(c)
      PROVE  Window!WindowNext
  <2> DEFINE id == call[c].id
             rs == Remember(receipts, id, applied[id])
  <2>1. /\ inFlight[id] = "resolved" /\ receipts' = rs /\ Forget(rs)
        /\ inFlight' = [inFlight EXCEPT ![id] = "none"]
        /\ applied' = applied /\ call[c].pc = "owner"
    BY <1>4 DEF OwnerResumes
  <2>2. id \in Ids
    BY <2>1 DEF IInv, FlightHasOneOwner
  <2>3. applied[id] \in Nat /\ applied[id] > 0
    BY <1>0, <2>1, <2>2 DEF TypeOK, IInv, ResolvedApplied
  <2>4. /\ rs \in Seq(Receipt) /\ id \in RememberedIn(rs)
        /\ \A j \in DOMAIN rs : \/ rs[j].id = id
                                 \/ \E i \in DOMAIN receipts : rs[j] = receipts[i]
    BY <1>0, <2>2, <2>3, RememberSound DEF TypeOK, IInv, OneReceiptPerId
  <2>5. \A i \in DOMAIN receipts : receipts[i].id \in Ids /\ applied[receipts[i].id] > 0
    <3>1. receipts \in Seq(Receipt) /\ ReceiptsReal(receipts)
      BY <1>0 DEF TypeOK, IInv
    <3>2. QED  BY <1>0, <3>1, RealReceiptsApplied
  <2>6. \A i \in DOMAIN rs : rs[i].id \in Ids /\ applied[rs[i].id] > 0
    BY <2>2, <2>3, <2>4, <2>5
  <2>7. \A i \in Ids : inFlight'[i] = IF i = id THEN "none" ELSE inFlight[i]
    BY <1>0, <2>1 DEF TypeOK
  <2>8. QED
    BY <2>1, <2>4, <2>6, <2>7, ReplacingReceiptsRefreshes
<1>5. ASSUME NEW c \in Callers, OwnerFails(c)
      PROVE  Live' = Live /\ applied' = applied /\ forgotten' = forgotten
  BY <1>0, <1>5 DEF TypeOK, OwnerFails, Live, Remembered, history
<1>6. ASSUME NEW c \in Callers, Publish(c) \/ ResetRefused(c)
      PROVE  Live' = Live /\ applied' = applied /\ forgotten' = forgotten
  BY <1>6 DEF Publish, ResetRefused, Live, Remembered, ledger, history
<1>7. ASSUME NEW c \in Callers, Reset(c)
      PROVE  Window!WindowNext
  <2> DEFINE e == [id |-> call[c].id, result |-> call[c].result]
             rs == <<e>>
  <2>1. /\ receipts' = rs /\ Forget(rs) /\ applied' = applied /\ inFlight' = inFlight
        /\ call[c].pc = "returned"
    BY <1>7 DEF Reset
  <2>2. e.id \in Ids /\ e.result \in 1 .. applied[e.id] /\ applied[e.id] \in Nat
    BY <1>0, <2>1 DEF IInv, AnswerIsReal, TypeOK
  <2>3. rs \in Seq(Receipt) /\ \A i \in DOMAIN rs : rs[i] = e
    BY <2>2 DEF Receipt
  <2>4. applied[e.id] > 0
    BY <2>2
  <2>5. QED
    BY <2>1, <2>2, <2>3, <2>4, ReplacingReceiptsRefreshes
<1>8. CASE Reconstruct
  <2>1. /\ receipts' = published /\ Forget(published) /\ applied' = applied
        /\ inFlight' = inFlight
    BY <1>8 DEF Reconstruct
  <2>2. /\ published \in Seq(Receipt)
        /\ \A i \in DOMAIN published : published[i].id \in Ids /\ applied[published[i].id] > 0
    <3>1. published \in Seq(Receipt) /\ ReceiptsReal(published)
      BY <1>0 DEF TypeOK, IInv
    <3>2. QED  BY <1>0, <3>1, RealReceiptsApplied
  <2>3. QED
    BY <2>1, <2>2, ReplacingReceiptsRefreshes
<1>9. CASE UNCHANGED vars
  BY <1>9 DEF vars, Live, Remembered
<1>10. QED
  BY <1>1, <1>2, <1>3, <1>4, <1>5, <1>6, <1>7, <1>8, <1>9 DEF Next

\* RoomCommandRuntime over the ledger keeps the promise of the replay window.
THEOREM LedgerImplementsWindow == Spec => WindowRefined
<1>1. QED
  BY InitWindow, NextWindow, Invariance, PTL DEF Spec, WindowRefined, Window!WindowSpec
=============================================================================
