-------------------------- MODULE InteractionTimeout --------------------------
(***************************************************************************)
(* The timeouts of secret Werewolf actions in a Durable Object room: the   *)
(* timeout state CloudflareInteractionTimeoutRuntime keeps under a key of  *)
(* its own, the one alarm of the object, and the game in the snapshot they *)
(* are about.  Of the game only the timed action matters that is to be     *)
(* taken, if any: actions are numbered in the order they come up.          *)
(*                                                                         *)
(* Handlers await only storage, so they do not interleave; but each write  *)
(* is a separate one, and the object may be restarted between any two.     *)
(* "todo" is the rest of the handler that is running.  An alarm whose      *)
(* handler does not return is delivered again.  Handlers take no time.     *)
(***************************************************************************)
EXTENDS Naturals, FiniteSets

CONSTANTS
  Cmds,               \* command ids of timeout commands
  Settings,           \* normalized timeoutSeconds; 0 switches timeouts off
  Default,            \* DEFAULT_INTERACTION_TIMEOUT_SECONDS
  WarningLead,        \* INTERACTION_TIMEOUT_WARNING_SECONDS
  Extension,          \* INTERACTION_TIMEOUT_EXTENSION_SECONDS
  MaxExtensions,      \* MAX_INTERACTION_TIMEOUT_EXTENSIONS
  MaxAction,          \* bound: timed actions that come up
  MaxFaults           \* bound: restarts and throwing writes

ASSUME SettingsAssumption == /\ Settings \subseteq Nat /\ Default \in Settings
ASSUME LeadAssumption == WarningLead \in Nat \ {0} /\ Extension \in Nat
                         /\ WarningLead <= Extension
ASSUME BoundAssumption == MaxExtensions \in Nat /\ MaxAction \in Nat
                          /\ MaxFaults \in Nat

VARIABLES
  room,       \* the snapshot: where the room is, and the timed action, or 0
  seconds,    \* timeout state: timeoutSeconds
  timer,      \* timeout state: active, or NoTimer
  receipts,   \* timeout state: commands answered
  alarm,      \* the pending alarm of the object: {} or {instant}
  ringing,    \* "no", or the alarm being handled: "yes", "deleted"
  todo,       \* what the running handler still has to do
  now,        \* Date.now()
  born,       \* history: actions there had been when the room was created
  last,       \* history: the action that came up last
  granted,    \* history: latest deadline given to an action, 0 before
  extensions, \* history: extensions granted to an action
  thrown,     \* history: times the expiry of an action threw
  faults      \* history: restarts and throws

disk == <<room, seconds, timer, receipts>>
history == <<born, last, granted, extensions, thrown, faults>>
vars == <<room, seconds, timer, receipts, alarm, ringing, todo, now,
          born, last, granted, extensions, thrown, faults>>

Actions == 1 .. MaxAction
Room == [at : {"closed", "lobby", "game"}, action : 0 .. MaxAction]
Closed == [at |-> "closed", action |-> 0]
Lobby == [at |-> "lobby", action |-> 0]
Game(a) == [at |-> "game", action |-> a]

Timer == [action : 0 .. MaxAction, deadline : Nat, warning : Nat,
          warned : BOOLEAN, extended : 0 .. MaxExtensions]
NoTimer == [action |-> 0, deadline |-> 0, warning |-> 0, warned |-> FALSE,
            extended |-> 0]

\* Steps a handler is stopped before, in the order the code takes them.
Steps == {"idle", "reconcile", "schedule", "cancel", "clear", "createClear",
          "createCancel", "createSave", "expire", "dropTimer", "dropAlarm"}
Then(step) == [at |-> step]
Todo == {Then(step) : step \in Steps}
          \union [at : {"config"}, cmd : Cmds, seconds : Settings]
Idle == Then("idle")

Exists == room.at # "closed"
Larger(a, b) == IF a > b THEN a ELSE b
Smaller(a, b) == IF a < b THEN a ELSE b

\* createInteractionTimeoutState, for a positive timeout
Lead == Smaller(WarningLead, Larger(1, seconds \div 3))
NewTimer(a) == [action |-> a, deadline |-> now + seconds,
                warning |-> now + seconds - Lead, warned |-> FALSE,
                extended |-> 0]
DueAt(t) == IF t.warned THEN t.deadline ELSE t.warning

\* What the game may ask for next: an untimed phase, or the next timed action.
Upcoming == {0} \union {a \in Actions : a = last + 1}

Init ==
  /\ room = Closed
  /\ seconds = Default /\ timer = NoTimer /\ receipts = {}
  /\ alarm = {} /\ ringing = "no" /\ todo = Idle
  /\ now = 0
  /\ born = 0 /\ last = 0
  /\ granted = [a \in Actions |-> 0]
  /\ extensions = [a \in Actions |-> 0]
  /\ thrown = [a \in Actions |-> 0]
  /\ faults = 0

-----------------------------------------------------------------------------
\* The snapshot is saved with r.
SaveRoom(r) ==
  /\ room' = r
  /\ last' = Larger(last, r.action)
  /\ UNCHANGED <<seconds, timer, receipts>>

\* A command changes the game and then reconciles the timeout with it.
Play(r) ==
  /\ todo = Idle
  /\ SaveRoom(r)
  /\ todo' = Then("reconcile")
  /\ UNCHANGED <<alarm, ringing, now, born, granted, extensions, thrown, faults>>

StartGame == room = Lobby /\ Play(Game(0))

\* A role acts, votes are closed, the game is restarted: the action is over.
Advance(a) == room.at = "game" /\ a \in Upcoming /\ Play(Game(a))

\* The seer has chosen and still has to confirm: the action goes on.
Continue == room.action > 0 /\ Play(room)

AbortToLobby == room.at = "game" /\ Play(Lobby)

\* The snapshot is cleared, the timeout state and the alarm after it.
CloseRoom ==
  /\ Exists /\ todo = Idle
  /\ SaveRoom(Closed)
  /\ todo' = Then("clear")
  /\ UNCHANGED <<alarm, ringing, now, born, granted, extensions, thrown, faults>>

CreateRoom ==
  /\ ~Exists /\ todo = Idle
  /\ todo' = Then("createClear")
  /\ UNCHANGED <<disk, alarm, ringing, now, history>>

--------------------------------------------------- (* commands about timeouts *)
\* The lobby's moderator sets the timeout: the alarm goes first.
SetConfig(c, s) ==
  /\ todo = Idle /\ room = Lobby
  /\ c \notin receipts
  /\ alarm' = {}
  /\ todo' = [at |-> "config", cmd |-> c, seconds |-> s]
  /\ UNCHANGED <<disk, ringing, now, history>>

SaveConfig ==
  /\ todo.at = "config"
  /\ seconds' = todo.seconds /\ timer' = NoTimer
  /\ receipts' = receipts \union {todo.cmd}
  /\ todo' = Idle
  /\ UNCHANGED <<room, alarm, ringing, now, history>>

\* Faulty variants (named ...F) stand before the operator they vary.
ExtendableAgainF(a) == timer.action = a /\ now < timer.deadline

\* extendInteractionTimeout
Extendable(a) == timer.action = a /\ now < timer.deadline
                 /\ timer.extended < MaxExtensions
Extended(t) == [action |-> t.action, deadline |-> t.deadline + Extension,
                warning |-> t.deadline + Extension - WarningLead,
                warned |-> FALSE, extended |-> t.extended + 1]

\* A change of the timeout during a game, an extension that comes too late or
\* from no actor: the refusal is remembered like any other answer.
Refuse(c) ==
  /\ todo = Idle /\ Exists
  /\ c \notin receipts
  /\ receipts' = receipts \union {c}
  /\ UNCHANGED <<room, seconds, timer, alarm, ringing, todo, now, history>>

\* An actor extends the action it has to take.
Extend(c, a) ==
  /\ todo = Idle /\ Exists
  /\ c \notin receipts
  /\ Extendable(a)
  /\ timer' = Extended(timer)
  /\ receipts' = receipts \union {c}
  /\ granted' = [granted EXCEPT ![a] = timer'.deadline]
  /\ extensions' = [extensions EXCEPT ![a] = @ + 1]
  /\ todo' = Then("schedule")
  /\ UNCHANGED <<room, seconds, alarm, ringing, now, born, last, thrown, faults>>

------------------------------------------------------------- (* reconcile *)
\* No timed action, or no timeout: drop the timer, then the alarm.
ReconcileNothing ==
  /\ todo.at = "reconcile"
  /\ room.action = 0 \/ seconds = 0
  /\ timer' = NoTimer
  /\ todo' = Then("cancel")
  /\ UNCHANGED <<room, seconds, receipts, alarm, ringing, now, history>>

\* The action is already timed: only the alarm is set again.
ReconcileSame ==
  /\ todo.at = "reconcile"
  /\ room.action > 0 /\ seconds > 0
  /\ timer.action = room.action
  /\ todo' = Then("schedule")
  /\ UNCHANGED <<disk, alarm, ringing, now, history>>

\* Another action than the one timed so far.
ReconcileNew ==
  /\ todo.at = "reconcile"
  /\ room.action > 0 /\ seconds > 0
  /\ timer.action # room.action
  /\ timer' = NewTimer(room.action)
  /\ granted' = [granted EXCEPT ![room.action] = timer'.deadline]
  /\ todo' = Then("schedule")
  /\ UNCHANGED <<room, seconds, receipts, alarm, ringing, now,
                 born, last, extensions, thrown, faults>>

Schedule ==
  /\ todo.at = "schedule"
  /\ alarm' = {Larger(now, DueAt(timer))}
  /\ ringing' = "no"
  /\ todo' = Idle
  /\ UNCHANGED <<disk, now, history>>

Cancel ==
  /\ todo.at = "cancel"
  /\ alarm' = {}
  /\ ringing' = "no"
  /\ todo' = Idle
  /\ UNCHANGED <<disk, now, history>>

ClearKeepingTimerF(at, next) ==
  /\ todo.at = at
  /\ seconds' = Default /\ receipts' = {}
  /\ todo' = Then(next)
  /\ UNCHANGED <<room, timer, alarm, ringing, now, history>>

\* The timeout state is deleted: its defaults hold again.
Clear(at, next) ==
  /\ todo.at = at
  /\ seconds' = Default /\ timer' = NoTimer /\ receipts' = {}
  /\ todo' = Then(next)
  /\ UNCHANGED <<room, alarm, ringing, now, history>>

CreateCancel ==
  /\ todo.at = "createCancel"
  /\ alarm' = {}
  /\ todo' = Then("createSave")
  /\ UNCHANGED <<disk, ringing, now, history>>

CreateSave ==
  /\ todo.at = "createSave"
  /\ SaveRoom(Lobby)
  /\ born' = last
  /\ todo' = Idle
  /\ UNCHANGED <<alarm, ringing, now, granted, extensions, thrown, faults>>

------------------------------------------------------------- (* the alarm *)
Ring(next) ==
  /\ todo = Idle
  /\ \E t \in alarm : t <= now
  /\ alarm' = {}
  /\ ringing' = "yes"
  /\ todo' = Then(next)
  /\ UNCHANGED <<room, seconds, receipts, now, history>>

Timed == Exists /\ timer # NoTimer /\ room.action = timer.action

\* Nothing is timed, or the room is gone.
AlarmIdle ==
  /\ timer = NoTimer \/ ~Exists
  /\ timer' = NoTimer
  /\ Ring("cancel")

\* The timer is about another action than the one to be taken.
AlarmStale ==
  /\ Exists /\ timer # NoTimer /\ room.action # timer.action
  /\ Ring("reconcile")
  /\ UNCHANGED timer

AlarmExpiresStaleF ==
  /\ Exists /\ timer # NoTimer
  /\ now >= timer.deadline
  /\ Ring("expire")
  /\ UNCHANGED timer

AlarmExpires ==
  /\ Timed
  /\ now >= timer.deadline
  /\ Ring("expire")
  /\ UNCHANGED timer

AlarmWarnsOnlyF ==
  /\ Timed
  /\ now < timer.deadline
  /\ now >= timer.warning /\ ~timer.warned
  /\ timer' = [timer EXCEPT !.warned = TRUE]
  /\ Ring("idle")

\* markInteractionTimeoutWarning
AlarmWarns ==
  /\ Timed
  /\ now < timer.deadline
  /\ now >= timer.warning /\ ~timer.warned
  /\ timer' = [timer EXCEPT !.warned = TRUE]
  /\ Ring("schedule")

\* Too early, or warned already: the alarm is set again.
AlarmEarly ==
  /\ Timed
  /\ now < timer.deadline
  /\ now < timer.warning \/ timer.warned
  /\ Ring("schedule")
  /\ UNCHANGED timer

\* The action is taken for its actor; the snapshot with what follows is saved.
ExpireSave(a) ==
  /\ todo.at = "expire"
  /\ a \in Upcoming
  /\ SaveRoom(Game(a))
  /\ todo' = Then("dropTimer")
  /\ UNCHANGED <<alarm, ringing, now, born, granted, extensions, thrown, faults>>

DropTimer ==
  /\ todo.at = "dropTimer"
  /\ timer' = NoTimer
  /\ todo' = Then("dropAlarm")
  /\ UNCHANGED <<room, seconds, receipts, alarm, ringing, now, history>>

DropAlarm ==
  /\ todo.at = "dropAlarm"
  /\ alarm' = {}
  /\ ringing' = "deleted"
  /\ todo' = Then("reconcile")
  /\ UNCHANGED <<disk, now, history>>

\* The recovery of the action, or a write of expire(), throws: the catch drops
\* the timer and the alarm, whatever was saved before.
Expiring == \/ todo.at \in {"expire", "dropTimer", "dropAlarm"}
            \/ ringing = "deleted"

ExpireThrows ==
  /\ Expiring
  /\ faults < MaxFaults
  /\ faults' = faults + 1
  /\ thrown' = [a \in Actions |-> IF a \in {timer.action, room.action}
                                  THEN thrown[a] + 1 ELSE thrown[a]]
  /\ timer' = NoTimer
  /\ todo' = Then("cancel")
  /\ UNCHANGED <<room, seconds, receipts, alarm, ringing, now,
                 born, last, granted, extensions>>

---------------------------------------------------- (* time and restarts *)
\* An instant after the last one stored is as good as that one.
Tick ==
  /\ todo = Idle
  /\ \/ \E t \in alarm : now < t
     \/ now < timer.deadline
  /\ now' = now + 1
  /\ UNCHANGED <<disk, alarm, ringing, todo, history>>

\* The object is restarted before the next write.  The alarm being handled is
\* delivered again, unless another one is set; deleting it may stop that.
Crash ==
  /\ todo # Idle
  /\ faults < MaxFaults
  /\ faults' = faults + 1
  /\ todo' = Idle
  /\ ringing' = "no"
  /\ \/ /\ ringing # "no" /\ alarm = {}
        /\ alarm' = {now}
     \/ /\ ringing # "yes" \/ alarm # {}
        /\ alarm' = alarm
  /\ UNCHANGED <<disk, now, born, last, granted, extensions, thrown>>

-----------------------------------------------------------------------------
Handle ==
  \/ SaveConfig
  \/ ReconcileNothing \/ ReconcileSame \/ ReconcileNew
  \/ Schedule \/ Cancel
  \/ Clear("clear", "cancel") \/ Clear("createClear", "createCancel")
  \/ CreateCancel \/ CreateSave
  \/ \E a \in 0 .. MaxAction : ExpireSave(a)
  \/ DropTimer \/ DropAlarm \/ ExpireThrows

HandleAlarm == AlarmIdle \/ AlarmStale \/ AlarmExpires \/ AlarmWarns \/ AlarmEarly

Next ==
  \/ StartGame \/ Continue \/ AbortToLobby \/ CloseRoom \/ CreateRoom
  \/ \E a \in 0 .. MaxAction : Advance(a)
  \/ \E c \in Cmds : \/ Refuse(c)
                     \/ \E s \in Settings : SetConfig(c, s)
                     \/ \E a \in Actions : Extend(c, a)
  \/ Handle \/ HandleAlarm
  \/ Tick \/ Crash

Spec == Init /\ [][Next]_vars

\* A handler goes on to its end.  Time passes and a due alarm is delivered
\* however many other events the object is given: hence strong fairness.
Fairness == WF_vars(Handle) /\ SF_vars(Tick) /\ SF_vars(HandleAlarm)
FairSpec == Spec /\ Fairness

-----------------------------------------------------------------------------
TypeOK ==
  /\ room \in Room
  /\ seconds \in Settings /\ timer \in Timer /\ receipts \in SUBSET Cmds
  /\ alarm \in SUBSET Nat /\ ringing \in {"no", "yes", "deleted"}
  /\ todo \in Todo
  /\ now \in Nat
  /\ born \in 0 .. MaxAction /\ last \in 0 .. MaxAction
  /\ granted \in [Actions -> Nat]
  /\ extensions \in [Actions -> Nat] /\ thrown \in [Actions -> Nat]
  /\ faults \in 0 .. MaxFaults

\* "One-time extension": an action is extended MaxExtensions times at most, across
\* retries, restarts and alarm redelivery; only an expiry that threw gives it a new
\* timer, and with it a new extension.
ExtendedOnce ==
  \A a \in Actions : extensions[a] <= MaxExtensions * (thrown[a] + 1)

\* "Room clear / room-code reuse clears timeout storage and alarm": a timer in a
\* living room is about an action of this room, never of an earlier one with the
\* same code, although the clearing may be cut short.
TimerOfThisRoom == Exists /\ timer # NoTimer => timer.action > born

(***************************************************************************)
(* The timer kept on disk is one the room owes: about an action of this    *)
(* room, extended no more often than allowed.                              *)
(***************************************************************************)
TimersSound == ExtendedOnce /\ TimerOfThisRoom

\* An action is taken for its actor only when all the time the actor was ever given
\* has passed, the extension included, whatever was restarted in between; and never
\* for an action that was not timed (expire, extendInteractionTimeout, the actionId
\* fence of handleAlarm).
TimeoutKeepsPromise ==
  (todo.at = "expire" /\ room' # room) =>
    /\ room.action > 0
    /\ granted[room.action] \in 1 .. now

\* While an action waits to be taken its timer is not lost: no reconcile, no alarm,
\* no config change and no restart drops or replaces it, only an expiry that throws.
TimerKept ==
  \A a \in Actions :
    (timer.action = a /\ room.action = a /\ timer'.action # a) =>
      room'.action # a \/ thrown'[a] > thrown[a]

(***************************************************************************)
(* What no step may do to an action that waits: take it before its time is *)
(* up, or take its timer away.                                             *)
(***************************************************************************)
WaitingActionKept == [][TimeoutKeepsPromise /\ TimerKept]_vars

(***************************************************************************)
(* An action that is timed and has an alarm pending is over in the end, or *)
(* its expiry has thrown, although restarts make alarms ring again and     *)
(* players extend the action and go on with it.                            *)
(***************************************************************************)
AlarmedActionEnds ==
  \A a \in Actions : (room.action = a /\ timer.action = a /\ alarm # {})
                        ~> (room.action # a \/ thrown[a] > 0)

(***************************************************************************)
(* "Retry-safe timeout recovery": when an expiry has moved the game on to  *)
(* another timed action, redelivery of its alarm completes it, so that the *)
(* new action does not wait for its actor for ever.                        *)
(***************************************************************************)
RedeliveryCompletes ==
  \A a \in Actions : (todo.at = "dropTimer" /\ room.action = a /\ seconds > 0)
                        ~> (room.action # a \/ thrown[a] > 0)
=============================================================================
