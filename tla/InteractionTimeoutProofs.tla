----------------------- MODULE InteractionTimeoutProofs -----------------------
(***************************************************************************)
(* What InteractionTimeout guarantees for any commands, settings, lengths  *)
(* of time and numbers of actions and restarts.                            *)
(***************************************************************************)
EXTENDS InteractionTimeout, TLAPS

(***************************************************************************)
(* The inductive invariant.                                                *)
(***************************************************************************)
\* The timed action of a running game came up after the room was created.
RoomInv ==
  /\ room.at # "game" => room.action = 0
  /\ born <= last
  /\ room.action > 0 => born < room.action /\ room.action <= last

\* A timer is for an action that came up; its deadline is what was granted.
TimerInv ==
  /\ timer.action = 0 => timer = NoTimer
  /\ timer.action > 0 =>
       /\ timer.action <= last
       /\ seconds > 0
       /\ granted[timer.action] = timer.deadline /\ timer.deadline > 0
       /\ Exists => born < timer.action

\* What a handler relies on at its later steps.
TodoInv ==
  /\ todo.at = "config" => room = Lobby
  /\ todo.at \in {"clear", "createClear", "createCancel", "createSave"} => room = Closed
  /\ todo.at \in {"createCancel", "createSave", "dropAlarm"} => timer = NoTimer
  /\ todo.at = "expire" => /\ room.action > 0 /\ timer.action = room.action
                           /\ timer.deadline <= now
  /\ todo.at = "dropTimer" => timer.action # room.action
  /\ todo = Idle \/ todo.at # "idle"

\* Extensions still in hand: those of the timer; none for a current action
\* without a timer, which must get a new one first.
Allowance(a) == IF timer.action = a THEN timer.extended
                ELSE IF room.action = a THEN 0 ELSE MaxExtensions
Budget(a) == MaxExtensions * thrown[a]
Within(a) == /\ a > last => extensions[a] = 0
             /\ extensions[a] <= Budget(a) + Allowance(a)
ExtensionInv == \A a \in Actions : Within(a)

IInv == TypeOK /\ RoomInv /\ TimerInv /\ TodoInv /\ ExtensionInv







-----------------------------------------------------------------------------
LEMMA RoomTyped ==
  Closed \in Room /\ Lobby \in Room /\ \A a \in 0 .. MaxAction : Game(a) \in Room
BY BoundAssumption DEF Closed, Lobby, Game, Room

LEMMA TodoTyped == \A step \in Steps : Then(step) \in Todo
BY DEF Todo

LEMMA NoTimerTyped == NoTimer \in Timer
BY BoundAssumption DEF NoTimer, Timer

\* A warning comes before its deadline, and not before the timer is made.
LEMMA LeadShort ==
  ASSUME seconds \in Nat \ {0}
  PROVE  Lead \in Nat /\ Lead <= seconds
<1>1. seconds \div 3 \in Nat /\ seconds \div 3 <= seconds
  OBVIOUS
<1>2. QED  BY <1>1, LeadAssumption DEF Lead, Smaller, Larger

LEMMA NewTimerTyped ==
  ASSUME NEW a \in 0 .. MaxAction, now \in Nat, seconds \in Nat \ {0}
  PROVE  NewTimer(a) \in Timer
BY LeadShort, BoundAssumption DEF NewTimer, Timer

LEMMA ExtendedTyped ==
  ASSUME NEW t \in Timer, t.extended < MaxExtensions
  PROVE  Extended(t) \in Timer
BY LeadAssumption, BoundAssumption DEF Extended, Timer

LEMMA AllowanceGrows ==
  ASSUME NEW t \in Nat
  PROVE  MaxExtensions * (t + 1) = MaxExtensions * t + MaxExtensions
         /\ MaxExtensions * t \in Nat
BY BoundAssumption

-----------------------------------------------------------------------------
\* Types are kept.
LEMMA TypeStep ==
  ASSUME IInv, Next
  PROVE  TypeOK'
<1>1. CASE StartGame
  BY <1>1, RoomTyped, TodoTyped, BoundAssumption DEF StartGame, Play,
     SaveRoom, Idle, IInv, TypeOK, Steps, Actions, Larger, Room, Game,
     Lobby
<1>2. ASSUME NEW a \in 0 .. MaxAction, Advance(a) PROVE TypeOK'
  BY <1>2, RoomTyped, TodoTyped, BoundAssumption DEF Advance, Play,
     SaveRoom, Upcoming, Idle, IInv, TypeOK, Steps, Actions, Larger,
     Room, Game
<1>3. CASE Continue
  BY <1>3, TodoTyped, BoundAssumption DEF Continue, Play, SaveRoom, Idle,
     IInv, TypeOK, Steps, Actions, Larger, Room
<1>4. CASE AbortToLobby
  BY <1>4, RoomTyped, TodoTyped, BoundAssumption DEF AbortToLobby, Play,
     SaveRoom, Idle, IInv, TypeOK, Steps, Actions, Larger, Room, Lobby
<1>5. CASE CloseRoom
  BY <1>5, RoomTyped, TodoTyped, BoundAssumption DEF CloseRoom, SaveRoom,
     Idle, IInv, TypeOK, Steps, Actions, Larger, Room, Closed
<1>6. CASE CreateRoom
  BY <1>6, TodoTyped DEF CreateRoom, history, disk, Idle, IInv, TypeOK,
     Steps, Actions
<1>7. ASSUME NEW c \in Cmds, Refuse(c) PROVE TypeOK'
  BY <1>7, TodoTyped DEF Refuse, history, Idle, IInv, TypeOK, Steps,
     Actions
<1>8. ASSUME NEW c \in Cmds, NEW s \in Settings, SetConfig(c, s) PROVE TypeOK'
  BY <1>8, SettingsAssumption DEF SetConfig, history, disk, Idle, IInv,
     TypeOK, Steps, Actions, Todo
<1>9. ASSUME NEW c \in Cmds, NEW a \in Actions, Extend(c, a) PROVE TypeOK'
  <2>1. timer' \in Timer /\ timer'.deadline \in Nat
    <3>1. Extended(timer) \in Timer
      BY <1>9, ExtendedTyped DEF Extend, Extendable, IInv, TypeOK
    <3>2. QED  BY <1>9, <3>1 DEF Extend, Timer
  <2>2. granted' \in [Actions -> Nat] /\ extensions' \in [Actions -> Nat]
    BY <1>9, <2>1 DEF Extend, IInv, TypeOK
  <2>3. QED  BY <1>9, <2>1, <2>2, TodoTyped DEF Extend, IInv, TypeOK, Steps
<1>10. CASE SaveConfig
  BY <1>10, TodoTyped, NoTimerTyped DEF SaveConfig, history, Idle, IInv,
     TypeOK, Steps, Actions, Todo, Then
<1>11. CASE ReconcileNothing
  BY <1>11, TodoTyped, NoTimerTyped DEF ReconcileNothing, history, IInv,
     TypeOK, Steps, Actions
<1>12. CASE ReconcileSame
  BY <1>12, TodoTyped DEF ReconcileSame, history, disk, IInv, TypeOK,
     Steps, Actions
<1>13. CASE ReconcileNew
  <2>1. timer' \in Timer /\ timer'.deadline \in Nat
    <3>1. room.action \in 0 .. MaxAction /\ seconds \in Nat \ {0} /\ now \in Nat
      BY <1>13, SettingsAssumption DEF ReconcileNew, IInv, TypeOK, Room
    <3>2. NewTimer(room.action) \in Timer
      BY <3>1, NewTimerTyped
    <3>3. QED  BY <1>13, <3>2 DEF ReconcileNew, Timer
  <2>2. granted' \in [Actions -> Nat]
    BY <1>13, <2>1 DEF ReconcileNew, IInv, TypeOK
  <2>3. QED  BY <1>13, <2>1, <2>2, TodoTyped DEF ReconcileNew, IInv, TypeOK, Steps
<1>14. CASE Schedule
  BY <1>14, TodoTyped DEF Schedule, DueAt, history, disk, Idle, IInv,
     TypeOK, Steps, Actions, Timer, Larger
<1>15. CASE Cancel
  BY <1>15, TodoTyped DEF Cancel, history, disk, Idle, IInv, TypeOK,
     Steps, Actions
<1>16. CASE Clear("clear", "cancel")
  BY <1>16, TodoTyped, NoTimerTyped, SettingsAssumption DEF Clear,
     history, IInv, TypeOK, Steps, Actions
<1>17. CASE Clear("createClear", "createCancel")
  BY <1>17, TodoTyped, NoTimerTyped, SettingsAssumption DEF Clear,
     history, IInv, TypeOK, Steps, Actions
<1>18. CASE CreateCancel
  BY <1>18, TodoTyped DEF CreateCancel, history, disk, IInv, TypeOK,
     Steps, Actions
<1>19. CASE CreateSave
  BY <1>19, RoomTyped, TodoTyped, BoundAssumption DEF CreateSave,
     SaveRoom, Idle, IInv, TypeOK, Steps, Actions, Larger, Room, Lobby
<1>20. ASSUME NEW a \in 0 .. MaxAction, ExpireSave(a) PROVE TypeOK'
  BY <1>20, RoomTyped, TodoTyped, BoundAssumption DEF ExpireSave,
     SaveRoom, Upcoming, IInv, TypeOK, Steps, Actions, Larger, Room,
     Game
<1>21. CASE DropTimer
  BY <1>21, TodoTyped, NoTimerTyped DEF DropTimer, history, IInv, TypeOK,
     Steps, Actions
<1>22. CASE DropAlarm
  BY <1>22, TodoTyped DEF DropAlarm, history, disk, IInv, TypeOK, Steps,
     Actions
<1>23. CASE ExpireThrows
  BY <1>23, TodoTyped, NoTimerTyped, BoundAssumption DEF ExpireThrows,
     Expiring, IInv, TypeOK, Steps, Actions
<1>24. CASE AlarmIdle
  BY <1>24, TodoTyped, NoTimerTyped DEF AlarmIdle, Ring, history, Idle,
     IInv, TypeOK, Steps, Actions
<1>25. CASE AlarmStale
  BY <1>25, TodoTyped, NoTimerTyped DEF AlarmStale, Ring, history, Idle,
     IInv, TypeOK, Steps, Actions
<1>26. CASE AlarmExpires
  BY <1>26, TodoTyped, NoTimerTyped DEF AlarmExpires, Ring, Timed,
     history, Idle, IInv, TypeOK, Steps, Actions
<1>27. CASE AlarmWarns
  BY <1>27, TodoTyped DEF AlarmWarns, Ring, Timed, history, Idle, IInv,
     TypeOK, Steps, Actions, Timer
<1>28. CASE AlarmEarly
  BY <1>28, TodoTyped, NoTimerTyped DEF AlarmEarly, Ring, Timed, history,
     Idle, IInv, TypeOK, Steps, Actions
<1>29. CASE Tick
  BY <1>29, BoundAssumption DEF Tick, history, disk, Idle, IInv, TypeOK,
     Steps, Actions
<1>30. CASE Crash
  <2>1. alarm' \in SUBSET Nat
    BY <1>30 DEF Crash, IInv, TypeOK
  <2>2. faults' \in 0 .. MaxFaults
    BY <1>30, BoundAssumption DEF Crash, IInv, TypeOK
  <2>3. QED  BY <1>30, <2>1, <2>2, TodoTyped DEF Crash, disk, IInv, TypeOK, Idle, Steps
<1>31. QED
  BY <1>1, <1>2, <1>3, <1>4, <1>5, <1>6, <1>7, <1>8, <1>9, <1>10, <1>11,
     <1>12, <1>13, <1>14, <1>15, <1>16, <1>17, <1>18, <1>19, <1>20,
     <1>21, <1>22, <1>23, <1>24, <1>25, <1>26, <1>27, <1>28, <1>29,
     <1>30
  DEF Next, Handle, HandleAlarm

\* Timed actions come up in order, after the room is created.
LEMMA RoomStep ==
  ASSUME IInv, Next
  PROVE  RoomInv'
<1>1. CASE StartGame
  BY <1>1 DEF StartGame, Play, SaveRoom, Lobby, Game, Larger, IInv,
     TypeOK, Room, RoomInv
<1>2. ASSUME NEW a \in 0 .. MaxAction, Advance(a) PROVE RoomInv'
  BY <1>2 DEF Advance, Play, SaveRoom, Upcoming, Game, Larger, IInv,
     TypeOK, Room, RoomInv, TodoInv, Actions
<1>3. CASE Continue
  BY <1>3 DEF Continue, Play, SaveRoom, Larger, IInv, TypeOK, Room,
     RoomInv
<1>4. CASE AbortToLobby
  BY <1>4 DEF AbortToLobby, Play, SaveRoom, Lobby, Larger, IInv, TypeOK,
     Room, RoomInv
<1>5. CASE CloseRoom
  BY <1>5 DEF CloseRoom, SaveRoom, Closed, Larger, Exists, IInv, TypeOK,
     Room, RoomInv
<1>6. CASE CreateSave
  BY <1>6 DEF CreateSave, SaveRoom, Lobby, Larger, IInv, TypeOK, Room,
     RoomInv, TodoInv, Actions
<1>7. ASSUME NEW a \in 0 .. MaxAction, ExpireSave(a) PROVE RoomInv'
  BY <1>7 DEF ExpireSave, SaveRoom, Upcoming, Game, Larger, IInv, TypeOK,
     Room, RoomInv, TodoInv, Actions
<1>8. CASE UNCHANGED <<room, born, last>>
  BY <1>8 DEF IInv, RoomInv
<1>9. QED
  BY <1>1, <1>2, <1>3, <1>4, <1>5, <1>6, <1>7, <1>8
  DEF Next, Handle, HandleAlarm, CreateRoom, history, disk, Refuse, SetConfig,
      Extend, SaveConfig, ReconcileNothing, ReconcileSame, ReconcileNew,
      Schedule, Cancel, Clear, CreateCancel, DropTimer, DropAlarm,
      ExpireThrows, AlarmIdle, Ring, AlarmStale, AlarmExpires,
      AlarmWarns, AlarmEarly, Tick, Crash

\* A timer stays within what was granted.
LEMMA TimerStep ==
  ASSUME IInv, Next
  PROVE  TimerInv'
<1>1. CASE StartGame
  BY <1>1 DEF StartGame, Play, SaveRoom, Lobby, Game, Larger, IInv,
     TimerInv, TypeOK, Room, Timer, Exists
<1>2. ASSUME NEW a \in 0 .. MaxAction, Advance(a) PROVE TimerInv'
  BY <1>2 DEF Advance, Play, SaveRoom, Upcoming, Game, Larger, IInv,
     TimerInv, TypeOK, Room, Timer, Exists
<1>3. CASE Continue
  BY <1>3 DEF Continue, Play, SaveRoom, Larger, IInv, TimerInv, TypeOK,
     Room, Timer, Exists
<1>4. CASE AbortToLobby
  BY <1>4 DEF AbortToLobby, Play, SaveRoom, Lobby, Larger, IInv, TimerInv,
     TypeOK, Room, Timer, Exists
<1>5. CASE CloseRoom
  BY <1>5 DEF CloseRoom, SaveRoom, Closed, Larger, IInv, TimerInv, TypeOK,
     Room, Timer, Exists
<1>6. CASE CreateSave
  BY <1>6 DEF CreateSave, SaveRoom, Lobby, Larger, IInv, TimerInv, TypeOK,
     Room, TodoInv, NoTimer
<1>7. ASSUME NEW a \in 0 .. MaxAction, ExpireSave(a) PROVE TimerInv'
  BY <1>7 DEF ExpireSave, SaveRoom, Upcoming, Game, Larger, IInv,
     TimerInv, TypeOK, Room, Timer, Exists, RoomInv, TodoInv
<1>8. ASSUME NEW c \in Cmds, NEW a \in Actions, Extend(c, a) PROVE TimerInv'
  BY <1>8, LeadAssumption DEF Extend, Extendable, IInv, TimerInv, TypeOK,
     Timer, Actions, Extended
<1>9. CASE SaveConfig
  BY <1>9 DEF SaveConfig, history, NoTimer, IInv, TimerInv
<1>10. CASE ReconcileNothing
  BY <1>10 DEF ReconcileNothing, history, NoTimer, IInv, TimerInv
<1>11. CASE ReconcileNew
  BY <1>11, SettingsAssumption DEF ReconcileNew, IInv, TimerInv, TypeOK,
     Actions, Room, NewTimer, RoomInv, Exists
<1>12. CASE Clear("clear", "cancel")
  BY <1>12 DEF Clear, history, NoTimer, IInv, TimerInv
<1>13. CASE Clear("createClear", "createCancel")
  BY <1>13 DEF Clear, history, NoTimer, IInv, TimerInv
<1>14. CASE DropTimer
  BY <1>14 DEF DropTimer, history, NoTimer, IInv, TimerInv
<1>15. CASE ExpireThrows
  BY <1>15 DEF ExpireThrows, Expiring, NoTimer, IInv, TimerInv
<1>16. CASE AlarmIdle
  BY <1>16 DEF AlarmIdle, Ring, history, NoTimer, IInv, TimerInv
<1>17. CASE AlarmWarns
  BY <1>17 DEF AlarmWarns, Ring, Timed, history, NoTimer, IInv, TimerInv,
     TypeOK, Timer
<1>18. CASE UNCHANGED <<room, seconds, timer, born, last, granted>>
  BY <1>18 DEF IInv, TimerInv, Exists
<1>19. QED
  BY <1>1, <1>2, <1>3, <1>4, <1>5, <1>6, <1>7, <1>8, <1>9, <1>10, <1>11,
     <1>12, <1>13, <1>14, <1>15, <1>16, <1>17, <1>18
  DEF Next, Handle, HandleAlarm, CreateRoom, history, disk, Refuse, SetConfig,
      ReconcileSame, Schedule, Cancel, CreateCancel, DropAlarm,
      AlarmStale, Ring, AlarmExpires, AlarmEarly, Tick, Crash

\* A handler finds at its next step what it left there.
LEMMA TodoStep ==
  ASSUME IInv, Next
  PROVE  TodoInv'
<1>1. CASE StartGame
  BY <1>1 DEF StartGame, Play, SaveRoom, IInv, TodoInv, Idle, Then
<1>2. ASSUME NEW a \in 0 .. MaxAction, Advance(a) PROVE TodoInv'
  BY <1>2 DEF Advance, Play, SaveRoom, Upcoming, IInv, TodoInv, Idle, Then
<1>3. CASE Continue
  BY <1>3 DEF Continue, Play, SaveRoom, IInv, TodoInv, Idle, Then
<1>4. CASE AbortToLobby
  BY <1>4 DEF AbortToLobby, Play, SaveRoom, IInv, TodoInv, Idle, Then
<1>5. CASE CloseRoom
  BY <1>5 DEF CloseRoom, SaveRoom, IInv, TodoInv, Idle, Then, Closed
<1>6. CASE CreateRoom
  BY <1>6 DEF CreateRoom, history, disk, IInv, TodoInv, Idle, Then,
     TypeOK, Room, Exists, RoomInv, Closed
<1>7. ASSUME NEW c \in Cmds, Refuse(c) PROVE TodoInv'
  BY <1>7 DEF Refuse, history, IInv, TodoInv, Idle, Then
<1>8. ASSUME NEW c \in Cmds, NEW s \in Settings, SetConfig(c, s) PROVE TodoInv'
  BY <1>8 DEF SetConfig, history, disk, IInv, TodoInv, Idle, Then
<1>9. ASSUME NEW c \in Cmds, NEW a \in Actions, Extend(c, a) PROVE TodoInv'
  BY <1>9 DEF Extend, Extendable, IInv, TodoInv, Idle, Then
<1>10. CASE SaveConfig
  BY <1>10 DEF SaveConfig, history, IInv, TodoInv, Idle, Then
<1>11. CASE ReconcileNothing
  BY <1>11 DEF ReconcileNothing, history, IInv, TodoInv, Idle, Then
<1>12. CASE ReconcileSame
  BY <1>12 DEF ReconcileSame, history, disk, IInv, TodoInv, Idle, Then
<1>13. CASE ReconcileNew
  BY <1>13 DEF ReconcileNew, IInv, TodoInv, Idle, Then
<1>14. CASE Schedule
  BY <1>14 DEF Schedule, DueAt, history, disk, IInv, TodoInv, Idle, Then
<1>15. CASE Cancel
  BY <1>15 DEF Cancel, history, disk, IInv, TodoInv, Idle, Then
<1>16. CASE Clear("clear", "cancel")
  BY <1>16 DEF Clear, history, IInv, TodoInv, Idle, Then
<1>17. CASE Clear("createClear", "createCancel")
  BY <1>17 DEF Clear, history, IInv, TodoInv, Idle, Then
<1>18. CASE CreateCancel
  BY <1>18 DEF CreateCancel, history, disk, IInv, TodoInv, Idle, Then
<1>19. CASE CreateSave
  BY <1>19 DEF CreateSave, SaveRoom, IInv, TodoInv, Idle, Then
<1>20. ASSUME NEW a \in 0 .. MaxAction, ExpireSave(a) PROVE TodoInv'
  BY <1>20 DEF ExpireSave, SaveRoom, Upcoming, IInv, TodoInv, Idle, Then,
     TypeOK, Room, Timer, TimerInv, RoomInv, Larger, Game, Actions
<1>21. CASE DropTimer
  BY <1>21 DEF DropTimer, history, IInv, TodoInv, Idle, Then
<1>22. CASE DropAlarm
  BY <1>22 DEF DropAlarm, history, disk, IInv, TodoInv, Idle, Then
<1>23. CASE ExpireThrows
  BY <1>23 DEF ExpireThrows, Expiring, IInv, TodoInv, Idle, Then
<1>24. CASE AlarmIdle
  BY <1>24 DEF AlarmIdle, Ring, history, IInv, TodoInv, Idle, Then
<1>25. CASE AlarmStale
  BY <1>25 DEF AlarmStale, Ring, history, IInv, TodoInv, Idle, Then
<1>26. CASE AlarmExpires
  BY <1>26 DEF AlarmExpires, Ring, Timed, history, IInv, TodoInv, Idle,
     Then, TypeOK, Timer, TimerInv
<1>27. CASE AlarmWarns
  BY <1>27 DEF AlarmWarns, Ring, Timed, history, IInv, TodoInv, Idle, Then
<1>28. CASE AlarmEarly
  BY <1>28 DEF AlarmEarly, Ring, Timed, history, IInv, TodoInv, Idle, Then
<1>29. CASE Tick
  BY <1>29 DEF Tick, history, disk, IInv, TodoInv, Idle, Then
<1>30. CASE Crash
  BY <1>30 DEF Crash, disk, IInv, TodoInv, Idle, Then
<1>31. QED
  BY <1>1, <1>2, <1>3, <1>4, <1>5, <1>6, <1>7, <1>8, <1>9, <1>10, <1>11,
     <1>12, <1>13, <1>14, <1>15, <1>16, <1>17, <1>18, <1>19, <1>20,
     <1>21, <1>22, <1>23, <1>24, <1>25, <1>26, <1>27, <1>28, <1>29,
     <1>30
  DEF Next, Handle, HandleAlarm

\* Allowances that were lost add up.
LEMMA BudgetTyped ==
  ASSUME TypeOK, NEW b \in Actions
  PROVE  Budget(b) \in Nat
BY BoundAssumption DEF TypeOK, Budget

LEMMA BudgetGrows ==
  ASSUME TypeOK, ExpireThrows, NEW b \in Actions
  PROVE  Budget(b)' = IF b \in {timer.action, room.action}
                      THEN Budget(b) + MaxExtensions ELSE Budget(b)
<1>1. thrown[b] \in Nat
  BY DEF TypeOK
<1>2. thrown[b]' = IF b \in {timer.action, room.action}
                   THEN thrown[b] + 1 ELSE thrown[b]
  BY DEF ExpireThrows
<1>3. MaxExtensions * (thrown[b] + 1) = MaxExtensions * thrown[b] + MaxExtensions
  BY <1>1, BoundAssumption
<1>4. QED  BY <1>2, <1>3 DEF Budget

LEMMA BudgetKept ==
  ASSUME UNCHANGED thrown, NEW b \in Actions
  PROVE  Budget(b)' = Budget(b)
BY DEF Budget


\* It is enough that no allowance of an action shrinks.
LEMMA AllowanceTyped ==
  ASSUME TypeOK, NEW b \in Actions
  PROVE  Allowance(b) \in Nat
BY BoundAssumption DEF TypeOK, Timer, Allowance

LEMMA WithinKept ==
  ASSUME TypeOK, TypeOK', ExtensionInv, NEW b \in Actions,
         UNCHANGED <<extensions, thrown>>, last <= last',
         b <= last => Allowance(b) <= Allowance(b)'
  PROVE  Within(b)'
<1>1. Budget(b)' = Budget(b) /\ extensions'[b] = extensions[b]
  BY BudgetKept
<1>2. extensions[b] \in Nat /\ last \in Nat /\ last' \in Nat /\ b \in Nat
  BY BoundAssumption DEF TypeOK, Actions
<1>3. Allowance(b)' \in Nat
  <2>1. Allowance(b)' = IF timer'.action = b THEN timer'.extended
                        ELSE IF room'.action = b THEN 0 ELSE MaxExtensions
    BY DEF Allowance
  <2>2. timer' \in Timer
    BY DEF TypeOK
  <2>3. QED  BY <2>1, <2>2, BoundAssumption DEF Timer
<1>4. Within(b)
  BY DEF ExtensionInv
<1>5. Allowance(b) \in Nat /\ Budget(b) \in Nat
  BY AllowanceTyped, BudgetTyped
<1>6. QED  BY <1>1, <1>2, <1>3, <1>4, <1>5 DEF Within


\* No step but an extension and a throw shrinks an allowance.
LEMMA AllowanceStep ==
  ASSUME IInv, Next, NEW b \in Actions, ~ExpireThrows,
         \A c \in Cmds, a \in Actions : ~Extend(c, a)
  PROVE  last <= last' /\ (b <= last => Allowance(b) <= Allowance(b)')
<1> DEFINE Kept == last <= last' /\ (b <= last => Allowance(b) <= Allowance(b)')
<1>a. /\ last \in Nat /\ b \in Nat \ {0} /\ room.action \in Nat
      /\ timer.extended \in 0 .. MaxExtensions /\ MaxExtensions \in Nat
  BY BoundAssumption DEF IInv, TypeOK, Timer, Room, Actions
\* The timer stays, and the room moves on to no action or to a new one.
<1>b. ASSUME NEW r, room' = r, r.action = 0 \/ r.action = last + 1,
             timer' = timer, last' = Larger(last, r.action)
      PROVE  Kept
  BY <1>a, <1>b DEF Allowance, Larger
\* The room stays; the timer is for the same action as before with as many
\* extensions, or was for none of the room's and is for the room's now, or is gone.
<1>c. ASSUME UNCHANGED <<room, last>>,
             \/ timer'.action = timer.action /\ timer'.extended = timer.extended
             \/ /\ timer'.action = room.action /\ timer.action # room.action
                /\ timer'.extended = 0
             \/ timer'.action = 0 /\ (room.action = 0 \/ timer.action # room.action)
      PROVE  Kept
  BY <1>a, <1>c DEF Allowance
<1>1. CASE StartGame
  <2>1. room' = Game(0) /\ timer' = timer /\ last' = Larger(last, Game(0).action)
    BY <1>1 DEF StartGame, Play, SaveRoom
  <2>2. QED  BY <2>1, <1>b DEF Game
<1>2. ASSUME NEW a \in 0 .. MaxAction, Advance(a)
      PROVE  Kept
  <2>1. room' = Game(a) /\ timer' = timer /\ last' = Larger(last, Game(a).action)
    BY <1>2 DEF Advance, Play, SaveRoom
  <2>2. a = 0 \/ a = last + 1
    BY <1>2 DEF Advance, Upcoming
  <2>3. QED  BY <2>1, <2>2, <1>b DEF Game
<1>3. CASE Continue
  <2>1. room' = room /\ timer' = timer /\ last' = Larger(last, room.action)
    BY <1>3 DEF Continue, Play, SaveRoom
  <2>2. room.action <= last
    BY <1>3, <1>a DEF Continue, IInv, RoomInv
  <2>3. last' = last
    BY <2>1, <2>2, <1>a DEF Larger
  <2>4. QED  BY <2>1, <2>3, <1>c
<1>4. CASE AbortToLobby
  <2>1. room' = Lobby /\ timer' = timer /\ last' = Larger(last, Lobby.action)
    BY <1>4 DEF AbortToLobby, Play, SaveRoom
  <2>2. QED  BY <2>1, <1>b DEF Lobby
<1>5. CASE CloseRoom
  <2>1. room' = Closed /\ timer' = timer /\ last' = Larger(last, Closed.action)
    BY <1>5 DEF CloseRoom, SaveRoom
  <2>2. QED  BY <2>1, <1>b DEF Closed
<1>6. CASE CreateSave
  <2>1. room' = Lobby /\ timer' = timer /\ last' = Larger(last, Lobby.action)
    BY <1>6 DEF CreateSave, SaveRoom
  <2>2. QED  BY <2>1, <1>b DEF Lobby
<1>7. ASSUME NEW a \in 0 .. MaxAction, ExpireSave(a)
      PROVE  Kept
  <2>1. room' = Game(a) /\ timer' = timer /\ last' = Larger(last, Game(a).action)
    BY <1>7 DEF ExpireSave, SaveRoom
  <2>2. a = 0 \/ a = last + 1
    BY <1>7 DEF ExpireSave, Upcoming
  <2>3. QED  BY <2>1, <2>2, <1>b DEF Game
<1>8. CASE SaveConfig
  <2>1. timer'.action = 0 /\ UNCHANGED <<room, last>>
    BY <1>8 DEF SaveConfig, NoTimer, history
  <2>2. room.action = 0
    BY <1>8 DEF SaveConfig, IInv, TodoInv, Lobby
  <2>3. QED  BY <2>1, <2>2, <1>c
<1>9. CASE ReconcileNothing
  <2>1. timer'.action = 0 /\ UNCHANGED <<room, last>>
    BY <1>9 DEF ReconcileNothing, NoTimer, history
  <2>2. room.action = 0 \/ timer.action = 0
    BY <1>9, BoundAssumption DEF ReconcileNothing, IInv, TypeOK, Timer, TimerInv
  <2>3. QED  BY <2>1, <2>2, <1>c
<1>10. CASE ReconcileNew
  <2>1. /\ timer'.action = room.action /\ timer.action # room.action
        /\ timer'.extended = 0 /\ UNCHANGED <<room, last>>
    BY <1>10 DEF ReconcileNew, NewTimer
  <2>2. QED  BY <2>1, <1>c
<1>11. CASE Clear("clear", "cancel")
  <2>1. timer'.action = 0 /\ UNCHANGED <<room, last>>
    BY <1>11 DEF Clear, NoTimer, history
  <2>2. room.action = 0
    BY <1>11 DEF Clear, IInv, TodoInv, Closed
  <2>3. QED  BY <2>1, <2>2, <1>c
<1>12. CASE Clear("createClear", "createCancel")
  <2>1. timer'.action = 0 /\ UNCHANGED <<room, last>>
    BY <1>12 DEF Clear, NoTimer, history
  <2>2. room.action = 0
    BY <1>12 DEF Clear, IInv, TodoInv, Closed
  <2>3. QED  BY <2>1, <2>2, <1>c
<1>13. CASE DropTimer
  <2>1. timer'.action = 0 /\ UNCHANGED <<room, last>>
    BY <1>13 DEF DropTimer, NoTimer, history
  <2>2. timer.action # room.action
    BY <1>13 DEF DropTimer, IInv, TodoInv
  <2>3. QED  BY <2>1, <2>2, <1>c
<1>14. CASE AlarmIdle
  <2>1. timer'.action = 0 /\ UNCHANGED <<room, last>>
    BY <1>14 DEF AlarmIdle, Ring, NoTimer, history
  <2>2. CASE timer = NoTimer
    <3>1. timer.action = 0
      BY <2>2 DEF NoTimer
    <3>2. QED  BY <2>1, <3>1, <1>c
  <2>3. CASE ~Exists
    <3>1. room.action = 0
      BY <2>3 DEF IInv, RoomInv, Exists
    <3>2. QED  BY <2>1, <3>1, <1>c
  <2>4. QED  BY <1>14, <2>2, <2>3 DEF AlarmIdle
<1>15. CASE AlarmWarns
  <2>1. timer' = [timer EXCEPT !.warned = TRUE] /\ UNCHANGED <<room, last>>
    BY <1>15 DEF AlarmWarns, Ring, history
  <2>2. timer'.action = timer.action /\ timer'.extended = timer.extended
    BY <2>1 DEF IInv, TypeOK, Timer
  <2>3. QED  BY <2>1, <2>2, <1>c
<1>16. CASE UNCHANGED <<room, timer, last>>
  BY <1>16, <1>c
<1>17. QED
  BY <1>1, <1>2, <1>3, <1>4, <1>5, <1>6, <1>7, <1>8, <1>9, <1>10, <1>11,
     <1>12, <1>13, <1>14, <1>15, <1>16
  DEF Next, Handle, HandleAlarm, CreateRoom, history, disk, Refuse, SetConfig,
      ReconcileSame, Schedule, Cancel, CreateCancel, DropAlarm, AlarmStale,
      Ring, AlarmExpires, AlarmEarly, Tick, Crash

\* No action is extended beyond its allowance.
LEMMA ExtensionStep ==
  ASSUME IInv, Next, TypeOK'
  PROVE  ExtensionInv'
<1> SUFFICES ASSUME NEW b \in Actions PROVE Within(b)'
  BY DEF ExtensionInv, Actions
<1>0. /\ Within(b) /\ Budget(b) \in Nat
      /\ b \in Nat \ {0} /\ last \in Nat /\ extensions[b] \in Nat
      /\ timer.extended \in 0 .. MaxExtensions
  <2>1. Within(b) /\ Budget(b) \in Nat
    BY BudgetTyped DEF IInv, ExtensionInv
  <2>2. QED  BY <2>1, BoundAssumption DEF IInv, TypeOK, Timer, Actions
<1>1. ASSUME NEW c \in Cmds, NEW a \in Actions, Extend(c, a) PROVE Within(b)'
  <2>1. Budget(b)' = Budget(b) /\ last' = last
    BY <1>1, BudgetKept DEF Extend
  <2>2. CASE b = a
    <3>1. /\ timer.action = b /\ timer.extended < MaxExtensions
          /\ timer'.action = b /\ timer'.extended = timer.extended + 1
          /\ extensions'[b] = extensions[b] + 1
      BY <1>1, <2>2 DEF Extend, Extendable, Extended, IInv, TypeOK
    <3>2. b <= last
      BY <3>1, <1>0 DEF IInv, TimerInv
    <3>3. QED  BY <1>0, <2>1, <3>1, <3>2, BoundAssumption DEF Within, Allowance
  <2>3. CASE b # a
    <3>1. /\ timer.action = a /\ timer'.action = a /\ room' = room
          /\ extensions'[b] = extensions[b]
      BY <1>1, <2>3 DEF Extend, Extendable, Extended, IInv, TypeOK
    <3>2. QED  BY <1>0, <2>1, <2>3, <3>1, BoundAssumption DEF Within, Allowance
  <2>4. QED  BY <2>2, <2>3
<1>2. CASE ExpireThrows
  <2>1. Budget(b)' = IF b \in {timer.action, room.action}
                     THEN Budget(b) + MaxExtensions ELSE Budget(b)
    BY <1>2, BudgetGrows DEF IInv
  <2>2. timer'.action = 0 /\ room' = room /\ last' = last
        /\ extensions' = extensions
    BY <1>2 DEF ExpireThrows, NoTimer
  <2>3. QED  BY <1>0, <2>1, <2>2, BoundAssumption DEF Within, Allowance
<1>3. CASE ~ExpireThrows /\ \A c \in Cmds, a \in Actions : ~Extend(c, a)
  <2>1. UNCHANGED <<extensions, thrown>>
    BY <1>3 DEF Next, Handle, HandleAlarm, StartGame, Play, SaveRoom, Advance, Continue,
        AbortToLobby, CloseRoom, CreateRoom, history, disk, Refuse,
        SetConfig, SaveConfig, ReconcileNothing, ReconcileSame,
        ReconcileNew, Schedule, Cancel, Clear, CreateCancel, CreateSave,
        ExpireSave, DropTimer, DropAlarm, AlarmIdle, Ring, AlarmStale,
        AlarmExpires, AlarmWarns, AlarmEarly, Tick, Crash
  <2>2. last <= last' /\ (b <= last => Allowance(b) <= Allowance(b)')
    BY <1>3, AllowanceStep
  <2>3. QED  BY <2>1, <2>2, WithinKept DEF IInv
<1>4. QED  BY <1>1, <1>2, <1>3

-----------------------------------------------------------------------------
LEMMA InitInv == Init => IInv
<1> SUFFICES ASSUME Init PROVE IInv
  OBVIOUS
<1>1. TypeOK
  BY RoomTyped, TodoTyped, NoTimerTyped, SettingsAssumption, BoundAssumption
  DEF Init, TypeOK, Idle, Steps
<1>2. RoomInv /\ TimerInv /\ TodoInv
  BY DEF Init, RoomInv, TimerInv, TodoInv, Closed, NoTimer, Idle, Then
<1>3. ExtensionInv
  <2>1. ASSUME NEW b \in Actions PROVE Within(b)
    <3>1. extensions[b] = 0
      BY DEF Init
    <3>2. Budget(b) \in Nat /\ Allowance(b) \in Nat
      BY <1>1, BudgetTyped, AllowanceTyped
    <3>3. QED  BY <3>1, <3>2 DEF Within
  <2>2. QED  BY <2>1 DEF ExtensionInv
<1>4. QED  BY <1>1, <1>2, <1>3 DEF IInv

LEMMA StepInv == IInv /\ [Next]_vars => IInv'
<1>1. ASSUME IInv, Next PROVE IInv'
  <2>1. TypeOK' /\ RoomInv' /\ TimerInv' /\ TodoInv'
    BY <1>1, TypeStep, RoomStep, TimerStep, TodoStep
  <2>2. ExtensionInv'
    BY <1>1, <2>1, ExtensionStep
  <2>3. QED  BY <2>1, <2>2 DEF IInv
<1>2. ASSUME IInv, UNCHANGED vars PROVE IInv'
  BY <1>2 DEF vars, IInv, TypeOK, RoomInv, TimerInv, TodoInv, ExtensionInv,
     Within, Budget, Allowance, Exists
<1>3. QED  BY <1>1, <1>2

\* The invariant holds throughout.
THEOREM Invariance == Spec => []IInv
BY InitInv, StepInv, PTL DEF Spec

-----------------------------------------------------------------------------
\* Every part of the timeout state keeps its type, whatever is interrupted:
\* in particular no timer ever records more than MaxExtensions extensions.
THEOREM TypeCorrect == Spec => []TypeOK
<1>1. IInv => TypeOK
  BY DEF IInv
<1>2. QED  BY <1>1, Invariance, PTL

\* A timer in a living room is about an action that came up in this room, not
\* in an earlier one with its code, wherever closing or creating it stopped.
THEOREM TimersOfThisRoom == Spec => []TimerOfThisRoom
<1>1. IInv => TimerOfThisRoom
  <2> SUFFICES ASSUME IInv, Exists, timer # NoTimer PROVE timer.action > born
    BY DEF TimerOfThisRoom
  <2>1. timer.action > 0
    BY BoundAssumption DEF IInv, TimerInv, TypeOK, Timer
  <2>2. QED  BY <2>1, BoundAssumption DEF IInv, TimerInv, TypeOK, Timer
<1>2. QED  BY <1>1, Invariance, PTL

\* No action is extended more often than the code allows for every timer it
\* gets, and it gets a second one only when an expiry threw.
THEOREM ExtensionsBounded == Spec => []ExtendedOnce
<1>1. IInv => ExtendedOnce
  <2> SUFFICES ASSUME IInv, NEW a \in Actions
               PROVE  extensions[a] <= MaxExtensions * (thrown[a] + 1)
    BY DEF ExtendedOnce
  <2>1. MaxExtensions * (thrown[a] + 1) = Budget(a) + MaxExtensions
    <3>1. thrown[a] \in Nat
      BY DEF IInv, TypeOK
    <3>2. MaxExtensions * (thrown[a] + 1) = MaxExtensions * thrown[a] + MaxExtensions
      BY <3>1, BoundAssumption
    <3>3. QED  BY <3>2 DEF Budget
  <2>2. Allowance(a) \in 0 .. MaxExtensions
    BY BoundAssumption DEF IInv, TypeOK, Timer, Allowance
  <2>3. Budget(a) \in Nat /\ extensions[a] \in Nat /\ Within(a)
    <3>1. Budget(a) \in Nat
      BY BudgetTyped DEF IInv
    <3>2. QED  BY <3>1 DEF IInv, TypeOK, ExtensionInv
  <2>4. QED  BY <2>1, <2>2, <2>3, BoundAssumption DEF Within
<1>2. QED  BY <1>1, Invariance, PTL

\* When an action is about to be taken for its actor, the last deadline the actor
\* was given has passed.
LEMMA ExpiredInTime ==
  ASSUME IInv, todo.at = "expire"
  PROVE  room.action > 0 /\ granted[room.action] \in 1 .. now
<1>1. room.action > 0 /\ timer.action = room.action /\ timer.deadline <= now
  BY DEF IInv, TodoInv
<1>2. granted[room.action] = timer.deadline /\ timer.deadline > 0
  BY <1>1 DEF IInv, TimerInv
<1>3. timer.deadline \in Nat /\ now \in Nat
  BY DEF IInv, TypeOK, Timer
<1>4. QED  BY <1>1, <1>2, <1>3

\* While an action waits to be taken, its timer goes only when its expiry
\* throws.
LEMMA KeptStep ==
  ASSUME IInv, Next, NEW a \in Actions,
         timer.action = a, room.action = a, timer'.action # a
  PROVE  room'.action # a \/ thrown'[a] > thrown[a]
<1>1. ASSUME NEW c \in Cmds, NEW e \in Actions, Extend(c, e)
      PROVE  room'.action # a \/ thrown'[a] > thrown[a]
  BY <1>1 DEF Extend, Extendable, IInv, Actions, Extended
<1>2. CASE SaveConfig
  BY <1>2 DEF SaveConfig, history, IInv, Actions, TodoInv, Lobby
<1>3. CASE ReconcileNothing
  BY <1>3 DEF ReconcileNothing, history, IInv, Actions, TimerInv
<1>4. CASE ReconcileNew
  BY <1>4 DEF ReconcileNew, IInv, Actions
<1>5. CASE Clear("clear", "cancel")
  BY <1>5 DEF Clear, history, IInv, Actions, TodoInv, Closed
<1>6. CASE Clear("createClear", "createCancel")
  BY <1>6 DEF Clear, history, IInv, Actions, TodoInv, Closed
<1>7. CASE DropTimer
  BY <1>7 DEF DropTimer, history, IInv, Actions, TodoInv
<1>8. CASE ExpireThrows
  BY <1>8 DEF ExpireThrows, Expiring, IInv, Actions, TypeOK
<1>9. CASE AlarmIdle
  BY <1>9 DEF AlarmIdle, Ring, history, IInv, Actions, RoomInv, Exists,
     NoTimer
<1>10. CASE AlarmWarns
  BY <1>10 DEF AlarmWarns, Ring, Timed, history, IInv, Actions, TypeOK,
     Timer
<1>11. CASE UNCHANGED <<timer>>
  BY <1>11
<1>12. QED
  BY <1>1, <1>2, <1>3, <1>4, <1>5, <1>6, <1>7, <1>8, <1>9, <1>10, <1>11
  DEF Next, Handle, HandleAlarm, StartGame, Play, SaveRoom, Advance, Continue,
      AbortToLobby, CloseRoom, CreateRoom, history, disk, Refuse,
      SetConfig, ReconcileSame, Schedule, Cancel, CreateCancel,
      CreateSave, ExpireSave, DropAlarm, AlarmStale, Ring, AlarmExpires,
      AlarmEarly, Tick, Crash

\* The timer on disk is about an action of this room and was extended no more
\* often than allowed, whatever was interrupted (extendInteractionTimeout, clearAll).
THEOREM TimersStaySound == Spec => []TimersSound
BY TimersOfThisRoom, ExtensionsBounded, PTL DEF TimersSound

\* An action that waits keeps its timer, and is taken for its actor only when the
\* time given to it has passed (reconcile, handleAlarm, expire).
THEOREM WaitingActionsKept == Spec => WaitingActionKept
<1>1. IInv /\ [Next]_vars => [TimeoutKeepsPromise /\ TimerKept]_vars
  <2>1. ASSUME IInv, Next, NEW a \in Actions,
               timer.action = a, room.action = a, timer'.action # a
        PROVE  room'.action # a \/ thrown'[a] > thrown[a]
    BY <2>1, KeptStep
  <2>2. QED  BY <2>1, ExpiredInTime DEF TimerKept, TimeoutKeepsPromise
<1>2. QED  BY <1>1, Invariance, PTL DEF Spec, WaitingActionKept

=============================================================================
