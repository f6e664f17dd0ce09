-------------------------- MODULE LuatTimerProofs --------------------------
(***************************************************************************)
(* Theorems about LuatTimer, for any number of heap blocks, slots and ids  *)
(* and any bus length.                                                     *)
(*                                                                         *)
(* TableInv is the inductive invariant.  SlotsOwnBlocks alone is not one:  *)
(* the slot luat_timer_get finds is the right one only while ids are       *)
(* unique, and the block the handler frees is one-shot only because a      *)
(* timer that does not reload has no repeats left.                         *)
(***************************************************************************)
EXTENDS LuatTimer, TLAPS, WellFoundedInduction, SequenceTheorems

TableTypeOK ==
    /\ block \in [Block -> Timer]
    /\ timers \in [Slot -> Block \cup {NULL}]

(* Two running timers never have the same id, as luat_timer_get assumes. *)
IdsUnique ==
    \A b, c \in Block :
        block[b].used /\ block[c].used /\ block[b].id = block[c].id => b = c

TableInv ==
    /\ TableTypeOK
    /\ SlotsOwnBlocks
    /\ IdsUnique
    /\ RepeatMatchesReload

-----------------------------------------------------------------------------
(* The operators of the table. *)

(* The search loops of nextTimerSlot and luat_timer_get end on a member of   *)
(* the set they search: a non-empty set of numbers has a first one.          *)
LEMMA FirstOfNats ==
    ASSUME NEW S, S \subseteq Nat, S # {}
    PROVE  First(S) \in S
<1>1. PICK x \in S : \A y \in S : ~ (<<y, x>> \in OpToRel(<, Nat))
  BY NatLessThanWellFounded, WFMin
<1>2. \A y \in S : y < x => <<y, x>> \in OpToRel(<, Nat)
  BY Zenon DEF OpToRel
<1>3. \A y \in S : ~ (y < x)
  BY <1>1, <1>2, Zenon
<1>4. \A y \in S : x <= y
  BY <1>3
<1>5. QED
  BY <1>4 DEF First

LEMMA FirstIsMember ==
    ASSUME NEW S, S \subseteq Slot, S # {}
    PROVE  First(S) \in S
<1>1. S \subseteq Nat
  BY SlotAssumption DEF Slot
<1>2. QED
  BY <1>1, FirstOfNats

(* luat_timer_get finds a running timer with the id, and finds one when there *)
(* is one.                                                                    *)
LEMMA GetTimer ==
    ASSUME TableTypeOK, SlotsOwnBlocks, NEW id
    PROVE  /\ luat_timer_get(id) \in Block \cup {NULL}
           /\ luat_timer_get(id) # NULL =>
                 /\ block[luat_timer_get(id)].used
                 /\ block[luat_timer_get(id)].id = id
           /\ luat_timer_get(id) = NULL =>
                 \A b \in Block : block[b].used => block[b].id # id
<1>1. CASE SlotsWith(id) = {}
  <2>1. luat_timer_get(id) = NULL
    BY <1>1 DEF luat_timer_get
  <2>2. \A b \in Block : block[b].used => block[b].id # id
    BY <1>1, NullAssumption DEF SlotsWith, SlotsOwnBlocks
  <2>3. QED
    BY <2>1, <2>2
<1>2. CASE SlotsWith(id) # {}
  <2>1. First(SlotsWith(id)) \in SlotsWith(id)
    BY <1>2, FirstIsMember DEF SlotsWith
  <2>2. QED
    BY <1>2, <2>1 DEF luat_timer_get, SlotsWith, TableTypeOK, SlotsOwnBlocks
<1>3. QED
  BY <1>1, <1>2

(* With unique ids the timer luat_timer_get finds is the one with that id. *)
LEMMA GetTimerOf ==
    ASSUME TableInv, NEW b \in Block, block[b].used
    PROVE  luat_timer_get(block[b].id) = b
BY GetTimer DEF TableInv, IdsUnique

-----------------------------------------------------------------------------
(* What each operation does to the table. *)

(* Stopping and freeing a running timer keeps the table. *)
LEMMA StopKeepsTable ==
    ASSUME TableInv, NEW t \in Block, block[t].used, StopAndFree(t)
    PROVE  TableInv'
<1>1. TableTypeOK'
  BY DEF TableInv, TableTypeOK, StopAndFree, Timer, RepeatLeft
<1>2. SlotsOwnBlocks'
  BY NullAssumption DEF TableInv, TableTypeOK, SlotsOwnBlocks, StopAndFree
<1>3. IdsUnique'
  BY DEF TableInv, TableTypeOK, IdsUnique, StopAndFree
<1>4. RepeatMatchesReload'
  BY DEF TableInv, TableTypeOK, RepeatMatchesReload, StopAndFree
<1>5. QED
  BY <1>1, <1>2, <1>3, <1>4 DEF TableInv

(* Starting a timer, whether it succeeds or fails, keeps the table when no *)
(* running timer has the id.                                               *)
LEMMA StartKeepsTable ==
    ASSUME TableInv, NEW id \in TimerId, NEW ms \in {0, 1}, NEW rep \in Repeat,
           NEW ret \in {0, 1}, luat_timer_get(id) = NULL,
           l_rtos_timer_start(id, ms, rep, ret)
    PROVE  TableInv'
<1>1. CASE UNCHANGED <<block, timers>>
  BY <1>1 DEF TableInv, TableTypeOK, SlotsOwnBlocks, IdsUnique, RepeatMatchesReload
<1>2. ASSUME NEW b \in FreeBlocks, luat_timer_start(b, id, rep)
      PROVE  TableInv'
  <2>1. rep \in RepeatLeft
    BY RepeatAssumption DEF RepeatLeft
  <2>2. nextTimerSlot \in FreeSlots
    BY <1>2, FirstIsMember DEF luat_timer_start, nextTimerSlot, FreeSlots
  <2>3. \A c \in Block : block[c].used => block[c].id # id
    BY GetTimer DEF TableInv
  <2>4. TableTypeOK'
    BY <1>2, <2>1 DEF TableInv, TableTypeOK, luat_timer_start, FreeBlocks, Timer
  <2>5. SlotsOwnBlocks'
    BY <1>2, <2>2, NullAssumption
    DEF TableInv, TableTypeOK, SlotsOwnBlocks, luat_timer_start, FreeBlocks, FreeSlots
  <2>6. IdsUnique'
    BY <1>2, <2>3 DEF TableInv, TableTypeOK, IdsUnique, luat_timer_start, FreeBlocks
  <2>7. RepeatMatchesReload'
    BY <1>2 DEF TableInv, TableTypeOK, RepeatMatchesReload, luat_timer_start, FreeBlocks
  <2>8. QED
    BY <2>4, <2>5, <2>6, <2>7 DEF TableInv
<1>3. ASSUME NEW b \in FreeBlocks, luat_timer_start_fails(b, id)
      PROVE  TableInv'
  BY <1>3 DEF TableInv, TableTypeOK, SlotsOwnBlocks, IdsUnique, RepeatMatchesReload,
              luat_timer_start_fails, FreeBlocks, Timer
<1>4. QED
  BY <1>1, <1>2, <1>3 DEF l_rtos_timer_start

(* The handler keeps the table, whichever timer it found. *)
LEMMA HandlerKeepsTable ==
    ASSUME TableInv, NEW t \in Block \cup {NULL}, t # NULL => block[t].used,
           l_timer_handler(t)
    PROVE  TableInv'
<1>1. CASE UNCHANGED <<block, timers>>
  BY <1>1 DEF TableInv, TableTypeOK, SlotsOwnBlocks, IdsUnique, RepeatMatchesReload
<1>2. CASE t # NULL /\ StopAndFree(t)
  BY <1>2, StopKeepsTable
<1>3. CASE /\ t # NULL /\ block[t].repeat > 0
           /\ block' = [block EXCEPT ![t].repeat = @ - 1]
           /\ UNCHANGED timers
  BY <1>3 DEF TableInv, TableTypeOK, SlotsOwnBlocks, IdsUnique, RepeatMatchesReload,
              Timer, RepeatLeft
<1>4. QED
  BY <1>1, <1>2, <1>3 DEF l_timer_handler

(* What a message makes the handler find is a running timer or nothing. *)
LEMMA HandlerFindsRunning ==
    ASSUME TableInv, NEW m, NEW t \in HandlerTimers(m)
    PROVE  t \in Block \cup {NULL} /\ (t # NULL => block[t].used)
BY GetTimer DEF TableInv, HandlerTimers

(* The daemon keeps the table: it only clears armed, of a timer that does *)
(* not reload.                                                            *)
LEMMA ExpiryKeepsTable ==
    ASSUME TableInv, NEW b \in Block, TimerExpires(b)
    PROVE  TableInv'
BY DEF TableInv, TableTypeOK, SlotsOwnBlocks, IdsUnique, RepeatMatchesReload,
       TimerExpires, Timer

-----------------------------------------------------------------------------
(* The invariant. *)

LEMMA InitTable == TimerInit => TableInv
<1> SUFFICES ASSUME TimerInit PROVE TableInv
  OBVIOUS
<1>1. TableTypeOK
  BY TimerIdAssumption DEF TimerInit, TableTypeOK, Timer, RepeatLeft
<1>2. SlotsOwnBlocks /\ IdsUnique /\ RepeatMatchesReload
  BY NullAssumption DEF TimerInit, SlotsOwnBlocks, IdsUnique, RepeatMatchesReload
<1>3. QED
  BY <1>1, <1>2 DEF TableInv

LEMMA NextTable == TableInv /\ [TimerNext]_timerVars => TableInv'
<1> SUFFICES ASSUME TableInv, [TimerNext]_timerVars PROVE TableInv'
  OBVIOUS
<1>0. UNCHANGED <<block, timers>> => TableInv'
  BY DEF TableInv, TableTypeOK, SlotsOwnBlocks, IdsUnique, RepeatMatchesReload
<1>1. ASSUME NEW id \in TimerId, NEW ms \in {0, 1}, NEW rep \in Repeat,
             TimerStart(id, ms, rep)
      PROVE  TableInv'
  BY <1>1, StartKeepsTable DEF TimerStart
<1>2. ASSUME NEW id \in TimerId, TimerStop(id)
      PROVE  TableInv'
  BY <1>0, <1>2, StopKeepsTable, GetTimer DEF TimerStop, l_rtos_timer_stop, TableInv
<1>3. CASE Receive
  <2>1. PICK m \in Msg :
          IF m = DriverMsg THEN UNCHANGED <<block, timers, orphans>>
          ELSE \E t \in HandlerTimers(m) : l_timer_handler(t)
    BY <1>3 DEF Receive
  <2>2. QED
    BY <1>0, <2>1, HandlerKeepsTable, HandlerFindsRunning
<1>4. ASSUME NEW b \in Block, TimerExpires(b)
      PROVE  TableInv'
  BY <1>4, ExpiryKeepsTable
<1>5. CASE CallbackPosts \/ DriverPosts \/ (\E o \in orphans : OrphanExpires(o))
           \/ UNCHANGED timerVars
  BY <1>0, <1>5 DEF CallbackPosts, DriverPosts, OrphanExpires, timerVars
<1>6. QED
  BY <1>1, <1>2, <1>3, <1>4, <1>5 DEF TimerNext, LuaTask, Daemon

(* The table of running timers and the heap agree in every state. *)
THEOREM TableSafe == TimerSpec => []SlotsOwnBlocks
<1>1. TableInv => SlotsOwnBlocks
  BY DEF TableInv
<1>2. QED
  BY <1>1, InitTable, NextTable, PTL DEF TimerSpec

(* Every timer's repeat count agrees with its FreeRTOS timer: a timer that  *)
(* still reloads is armed, and one that does not has no repeats left.       *)
THEOREM CountsMatch == TimerSpec => []RepeatMatchesReload
<1>1. TableInv => RepeatMatchesReload
  BY DEF TableInv
<1>2. QED
  BY <1>1, InitTable, NextTable, PTL DEF TimerSpec

-----------------------------------------------------------------------------
(* Types. *)

LEMMA InitType == TimerInit => TimerTypeOK
<1> SUFFICES ASSUME TimerInit PROVE TimerTypeOK
  OBVIOUS
<1>1. TableTypeOK
  BY InitTable DEF TableInv
<1>2. bus \in Seq(Msg) /\ Len(bus) <= BusLen
  BY EmptySeq, BusAssumption DEF TimerInit
<1>3. QED
  BY <1>1, <1>2 DEF TimerInit, TimerTypeOK, TableTypeOK

(* Releasing a timer records at most an orphan with that timer's id. *)
LEMMA StopOrphanType ==
    ASSUME TimerTypeOK, NEW t \in Block, StopAndFree(t)
    PROVE  orphans' \subseteq Orphan
BY DEF TimerTypeOK, StopAndFree, Orphan, Timer

(* A put and a get keep the queue a queue of messages of bounded length. *)
LEMMA PutType ==
    ASSUME TimerTypeOK, NEW m \in Msg, luat_msgbus_put(m)
    PROVE  bus' \in Seq(Msg) /\ Len(bus') <= BusLen
BY BusAssumption DEF TimerTypeOK, luat_msgbus_put

LEMMA GetType ==
    ASSUME TimerTypeOK, NEW m, luat_msgbus_get(m)
    PROVE  bus' \in Seq(Msg) /\ Len(bus') <= BusLen
<1>1. Tail(bus) \in Seq(Msg) /\ Len(Tail(bus)) = Len(bus) - 1
  BY HeadTailProperties DEF TimerTypeOK, luat_msgbus_get
<1>2. Len(bus) \in Nat
  BY LenProperties DEF TimerTypeOK
<1>3. QED
  BY <1>1, <1>2, BusAssumption DEF TimerTypeOK, luat_msgbus_get

LEMMA NextType == TableInv /\ TimerTypeOK /\ [TimerNext]_timerVars => TimerTypeOK'
<1> SUFFICES ASSUME TableInv, TimerTypeOK, [TimerNext]_timerVars
             PROVE  TimerTypeOK'
  OBVIOUS
<1>0. TableTypeOK'
  BY NextTable DEF TableInv
<1>1. ASSUME NEW id \in TimerId, NEW ms \in {0, 1}, NEW rep \in Repeat,
             TimerStart(id, ms, rep)
      PROVE  TimerTypeOK'
  BY <1>0, <1>1 DEF TimerStart, l_rtos_timer_start, TimerTypeOK, TableTypeOK
<1>2. ASSUME NEW id \in TimerId, TimerStop(id)
      PROVE  TimerTypeOK'
  <2>1. orphans' \subseteq Orphan
    BY <1>2, StopOrphanType, GetTimer
    DEF TimerStop, l_rtos_timer_stop, TableInv, TimerTypeOK
  <2>2. QED
    BY <1>0, <1>2, <2>1 DEF TimerStop, TimerTypeOK, TableTypeOK
<1>3. CASE Receive
  <2>1. PICK m \in Msg :
          /\ luat_msgbus_get(m)
          /\ IF m = DriverMsg THEN UNCHANGED <<block, timers, orphans>>
             ELSE \E t \in HandlerTimers(m) : l_timer_handler(t)
    BY <1>3 DEF Receive
  <2>2. orphans' \subseteq Orphan
    BY <2>1, StopOrphanType, HandlerFindsRunning DEF l_timer_handler, TimerTypeOK
  <2>3. QED
    BY <1>0, <1>3, <2>1, <2>2, GetType DEF Receive, TimerTypeOK, TableTypeOK
<1>4. ASSUME NEW id \in TimerId, LookUp(id)
      PROVE  daemon' \in Call \cup {NULL}
  BY <1>4, GetTimer DEF LookUp, Call, TableInv
<1>5. ASSUME NEW b \in Block, TimerExpires(b)
      PROVE  TimerTypeOK'
  <2>1. block[b].id \in TimerId
    BY DEF TimerTypeOK, Timer
  <2>2. QED
    BY <1>0, <1>4, <1>5, <2>1 DEF TimerExpires, TimerTypeOK, TableTypeOK
<1>6. ASSUME NEW o \in orphans, OrphanExpires(o)
      PROVE  TimerTypeOK'
  <2>1. o.id \in TimerId
    BY DEF TimerTypeOK, Orphan
  <2>2. QED
    BY <1>0, <1>4, <1>6, <2>1 DEF OrphanExpires, TimerTypeOK, TableTypeOK
<1>7. CASE CallbackPosts
  <2>1. TimerMsg(daemon.ptr, daemon.id) \in Msg
    BY <1>7 DEF CallbackPosts, TimerTypeOK, Call, Msg
  <2>2. QED
    BY <1>0, <1>7, <2>1, PutType DEF CallbackPosts, TimerTypeOK, TableTypeOK
<1>8. CASE DriverPosts
  BY <1>0, <1>8, PutType DEF DriverPosts, TimerTypeOK, TableTypeOK, Msg
<1>9. CASE UNCHANGED timerVars
  BY <1>0, <1>9 DEF timerVars, TimerTypeOK, TableTypeOK
<1>10. QED
  BY <1>1, <1>2, <1>3, <1>5, <1>6, <1>7, <1>8, <1>9 DEF TimerNext, LuaTask, Daemon

(* Every variable keeps its type, and the bus never exceeds its length. *)
THEOREM TypeCorrect == TimerSpec => []TimerTypeOK
BY InitTable, NextTable, InitType, NextType, PTL DEF TimerSpec

-----------------------------------------------------------------------------
(* Lost expiries. *)

(* A put leaves the messages that were on the bus where they were, and on a *)
(* bus that is not full adds its own.                                       *)
LEMMA PutKeeps ==
    ASSUME TimerTypeOK, NEW m, luat_msgbus_put(m)
    PROVE  /\ Len(bus') \in Nat
           /\ \A k \in 1 .. Len(bus) : k \in 1 .. Len(bus') /\ bus'[k] = bus[k]
           /\ Len(bus) < BusLen => bus'[Len(bus')] = m /\ Len(bus') >= 1
BY BusAssumption DEF TimerTypeOK, luat_msgbus_put

(* A get takes the first message and keeps the others. *)
LEMMA GetKeeps ==
    ASSUME TimerTypeOK, NEW m, luat_msgbus_get(m),
           NEW k \in 1 .. Len(bus), bus[k] # m
    PROVE  k - 1 \in 1 .. Len(bus') /\ bus'[k - 1] = bus[k]
<1>1. k # 1
  BY DEF luat_msgbus_get, TimerTypeOK
<1>2. QED
  BY <1>1 DEF luat_msgbus_get, TimerTypeOK

(* The handler given the message owed to a running timer finds that timer. *)
LEMMA HandlerFindsOwner ==
    ASSUME TableInv, NEW b \in Block, block[b].used,
           NEW t \in HandlerTimers(TimerMsg(b, block[b].id))
    PROVE  t = b
<1>1. luat_timer_get(block[b].id) = b
  BY GetTimerOf
<1>2. QED
  BY <1>1 DEF HandlerTimers, TimerMsg

(* The handler leaves an expired one-shot timer alone unless it is the one *)
(* it was called for, and then the timer is gone.                          *)
LEMMA HandlerAndExpired ==
    ASSUME TableInv, NEW t \in Block \cup {NULL}, t # NULL => block[t].used,
           l_timer_handler(t),
           NEW b \in Block, block'[b].used, ~block'[b].armed
    PROVE  /\ t # b
           /\ block[b].used /\ ~block[b].armed /\ block'[b].id = block[b].id
<1>1. block \in [Block -> Timer] /\ RepeatMatchesReload
  BY DEF TableInv, TableTypeOK
<1>2. CASE t = NULL \/ (t # NULL /\ block[t].repeat < 0)
  BY <1>1, <1>2, NullAssumption
  DEF l_timer_handler, RepeatMatchesReload, Timer, RepeatLeft, StopAndFree
<1>3. CASE t # NULL /\ block[t].repeat = 0
  BY <1>1, <1>3 DEF l_timer_handler, StopAndFree
<1>4. CASE t # NULL /\ block[t].repeat > 0
  BY <1>1, <1>4 DEF l_timer_handler, RepeatMatchesReload, Timer
<1>5. QED
  BY <1>1, <1>2, <1>3, <1>4 DEF Timer, RepeatLeft

LEMMA NextOwed ==
    ASSUME TableInv, TimerTypeOK, [TimerNext]_timerVars,
           ExpiryOwed, Len(bus) < BusLen
    PROVE  ExpiryOwed'
<1> SUFFICES ASSUME NEW b \in Block, block'[b].used, ~block'[b].armed
             PROVE  Owed(b)'
  BY DEF ExpiryOwed
<1>0. /\ block[b].used /\ ~block[b].armed => Owed(b)
      /\ block \in [Block -> Timer]
  BY DEF ExpiryOwed, TimerTypeOK
<1>1. ASSUME NEW id \in TimerId, NEW ms \in {0, 1}, NEW rep \in Repeat,
             TimerStart(id, ms, rep)
      PROVE  Owed(b)'
  <2>1. block[b].used /\ ~block[b].armed /\ block'[b].id = block[b].id
    <3>1. ASSUME NEW c \in FreeBlocks, luat_timer_start(c, id, rep)
          PROVE  c # b /\ block'[b] = block[b]
      BY <1>0, <3>1 DEF luat_timer_start, FreeBlocks
    <3>2. ASSUME NEW c \in FreeBlocks, luat_timer_start_fails(c, id)
          PROVE  c # b /\ block'[b] = block[b]
      BY <1>0, <3>2 DEF luat_timer_start_fails, FreeBlocks, Timer
    <3>3. block'[b] = block[b]
      BY <1>1, <3>1, <3>2 DEF TimerStart, l_rtos_timer_start
    <3>4. QED
      BY <3>3
  <2>2. QED
    BY <1>0, <1>1, <2>1 DEF TimerStart, Owed
<1>2. ASSUME NEW id \in TimerId, TimerStop(id)
      PROVE  Owed(b)'
  <2>1. block[b].used /\ ~block[b].armed /\ block'[b].id = block[b].id
    BY <1>0, <1>2, GetTimer DEF TimerStop, l_rtos_timer_stop, StopAndFree, TableInv
  <2>2. QED
    BY <1>0, <1>2, <2>1 DEF TimerStop, Owed
<1>3. CASE Receive
  <2>1. PICK m \in Msg :
          /\ luat_msgbus_get(m)
          /\ IF m = DriverMsg THEN UNCHANGED <<block, timers, orphans>>
             ELSE \E t \in HandlerTimers(m) : l_timer_handler(t)
    BY <1>3 DEF Receive
  <2>2. /\ block[b].used /\ ~block[b].armed /\ block'[b].id = block[b].id
        /\ m # TimerMsg(b, block[b].id)
    <3>1. CASE m = DriverMsg
      BY <2>1, <3>1 DEF DriverMsg, TimerMsg
    <3>2. CASE m # DriverMsg
      <4>1. PICK t \in HandlerTimers(m) : l_timer_handler(t)
        BY <2>1, <3>2
      <4>2. t \in Block \cup {NULL} /\ (t # NULL => block[t].used)
        BY HandlerFindsRunning
      <4>3. /\ t # b
            /\ block[b].used /\ ~block[b].armed /\ block'[b].id = block[b].id
        BY <4>1, <4>2, HandlerAndExpired
      <4>4. QED
        BY <4>3, HandlerFindsOwner
    <3>3. QED
      BY <3>1, <3>2
  <2>3. CASE daemon = [ptr |-> b, id |-> block[b].id]
    BY <1>3, <2>2, <2>3 DEF Receive, Owed
  <2>4. ASSUME NEW k \in 1 .. Len(bus), bus[k] = TimerMsg(b, block[b].id)
        PROVE  Owed(b)'
    <3>1. k - 1 \in 1 .. Len(bus') /\ bus'[k - 1] = bus[k]
      BY <2>1, <2>2, <2>4, GetKeeps
    <3>2. TimerMsg(b, block[b].id) = TimerMsg(b, block'[b].id)
      BY <2>2
    <3>3. QED
      BY <2>4, <3>1, <3>2 DEF Owed, TimerMsg
  <2>5. QED
    BY <1>0, <2>2, <2>3, <2>4 DEF Owed
<1>4. ASSUME NEW c \in Block, TimerExpires(c)
      PROVE  Owed(b)'
  <2>1. CASE c = b
    <3>1. luat_timer_get(block[b].id) = b
      BY <1>4, <2>1, GetTimerOf DEF TimerExpires
    <3>2. daemon' = [ptr |-> b, id |-> block[b].id]
      BY <1>4, <2>1, <3>1, NullAssumption DEF TimerExpires, LookUp
    <3>3. block'[b].id = block[b].id
      BY <1>0, <1>4, <2>1 DEF TimerExpires, Timer
    <3>4. QED
      BY <3>2, <3>3 DEF Owed
  <2>2. CASE c # b
    BY <1>0, <1>4, <2>2, NullAssumption DEF TimerExpires, Owed, Call, Timer
  <2>3. QED
    BY <2>1, <2>2
<1>5. ASSUME NEW o \in orphans, OrphanExpires(o)
      PROVE  Owed(b)'
  BY <1>0, <1>5, NullAssumption DEF OrphanExpires, Owed, Call, Timer
<1>6. CASE CallbackPosts
  BY <1>0, <1>6, PutKeeps DEF CallbackPosts, Owed
<1>7. CASE DriverPosts
  BY <1>0, <1>7, PutKeeps DEF DriverPosts, Owed
<1>8. CASE UNCHANGED timerVars
  BY <1>0, <1>8 DEF timerVars, Owed, TimerMsg
<1>9. QED
  BY <1>1, <1>2, <1>3, <1>4, <1>5, <1>6, <1>7, <1>8 DEF TimerNext, LuaTask, Daemon

(* Whatever the interleaving of the Lua task and the timer daemon, the only *)
(* step that can lose a one-shot timer's message is a put on a full bus.    *)
THEOREM ExpiryOnlyLostOnFullBus == TimerSpec => OnlyFullBusLosesExpiry
<1>1. TableInv /\ TimerTypeOK /\ [TimerNext]_timerVars
        => [ExpiryOwed /\ Len(bus) < BusLen => ExpiryOwed']_timerVars
  BY NextOwed
<1>2. QED
  BY <1>1, InitTable, NextTable, InitType, NextType, PTL
  DEF TimerSpec, OnlyFullBusLosesExpiry

-----------------------------------------------------------------------------
(* LuatTimer implements TimerService.  The mapping goes through              *)
(* luat_timer_get, a search of the slots.  RunningMatches says what that     *)
(* search amounts to under TableInv: an id's timer is the used block that    *)
(* has the id.  With it each step is compared through the blocks alone.      *)

RunningMatches ==
    /\ \A b \in Block : block[b].used => RepeatsLeft(block[b].id) = block[b].repeat
    /\ \A id \in TimerId :
          RepeatsLeft(id) = NULL <=> \A b \in Block : block[b].used => block[b].id # id

running == [id \in TimerId |-> RepeatsLeft(id)]

LEMMA TableRunning == TableInv => RunningMatches
<1> SUFFICES ASSUME TableInv PROVE RunningMatches
  OBVIOUS
<1>1. \A b \in Block : block[b].used => RepeatsLeft(block[b].id) = block[b].repeat
  BY GetTimerOf, NullAssumption DEF RepeatsLeft
<1>2. ASSUME NEW id \in TimerId
      PROVE  RepeatsLeft(id) = NULL <=> \A b \in Block : block[b].used => block[b].id # id
  <2>1. \A b \in Block : block[b].repeat # NULL
    BY NullAssumption DEF TableInv, TableTypeOK, Timer, RepeatLeft
  <2>2. RepeatsLeft(id) = NULL <=> luat_timer_get(id) = NULL
    BY <2>1, GetTimer DEF RepeatsLeft, TableInv
  <2>3. QED
    BY <2>2, GetTimer DEF TableInv
<1>3. QED
  BY <1>1, <1>2 DEF RunningMatches

LEMMA TableRunningNext == TableInv' => RunningMatches'
BY TableRunning, PTL

-----------------------------------------------------------------------------
(* What a step does to the running timers, told from the blocks. *)

(* A step that leaves the used blocks, their ids and their repeats alone is *)
(* no step for the service.                                                 *)
LEMMA SameRunning ==
    ASSUME RunningMatches, RunningMatches',
           \A b \in Block : /\ block'[b].used <=> block[b].used
                            /\ block[b].used => /\ block'[b].id = block[b].id
                                                /\ block'[b].repeat = block[b].repeat
    PROVE  running' = running
<1>1. ASSUME NEW id \in TimerId
      PROVE  RepeatsLeft(id)' = RepeatsLeft(id)
  <2>1. CASE \E b \in Block : block[b].used /\ block[b].id = id
    BY <2>1 DEF RunningMatches
  <2>2. CASE ~ \E b \in Block : block[b].used /\ block[b].id = id
    BY <2>2 DEF RunningMatches
  <2>3. QED
    BY <2>1, <2>2
<1>2. QED
  BY <1>1 DEF running

(* Stopping and freeing a timer stops the timer of its id and no other. *)
LEMMA StopRunning ==
    ASSUME TableInv, TableInv', NEW t \in Block, block[t].used, StopAndFree(t)
    PROVE  running' = [running EXCEPT ![block[t].id] = NULL]
<1>0. RunningMatches /\ RunningMatches'
  BY TableRunning, TableRunningNext
<1>1. \A b \in Block : /\ block'[b].used <=> (block[b].used /\ b # t)
                       /\ b # t => block'[b] = block[b]
  BY DEF StopAndFree, TableInv, TableTypeOK
<1>2. \A b \in Block : block[b].used /\ block[b].id = block[t].id => b = t
  BY DEF TableInv, IdsUnique
<1>3. ASSUME NEW id \in TimerId, id # block[t].id
      PROVE  RepeatsLeft(id)' = RepeatsLeft(id)
  <2>1. CASE \E b \in Block : block[b].used /\ block[b].id = id
    <3>1. PICK b \in Block : block[b].used /\ block[b].id = id
      BY <2>1
    <3>2. block'[b].used /\ block'[b] = block[b]
      BY <1>1, <1>3, <3>1
    <3>3. QED
      BY <1>0, <3>1, <3>2 DEF RunningMatches
  <2>2. CASE ~ \E b \in Block : block[b].used /\ block[b].id = id
    BY <1>0, <1>1, <2>2 DEF RunningMatches
  <2>3. QED
    BY <2>1, <2>2
<1>4. block[t].id \in TimerId
  BY DEF TableInv, TableTypeOK, Timer
<1>5. RepeatsLeft(block[t].id)' = NULL
  <2> DEFINE id == block[t].id
  <2>1. \A b \in Block : block'[b].used => block'[b].id # id
    BY <1>1, <1>2
  <2>2. block'[t].id = id
    BY DEF StopAndFree, TableInv, TableTypeOK
  <2>3. QED
    BY <1>0, <1>4, <2>1, <2>2 DEF RunningMatches
<1>6. block'[t].id = block[t].id
  BY DEF StopAndFree, TableInv, TableTypeOK
<1>7. QED
  BY <1>3, <1>4, <1>5, <1>6 DEF running

(* Starting a timer, for an id that none runs for, succeeds or changes nothing. *)
LEMMA StartRunning ==
    ASSUME TableInv, TableInv', NEW id \in TimerId, NEW ms \in {0, 1},
           NEW rep \in Repeat, NEW ret \in {0, 1}, luat_timer_get(id) = NULL,
           l_rtos_timer_start(id, ms, rep, ret)
    PROVE  \/ running' = running
           \/ running[id] = NULL /\ running' = [running EXCEPT ![id] = rep]
<1>0. RunningMatches /\ RunningMatches' /\ block \in [Block -> Timer]
  BY TableRunning, TableRunningNext DEF TableInv, TableTypeOK
<1>1. CASE UNCHANGED <<block, timers>>
  BY <1>0, <1>1, SameRunning
<1>2. ASSUME NEW b \in FreeBlocks, luat_timer_start_fails(b, id)
      PROVE  running' = running
  BY <1>0, <1>2, SameRunning DEF luat_timer_start_fails, FreeBlocks, Timer
<1>3. ASSUME NEW b \in FreeBlocks, luat_timer_start(b, id, rep)
      PROVE  running[id] = NULL /\ running' = [running EXCEPT ![id] = rep]
  <2>1. RepeatsLeft(id) = NULL
    BY DEF RepeatsLeft
  <2>2. /\ b \in Block /\ ~block[b].used
        /\ block'[b].used /\ block'[b].id = id /\ block'[b].repeat = rep
        /\ \A c \in Block : c # b => block'[c] = block[c]
    BY <1>0, <1>3 DEF luat_timer_start, FreeBlocks
  <2>3. RepeatsLeft(id)' = rep
    BY <1>0, <2>2 DEF RunningMatches
  <2>4. ASSUME NEW i \in TimerId, i # id
        PROVE  RepeatsLeft(i)' = RepeatsLeft(i)
    <3>1. CASE \E c \in Block : block[c].used /\ block[c].id = i
      <4>1. PICK c \in Block : block[c].used /\ block[c].id = i
        BY <3>1
      <4>2. block'[c] = block[c]
        BY <2>2, <4>1
      <4>3. QED
        BY <1>0, <4>1, <4>2 DEF RunningMatches
    <3>2. CASE ~ \E c \in Block : block[c].used /\ block[c].id = i
      BY <1>0, <2>2, <2>4, <3>2 DEF RunningMatches
    <3>3. QED
      BY <3>1, <3>2
  <2>5. QED
    BY <2>1, <2>3, <2>4 DEF running
<1>4. QED
  BY <1>1, <1>2, <1>3 DEF l_rtos_timer_start

(* The handler counts down, or ends, the timer it was given and no other. *)
LEMMA HandlerRunning ==
    ASSUME TableInv, TableInv', NEW t \in Block, block[t].used, l_timer_handler(t)
    PROVE  /\ block[t].id \in TimerId
           /\ running[block[t].id] # NULL
           /\ running' = [running EXCEPT ![block[t].id] = Service!AfterExpiry(@)]
<1>0. RunningMatches /\ RunningMatches' /\ block \in [Block -> Timer]
  BY TableRunning, TableRunningNext DEF TableInv, TableTypeOK
<1>1. /\ block[t].id \in TimerId /\ block[t].repeat \in Int
      /\ running[block[t].id] = block[t].repeat
  BY <1>0 DEF RunningMatches, running, Timer, RepeatLeft
<1>2. t # NULL /\ block[t].repeat # NULL
  BY <1>1, NullAssumption
<1>3. CASE block[t].repeat = 0
  <2>1. StopAndFree(t)
    BY <1>2, <1>3 DEF l_timer_handler
  <2>2. running' = [running EXCEPT ![block[t].id] = NULL]
    BY <2>1, StopRunning
  <2>3. QED
    BY <1>1, <1>2, <1>3, <2>2 DEF Service!AfterExpiry
<1>4. CASE block[t].repeat < 0
  <2>1. UNCHANGED block
    BY <1>1, <1>2, <1>4 DEF l_timer_handler
  <2>2. running' = running
    BY <1>0, <2>1, SameRunning
  <2>3. [running EXCEPT ![block[t].id] = running[block[t].id]] = running
    BY DEF running
  <2>4. QED
    BY <1>1, <1>2, <1>4, <2>2, <2>3 DEF Service!AfterExpiry
<1>5. CASE block[t].repeat > 0
  <2>1. block' = [block EXCEPT ![t].repeat = @ - 1]
    BY <1>1, <1>2, <1>5 DEF l_timer_handler
  <2>2. /\ block'[t].used /\ block'[t].id = block[t].id
        /\ block'[t].repeat = block[t].repeat - 1
        /\ \A c \in Block : c # t => block'[c] = block[c]
    BY <1>0, <2>1 DEF Timer
  <2>3. RepeatsLeft(block[t].id)' = block[t].repeat - 1
    BY <1>0, <2>2 DEF RunningMatches
  <2>4. ASSUME NEW i \in TimerId, i # block[t].id
        PROVE  RepeatsLeft(i)' = RepeatsLeft(i)
    <3>1. CASE \E c \in Block : block[c].used /\ block[c].id = i
      <4>1. PICK c \in Block : block[c].used /\ block[c].id = i
        BY <3>1
      <4>2. block'[c] = block[c]
        BY <2>2, <2>4, <4>1
      <4>3. QED
        BY <1>0, <4>1, <4>2 DEF RunningMatches
    <3>2. CASE ~ \E c \in Block : block[c].used /\ block[c].id = i
      BY <1>0, <2>2, <2>4, <3>2 DEF RunningMatches
    <3>3. QED
      BY <3>1, <3>2
  <2>5. running' = [running EXCEPT ![block[t].id] = block[t].repeat - 1]
    BY <1>1, <2>2, <2>3, <2>4 DEF running
  <2>6. Service!AfterExpiry(running[block[t].id]) = block[t].repeat - 1
    BY <1>1, <1>5 DEF Service!AfterExpiry
  <2>7. QED
    BY <1>1, <1>2, <2>5, <2>6
<1>6. QED
  BY <1>1, <1>3, <1>4, <1>5

-----------------------------------------------------------------------------
(* What a step does to the expiries on their way. *)

LEMMA SameExpiries ==
    ASSUME UNCHANGED <<bus, daemon>>
    PROVE  ExpiriesOnTheWay' = ExpiriesOnTheWay
BY DEF ExpiriesOnTheWay, Sent

(* Taking a message of id off the bus takes at most id off the way, and a *)
(* driver's message takes nothing.                                        *)
LEMMA GetExpiries ==
    ASSUME TimerTypeOK, NEW m \in Msg, luat_msgbus_get(m), UNCHANGED daemon
    PROVE  /\ m = DriverMsg => ExpiriesOnTheWay' = ExpiriesOnTheWay
           /\ m # DriverMsg => /\ m.arg1 \in ExpiriesOnTheWay
                               /\ ExpiriesOnTheWay' \in
                                    {ExpiriesOnTheWay, ExpiriesOnTheWay \ {m.arg1}}
<1>1. /\ Len(bus) \in Nat /\ Len(bus) >= 1 /\ bus[1] = m
      /\ Len(bus') = Len(bus) - 1
      /\ \A k \in 1 .. Len(bus') : bus'[k] = bus[k + 1]
  BY DEF TimerTypeOK, luat_msgbus_get
<1>2. \A k \in Sent' : k + 1 \in Sent /\ bus[k + 1].arg1 = bus'[k].arg1
  BY <1>1 DEF Sent
<1>3. ASSUME NEW k \in Sent, k # 1
      PROVE  k - 1 \in Sent' /\ bus'[k - 1].arg1 = bus[k].arg1
  <2>1. k - 1 \in 1 .. Len(bus') /\ (k - 1) + 1 = k
    BY <1>1, <1>3 DEF Sent
  <2>2. bus'[k - 1] = bus[k]
    BY <1>1, <2>1
  <2>3. QED
    BY <2>1, <2>2 DEF Sent
<1> DEFINE held == IF daemon = NULL THEN {} ELSE {daemon.id}
           onBus == {bus[k].arg1 : k \in Sent}
<1>4. ExpiriesOnTheWay = onBus \cup held /\ ExpiriesOnTheWay' = onBus' \cup held
  BY DEF ExpiriesOnTheWay
<1>5. onBus' \subseteq onBus
  BY <1>2
<1>6. onBus \subseteq onBus' \cup (IF m = DriverMsg THEN {} ELSE {m.arg1})
  BY <1>1, <1>3 DEF Sent
<1>7. m # DriverMsg => m.arg1 \in onBus
  BY <1>1 DEF Sent
<1> HIDE DEF held, onBus
<1>8. QED
  BY <1>4, <1>5, <1>6, <1>7

(* A put keeps what is on the bus, and adds at most its own message. *)
LEMMA PutExpiries ==
    ASSUME TimerTypeOK, NEW m \in Msg, luat_msgbus_put(m)
    PROVE  {bus[k].arg1 : k \in Sent}' \in
             {{bus[k].arg1 : k \in Sent},
              {bus[k].arg1 : k \in Sent} \cup (IF m = DriverMsg THEN {} ELSE {m.arg1})}
<1>1. CASE bus' = bus
  BY <1>1 DEF Sent
<1>2. CASE bus' = Append(bus, m)
  <2>1. /\ Len(bus) \in Nat /\ Len(bus') = Len(bus) + 1 /\ bus'[Len(bus) + 1] = m
        /\ \A k \in 1 .. Len(bus) : bus'[k] = bus[k]
    BY <1>2 DEF TimerTypeOK
  <2>2. Sent' = Sent \cup (IF m = DriverMsg THEN {} ELSE {Len(bus) + 1})
    BY <2>1 DEF Sent
  <2>3. \A k \in Sent : bus'[k] = bus[k]
    BY <2>1 DEF Sent
  <2>4. {bus'[k].arg1 : k \in Sent'}
          = {bus[k].arg1 : k \in Sent} \cup (IF m = DriverMsg THEN {} ELSE {m.arg1})
    BY <2>1, <2>2, <2>3
  <2>5. QED
    BY <2>4
<1>3. QED
  BY <1>1, <1>2 DEF luat_msgbus_put

-----------------------------------------------------------------------------
(* Every step of the layer is a step of the service, or none. *)

LEMMA ReceiveServes ==
    ASSUME TableInv, TimerTypeOK, TableInv', Receive
    PROVE  \/ UNCHANGED <<running, ExpiriesOnTheWay>>
           \/ \E id \in TimerId : Service!Lose(id)
           \/ \E id, of \in TimerId : Service!Deliver(id, of)
<1>0. RunningMatches /\ RunningMatches'
  BY TableRunning, TableRunningNext
<1>1. PICK m \in Msg :
        /\ luat_msgbus_get(m)
        /\ IF m = DriverMsg THEN UNCHANGED <<block, timers, orphans>>
           ELSE \E t \in HandlerTimers(m) : l_timer_handler(t)
  BY DEF Receive
<1>2. UNCHANGED daemon
  BY DEF Receive
<1>3. UNCHANGED <<block, timers>> => UNCHANGED running
  BY <1>0, SameRunning
<1>4. CASE m = DriverMsg
  BY <1>1, <1>2, <1>3, <1>4, GetExpiries
<1>5. CASE m # DriverMsg
  <2>1. m.arg1 \in TimerId
    BY <1>5 DEF Msg, TimerMsg
  <2>2. Service!Take(m.arg1)
    BY <1>1, <1>2, <1>5, GetExpiries DEF Service!Take
  <2>3. PICK t \in HandlerTimers(m) : l_timer_handler(t)
    BY <1>1, <1>5
  <2>4. t \in Block \cup {NULL} /\ (t # NULL => block[t].used)
    BY HandlerFindsRunning
  <2>5. CASE t = NULL
    <3>1. UNCHANGED running
      BY <1>3, <2>3, <2>5 DEF l_timer_handler
    <3>2. Service!Lose(m.arg1)
      BY <2>2, <3>1 DEF Service!Lose, running
    <3>3. QED
      BY <2>1, <3>2
  <2>6. CASE t # NULL
    <3>1. /\ block[t].id \in TimerId
          /\ running[block[t].id] # NULL
          /\ running' = [running EXCEPT ![block[t].id] = Service!AfterExpiry(@)]
      BY <2>3, <2>4, <2>6, HandlerRunning
    <3>2. block[t].id = m.arg1 \/ m.arg1 = 0
      <4>1. CASE m.arg1 > 0
        <5>1. t = luat_timer_get(m.arg1)
          BY <2>3, <4>1 DEF HandlerTimers
        <5>2. QED
          BY <2>6, <5>1, GetTimer DEF TableInv
      <4>2. CASE ~ (m.arg1 > 0)
        <5>1. m.arg1 \in Nat
          BY <2>1, TimerIdAssumption
        <5>2. QED
          BY <4>2, <5>1
      <4>3. QED
        BY <4>1, <4>2
    <3>3. Service!Deliver(m.arg1, block[t].id)
      BY <2>2, <3>1, <3>2 DEF Service!Deliver, running
    <3>4. QED
      BY <2>1, <3>1, <3>3
  <2>7. QED
    BY <2>5, <2>6
<1>6. QED
  BY <1>4, <1>5

LEMMA NextServes ==
    ASSUME TableInv, TimerTypeOK, TableInv', [TimerNext]_timerVars
    PROVE  [Service!ServiceNext]_<<running, ExpiriesOnTheWay>>
<1>0. RunningMatches /\ RunningMatches' /\ block \in [Block -> Timer]
  BY TableRunning, TableRunningNext DEF TableInv, TableTypeOK
<1>a. UNCHANGED <<block, timers>> => UNCHANGED running
  BY <1>0, SameRunning
<1>1. ASSUME NEW id \in TimerId, NEW ms \in {0, 1}, NEW rep \in Repeat,
             TimerStart(id, ms, rep)
      PROVE  [Service!ServiceNext]_<<running, ExpiriesOnTheWay>>
  <2>1. UNCHANGED ExpiriesOnTheWay
    BY <1>1, SameExpiries DEF TimerStart
  <2>2. \/ running' = running
        \/ running[id] = NULL /\ running' = [running EXCEPT ![id] = rep]
    BY <1>1, StartRunning DEF TimerStart
  <2>3. QED
    BY <2>1, <2>2 DEF Service!ServiceNext, Service!Start, running
<1>2. ASSUME NEW id \in TimerId, TimerStop(id)
      PROVE  [Service!ServiceNext]_<<running, ExpiriesOnTheWay>>
  <2>1. UNCHANGED ExpiriesOnTheWay
    BY <1>2, SameExpiries DEF TimerStop
  <2>2. CASE luat_timer_get(id) = NULL
    BY <1>a, <1>2, <2>1, <2>2 DEF TimerStop, l_rtos_timer_stop
  <2>3. CASE luat_timer_get(id) # NULL
    <3>1. /\ luat_timer_get(id) \in Block /\ block[luat_timer_get(id)].used
          /\ block[luat_timer_get(id)].id = id
      BY <2>3, GetTimer DEF TableInv
    <3>2. running' = [running EXCEPT ![id] = NULL]
      BY <1>2, <2>3, <3>1, StopRunning DEF TimerStop, l_rtos_timer_stop
    <3>3. running[id] # NULL
      BY <1>0, <3>1 DEF RunningMatches, running
    <3>4. Service!Stop(id)
      BY <2>1, <3>2, <3>3 DEF Service!Stop, running
    <3>5. QED
      BY <3>4 DEF Service!ServiceNext
  <2>4. QED
    BY <2>2, <2>3
<1>3. CASE Receive
  BY <1>3, ReceiveServes DEF Service!ServiceNext
<1>4. ASSUME NEW id \in TimerId, LookUp(id), UNCHANGED <<bus, running>>, daemon = NULL
      PROVE  [Service!ServiceNext]_<<running, ExpiriesOnTheWay>>
  <2>1. {bus[k].arg1 : k \in Sent}' = {bus[k].arg1 : k \in Sent}
    BY <1>4 DEF Sent
  <2>2. CASE luat_timer_get(id) = NULL
    BY <1>4, <2>1, <2>2 DEF LookUp, ExpiriesOnTheWay
  <2>3. CASE luat_timer_get(id) # NULL
    <3>1. luat_timer_get(id) \in Block
      BY <2>3, GetTimer DEF TableInv
    <3>2. daemon'.id = id /\ daemon' # NULL
      BY <1>4, <2>3, <3>1, NullAssumption DEF LookUp
    <3>3. ExpiriesOnTheWay' = ExpiriesOnTheWay \cup {id}
      BY <1>4, <2>1, <3>2 DEF ExpiriesOnTheWay
    <3>4. running[id] # NULL
      BY <1>0, <2>3, GetTimer DEF RunningMatches, running, TableInv
    <3>5. Service!Expire(id)
      BY <1>4, <3>3, <3>4 DEF Service!Expire, running
    <3>6. QED
      BY <3>5 DEF Service!ServiceNext
  <2>4. QED
    BY <2>2, <2>3
<1>5. ASSUME NEW b \in Block, TimerExpires(b)
      PROVE  [Service!ServiceNext]_<<running, ExpiriesOnTheWay>>
  <2>1. block[b].id \in TimerId
    BY <1>0 DEF Timer
  <2>2. UNCHANGED running
    BY <1>0, <1>5, SameRunning DEF TimerExpires, Timer
  <2>3. QED
    BY <1>4, <1>5, <2>1, <2>2 DEF TimerExpires
<1>6. ASSUME NEW o \in orphans, OrphanExpires(o)
      PROVE  [Service!ServiceNext]_<<running, ExpiriesOnTheWay>>
  <2>1. o.id \in TimerId
    BY DEF TimerTypeOK, Orphan
  <2>2. QED
    BY <1>a, <1>4, <1>6, <2>1 DEF OrphanExpires
<1>7. CASE CallbackPosts
  <2>1. /\ daemon # NULL /\ daemon.id \in TimerId
        /\ TimerMsg(daemon.ptr, daemon.id) \in Msg \ {DriverMsg}
        /\ TimerMsg(daemon.ptr, daemon.id).arg1 = daemon.id
    BY <1>7 DEF CallbackPosts, TimerTypeOK, Call, Msg, TimerMsg, DriverMsg
  <2>2. Service!Take(daemon.id)
    BY <1>7, <2>1, PutExpiries DEF CallbackPosts, ExpiriesOnTheWay, Service!Take
  <2>3. Service!Lose(daemon.id)
    BY <1>a, <1>7, <2>2 DEF CallbackPosts, Service!Lose, running
  <2>4. QED
    BY <2>1, <2>3 DEF Service!ServiceNext
<1>8. CASE DriverPosts
  <2> DEFINE onBus == {bus[k].arg1 : k \in Sent}
  <2>1. onBus' = onBus
    <3>1. onBus' \in {onBus, onBus \cup (IF DriverMsg = DriverMsg THEN {} ELSE {DriverMsg.arg1})}
      <4>1. DriverMsg \in Msg /\ luat_msgbus_put(DriverMsg)
        BY <1>8 DEF DriverPosts, Msg
      <4>2. QED
        BY <4>1, PutExpiries
    <3> HIDE DEF onBus
    <3>2. QED
      BY <3>1
  <2>2. QED
    BY <1>a, <1>8, <2>1 DEF DriverPosts, ExpiriesOnTheWay
<1>9. CASE UNCHANGED timerVars
  BY <1>a, <1>9, SameExpiries DEF timerVars
<1>10. QED
  BY <1>1, <1>2, <1>3, <1>5, <1>6, <1>7, <1>8, <1>9 DEF TimerNext, LuaTask, Daemon

(* The layer implements the abstract timer service. *)
THEOREM Implements == TimerSpec => ImplementsService
<1>1. TimerInit => Service!ServiceInit
  <2> SUFFICES ASSUME TimerInit PROVE Service!ServiceInit
    OBVIOUS
  <2>1. \A id \in TimerId : RepeatsLeft(id) = NULL
    BY DEF TimerInit, RepeatsLeft, luat_timer_get, SlotsWith
  <2>2. ExpiriesOnTheWay = {}
    BY DEF TimerInit, ExpiriesOnTheWay, Sent
  <2>3. QED
    BY <2>1, <2>2 DEF Service!ServiceInit
<1>2. TableInv /\ TimerTypeOK /\ TableInv' /\ [TimerNext]_timerVars
        => [Service!ServiceNext]_Service!serviceVars
  BY NextServes DEF Service!serviceVars, running
<1>3. QED
  BY <1>1, <1>2, InitTable, NextTable, InitType, NextType, PTL
  DEF TimerSpec, ImplementsService, Service!ServiceSpec
=============================================================================
