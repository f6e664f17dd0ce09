----------------------------- MODULE LuatTimer -----------------------------
(***************************************************************************)
(* The timer and message-bus layer under the Lua virtual machine:          *)
(*                                                                         *)
(*   - luat_lib_rtos.c: rtos.timer_start, rtos.timer_stop, rtos.receive    *)
(*     and the handler of timer messages, all called by the Lua task;      *)
(*   - luat_timer_freertos.c: the table timers[] of running timers and the *)
(*     callback the FreeRTOS timer daemon runs when one expires;           *)
(*   - luat_msgbus_freertos.c: the bounded queue between the daemon (and   *)
(*     the drivers) and the Lua task.                                      *)
(*                                                                         *)
(* Two threads touch this state without a lock, the Lua task and the timer *)
(* daemon.  The daemon's callback looks a timer up and later posts its     *)
(* address, so between the two the Lua task may stop and free that timer.  *)
(*                                                                         *)
(* A FreeRTOS timer is the flags reload and armed of the luat_timer_t that *)
(* owns it.  xTimerStop and xTimerDelete are requests that can be refused  *)
(* when the daemon's command queue is full; the code ignores that, and the *)
(* FreeRTOS timer then outlives its luat_timer_t in orphans.               *)
(***************************************************************************)
EXTENDS Integers, Sequences, FiniteSets

CONSTANTS
    TimerId,       \* ids given to rtos.timer_start
    Repeat,        \* repeat counts given to rtos.timer_start: -1 is forever
    Block,         \* heap blocks luat_heap_malloc can hand out for a timer
    SlotCount,     \* FREERTOS_TIMER_COUNT
    BusLen,        \* depth of the queue made by luat_msgbus_init
    LossyCommands, \* may xTimerStop and xTimerDelete be refused?
    NULL

ASSUME TimerIdAssumption == TimerId \subseteq Nat /\ 0 \in TimerId
ASSUME RepeatAssumption == Repeat \subseteq Int /\ \A r \in Repeat : r >= -1
ASSUME SlotAssumption == SlotCount \in Nat \ {0}
ASSUME BusAssumption == BusLen \in Nat \ {0}
ASSUME NullAssumption == NULL \notin Block \cup [ptr : Block, id : TimerId] \cup Int
ASSUME LossyAssumption == LossyCommands \in BOOLEAN

VARIABLES
    block,    \* the heap blocks, with what was last written in each
    timers,   \* timers[]
    orphans,  \* FreeRTOS timers that were neither stopped nor deleted
    daemon,   \* the callback the timer daemon is in the middle of, or NULL
    bus       \* the queue of rtos_msg_t

timerVars == <<block, timers, orphans, daemon, bus>>

Slot == 1 .. SlotCount

(* repeat only ever counts down from the value it was started with. *)
RepeatLeft == {r \in Int : r >= -1}

Timer == [used : BOOLEAN, id : TimerId, repeat : RepeatLeft,
          reload : BOOLEAN, armed : BOOLEAN]

TimerMsg(t, id) == [handler |-> "l_timer_handler", ptr |-> t, arg1 |-> id]
DriverMsg == [handler |-> "driver", ptr |-> NULL, arg1 |-> 0]

Msg == {TimerMsg(t, id) : t \in Block, id \in TimerId} \cup {DriverMsg}
Call == [ptr : Block, id : TimerId]
Orphan == [id : TimerId, reload : BOOLEAN]

TimerTypeOK ==
    /\ block \in [Block -> Timer]
    /\ timers \in [Slot -> Block \cup {NULL}]
    /\ orphans \subseteq Orphan
    /\ daemon \in Call \cup {NULL}
    /\ bus \in Seq(Msg)
    /\ Len(bus) <= BusLen

-----------------------------------------------------------------------------
(* The table of running timers. *)

FreeBlocks == {b \in Block : ~block[b].used}
FreeSlots == {i \in Slot : timers[i] = NULL}

First(S) == CHOOSE i \in S : \A j \in S : i <= j

nextTimerSlot == First(FreeSlots)

(* Mutant: the search starts one slot late. *)
SlotsWithSkipping(id) ==
    {i \in Slot \ {1} : timers[i] # NULL /\ block[timers[i]].id = id}

SlotsWith(id) == {i \in Slot : timers[i] # NULL /\ block[timers[i]].id = id}

luat_timer_get(id) ==
    IF SlotsWith(id) = {} THEN NULL ELSE timers[First(SlotsWith(id))]

-----------------------------------------------------------------------------
(* The message bus: a put that finds the queue full loses the message. *)

(* Mutant: the queue has no bound. *)
PutUnbounded(m) == bus' = Append(bus, m)

luat_msgbus_put(m) ==
    bus' = IF Len(bus) < BusLen THEN Append(bus, m) ELSE bus

luat_msgbus_get(m) ==
    /\ bus # <<>>
    /\ m = Head(bus)
    /\ bus' = Tail(bus)

-----------------------------------------------------------------------------
(* What the Lua task does.  Each operator constrains block', timers' and  *)
(* orphans'.  ret is the value rtos.timer_start returns.                  *)

(* Mutant: only endless timers are created to reload. *)
StartReloadsEndlessOnly(b, id, rep) ==
    /\ FreeSlots # {}
    /\ timers' = [timers EXCEPT ![nextTimerSlot] = b]
    /\ block' = [block EXCEPT ![b] =
                   [used |-> TRUE, id |-> id, repeat |-> rep,
                    reload |-> rep < 0, armed |-> TRUE]]

luat_timer_start(b, id, rep) ==
    /\ FreeSlots # {}
    /\ timers' = [timers EXCEPT ![nextTimerSlot] = b]
    /\ block' = [block EXCEPT ![b] =
                   [used |-> TRUE, id |-> id, repeat |-> rep,
                    reload |-> rep # 0, armed |-> TRUE]]

(* Mutant: the slot is not given back when xTimerStart fails. *)
StartFailsKeepsSlot(b, id) ==
    /\ FreeSlots # {}
    /\ timers' = [timers EXCEPT ![nextTimerSlot] = b]
    /\ block' = [block EXCEPT ![b].id = id]

(* No slot is left, or xTimerCreate or xTimerStart fails: the block was   *)
(* filled in and is free again.                                           *)
luat_timer_start_fails(b, id) ==
    /\ block' = [block EXCEPT ![b].id = id]
    /\ UNCHANGED timers

l_rtos_timer_start(id, ms, rep, ret) ==
    /\ \/ /\ ms < 1 \/ FreeBlocks = {}
          /\ ret = 0
          /\ UNCHANGED <<block, timers>>
       \/ /\ ms >= 1
          /\ \E b \in FreeBlocks :
                \/ ret = 1 /\ luat_timer_start(b, id, rep)
                \/ ret = 0 /\ luat_timer_start_fails(b, id)
    /\ UNCHANGED orphans

(* luat_timer_stop followed by luat_heap_free.  Of a freed block only the  *)
(* id is ever read again, so the other fields are set to a fixed value.    *)
StopAndFree(b) ==
    /\ timers' = [i \in Slot |-> IF timers[i] = b THEN NULL ELSE timers[i]]
    /\ block' = [block EXCEPT ![b] =
                   [used |-> FALSE, id |-> @.id, repeat |-> 0,
                    reload |-> FALSE, armed |-> FALSE]]
    /\ \/ UNCHANGED orphans
       \/ /\ LossyCommands /\ block[b].armed
          /\ orphans' = orphans \cup
                {[id |-> block[b].id, reload |-> block[b].reload]}

l_rtos_timer_stop(id) ==
    IF luat_timer_get(id) = NULL
    THEN UNCHANGED <<block, timers, orphans>>
    ELSE StopAndFree(luat_timer_get(id))

(* Mutant: the pointer in the message is trusted. *)
HandlerTrustsPtr(m) == {IF block[m.ptr].used THEN m.ptr ELSE NULL}

(* The timer a message stands for.  Id 0 is looked up through the pointer *)
(* in the message, which may be stale: a freed block may still show the id *)
(* it held, or what the allocator wrote over it, which is no timer's id.   *)
HandlerTimers(m) ==
    IF m.arg1 > 0 THEN {luat_timer_get(m.arg1)}
    ELSE {luat_timer_get(block[m.ptr].id)}
           \cup (IF block[m.ptr].used THEN {} ELSE {NULL})

(* l_timer_handler, for the timer t it found. *)
l_timer_handler(t) ==
    \/ /\ t = NULL
       /\ UNCHANGED <<block, timers, orphans>>
    \/ /\ t # NULL /\ block[t].repeat = 0
       /\ StopAndFree(t)
    \/ /\ t # NULL /\ block[t].repeat > 0
       /\ block' = [block EXCEPT ![t].repeat = @ - 1]
       /\ UNCHANGED <<timers, orphans>>
    \/ /\ t # NULL /\ block[t].repeat < 0
       /\ UNCHANGED <<block, timers, orphans>>

-----------------------------------------------------------------------------
(* What the timer daemon does: a timer expires and luat_timer_callback     *)
(* looks it up; in a second step it posts the message.                     *)

LookUp(id) ==
    daemon' = IF luat_timer_get(id) = NULL THEN NULL
              ELSE [ptr |-> luat_timer_get(id), id |-> id]

TimerExpires(b) ==
    /\ daemon = NULL
    /\ block[b].used /\ block[b].armed
    /\ LookUp(block[b].id)
    /\ block' = [block EXCEPT ![b].armed = block[b].reload]
    /\ UNCHANGED <<timers, orphans, bus>>

OrphanExpires(o) ==
    /\ daemon = NULL
    /\ LookUp(o.id)
    /\ orphans' = IF o.reload THEN orphans ELSE orphans \ {o}
    /\ UNCHANGED <<block, timers, bus>>

CallbackPosts ==
    /\ daemon # NULL
    /\ luat_msgbus_put(TimerMsg(daemon.ptr, daemon.id))
    /\ daemon' = NULL
    /\ UNCHANGED <<block, timers, orphans>>

(* A driver's interrupt posts a message of its own. *)
DriverPosts ==
    /\ luat_msgbus_put(DriverMsg)
    /\ UNCHANGED <<block, timers, orphans, daemon>>

Daemon == (\E b \in Block : TimerExpires(b)) \/ CallbackPosts

-----------------------------------------------------------------------------
(* The layer on its own, under a Lua task that starts an id only when no   *)
(* running timer has it.                                                   *)

TimerStart(id, ms, rep) ==
    /\ luat_timer_get(id) = NULL
    /\ \E ret \in {0, 1} : l_rtos_timer_start(id, ms, rep, ret)
    /\ UNCHANGED <<daemon, bus>>

TimerStop(id) ==
    /\ l_rtos_timer_stop(id)
    /\ UNCHANGED <<daemon, bus>>

(* l_rtos_receive *)
Receive ==
    /\ \E m \in Msg :
          /\ luat_msgbus_get(m)
          /\ IF m = DriverMsg THEN UNCHANGED <<block, timers, orphans>>
             ELSE \E t \in HandlerTimers(m) : l_timer_handler(t)
    /\ UNCHANGED daemon

LuaTask ==
    \/ \E id \in TimerId, ms \in {0, 1}, rep \in Repeat : TimerStart(id, ms, rep)
    \/ \E id \in TimerId : TimerStop(id)
    \/ Receive

TimerInit ==
    /\ block = [b \in Block |-> [used |-> FALSE, id |-> 0, repeat |-> 0,
                                 reload |-> FALSE, armed |-> FALSE]]
    /\ timers = [i \in Slot |-> NULL]
    /\ orphans = {}
    /\ daemon = NULL
    /\ bus = <<>>

TimerNext ==
    \/ LuaTask
    \/ Daemon
    \/ \E o \in orphans : OrphanExpires(o)
    \/ DriverPosts

TimerSpec == TimerInit /\ [][TimerNext]_timerVars
-----------------------------------------------------------------------------
(* Properties. *)

(* The table and the heap agree: a slot never holds a freed timer, no timer *)
(* has two slots, and no timer is allocated without a slot, so none leaks   *)
(* whichever of the start, stop and expiry paths it goes through.           *)
SlotsOwnBlocks ==
    /\ \A i \in Slot : timers[i] # NULL => block[timers[i]].used
    /\ \A i, j \in Slot : timers[i] = timers[j] /\ timers[i] # NULL => i = j
    /\ \A b \in Block : block[b].used => \E i \in Slot : timers[i] = b

(* The Lua task is owed a message for b: the daemon holds it or the bus has it. *)
Owed(b) ==
    \/ daemon = [ptr |-> b, id |-> block[b].id]
    \/ \E k \in 1 .. Len(bus) : bus[k] = TimerMsg(b, block[b].id)

(* A one-shot timer that has expired still has its message on the way.  The *)
(* FreeRTOS timer will not fire again, so otherwise its owner never hears.  *)
ExpiryOwed ==
    \A b \in Block : block[b].used /\ ~block[b].armed => Owed(b)

(* Only a put on a full bus loses an expiry: no race of the callback with a *)
(* stop, a restart of the same id or the reuse of a freed timer does.       *)
OnlyFullBusLosesExpiry ==
    [][ExpiryOwed /\ Len(bus) < BusLen => ExpiryOwed']_timerVars

(* The handler's countdown in place and the daemon's reload flag, fixed at  *)
(* creation, never part: a timer that does not reload has no repeats left,  *)
(* and one that reloads stays armed until it is stopped.                    *)
RepeatMatchesReload ==
    \A b \in Block : block[b].used =>
        IF block[b].reload THEN block[b].armed ELSE block[b].repeat = 0

-----------------------------------------------------------------------------
(* The layer implements TimerService: a timer runs while the table has it, *)
(* and an expiry is on its way in the daemon's hands or on the bus.        *)

RepeatsLeft(id) ==
    IF luat_timer_get(id) = NULL THEN NULL ELSE block[luat_timer_get(id)].repeat

Sent == {k \in 1 .. Len(bus) : bus[k] # DriverMsg}

ExpiriesOnTheWay ==
    {bus[k].arg1 : k \in Sent} \cup (IF daemon = NULL THEN {} ELSE {daemon.id})

Service == INSTANCE TimerService
             WITH running <- [id \in TimerId |-> RepeatsLeft(id)],
                  pending <- ExpiriesOnTheWay

(* Whatever slots, blocks, stale pointers and refused commands do, the Lua *)
(* task sees timers that run or do not, and expiries that touch only the   *)
(* timer of their id: a message of a stopped timer never counts down, or   *)
(* frees, the timer of another id that now has its slot or its block.      *)
ImplementsService == Service!ServiceSpec
=============================================================================
