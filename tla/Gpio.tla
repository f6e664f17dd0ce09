-------------------------------- MODULE Gpio --------------------------------
(***************************************************************************)
(* Interrupts of one GPIO pin, with both ways of debouncing them:           *)
(* luat_lib_gpio.c over luat_gpio_idf5.c, and the software timers of        *)
(* luat_rtos_freertos_timer.c that mode 1 uses.                             *)
(*                                                                          *)
(* Four parties share the pin's entry of gpios: the interrupt handler,      *)
(* which there being one core is never interrupted by the others, the       *)
(* FreeRTOS timer daemon, the Lua task, and the level of the pin.  A call    *)
(* of the script takes several steps where another party can tell.           *)
(* gpio.caplevel, gpio.pulse and output levels are left out.                *)
(***************************************************************************)
EXTENDS Integers, Sequences

CONSTANTS
    Timer,      \* the timers there can be
    NULL,
    IrqType,    \* the edges a script asks for
    Cooldown,   \* the time gpio.debounce is given, in ticks
    TickMod,    \* ticks wrap around at 2^32
    CmdLen,     \* commands the queue of the timer daemon holds
    BusLen,     \* messages the bus holds
    MaxEdges,   \* bound on the changes of the level
    MaxCalls    \* bound on the calls of the script

ASSUME GpioAssumption ==
    /\ NULL \notin Timer
    /\ IrqType \subseteq {"rising", "falling", "both"}
    /\ Cooldown \in Nat \ {0} /\ TickMod \in Nat /\ Cooldown < TickMod
    /\ CmdLen \in Nat /\ BusLen \in Nat
    /\ MaxEdges \in Nat /\ MaxCalls \in Nat

VARIABLES
    level,          \* of the pin
    intr,           \* the edges the hardware interrupts for
    pending,        \* does an interrupt wait to be taken?
    irq_cb,         \* gpio_isr_cb[pin].irq_cb: is it luat_gpio_irq_count?
    irq_cnt, irq_type, latest_tick, conf_tick, debounce_mode, latest_state,
    lua_ref,        \* does the pin have a function?
    timer,          \* gpios[pin].timer
    heap,           \* the timers whose luat_rtos_user_timer_t is allocated
    rtos,           \* each timer in FreeRTOS: "gone", "dormant" or "active"
    commands,       \* of the timer daemon, oldest first
    bus,            \* messages of the pin: "irq", or "debounced"
    pc,             \* what the Lua task does next
    mode,           \* the mode gpio.debounce has still to set
    ticks,          \* luat_mcu_ticks
    age,            \* ticks since mode 0 let an edge pass, up to Cooldown
    edges, calls    \* so far

irqVars == <<level, intr, pending>>
ctxVars == <<irq_cb, irq_cnt, irq_type, lua_ref>>
debounceVars == <<latest_tick, conf_tick, debounce_mode, latest_state>>
timerVars == <<timer, heap, rtos, commands>>
luaVars == <<pc, mode, calls>>
timeVars == <<ticks, age>>
gpioVars == <<irqVars, ctxVars, debounceVars, timerVars, bus, luaVars, timeVars, edges>>

Command == [op : {"start", "stop", "delete"}, timer : Timer]
Step == {"idle", "reset", "mode", "create", "stop", "delete", "free", "forget", "crashed"}

GpioTypeOK ==
    /\ level \in {0, 1} /\ pending \in BOOLEAN
    /\ intr \in IrqType \cup {"none"} /\ irq_type \in IrqType \cup {"none"}
    /\ irq_cb \in BOOLEAN /\ lua_ref \in BOOLEAN
    /\ edges \in 0 .. MaxEdges /\ calls \in 0 .. MaxCalls
    /\ irq_cnt \in Nat
    /\ ticks \in 0 .. TickMod - 1 /\ latest_tick \in 0 .. TickMod - 1
    /\ age \in 0 .. Cooldown
    /\ conf_tick \in {0, Cooldown}
    /\ debounce_mode \in {0, 1} /\ mode \in {0, 1} /\ latest_state \in {0, 1}
    /\ timer \in Timer \cup {NULL}
    /\ heap \subseteq Timer
    /\ rtos \in [Timer -> {"gone", "dormant", "active"}]
    /\ commands \in Seq(Command) /\ Len(commands) <= CmdLen
    /\ bus \in Seq({"irq", "debounced"}) /\ Len(bus) <= BusLen
    /\ pc \in Step

(* Mutant: the bus has no end. *)
PutAlways(m) == bus' = Append(bus, m)

luat_msgbus_put(m) == bus' = IF Len(bus) < BusLen THEN Append(bus, m) ELSE bus

-----------------------------------------------------------------------------
(* Software timers.  A command is refused when the queue is full, and        *)
(* nothing happens any more once the use of a freed block has stopped the    *)
(* chip.                                                                    *)

Up == pc # "crashed"

Queued(q, op, t) ==
    IF Len(q) < CmdLen THEN Append(q, [op |-> op, timer |-> t]) ELSE q

Active(t) == rtos[t] = "active"

(* Mutant: the handler starts the timer and then stops it. *)
StartStopFromISR(t) ==
    commands' = IF Active(t) THEN Queued(Queued(commands, "stop", t), "stop", t)
                ELSE Queued(Queued(commands, "start", t), "stop", t)

(* luat_rtos_timer_stop and luat_rtos_timer_start one after the other, from  *)
(* an interrupt.  The stop of an active timer is only queued, so start finds *)
(* it active too, queues another stop and returns 0 without starting it.     *)
StopStartFromISR(t) ==
    commands' = IF Active(t)
                THEN Queued(Queued(commands, "stop", t), "stop", t)
                ELSE Queued(commands, "start", t)

CommandLeaves == [start |-> "active", stop |-> "dormant", delete |-> "gone"]

(* The daemon processes a command, that of a timer which is gone too: a stop *)
(* which s_timer_callback queued behind the delete.                         *)
DaemonCommand ==
    /\ Up /\ commands # <<>>
    /\ commands' = Tail(commands)
    /\ LET c == Head(commands) IN
          IF rtos[c.timer] = "gone" THEN pc' \in {pc, "crashed"} /\ UNCHANGED rtos
          ELSE /\ rtos' = [rtos EXCEPT ![c.timer] = CommandLeaves[c.op]]
               /\ UNCHANGED pc
    /\ UNCHANGED <<irqVars, ctxVars, debounceVars, timer, heap, bus, mode, calls, timeVars, edges>>

(* A timer expires: s_timer_callback queues its stop and calls              *)
(* l_gpio_debounce_mode1_cb.  The FreeRTOS timer repeats until the stop is   *)
(* processed.                                                               *)
Expires(t) ==
    /\ Up /\ Active(t) /\ t \in heap
    /\ commands' = Queued(commands, "stop", t)
    /\ luat_msgbus_put("debounced")
    /\ UNCHANGED <<irqVars, ctxVars, debounceVars, timer, heap, rtos, luaVars, timeVars, edges>>

(* The same between luat_heap_free and the delete command: is_repeat and     *)
(* call_back are read from freed memory.                                     *)
ExpiresFreed(t) ==
    /\ Up /\ Active(t) /\ t \notin heap
    /\ commands' \in {commands, Queued(commands, "stop", t)}
    /\ \/ luat_msgbus_put("debounced") /\ UNCHANGED pc
       \/ UNCHANGED <<bus, pc>>
       \/ pc' = "crashed" /\ UNCHANGED bus
    /\ UNCHANGED <<irqVars, ctxVars, debounceVars, timer, heap, rtos, mode, calls,
                   timeVars, edges>>

-----------------------------------------------------------------------------
(* The pin and its interrupt. *)

LevelChanges ==
    /\ Up /\ edges < MaxEdges
    /\ edges' = edges + 1
    /\ level' = 1 - level
    /\ pending' = \/ pending
                  \/ intr = "both"
                  \/ intr = (IF level = 0 THEN "rising" ELSE "falling")
    /\ UNCHANGED <<intr, ctxVars, debounceVars, timerVars, bus, luaVars, timeVars>>

TickPasses ==
    /\ Up
    /\ ticks' = (ticks + 1) % TickMod
    /\ age' = IF age < Cooldown THEN age + 1 ELSE age
    /\ UNCHANGED <<irqVars, ctxVars, debounceVars, timerVars, bus, luaVars, edges>>

(* gpio_isr_handler takes the interrupt; the level may have changed since. *)
TakesInterrupt ==
    /\ Up /\ pending /\ pending' = FALSE
    /\ UNCHANGED <<level, intr, irq_type, irq_cb, lua_ref, conf_tick, debounce_mode,
                   timer, heap, rtos, luaVars, ticks, edges>>

(* luat_gpio_irq_count. *)
IsrCounts ==
    /\ irq_cb
    /\ TakesInterrupt
    /\ irq_cnt' = irq_cnt + 1
    /\ UNCHANGED <<latest_tick, latest_state, commands, bus, age>>

(* luat_gpio_irq_default without debouncing ... *)
IsrPosts ==
    /\ ~irq_cb /\ conf_tick = 0
    /\ TakesInterrupt
    /\ luat_msgbus_put("irq")
    /\ UNCHANGED <<irq_cnt, latest_tick, latest_state, commands, age>>

Diff == IF ticks > latest_tick THEN ticks - latest_tick ELSE latest_tick - ticks

(* Mutant: latest_tick is not set. *)
IsrCoolsNever ==
    /\ ~irq_cb /\ conf_tick > 0 /\ debounce_mode = 0
    /\ TakesInterrupt
    /\ luat_msgbus_put("irq")
    /\ age' = 0
    /\ UNCHANGED <<irq_cnt, latest_tick, latest_state, commands>>

(* ... in mode 0, where an edge that passes starts the cooldown ... *)
IsrCools ==
    /\ ~irq_cb /\ conf_tick > 0 /\ debounce_mode = 0
    /\ TakesInterrupt
    /\ IF Diff >= conf_tick
       THEN latest_tick' = ticks /\ luat_msgbus_put("irq") /\ age' = 0
       ELSE UNCHANGED <<latest_tick, bus, age>>
    /\ UNCHANGED <<irq_cnt, latest_state, commands>>

(* ... and in mode 1. *)
IsrDebounces ==
    /\ ~irq_cb /\ conf_tick > 0 /\ debounce_mode = 1
    /\ TakesInterrupt
    /\ IF timer = NULL THEN UNCHANGED <<latest_state, commands>>
       ELSE latest_state' = level /\ StopStartFromISR(timer)
    /\ UNCHANGED <<irq_cnt, latest_tick, bus, age>>

-----------------------------------------------------------------------------
(* The Lua task: calls of the script, and messages. *)

Call ==
    /\ pc = "idle" /\ calls < MaxCalls
    /\ calls' = calls + 1

(* gpio.setup.  Interrupts are off from gpio_reset_pin until the handler is  *)
(* added; irq_cb keeps what it was unless there is a new one.                *)
Setup(irq, count) ==
    /\ Call
    /\ irq_type' = irq /\ intr' = irq
    /\ pending' = FALSE
    /\ lua_ref' = IF irq = "none" THEN lua_ref ELSE ~count
    /\ irq_cb' = (irq_cb \/ count)
    /\ UNCHANGED <<level, irq_cnt, debounceVars, timerVars, bus, pc, mode, timeVars, edges>>

(* gpio.count, whose read and reset no interrupt divides. *)
Count ==
    /\ Call
    /\ irq_cnt' = 0
    /\ UNCHANGED <<irqVars, irq_cb, irq_type, lua_ref, debounceVars, timerVars, bus, pc,
                   mode, timeVars, edges>>

(* gpio.close. *)
Close ==
    /\ Call
    /\ irq_cb' = FALSE
    /\ pc' = "reset"
    /\ UNCHANGED <<irqVars, irq_cnt, irq_type, lua_ref, debounceVars, timerVars, bus,
                   mode, timeVars, edges>>

ResetPin ==
    /\ pc = "reset"
    /\ intr' = "none" /\ pending' = FALSE
    /\ lua_ref' = FALSE
    /\ IF timer # NULL THEN conf_tick' = 0 /\ pc' = "stop"
       ELSE pc' = "idle" /\ UNCHANGED conf_tick
    /\ UNCHANGED <<level, irq_cb, irq_cnt, irq_type, latest_tick, debounce_mode,
                   latest_state, timerVars, bus, mode, calls, timeVars, edges>>

(* gpio.debounce(pin, timeout, md). *)
Debounce(timeout, md) ==
    /\ Call
    /\ conf_tick' = timeout
    /\ mode' = md
    /\ pc' = "mode"
    /\ UNCHANGED <<irqVars, ctxVars, latest_tick, debounce_mode, latest_state, timerVars,
                   bus, timeVars, edges>>

(* Mutant: the timer is deleted before the mode is set. *)
SetModeLate ==
    /\ pc = "mode"
    /\ latest_tick' = 0 /\ age' = Cooldown
    /\ debounce_mode' = IF timer = NULL THEN mode ELSE debounce_mode
    /\ pc' = IF (mode = 0 \/ conf_tick = 0) /\ timer # NULL THEN "stop"
             ELSE IF mode = 1 /\ conf_tick > 0 /\ timer = NULL THEN "create" ELSE "idle"
    /\ UNCHANGED <<irqVars, ctxVars, conf_tick, latest_state, timerVars, bus, mode,
                   calls, ticks, edges>>

SetMode ==
    /\ pc = "mode"
    /\ latest_tick' = 0 /\ age' = Cooldown
    /\ debounce_mode' = mode
    /\ pc' = IF (mode = 0 \/ conf_tick = 0) /\ timer # NULL THEN "stop"
             ELSE IF mode = 1 /\ conf_tick > 0 /\ timer = NULL THEN "create" ELSE "idle"
    /\ UNCHANGED <<irqVars, ctxVars, conf_tick, latest_state, timerVars, bus, mode,
                   calls, ticks, edges>>

FreshTimers == {t \in Timer \ heap : rtos[t] = "gone"}

(* luat_rtos_timer_create, which can fail. *)
CreateTimer ==
    /\ pc = "create"
    /\ pc' = "idle"
    /\ \/ \E t \in FreshTimers :
             /\ timer' = t
             /\ heap' = heap \cup {t}
             /\ rtos' = [rtos EXCEPT ![t] = "dormant"]
       \/ timer' = NULL /\ UNCHANGED <<heap, rtos>>
    /\ UNCHANGED <<irqVars, ctxVars, debounceVars, commands, bus, mode, calls, timeVars, edges>>

(* luat_rtos_timer_stop and luat_rtos_timer_delete, which wait for room in   *)
(* the queue.                                                               *)
StopTimer ==
    /\ pc = "stop"
    /\ IF Active(timer)
       THEN Len(commands) < CmdLen /\ commands' = Queued(commands, "stop", timer)
       ELSE UNCHANGED commands
    /\ pc' = "delete"
    /\ UNCHANGED <<irqVars, ctxVars, debounceVars, timer, heap, rtos, bus, mode, calls,
                   timeVars, edges>>

DeleteTimer ==
    /\ pc = "delete"
    /\ Len(commands) < CmdLen
    /\ commands' = Queued(commands, "delete", timer)
    /\ pc' = "free"
    /\ UNCHANGED <<irqVars, ctxVars, debounceVars, timer, heap, rtos, bus, mode, calls,
                   timeVars, edges>>

FreeTimer ==
    /\ pc = "free"
    /\ heap' = heap \ {timer}
    /\ pc' = "forget"
    /\ UNCHANGED <<irqVars, ctxVars, debounceVars, timer, rtos, commands, bus, mode, calls,
                   timeVars, edges>>

ForgetTimer ==
    /\ pc = "forget"
    /\ timer' = NULL
    /\ pc' = "idle"
    /\ UNCHANGED <<irqVars, ctxVars, debounceVars, heap, rtos, commands, bus, mode, calls,
                   timeVars, edges>>

(* rtos.receive hands a message to l_gpio_handler or to                     *)
(* l_gpio_debounce_timer_handler, which may call the pin's function.         *)
Receive ==
    /\ pc = "idle" /\ bus # <<>>
    /\ bus' = Tail(bus)
    /\ UNCHANGED <<irqVars, ctxVars, debounceVars, timerVars, luaVars, timeVars, edges>>

-----------------------------------------------------------------------------
GpioInit ==
    /\ level = 0 /\ pending = FALSE
    /\ intr = "none" /\ irq_type = "none"
    /\ irq_cb = FALSE /\ irq_cnt = 0 /\ lua_ref = FALSE
    /\ latest_tick = 0 /\ conf_tick = 0 /\ debounce_mode = 0 /\ latest_state = 0
    /\ timer = NULL /\ heap = {}
    /\ rtos = [t \in Timer |-> "gone"]
    /\ commands = <<>> /\ bus = <<>>
    /\ pc = "idle" /\ mode = 0
    /\ ticks = 0 /\ age = Cooldown
    /\ edges = 0 /\ calls = 0

Isr == IsrCounts \/ IsrPosts \/ IsrCools \/ IsrDebounces

Daemon == DaemonCommand \/ \E t \in Timer : Expires(t) \/ ExpiresFreed(t)

Script ==
    \/ \E irq \in IrqType, count \in BOOLEAN : Setup(irq, count)
    \/ Setup("none", FALSE)
    \/ Count
    \/ Close \/ ResetPin
    \/ \E timeout \in {0, Cooldown}, md \in {0, 1} : Debounce(timeout, md)
    \/ SetMode \/ CreateTimer
    \/ StopTimer \/ DeleteTimer \/ FreeTimer \/ ForgetTimer
    \/ Receive

GpioNext ==
    \/ LevelChanges
    \/ TickPasses
    \/ Isr
    \/ Daemon
    \/ Script

GpioSpec == GpioInit /\ [][GpioNext]_gpioVars
-----------------------------------------------------------------------------
(* Properties. *)

(* The interrupt handler, which may come between any two steps of            *)
(* gpio.debounce and gpio.close, never starts a timer that is freed or being *)
(* deleted, and no timer is lost: one that is not the pin's is about to go.  *)
Deleting(t) == \E k \in 1 .. Len(commands) : commands[k] = [op |-> "delete", timer |-> t]
Live(t) == t \in heap /\ rtos[t] # "gone" /\ ~Deleting(t)

TimerOwned ==
    /\ conf_tick > 0 /\ debounce_mode = 1 /\ timer # NULL => Live(timer)
    /\ heap \subseteq {timer}
    /\ \A t \in Timer \ {timer} : rtos[t] # "gone" => Deleting(t)

(* The timer of mode 1 will expire, or has and its message is on the way:    *)
(* what its last command says, or else what it does.                        *)
LastIs(t, k) ==
    /\ commands[k].timer = t
    /\ \A j \in k + 1 .. Len(commands) : commands[j].timer # t
Runs(t) ==
    \/ Active(t) /\ \A k \in 1 .. Len(commands) : commands[k].timer # t
    \/ \E k \in 1 .. Len(commands) : LastIs(t, k) /\ commands[k].op = "start"
Coming == \E k \in 1 .. Len(bus) : bus[k] = "debounced"
ReportComes == (timer # NULL /\ Runs(timer)) \/ Coming

(* In mode 1 an edge that finds the timer at rest brings a report, whatever  *)
(* the script and the daemon do meanwhile.  The report is lost only to a    *)
(* full bus, to a script that ends the debouncing and, which it should not, *)
(* to a second edge while the timer runs.                                   *)
DebounceKept ==
    [][/\ IsrDebounces /\ timer # NULL /\ ~Active(timer) /\ Len(commands) < CmdLen
          => ReportComes'
       /\ ReportComes /\ ~ReportComes' =>
             \/ Receive
             \/ IsrDebounces /\ Active(timer)
             \/ pc \in {"stop", "delete", "free", "forget", "crashed"}
             \/ Len(bus) = BusLen]_gpioVars

(* In mode 0 no second edge passes within the cooldown, unless the tick     *)
(* counter has wrapped since the first.                                     *)
CooldownHolds ==
    [][IsrCools /\ age < Cooldown /\ ticks >= latest_tick => bus' = bus]_gpioVars
=============================================================================
