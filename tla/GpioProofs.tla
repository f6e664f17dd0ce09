----------------------------- MODULE GpioProofs -----------------------------
(***************************************************************************)
(* Theorems about Gpio, for any timers, queues, edges and calls: the type    *)
(* invariant, the ownership of the debounce timer, the reports of mode 1 and *)
(* the cooldown of mode 0.                                                  *)
(***************************************************************************)
EXTENDS Gpio, TLAPS

(* Deleting and its uniqueness, of any queue of commands. *)
DeletingIn(q, t) == \E k \in 1 .. Len(q) : q[k] = [op |-> "delete", timer |-> t]
DeletesOnce(q) ==
    \A i, j \in 1 .. Len(q) : q[i].op = "delete" /\ q[i] = q[j] => i = j

(* No interrupt starts the timer. *)
Quiet == conf_tick = 0 \/ debounce_mode = 0

(* What each step of the calls knows about the timer. *)
StepsInv ==
    /\ pc \in {"stop", "delete", "free", "forget"} => timer # NULL /\ Quiet
    /\ pc \in {"free", "forget"} => (rtos[timer] # "gone" => Deleting(timer))
    /\ pc = "forget" => heap = {}
    /\ pc = "create" => timer = NULL
    /\ timer # NULL /\ pc \notin {"free", "forget", "crashed"} => Live(timer)

(* A timer that is gone has no delete left in the queue, for the timer that  *)
(* gets its place, and one that goes has one only.                          *)
DeletesInv ==
    /\ \A t \in Timer : rtos[t] = "gone" => ~Deleting(t)
    /\ DeletesOnce(commands)

-----------------------------------------------------------------------------
(* A queue is left with all but its first element. *)
LEMMA TailFacts ==
    ASSUME NEW S, NEW s \in Seq(S), s # <<>>
    PROVE  /\ Tail(s) \in Seq(S)
           /\ Len(Tail(s)) = Len(s) - 1
           /\ Len(s) > 0
           /\ Head(s) \in S /\ Head(s) = s[1]
           /\ \A k \in 1 .. Len(s) - 1 : Tail(s)[k] = s[k + 1]
  BY SMT

(* An element is added at the end. *)
LEMMA AppendFacts ==
    ASSUME NEW S, NEW s \in Seq(S), NEW e \in S
    PROVE  /\ Append(s, e) \in Seq(S)
           /\ Len(Append(s, e)) = Len(s) + 1
           /\ Append(s, e)[Len(s) + 1] = e
           /\ \A k \in 1 .. Len(s) : Append(s, e)[k] = s[k]
  BY SMT

(* A message keeps the bus in its bounds. *)
LEMMA PutTyped ==
    ASSUME bus \in Seq({"irq", "debounced"}), Len(bus) <= BusLen,
           NEW m \in {"irq", "debounced"}, luat_msgbus_put(m)
    PROVE  bus' \in Seq({"irq", "debounced"}) /\ Len(bus') <= BusLen
  BY AppendFacts, GpioAssumption, SMT DEF luat_msgbus_put

(* So does a command its queue. *)
LEMMA QueuedTyped ==
    ASSUME NEW q \in Seq(Command), Len(q) <= CmdLen,
           NEW op \in {"start", "stop", "delete"}, NEW t \in Timer
    PROVE  Queued(q, op, t) \in Seq(Command) /\ Len(Queued(q, op, t)) <= CmdLen
  <1>1. [op |-> op, timer |-> t] \in Command
    BY DEF Command
  <1>2. QED
    BY <1>1, AppendFacts, GpioAssumption, SMT DEF Queued

(* Starts and stops do not change which timers are being deleted. *)
LEMMA QueuedSame ==
    ASSUME NEW q \in Seq(Command), Len(q) <= CmdLen,
           NEW op \in {"start", "stop"}, NEW t \in Timer
    PROVE  /\ \A u \in Timer : DeletingIn(Queued(q, op, t), u) <=> DeletingIn(q, u)
           /\ DeletesOnce(q) => DeletesOnce(Queued(q, op, t))
  <1> DEFINE e == [op |-> op, timer |-> t]
             r == Queued(q, op, t)
  <1>1. e \in Command /\ e.op # "delete"
    BY DEF Command
  <1>2. CASE Len(q) >= CmdLen
    BY <1>2, GpioAssumption, SMT DEF Queued
  <1>3. CASE Len(q) < CmdLen
    <2>1. r = Append(q, e)
      BY <1>3 DEF Queued
    <2>2. /\ Len(r) = Len(q) + 1 /\ r[Len(q) + 1] = e
          /\ \A k \in 1 .. Len(q) : r[k] = q[k]
      BY <1>1, <2>1, AppendFacts
    <2>3. \A u \in Timer : r[Len(q) + 1] # [op |-> "delete", timer |-> u]
      BY <1>1, <2>2
    <2> HIDE DEF r, e
    <2>4. Len(q) \in Nat
      BY SMT
    <2>5. ASSUME NEW u \in Timer PROVE DeletingIn(r, u) <=> DeletingIn(q, u)
      BY <2>2, <2>3, <2>4, SMT DEF DeletingIn
    <2>6. DeletesOnce(q) => DeletesOnce(r)
      BY <1>1, <2>2, <2>4, SMT DEF DeletesOnce
    <2>7. QED
      BY <2>5, <2>6 DEF r
  <1>4. QED
    BY <1>2, <1>3, GpioAssumption, SMT

(* The commands of one interrupt. *)
LEMMA StopStartKeeps ==
    ASSUME commands \in Seq(Command), Len(commands) <= CmdLen,
           NEW t \in Timer, StopStartFromISR(t)
    PROVE  /\ commands' \in Seq(Command) /\ Len(commands') <= CmdLen
           /\ \A u \in Timer : DeletingIn(commands', u) <=> DeletingIn(commands, u)
           /\ DeletesOnce(commands) => DeletesOnce(commands')
  <1> DEFINE q == Queued(commands, "stop", t)
  <1>1. /\ q \in Seq(Command) /\ Len(q) <= CmdLen
        /\ \A u \in Timer : DeletingIn(q, u) <=> DeletingIn(commands, u)
        /\ DeletesOnce(commands) => DeletesOnce(q)
    BY QueuedTyped, QueuedSame
  <1> HIDE DEF q
  <1>2. CASE commands' = Queued(q, "stop", t)
    BY <1>1, <1>2, QueuedTyped, QueuedSame
  <1>3. CASE commands' = Queued(commands, "start", t)
    BY <1>3, QueuedTyped, QueuedSame
  <1>4. QED
    BY <1>2, <1>3 DEF StopStartFromISR, q

-----------------------------------------------------------------------------
(* Type correctness. *)

LEMMA TypeInit == GpioInit => GpioTypeOK
  <1> SUFFICES ASSUME GpioInit PROVE GpioTypeOK
    OBVIOUS
  <1>1. /\ <<>> \in Seq(Command) /\ Len(<<>>) <= CmdLen
        /\ <<>> \in Seq({"irq", "debounced"}) /\ Len(<<>>) <= BusLen
    BY GpioAssumption, SMT
  <1>2. /\ 0 \in 0 .. MaxEdges /\ 0 \in 0 .. MaxCalls /\ 0 \in Nat
        /\ 0 \in 0 .. TickMod - 1 /\ Cooldown \in 0 .. Cooldown
    BY GpioAssumption, SMT
  <1>3. rtos \in [Timer -> {"gone", "dormant", "active"}]
    BY DEF GpioInit
  <1>4. QED
    BY <1>1, <1>2, <1>3 DEF GpioInit, GpioTypeOK, Step

(* Every way to take an interrupt. *)
LEMMA IsrTakes == Isr => TakesInterrupt
  <1>1. IsrCounts => TakesInterrupt
    BY DEF IsrCounts
  <1>2. IsrPosts => TakesInterrupt
    BY DEF IsrPosts
  <1>3. IsrCools => TakesInterrupt
    BY DEF IsrCools
  <1>4. IsrDebounces => TakesInterrupt
    BY DEF IsrDebounces
  <1>5. QED
    BY <1>1, <1>2, <1>3, <1>4 DEF Isr

LEMMA TypeIsr == GpioTypeOK /\ Isr => GpioTypeOK'
  <1> SUFFICES ASSUME GpioTypeOK, Isr PROVE GpioTypeOK'
    OBVIOUS
  <1>1. TakesInterrupt
    BY IsrTakes
  <1>2. /\ commands' \in Seq(Command) /\ Len(commands') <= CmdLen
        /\ bus' \in Seq({"irq", "debounced"}) /\ Len(bus') <= BusLen
    <2>1. CASE IsrCounts
      BY <2>1 DEF IsrCounts, GpioTypeOK
    <2>2. CASE IsrPosts
      BY <2>2, PutTyped DEF IsrPosts, GpioTypeOK
    <2>3. CASE IsrCools
      BY <2>3, PutTyped DEF IsrCools, GpioTypeOK
    <2>4. CASE IsrDebounces
      BY <2>4, StopStartKeeps DEF IsrDebounces, GpioTypeOK
    <2>5. QED
      BY <2>1, <2>2, <2>3, <2>4 DEF Isr
  <1>3. 0 \in 0 .. Cooldown /\ \A n \in Nat : n + 1 \in Nat
    BY GpioAssumption, SMT
  <1>4. /\ irq_cnt' \in Nat /\ age' \in 0 .. Cooldown
        /\ latest_tick' \in 0 .. TickMod - 1 /\ latest_state' \in {0, 1}
    <2>1. CASE IsrCounts
      BY <1>3, <2>1 DEF IsrCounts, GpioTypeOK
    <2>2. CASE IsrPosts
      BY <2>2 DEF IsrPosts, GpioTypeOK
    <2>3. CASE IsrCools
      BY <1>3, <2>3 DEF IsrCools, GpioTypeOK
    <2>4. CASE IsrDebounces
      BY <2>4 DEF IsrDebounces, GpioTypeOK
    <2>5. QED
      BY <2>1, <2>2, <2>3, <2>4 DEF Isr
  <1>5. QED
    BY <1>1, <1>2, <1>4 DEF TakesInterrupt, GpioTypeOK, luaVars

LEMMA TypeDaemon == GpioTypeOK /\ Daemon => GpioTypeOK'
  <1> SUFFICES ASSUME GpioTypeOK, Daemon PROVE GpioTypeOK'
    OBVIOUS
  <1> USE DEF irqVars, ctxVars, debounceVars, luaVars, timeVars
  <1>1. CASE DaemonCommand
    <2>1. commands' \in Seq(Command) /\ Len(commands') <= CmdLen
      BY <1>1, TailFacts, GpioAssumption, SMT DEF DaemonCommand, GpioTypeOK
    <2>2. Head(commands) \in Command
      BY <1>1, TailFacts DEF DaemonCommand, GpioTypeOK
    <2>3. rtos' \in [Timer -> {"gone", "dormant", "active"}] /\ pc' \in Step
      BY <1>1, <2>2, SMT DEF DaemonCommand, GpioTypeOK, Command, Step, CommandLeaves
    <2>4. QED
      BY <1>1, <2>1, <2>3, SMT DEF DaemonCommand, GpioTypeOK
  <1>2. CASE \E t \in Timer : Expires(t)
    <2>1. PICK t \in Timer : Expires(t)
      BY <1>2
    <2>2. commands' \in Seq(Command) /\ Len(commands') <= CmdLen
      BY <2>1, QueuedTyped DEF Expires, GpioTypeOK
    <2>3. bus' \in Seq({"irq", "debounced"}) /\ Len(bus') <= BusLen
      BY <2>1, PutTyped DEF Expires, GpioTypeOK
    <2>4. QED
      BY <2>1, <2>2, <2>3, SMT DEF Expires, GpioTypeOK
  <1>3. CASE \E t \in Timer : ExpiresFreed(t)
    <2>1. PICK t \in Timer : ExpiresFreed(t)
      BY <1>3
    <2>2. commands' \in Seq(Command) /\ Len(commands') <= CmdLen
      BY <2>1, QueuedTyped DEF ExpiresFreed, GpioTypeOK
    <2>3. bus' \in Seq({"irq", "debounced"}) /\ Len(bus') <= BusLen /\ pc' \in Step
      BY <2>1, PutTyped DEF ExpiresFreed, GpioTypeOK, Step
    <2>4. QED
      BY <2>1, <2>2, <2>3, SMT DEF ExpiresFreed, GpioTypeOK
  <1>4. QED
    BY <1>1, <1>2, <1>3 DEF Daemon

LEMMA TypeScript == GpioTypeOK /\ StepsInv /\ Script => GpioTypeOK'
  <1> SUFFICES ASSUME GpioTypeOK, StepsInv, Script PROVE GpioTypeOK'
    OBVIOUS
  <1> USE DEF irqVars, ctxVars, debounceVars, timerVars, luaVars, timeVars
  <1>1. Call => calls' \in 0 .. MaxCalls
    BY GpioAssumption, SMT DEF Call, GpioTypeOK
  <1>2. CASE \E irq \in IrqType \cup {"none"}, count \in BOOLEAN : Setup(irq, count)
    BY <1>1, <1>2 DEF Setup, GpioTypeOK, Call
  <1>3. CASE Count
    <2>1. 0 \in Nat
      BY SMT
    <2>2. QED
      BY <1>1, <1>3, <2>1 DEF Count, GpioTypeOK, Call
  <1>4. CASE Close
    BY <1>1, <1>4 DEF Close, GpioTypeOK, Call, Step
  <1>5. CASE ResetPin
    BY <1>5 DEF ResetPin, GpioTypeOK, Step
  <1>6. CASE \E timeout \in {0, Cooldown}, md \in {0, 1} : Debounce(timeout, md)
    BY <1>1, <1>6 DEF Debounce, GpioTypeOK, Step, Call
  <1>7. CASE SetMode
    <2>1. 0 \in 0 .. TickMod - 1 /\ Cooldown \in 0 .. Cooldown
      BY GpioAssumption, SMT
    <2>2. QED
      BY <1>7, <2>1 DEF SetMode, GpioTypeOK, Step
  <1>8. CASE CreateTimer
    <2>1. CASE timer' = NULL /\ UNCHANGED <<heap, rtos>>
      BY <1>8, <2>1 DEF CreateTimer, GpioTypeOK, Step
    <2>2. CASE \E t \in FreshTimers : /\ timer' = t /\ heap' = heap \cup {t}
                                      /\ rtos' = [rtos EXCEPT ![t] = "dormant"]
      BY <1>8, <2>2 DEF CreateTimer, GpioTypeOK, Step, FreshTimers
    <2>3. QED
      BY <1>8, <2>1, <2>2 DEF CreateTimer
  <1>9. pc \in {"stop", "delete"} => timer \in Timer
    BY DEF StepsInv, GpioTypeOK
  <1>10. CASE StopTimer
    <2>1. commands' \in Seq(Command) /\ Len(commands') <= CmdLen
      BY <1>9, <1>10, QueuedTyped DEF StopTimer, GpioTypeOK
    <2>2. QED
      BY <1>10, <2>1 DEF StopTimer, GpioTypeOK, Step
  <1>11. CASE DeleteTimer
    <2>1. commands' \in Seq(Command) /\ Len(commands') <= CmdLen
      BY <1>9, <1>11, QueuedTyped DEF DeleteTimer, GpioTypeOK
    <2>2. QED
      BY <1>11, <2>1 DEF DeleteTimer, GpioTypeOK, Step
  <1>12. CASE FreeTimer
    BY <1>12 DEF FreeTimer, GpioTypeOK, Step
  <1>13. CASE ForgetTimer
    BY <1>13 DEF ForgetTimer, GpioTypeOK, Step
  <1>14. CASE Receive
    <2>1. bus' \in Seq({"irq", "debounced"}) /\ Len(bus') <= BusLen
      BY <1>14, TailFacts, GpioAssumption, SMT DEF Receive, GpioTypeOK
    <2>2. QED
      BY <1>14, <2>1 DEF Receive, GpioTypeOK
  <1>15. QED
    BY <1>2, <1>3, <1>4, <1>5, <1>6, <1>7, <1>8, <1>10, <1>11, <1>12, <1>13, <1>14
       DEF Script

LEMMA TypePin == GpioTypeOK /\ (LevelChanges \/ TickPasses) => GpioTypeOK'
  <1> SUFFICES ASSUME GpioTypeOK, LevelChanges \/ TickPasses PROVE GpioTypeOK'
    OBVIOUS
  <1> USE DEF irqVars, ctxVars, debounceVars, timerVars, luaVars, timeVars
  <1>1. CASE LevelChanges
    <2>1. level' \in {0, 1} /\ edges' \in 0 .. MaxEdges
      BY <1>1, GpioAssumption, SMT DEF LevelChanges, GpioTypeOK
    <2>2. pending' \in BOOLEAN
      BY <1>1 DEF LevelChanges
    <2>3. QED
      BY <1>1, <2>1, <2>2 DEF LevelChanges, GpioTypeOK
  <1>2. CASE TickPasses
    <2>1. ticks' \in 0 .. TickMod - 1 /\ age' \in 0 .. Cooldown
      BY <1>2, GpioAssumption, SMT DEF TickPasses, GpioTypeOK
    <2>2. QED
      BY <1>2, <2>1 DEF TickPasses, GpioTypeOK
  <1>3. QED
    BY <1>1, <1>2

LEMMA TypeNext == GpioTypeOK /\ StepsInv /\ [GpioNext]_gpioVars => GpioTypeOK'
  <1>1. GpioTypeOK /\ UNCHANGED gpioVars => GpioTypeOK'
    BY DEF gpioVars, irqVars, ctxVars, debounceVars, timerVars, luaVars, timeVars, GpioTypeOK
  <1>2. QED
    BY <1>1, TypeIsr, TypeDaemon, TypeScript, TypePin DEF GpioNext

-----------------------------------------------------------------------------
(* The timer's owner. *)

Own == TimerOwned /\ StepsInv /\ DeletesInv

(* Steps that leave the timers and what is being deleted alone. *)
LEMMA SameKeeps ==
    ASSUME GpioTypeOK, Own,
           UNCHANGED <<timer, heap, rtos, conf_tick, debounce_mode>>,
           pc' \in {pc, "crashed"},
           \A u \in Timer : DeletingIn(commands', u) <=> DeletingIn(commands, u),
           DeletesOnce(commands) => DeletesOnce(commands')
    PROVE  Own'
  <1>1. \A u \in Timer : /\ Deleting(u)' <=> Deleting(u)
                         /\ Live(u)' <=> Live(u)
    BY DEF Deleting, DeletingIn, Live
  <1>2. timer # NULL => timer \in Timer
    BY DEF GpioTypeOK
  <1>3. TimerOwned'
    BY <1>1, <1>2 DEF Own, TimerOwned
  <1>4. StepsInv'
    BY <1>1, <1>2 DEF Own, StepsInv, Quiet
  <1>5. DeletesInv'
    BY <1>1 DEF Own, DeletesInv
  <1>6. QED
    BY <1>3, <1>4, <1>5 DEF Own

LEMMA OwnIsr == GpioTypeOK /\ Own /\ Isr => Own'
  <1> SUFFICES ASSUME GpioTypeOK, Own, Isr PROVE Own'
    OBVIOUS
  <1>1. TakesInterrupt
    BY IsrTakes
  <1>2. UNCHANGED <<timer, heap, rtos, conf_tick, debounce_mode, pc>>
    BY <1>1 DEF TakesInterrupt, luaVars
  <1>3. /\ \A u \in Timer : DeletingIn(commands', u) <=> DeletingIn(commands, u)
        /\ DeletesOnce(commands) => DeletesOnce(commands')
    <2>1. CASE UNCHANGED commands
      BY <2>1
    <2>2. CASE timer \in Timer /\ StopStartFromISR(timer)
      BY <2>2, StopStartKeeps DEF GpioTypeOK
    <2>3. IsrCounts \/ IsrPosts \/ IsrCools => UNCHANGED commands
      BY DEF IsrCounts, IsrPosts, IsrCools
    <2>4. IsrDebounces =>
             UNCHANGED commands \/ (timer \in Timer /\ StopStartFromISR(timer))
      BY DEF IsrDebounces, GpioTypeOK
    <2>5. QED
      BY <2>1, <2>2, <2>3, <2>4 DEF Isr
  <1>4. QED
    BY <1>2, <1>3, SameKeeps

(* A processed command. *)
LEMMA TailDeletes ==
    ASSUME NEW q \in Seq(Command), q # <<>>, DeletesOnce(q)
    PROVE  /\ DeletesOnce(Tail(q))
           /\ \A u \in Timer :
                 DeletingIn(Tail(q), u) <=>
                    DeletingIn(q, u) /\ Head(q) # [op |-> "delete", timer |-> u]
  <1> DEFINE r == Tail(q)
  <1>1. /\ Len(r) = Len(q) - 1 /\ Len(q) > 0 /\ Len(q) \in Nat /\ Head(q) = q[1]
        /\ \A k \in 1 .. Len(q) - 1 : r[k] = q[k + 1]
    BY TailFacts, SMT
  <1> HIDE DEF r
  <1>2. DeletesOnce(r)
    BY <1>1, SMT DEF DeletesOnce
  <1>3. ASSUME NEW u \in Timer
        PROVE  DeletingIn(r, u) <=>
                  DeletingIn(q, u) /\ Head(q) # [op |-> "delete", timer |-> u]
    <2> DEFINE d == [op |-> "delete", timer |-> u]
    <2>1. d.op = "delete"
      OBVIOUS
    <2> HIDE DEF d
    <2>2. DeletesOnce(q) => \A i, j \in 1 .. Len(q) : q[i] = d /\ q[j] = d => i = j
      BY <2>1 DEF DeletesOnce
    <2>3. (\E k \in 1 .. Len(r) : r[k] = d) => \E k \in 2 .. Len(q) : q[k] = d
      BY <1>1, SMT
    <2>4. (\E k \in 2 .. Len(q) : q[k] = d) => \E k \in 1 .. Len(r) : r[k] = d
      <3> SUFFICES ASSUME NEW k \in 2 .. Len(q), q[k] = d
                   PROVE  \E j \in 1 .. Len(r) : r[j] = d
        OBVIOUS
      <3>1. k - 1 \in 1 .. Len(r) /\ r[k - 1] = q[k]
        BY <1>1, SMT
      <3>2. QED
        BY <3>1
    <2>5. (\E k \in 1 .. Len(q) : q[k] = d) /\ q[1] # d => \E k \in 2 .. Len(q) : q[k] = d
      BY <1>1, SMT
    <2>6. (\E k \in 2 .. Len(q) : q[k] = d) => (\E k \in 1 .. Len(q) : q[k] = d) /\ q[1] # d
      BY <1>1, <2>2, SMT
    <2>7. QED
      BY <1>1, <2>3, <2>4, <2>5, <2>6 DEF DeletingIn, d
  <1>4. QED
    BY <1>2, <1>3 DEF r

LEMMA OwnCommand == GpioTypeOK /\ Own /\ DaemonCommand => Own'
  <1> SUFFICES ASSUME GpioTypeOK, Own, DaemonCommand PROVE Own'
    OBVIOUS
  <1> DEFINE c == Head(commands)
  <1>1. c \in Command /\ c.timer \in Timer /\ c.op \in {"start", "stop", "delete"}
    <2>1. c \in Command
      BY TailFacts DEF DaemonCommand, GpioTypeOK
    <2>2. QED
      BY <2>1 DEF Command
  <1>2. /\ UNCHANGED <<timer, heap, conf_tick, debounce_mode>>
        /\ pc' = pc \/ (pc' = "crashed" /\ rtos' = rtos)
    BY DEF DaemonCommand, debounceVars
  <1>3. /\ DeletesOnce(commands')
        /\ \A u \in Timer : Deleting(u)' <=>
              Deleting(u) /\ c # [op |-> "delete", timer |-> u]
    <2>1. /\ DeletesOnce(Tail(commands))
          /\ \A u \in Timer : DeletingIn(Tail(commands), u) <=>
                DeletingIn(commands, u) /\ c # [op |-> "delete", timer |-> u]
      BY TailDeletes DEF DaemonCommand, GpioTypeOK, Own, DeletesInv
    <2>2. QED
      BY <2>1 DEF DaemonCommand, Deleting, DeletingIn
  <1>4. \A u \in Timer : c = [op |-> "delete", timer |-> u] => c.timer = u /\ c.op = "delete"
    OBVIOUS
  <1>5. c.op = "delete" => c = [op |-> "delete", timer |-> c.timer]
    BY <1>1 DEF Command
  <1>6. \A u \in Timer : c.op = "delete" /\ c.timer = u => Deleting(u)
    <2>1. 1 \in 1 .. Len(commands) /\ commands[1] = c
      BY TailFacts, SMT DEF DaemonCommand, GpioTypeOK
    <2>2. QED
      BY <1>5, <2>1 DEF Deleting
  <1> HIDE DEF c
  <1>7. \A u \in Timer :
           /\ rtos'[u] = "gone" <=> rtos[u] = "gone" \/ (c.op = "delete" /\ c.timer = u)
    <2>1. CASE rtos[c.timer] = "gone"
      BY <1>1, <2>1 DEF DaemonCommand, c
    <2>2. CASE rtos[c.timer] # "gone"
      <3>1. rtos' = [rtos EXCEPT ![c.timer] = CommandLeaves[c.op]]
        BY <2>2 DEF DaemonCommand, c
      <3>2. CommandLeaves[c.op] = "gone" <=> c.op = "delete"
        BY <1>1 DEF CommandLeaves
      <3>3. QED
        BY <1>1, <2>2, <3>1, <3>2 DEF GpioTypeOK
    <2>3. QED
      BY <2>1, <2>2
  <1>8. \A u \in Timer : Live(u) => Live(u)'
    BY <1>2, <1>3, <1>6, <1>7 DEF Live
  <1>9. \A u \in Timer : (rtos[u] # "gone" => Deleting(u)) =>
                              (rtos[u] # "gone" => Deleting(u))'
    BY <1>1, <1>3, <1>4, <1>7
  <1>10. timer # NULL => timer \in Timer
    BY DEF GpioTypeOK
  <1>11. TimerOwned'
    BY <1>2, <1>8, <1>9, <1>10 DEF Own, TimerOwned
  <1>12. StepsInv'
    BY <1>2, <1>8, <1>9, <1>10 DEF Own, StepsInv, Quiet
  <1>13. DeletesInv'
    BY <1>1, <1>3, <1>5, <1>7 DEF Own, DeletesInv
  <1>14. QED
    BY <1>11, <1>12, <1>13 DEF Own

LEMMA OwnDaemon == GpioTypeOK /\ Own /\ Daemon => Own'
  <1> SUFFICES ASSUME GpioTypeOK, Own, Daemon PROVE Own'
    OBVIOUS
  <1>1. CASE DaemonCommand
    BY <1>1, OwnCommand
  <1>2. ASSUME NEW t \in Timer, Expires(t) \/ ExpiresFreed(t)
        PROVE  Own'
    <2>1. /\ UNCHANGED <<timer, heap, rtos, conf_tick, debounce_mode>>
          /\ pc' \in {pc, "crashed"}
          /\ commands' \in {commands, Queued(commands, "stop", t)}
      BY <1>2 DEF Expires, ExpiresFreed, debounceVars, luaVars
    <2>2. /\ \A u \in Timer : DeletingIn(commands', u) <=> DeletingIn(commands, u)
          /\ DeletesOnce(commands) => DeletesOnce(commands')
      BY <2>1, QueuedSame DEF GpioTypeOK
    <2>3. QED
      BY <2>1, <2>2, SameKeeps
  <1>3. QED
    BY <1>1, <1>2 DEF Daemon

(* The script queues the delete of the timer it owns. *)
LEMMA DeleteQueued ==
    ASSUME NEW q \in Seq(Command), Len(q) < CmdLen, NEW t \in Timer,
           ~DeletingIn(q, t), DeletesOnce(q)
    PROVE  /\ DeletesOnce(Queued(q, "delete", t))
           /\ \A u \in Timer :
                 DeletingIn(Queued(q, "delete", t), u) <=> DeletingIn(q, u) \/ u = t
  <1> DEFINE d == [op |-> "delete", timer |-> t]
             r == Queued(q, "delete", t)
  <1>1. d \in Command
    BY DEF Command
  <1>2. /\ Len(r) = Len(q) + 1 /\ r[Len(q) + 1] = d
        /\ \A k \in 1 .. Len(q) : r[k] = q[k]
    BY <1>1, AppendFacts DEF Queued
  <1>3. \A u \in Timer : d = [op |-> "delete", timer |-> u] <=> u = t
    OBVIOUS
  <1>4. \A k \in 1 .. Len(q) : q[k] # d
    BY DEF DeletingIn
  <1>5. Len(q) \in Nat
    BY SMT
  <1> HIDE DEF d, r
  <1>6. DeletesOnce(r)
    BY <1>2, <1>4, <1>5, SMT DEF DeletesOnce
  <1>7. ASSUME NEW u \in Timer PROVE DeletingIn(r, u) <=> DeletingIn(q, u) \/ u = t
    <2>1. 1 .. Len(r) = 1 .. Len(q) \cup {Len(q) + 1}
      BY <1>2, <1>5, SMT
    <2>2. QED
      BY <1>2, <1>3, <2>1 DEF DeletingIn
  <1>8. QED
    BY <1>6, <1>7 DEF r

LEMMA OwnScript == GpioTypeOK /\ Own /\ Script => Own'
  <1> SUFFICES ASSUME GpioTypeOK, Own, Script PROVE Own'
    OBVIOUS
  <1> USE DEF irqVars, ctxVars, debounceVars, timerVars, luaVars, timeVars
  <1>1. timer # NULL => timer \in Timer
    BY DEF GpioTypeOK
  <1>2. ASSUME UNCHANGED <<timer, heap, rtos, conf_tick, debounce_mode, commands, pc>>
        PROVE  Own'
    BY <1>2, SameKeeps
  <1>3. CASE \E irq \in IrqType \cup {"none"}, count \in BOOLEAN : Setup(irq, count)
    BY <1>2, <1>3 DEF Setup
  <1>4. CASE Count
    BY <1>2, <1>4 DEF Count
  <1>5. CASE Receive
    BY <1>2, <1>5 DEF Receive
  <1>6. ASSUME UNCHANGED <<heap, rtos, commands>>
        PROVE  /\ DeletesInv'
               /\ \A u : (Live(u)' <=> Live(u)) /\ (Deleting(u)' <=> Deleting(u))
    BY <1>6 DEF Own, DeletesInv, DeletesOnce, Live, Deleting
  <1>7. CASE Close
    BY <1>1, <1>6, <1>7 DEF Close, Call, Own, TimerOwned, StepsInv
  <1>8. CASE ResetPin
    BY <1>1, <1>6, <1>8 DEF ResetPin, Own, TimerOwned, StepsInv, Quiet
  <1>9. CASE \E timeout \in {0, Cooldown}, md \in {0, 1} : Debounce(timeout, md)
    BY <1>1, <1>6, <1>9 DEF Debounce, Call, Own, TimerOwned, StepsInv
  <1>10. CASE SetMode
    BY <1>1, <1>6, <1>10, GpioAssumption DEF SetMode, Own, TimerOwned, StepsInv, Quiet, GpioTypeOK
  <1>11. CASE CreateTimer
    <2>1. timer = NULL /\ heap = {}
      BY <1>11, GpioAssumption DEF CreateTimer, Own, StepsInv, TimerOwned, GpioTypeOK
    <2>2. CASE timer' = NULL /\ UNCHANGED <<heap, rtos>>
      BY <1>6, <1>11, <2>1, <2>2 DEF CreateTimer, Own, TimerOwned, StepsInv
    <2>3. ASSUME NEW t \in FreshTimers, timer' = t, heap' = heap \cup {t},
                 rtos' = [rtos EXCEPT ![t] = "dormant"], UNCHANGED commands, pc' = "idle"
          PROVE  Own'
      <3>1. t \in Timer /\ rtos[t] = "gone" /\ ~Deleting(t)
        BY DEF FreshTimers, Own, DeletesInv
      <3>2. rtos' \in [Timer -> {"gone", "dormant", "active"}] /\ rtos'[t] = "dormant"
        BY <2>3, <3>1 DEF GpioTypeOK
      <3>3. \A u \in Timer : (Deleting(u)' <=> Deleting(u)) /\ (u # t => rtos'[u] = rtos[u])
        BY <2>3 DEF Deleting, GpioTypeOK
      <3>4. Live(t)'
        BY <2>3, <3>1, <3>2, <3>3 DEF Live
      <3>5. TimerOwned'
        BY <2>1, <2>3, <3>3, <3>4, GpioAssumption DEF Own, TimerOwned
      <3>6. StepsInv' /\ DeletesInv'
        BY <2>3, <3>1, <3>2, <3>3, <3>4 DEF Own, StepsInv, DeletesInv, DeletesOnce
      <3>7. QED
        BY <3>5, <3>6 DEF Own
    <2>4. QED
      BY <1>11, <2>2, <2>3 DEF CreateTimer
  <1>12. pc \in {"stop", "delete"} => timer \in Timer /\ Live(timer) /\ Quiet
    BY <1>1 DEF Own, StepsInv
  <1>13. CASE StopTimer
    <2>1. commands' \in {commands, Queued(commands, "stop", timer)}
      BY <1>13 DEF StopTimer
    <2>2. /\ \A u \in Timer : DeletingIn(commands', u) <=> DeletingIn(commands, u)
          /\ DeletesOnce(commands')
      BY <1>12, <1>13, <2>1, QueuedSame DEF StopTimer, GpioTypeOK, Own, DeletesInv
    <2>3. \A u \in Timer : (Deleting(u)' <=> Deleting(u)) /\ (Live(u)' <=> Live(u))
      BY <1>13, <2>2 DEF StopTimer, Live, Deleting, DeletingIn
    <2>4. QED
      BY <1>12, <1>13, <2>2, <2>3 DEF StopTimer, Own, TimerOwned, StepsInv, DeletesInv, Quiet
  <1>14. CASE DeleteTimer
    <2>1. /\ DeletesOnce(commands')
          /\ \A u \in Timer : Deleting(u)' <=> Deleting(u) \/ u = timer
      <3>1. ~DeletingIn(commands, timer)
        BY <1>12, <1>14 DEF DeleteTimer, Live, Deleting, DeletingIn
      <3>2. QED
        BY <1>12, <1>14, <3>1, DeleteQueued
           DEF DeleteTimer, Own, DeletesInv, GpioTypeOK, Deleting, DeletingIn
    <2>2. rtos[timer] # "gone"
      BY <1>12, <1>14 DEF DeleteTimer, Live
    <2>3. TimerOwned'
      BY <1>12, <1>14, <2>1 DEF DeleteTimer, Own, TimerOwned, Quiet, GpioTypeOK
    <2>4. StepsInv'
      BY <1>12, <1>14, <2>1, GpioAssumption DEF DeleteTimer, StepsInv, Quiet
    <2>5. DeletesInv'
      BY <1>14, <2>1, <2>2 DEF DeleteTimer, Own, DeletesInv
    <2>6. QED
      BY <2>3, <2>4, <2>5 DEF Own
  <1>15. pc \in {"free", "forget"} =>
            timer \in Timer /\ Quiet /\ (rtos[timer] # "gone" => Deleting(timer))
    BY <1>1 DEF Own, StepsInv
  <1>16. CASE FreeTimer
    <2>1. DeletesInv' /\ \A u : Deleting(u)' <=> Deleting(u)
      BY <1>16 DEF FreeTimer, Own, DeletesInv, DeletesOnce, Deleting
    <2>2. QED
      BY <1>15, <1>16, <2>1, GpioAssumption DEF FreeTimer, Own, TimerOwned, StepsInv, Quiet, GpioTypeOK
  <1>17. CASE ForgetTimer
    <2>1. DeletesInv' /\ \A u : Deleting(u)' <=> Deleting(u)
      BY <1>17 DEF ForgetTimer, Own, DeletesInv, DeletesOnce, Deleting
    <2>2. QED
      BY <1>15, <1>17, <2>1, GpioAssumption DEF ForgetTimer, Own, TimerOwned, StepsInv, GpioTypeOK
  <1>18. QED
    BY <1>3, <1>4, <1>5, <1>7, <1>8, <1>9, <1>10, <1>11, <1>13, <1>14, <1>16, <1>17 DEF Script

-----------------------------------------------------------------------------
(* Theorems. *)

LEMMA OwnInit == GpioInit => Own
  <1> SUFFICES ASSUME GpioInit PROVE Own
    OBVIOUS
  <1>1. 1 .. Len(commands) = {}
    BY SMT DEF GpioInit
  <1>2. TimerOwned
    BY DEF GpioInit, TimerOwned
  <1>3. StepsInv
    BY DEF GpioInit, StepsInv
  <1>4. DeletesInv
    BY <1>1 DEF DeletesInv, Deleting, DeletesOnce
  <1>5. QED
    BY <1>2, <1>3, <1>4 DEF Own

LEMMA OwnNext == GpioTypeOK /\ Own /\ [GpioNext]_gpioVars => Own'
  <1> SUFFICES ASSUME GpioTypeOK, Own, [GpioNext]_gpioVars PROVE Own'
    OBVIOUS
  <1>1. ASSUME UNCHANGED <<timer, heap, rtos, conf_tick, debounce_mode, commands, pc>>
        PROVE  Own'
    BY <1>1, SameKeeps
  <1>2. CASE LevelChanges
    BY <1>1, <1>2 DEF LevelChanges, debounceVars, timerVars, luaVars
  <1>3. CASE TickPasses
    BY <1>1, <1>3 DEF TickPasses, debounceVars, timerVars, luaVars
  <1>4. CASE UNCHANGED gpioVars
    BY <1>1, <1>4 DEF gpioVars, debounceVars, timerVars, luaVars
  <1>5. QED
    BY <1>2, <1>3, <1>4, OwnIsr, OwnDaemon, OwnScript DEF GpioNext

LEMMA Inductive == GpioSpec => [](GpioTypeOK /\ Own)
  <1>1. GpioInit => GpioTypeOK /\ Own
    BY TypeInit, OwnInit
  <1>2. GpioTypeOK /\ Own /\ [GpioNext]_gpioVars => (GpioTypeOK /\ Own)'
    BY TypeNext, OwnNext DEF Own
  <1>3. QED
    BY <1>1, <1>2, PTL DEF GpioSpec

(* The type invariant of Gpio: what gpios, the timers and the queues hold.  *)
THEOREM TypeCorrect == GpioSpec => []GpioTypeOK
  BY Inductive, PTL

(* However gpio.debounce, gpio.close, the interrupt handler and the daemon   *)
(* interleave, the handler starts live timers only and none is lost.        *)
THEOREM Owned == GpioSpec => []TimerOwned
  <1>1. Own => TimerOwned
    BY DEF Own
  <1>2. QED
    BY <1>1, Inductive, PTL

(* While the counter has not wrapped it has moved as far as time has.        *)
AgeInv == age < Cooldown /\ ticks >= latest_tick => ticks - latest_tick <= age

LEMMA AgeStep == GpioTypeOK /\ AgeInv /\ [GpioNext]_gpioVars => AgeInv'
  <1> SUFFICES ASSUME GpioTypeOK, AgeInv, [GpioNext]_gpioVars PROVE AgeInv'
    OBVIOUS
  <1>1. ASSUME UNCHANGED <<ticks, latest_tick, age>> PROVE AgeInv'
    BY <1>1 DEF AgeInv
  <1>2. CASE TickPasses
    <2>1. /\ ticks' = (ticks + 1) % TickMod /\ latest_tick' = latest_tick
          /\ age' = IF age < Cooldown THEN age + 1 ELSE age
      BY <1>2 DEF TickPasses, debounceVars
    <2>2. /\ ticks \in 0 .. TickMod - 1 /\ latest_tick \in 0 .. TickMod - 1
          /\ age \in 0 .. Cooldown /\ TickMod \in Nat /\ Cooldown \in Nat
      BY GpioAssumption DEF GpioTypeOK
    <2>3. ticks' = ticks + 1 \/ ticks' = 0
      BY <2>1, <2>2, SMT
    <2>4. QED
      BY <2>1, <2>2, <2>3, SMT DEF AgeInv
  <1>3. CASE Isr
    <2>1. ticks' = ticks
      BY <1>3, IsrTakes DEF TakesInterrupt
    <2>2. UNCHANGED <<latest_tick, age>> \/ (latest_tick' = ticks /\ age' = 0)
      <3>1. IsrCounts \/ IsrPosts \/ IsrDebounces => UNCHANGED <<latest_tick, age>>
        BY DEF IsrCounts, IsrPosts, IsrDebounces
      <3>2. IsrCools => UNCHANGED <<latest_tick, age>> \/ (latest_tick' = ticks /\ age' = 0)
        BY DEF IsrCools
      <3>3. QED
        BY <1>3, <3>1, <3>2 DEF Isr
    <2>3. QED
      BY <1>1, <2>1, <2>2, SMT DEF AgeInv, GpioTypeOK
  <1>4. CASE SetMode
    BY <1>4, GpioAssumption, SMT DEF SetMode, AgeInv
  <1>5. CASE LevelChanges \/ Daemon \/ UNCHANGED gpioVars
    BY <1>1, <1>5 DEF LevelChanges, Daemon, DaemonCommand, Expires, ExpiresFreed,
                      gpioVars, debounceVars, timeVars
  <1>6. CASE Script /\ ~SetMode
    BY <1>1, <1>6 DEF Script, Setup, Count, Close, ResetPin, Debounce, CreateTimer,
                      StopTimer, DeleteTimer, FreeTimer, ForgetTimer, Receive,
                      debounceVars, timeVars
  <1>7. QED
    BY <1>2, <1>3, <1>4, <1>5, <1>6 DEF GpioNext

(* In mode 0 only a tick counter that wrapped lets an edge pass too early,   *)
(* for any cooldown and any width of the counter.                           *)
THEOREM Cooled == GpioSpec => CooldownHolds
  <1>1. GpioInit => AgeInv
    BY GpioAssumption, SMT DEF GpioInit, AgeInv
  <1>2. GpioTypeOK /\ AgeInv /\ [GpioNext]_gpioVars =>
           [IsrCools /\ age < Cooldown /\ ticks >= latest_tick => bus' = bus]_gpioVars
    <2> SUFFICES ASSUME GpioTypeOK, AgeInv, IsrCools, age < Cooldown, ticks >= latest_tick
                 PROVE  bus' = bus
      OBVIOUS
    <2>1. conf_tick = Cooldown
      <3>1. conf_tick > 0 /\ conf_tick \in {0, Cooldown}
        BY DEF IsrCools, GpioTypeOK
      <3>2. QED
        BY <3>1, SMT
    <2>2. ~(Diff >= conf_tick)
      BY <2>1, GpioAssumption, SMT DEF Diff, AgeInv, GpioTypeOK
    <2>3. QED
      BY <2>2 DEF IsrCools
  <1>3. QED
    BY <1>1, <1>2, AgeStep, TypeCorrect, PTL DEF GpioSpec, CooldownHolds

-----------------------------------------------------------------------------
(* Reports of mode 1. *)

(* Runs, for any queue of commands and any state of the timer. *)
RunsIn(q, active, t) ==
    \/ active /\ \A k \in 1 .. Len(q) : q[k].timer # t
    \/ \E k \in 1 .. Len(q) :
          /\ q[k].timer = t /\ q[k].op = "start"
          /\ \A j \in k + 1 .. Len(q) : q[j].timer # t

LEMMA RunsIs == \A t : Runs(t) <=> RunsIn(commands, Active(t), t)
  BY DEF Runs, RunsIn, LastIs

(* A command for another timer changes nothing. *)
LEMMA RunsOther ==
    ASSUME NEW q \in Seq(Command), NEW e \in Command, NEW t, e.timer # t,
           NEW active, RunsIn(q, active, t)
    PROVE  RunsIn(Append(q, e), active, t)
  <1> DEFINE r == Append(q, e)
  <1>1. /\ Len(r) = Len(q) + 1 /\ r[Len(q) + 1] = e /\ Len(q) \in Nat
        /\ \A k \in 1 .. Len(q) : r[k] = q[k]
    BY AppendFacts, SMT
  <1> HIDE DEF r
  <1>2. CASE active /\ \A k \in 1 .. Len(q) : q[k].timer # t
    <2>1. \A k \in 1 .. Len(r) : r[k].timer # t
      <3> SUFFICES ASSUME NEW k \in 1 .. Len(r) PROVE r[k].timer # t
        OBVIOUS
      <3>1. k \in 1 .. Len(q) \/ k = Len(q) + 1
        BY <1>1, SMT
      <3>2. QED
        BY <1>1, <1>2, <3>1
    <2>2. QED
      BY <1>2, <2>1 DEF RunsIn, r
  <1>3. ASSUME NEW k \in 1 .. Len(q), q[k].timer = t, q[k].op = "start",
               \A j \in k + 1 .. Len(q) : q[j].timer # t
        PROVE  RunsIn(r, active, t)
    <2>1. k \in 1 .. Len(r) /\ r[k] = q[k]
      BY <1>1, SMT
    <2>2. \A j \in k + 1 .. Len(r) : r[j].timer # t
      <3> SUFFICES ASSUME NEW j \in k + 1 .. Len(r) PROVE r[j].timer # t
        OBVIOUS
      <3>1. (j \in k + 1 .. Len(q) /\ j \in 1 .. Len(q)) \/ j = Len(q) + 1
        BY <1>1, SMT
      <3>2. QED
        BY <1>1, <1>3, <3>1
    <2>3. QED
      BY <1>3, <2>1, <2>2 DEF RunsIn
  <1>4. QED
    BY <1>2, <1>3 DEF RunsIn, r

(* A start queued last makes the timer run. *)
LEMMA RunsStarted ==
    ASSUME NEW q \in Seq(Command), NEW t \in Timer, NEW active
    PROVE  RunsIn(Append(q, [op |-> "start", timer |-> t]), active, t)
  <1> DEFINE e == [op |-> "start", timer |-> t]
             r == Append(q, e)
  <1>1. e \in Command /\ e.timer = t /\ e.op = "start"
    BY DEF Command
  <1>2. Len(r) = Len(q) + 1 /\ r[Len(q) + 1] = e /\ Len(q) \in Nat
    BY <1>1, AppendFacts, SMT
  <1> HIDE DEF r, e
  <1>3. Len(q) + 1 \in 1 .. Len(r) /\ (Len(q) + 1) + 1 .. Len(r) = {}
    BY <1>2, SMT
  <1>4. RunsIn(r, active, t)
    BY <1>1, <1>2, <1>3 DEF RunsIn
  <1>5. QED
    BY <1>4 DEF r, e

(* The daemon processes the oldest command; the timer runs as before when a  *)
(* command of its own leaves it as it says.                                 *)
LEMMA RunsTail ==
    ASSUME NEW q \in Seq(Command), q # <<>>, NEW t,
           NEW active, NEW now, RunsIn(q, active, t),
           Head(q).timer # t => (active => now),
           Head(q).timer = t /\ Head(q).op = "start" => now
    PROVE  RunsIn(Tail(q), now, t)
  <1> DEFINE r == Tail(q)
  <1>1. /\ Len(r) = Len(q) - 1 /\ Len(q) \in Nat /\ Len(q) > 0 /\ Head(q) = q[1]
        /\ \A k \in 1 .. Len(q) - 1 : r[k] = q[k + 1]
    BY TailFacts, SMT
  <1> HIDE DEF r
  <1>2. ASSUME NEW j \in 1 .. Len(r) PROVE j + 1 \in 1 .. Len(q) /\ r[j] = q[j + 1]
    BY <1>1, SMT
  <1>3. CASE active /\ \A k \in 1 .. Len(q) : q[k].timer # t
    <2>1. Head(q).timer # t
      <3>1. 1 \in 1 .. Len(q)
        BY <1>1, SMT
      <3>2. QED
        BY <1>1, <1>3, <3>1
    <2>2. \A j \in 1 .. Len(r) : r[j].timer # t
      BY <1>2, <1>3
    <2>3. QED
      BY <1>3, <2>1, <2>2 DEF RunsIn, r
  <1>4. ASSUME NEW k \in 1 .. Len(q), q[k].timer = t, q[k].op = "start",
               \A j \in k + 1 .. Len(q) : q[j].timer # t
        PROVE  RunsIn(r, now, t)
    <2>1. CASE k = 1
      <3>1. now
        BY <1>1, <1>4, <2>1
      <3>2. \A j \in 1 .. Len(r) : r[j].timer # t
        <4> SUFFICES ASSUME NEW j \in 1 .. Len(r) PROVE r[j].timer # t
          OBVIOUS
        <4>1. j + 1 \in k + 1 .. Len(q)
          BY <1>1, <2>1, SMT
        <4>2. QED
          BY <1>2, <1>4, <4>1
      <3>3. QED
        BY <3>1, <3>2 DEF RunsIn
    <2>2. CASE k # 1
      <3>1. k - 1 \in 1 .. Len(r) /\ r[k - 1] = q[k]
        BY <1>1, <2>2, SMT
      <3>2. \A j \in (k - 1) + 1 .. Len(r) : r[j].timer # t
        <4> SUFFICES ASSUME NEW j \in (k - 1) + 1 .. Len(r) PROVE r[j].timer # t
          OBVIOUS
        <4>1. j + 1 \in k + 1 .. Len(q) /\ j \in 1 .. Len(r)
          BY <1>1, SMT
        <4>2. QED
          BY <1>2, <1>4, <4>1
      <3>3. QED
        BY <1>4, <3>1, <3>2 DEF RunsIn
    <2>3. QED
      BY <2>1, <2>2
  <1>5. QED
    BY <1>3, <1>4 DEF RunsIn, r

(* A message on its way stays unless it is received. *)
LEMMA ComingStays ==
    ASSUME GpioTypeOK, Coming, bus' = bus \/ \E m \in {"irq", "debounced"} : luat_msgbus_put(m)
    PROVE  Coming'
  <1>1. CASE bus' = bus
    BY <1>1 DEF Coming
  <1>2. ASSUME NEW m \in {"irq", "debounced"}, bus' = Append(bus, m)
        PROVE  Coming'
    <2>1. /\ Len(bus') = Len(bus) + 1 /\ Len(bus) \in Nat
          /\ \A k \in 1 .. Len(bus) : bus'[k] = bus[k]
      BY <1>2, AppendFacts, SMT DEF GpioTypeOK
    <2>2. PICK k \in 1 .. Len(bus) : bus[k] = "debounced"
      BY DEF Coming
    <2>3. k \in 1 .. Len(bus')
      BY <2>1, SMT
    <2>4. QED
      BY <2>1, <2>2, <2>3 DEF Coming
  <1>3. QED
    BY <1>1, <1>2 DEF luat_msgbus_put

(* A report put on a bus that is not full. *)
LEMMA ReportPut ==
    ASSUME GpioTypeOK, Len(bus) # BusLen, luat_msgbus_put("debounced")
    PROVE  Coming'
  <1>1. bus' = Append(bus, "debounced")
    BY GpioAssumption, SMT DEF GpioTypeOK, luat_msgbus_put
  <1>2. Len(bus') = Len(bus) + 1 /\ bus'[Len(bus) + 1] = "debounced" /\ Len(bus) \in Nat
    BY <1>1, AppendFacts, SMT DEF GpioTypeOK
  <1>3. Len(bus) + 1 \in 1 .. Len(bus')
    BY <1>2, SMT
  <1>4. QED
    BY <1>2, <1>3 DEF Coming

(* The pin's timer keeps running. *)
LEMMA StillRuns ==
    ASSUME timer # NULL, timer' = timer,
           RunsIn(commands', rtos'[timer] = "active", timer)
    PROVE  ReportComes'
  BY DEF ReportComes, Runs, LastIs, RunsIn, Active

(* The daemon makes the timer run, or leaves it running. *)
LEMMA RunsDaemon ==
    ASSUME GpioTypeOK, Own, Daemon, Len(bus) # BusLen,
           timer # NULL, pc \notin {"free", "forget", "crashed"}, Runs(timer)
    PROVE  ReportComes'
  <1> USE DEF timerVars
  <1>1. timer \in Timer /\ Live(timer)
    BY DEF GpioTypeOK, Own, StepsInv
  <1>2. RunsIn(commands, Active(timer), timer)
    BY RunsIs
  <1>3. CASE DaemonCommand
    <2> DEFINE c == Head(commands)
    <2>1. c \in Command /\ commands \in Seq(Command) /\ commands # <<>>
      BY <1>3, TailFacts DEF DaemonCommand, GpioTypeOK
    <2> HIDE DEF c
    <2>2. /\ timer' = timer /\ commands' = Tail(commands)
          /\ \/ rtos[c.timer] = "gone" /\ rtos' = rtos
             \/ rtos' = [rtos EXCEPT ![c.timer] = CommandLeaves[c.op]]
      BY <1>3 DEF DaemonCommand, c
    <2>3. c.timer # timer => rtos'[timer] = rtos[timer]
      BY <1>1, <2>1, <2>2 DEF GpioTypeOK, Command
    <2>4. rtos[timer] # "gone"
      BY <1>1 DEF Live
    <2>5. c.timer = timer /\ c.op = "start" => rtos'[timer] = "active"
      BY <1>1, <2>2, <2>4 DEF GpioTypeOK, CommandLeaves
    <2>6. RunsIn(commands', rtos'[timer] = "active", timer)
      BY <1>2, <2>1, <2>2, <2>3, <2>5, RunsTail DEF c, Active
    <2>7. QED
      BY <2>2, <2>6, StillRuns
  <1>4. ASSUME NEW u \in Timer, u # timer, UNCHANGED <<timer, rtos>>,
               commands' \in {commands, Queued(commands, "stop", u)}
        PROVE  ReportComes'
    <2>1. [op |-> "stop", timer |-> u] \in Command /\ commands \in Seq(Command)
      BY DEF Command, GpioTypeOK
    <2>2. RunsIn(commands', Active(timer), timer)
      BY <1>2, <1>4, <2>1, RunsOther DEF Queued
    <2>3. QED
      BY <1>4, <2>2, StillRuns DEF Active
  <1>5. ASSUME NEW u \in Timer, Expires(u) PROVE ReportComes'
    <2>1. CASE u = timer
      BY <1>5, <2>1, ReportPut DEF Expires, ReportComes
    <2>2. CASE u # timer
      BY <1>4, <1>5, <2>2 DEF Expires
    <2>3. QED
      BY <2>1, <2>2
  <1>6. ASSUME NEW u \in Timer, ExpiresFreed(u) PROVE ReportComes'
    <2>1. u # timer
      BY <1>1, <1>6 DEF ExpiresFreed, Live
    <2>2. QED
      BY <1>4, <1>6, <2>1 DEF ExpiresFreed
  <1>7. QED
    BY <1>3, <1>5, <1>6 DEF Daemon

(* So does an interrupt that finds the timer at rest. *)
LEMMA RunsIsr ==
    ASSUME GpioTypeOK, Isr, timer # NULL,
           \/ IsrDebounces /\ ~Active(timer) /\ (Runs(timer) \/ Len(commands) < CmdLen)
           \/ ~IsrDebounces /\ Runs(timer)
    PROVE  ReportComes'
  <1>1. timer \in Timer /\ commands \in Seq(Command)
    BY DEF GpioTypeOK
  <1>2. UNCHANGED <<timer, rtos>>
    BY IsrTakes DEF TakesInterrupt
  <1>3. CASE Runs(timer) /\ UNCHANGED commands
    BY <1>2, <1>3, RunsIs, StillRuns DEF Active
  <1>4. CASE commands' = Append(commands, [op |-> "start", timer |-> timer])
    BY <1>1, <1>2, <1>4, RunsStarted, StillRuns
  <1>5. CASE ~IsrDebounces /\ Runs(timer)
    BY <1>3, <1>5 DEF Isr, IsrCounts, IsrPosts, IsrCools
  <1>6. CASE IsrDebounces /\ ~Active(timer) /\ (Runs(timer) \/ Len(commands) < CmdLen)
    <2>1. commands' = Queued(commands, "start", timer)
      BY <1>6 DEF IsrDebounces, StopStartFromISR
    <2>2. QED
      BY <1>3, <1>4, <1>6, <2>1 DEF Queued
  <1>7. QED
    BY <1>5, <1>6

(* And the calls of the script, but those that end the debouncing. *)
LEMMA RunsScript ==
    ASSUME GpioTypeOK, Own, Script, timer # NULL, Runs(timer),
           pc \notin {"stop", "delete", "free", "forget", "crashed"}
    PROVE  ReportComes'
  <1>1. ASSUME UNCHANGED <<timer, rtos, commands>> PROVE ReportComes'
    BY <1>1, RunsIs, StillRuns DEF Active
  <1>2. ~CreateTimer /\ ~StopTimer /\ ~DeleteTimer /\ ~FreeTimer /\ ~ForgetTimer
    BY DEF CreateTimer, StopTimer, DeleteTimer, FreeTimer, ForgetTimer, Own, StepsInv
  <1>3. QED
    BY <1>1, <1>2 DEF Script, Setup, Count, Close, ResetPin, Debounce, SetMode, Receive,
                      timerVars

(* Whatever happens, a report on its way stays on its way. *)
LEMMA StaysComing ==
    ASSUME GpioTypeOK, Coming, GpioNext, ~Receive
    PROVE  ReportComes'
  <1>1. ASSUME UNCHANGED bus PROVE ReportComes'
    BY <1>1, ComingStays DEF ReportComes
  <1>2. ASSUME NEW m \in {"irq", "debounced"}, luat_msgbus_put(m) PROVE ReportComes'
    BY <1>2, ComingStays DEF ReportComes
  <1>3. CASE LevelChanges \/ TickPasses
    BY <1>1, <1>3 DEF LevelChanges, TickPasses
  <1>4. CASE Isr
    BY <1>1, <1>2, <1>4 DEF Isr, IsrCounts, IsrPosts, IsrCools, IsrDebounces
  <1>5. CASE Daemon
    BY <1>1, <1>2, <1>5 DEF Daemon, DaemonCommand, Expires, ExpiresFreed
  <1>6. CASE Script
    BY <1>1, <1>6 DEF Script, Setup, Count, Close, ResetPin, Debounce, SetMode, CreateTimer,
                      StopTimer, DeleteTimer, FreeTimer, ForgetTimer
  <1>7. QED
    BY <1>3, <1>4, <1>5, <1>6 DEF GpioNext

(* An edge that finds the timer of mode 1 at rest is reported, for any queue *)
(* of the daemon, any bus and any calls: nothing the daemon or the interrupt *)
(* handler does takes the report back but a second edge while it runs.      *)
THEOREM Kept == GpioSpec => DebounceKept
  <1>1. ASSUME GpioTypeOK, Own, GpioNext
        PROVE  /\ IsrDebounces /\ timer # NULL /\ ~Active(timer) /\ Len(commands) < CmdLen
                  => ReportComes'
               /\ ReportComes /\ ~ReportComes' =>
                     \/ Receive
                     \/ IsrDebounces /\ Active(timer)
                     \/ pc \in {"stop", "delete", "free", "forget", "crashed"}
                     \/ Len(bus) = BusLen
    <2>1. ASSUME IsrDebounces, timer # NULL, ~Active(timer), Len(commands) < CmdLen
          PROVE  ReportComes'
      BY <1>1, <2>1, RunsIsr DEF Isr
    <2>2. ASSUME ReportComes, ~Receive, ~(IsrDebounces /\ Active(timer)),
                 pc \notin {"stop", "delete", "free", "forget", "crashed"},
                 Len(bus) # BusLen
          PROVE  ReportComes'
      <3>1. CASE Coming
        BY <1>1, <2>2, <3>1, StaysComing
      <3>2. CASE timer # NULL /\ Runs(timer)
        <4>1. CASE LevelChanges \/ TickPasses
          BY <3>2, <4>1, RunsIs, StillRuns DEF LevelChanges, TickPasses, timerVars, Active
        <4>2. CASE Isr
          BY <1>1, <2>2, <3>2, <4>2, RunsIsr
        <4>3. CASE Daemon
          BY <1>1, <2>2, <3>2, <4>3, RunsDaemon
        <4>4. CASE Script
          BY <1>1, <2>2, <3>2, <4>4, RunsScript
        <4>5. QED
          BY <1>1, <4>1, <4>2, <4>3, <4>4 DEF GpioNext
      <3>3. QED
        BY <2>2, <3>1, <3>2 DEF ReportComes
    <2>3. QED
      BY <2>1, <2>2
  <1>2. GpioTypeOK /\ Own /\ [GpioNext]_gpioVars =>
           [/\ IsrDebounces /\ timer # NULL /\ ~Active(timer) /\ Len(commands) < CmdLen
               => ReportComes'
            /\ ReportComes /\ ~ReportComes' =>
                  \/ Receive
                  \/ IsrDebounces /\ Active(timer)
                  \/ pc \in {"stop", "delete", "free", "forget", "crashed"}
                  \/ Len(bus) = BusLen]_gpioVars
    BY <1>1
  <1>3. QED
    BY <1>2, Inductive, PTL DEF GpioSpec, DebounceKept
=============================================================================
